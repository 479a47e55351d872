------------------------- MODULE SyncConnectionProofs -------------------------
(***************************************************************************)
(* What holds of the connection row for any tabs, page size and log.  The  *)
(* invariant adds to the two properties what the run and the tasks carry:  *)
(* a copy of the row is as good as the row, and a cursor about to be saved *)
(* was applied before.                                                     *)
(***************************************************************************)
EXTENDS SyncConnection, TLAPS

Within(rows) == \A c \in rows : c.cursor <= applied[c.device]

(* Rows of the run and of the tasks are written back later. *)
CopiesApplied == Within(run.copy) /\ \A t \in Tab : Within(task[t].seen)

(* What a page brought is in the server's log, and applied when the cursor  *)
(* is about to move past it.                                                *)
PageApplied ==
  /\ run.next <= stored
  /\ run.step = "save" => \A c \in run.copy : run.next <= applied[c.device]

Inv == TypeOK /\ CursorApplied /\ CopiesApplied /\ PageApplied
-------------------------------------------------------------------------------
(* Init satisfies the invariant: there is no row and no copy of one. *)
LEMMA InitInv == Init => Inv
  BY ConnectionAssumption DEF Init, Inv, TypeOK, CursorApplied, CopiesApplied, PageApplied,
     Within, AtMostOne, NoTask, NoRun, Task, Tasks, Run, Steps, Connection, Devices

(* A run that goes on with the row, or ends without one, keeps what the     *)
(* invariant says of runs.                                                  *)
LEMMA WithRowFits ==
  ASSUME Inv, NEW step \in Steps
  PROVE  /\ WithRow(step) \in Run /\ AtMostOne(WithRow(step).copy)
         /\ Within(WithRow(step).copy) /\ WithRow(step).next = 0
         /\ WithRow(step).step \in {step, "idle"}
  BY DEF Inv, TypeOK, CursorApplied, WithRow, NoRun, Run, Steps, Within, AtMostOne

(* The same of the run that is over. *)
LEMMA NoRunFits ==
  ASSUME Inv
  PROVE  /\ NoRun \in Run /\ AtMostOne(NoRun.copy)
         /\ Within(NoRun.copy) /\ NoRun.next = 0 /\ NoRun.step = "idle"
  BY DEF NoRun, Run, Steps, Within, AtMostOne

(* A step that only moves the run on to another run which fits.             *)
LEMMA RunMoves ==
  ASSUME Inv, UNCHANGED <<server, applied, row, task>>, faults' \in 0 .. MaxFaults,
         run' \in Run, AtMostOne(run'.copy), Within(run'.copy),
         run'.next <= stored, run'.step # "save"
  PROVE  Inv'
  BY DEF Inv, TypeOK, CursorApplied, CopiesApplied, PageApplied, Within, AtMostOne, server

(* The log grows, and this browser is told nothing. *)
LEMMA OthersKeep ==
  ASSUME Inv, Arrive \/ \E d \in Devices : RevokeElsewhere(d)
  PROVE  Inv'
<1>1. CASE Arrive
  <2>1. stored' \in 0 .. MaxLog /\ stored' = stored + 1 /\ stored \in Nat
    BY <1>1, ConnectionAssumption DEF Arrive, Inv, TypeOK
  <2>2. applied' \in [Devices -> 0 .. stored']
    BY <1>1, <2>1 DEF Arrive, Inv, TypeOK
  <2>3. TypeOK'
    BY <1>1, <2>1, <2>2 DEF Arrive, Inv, TypeOK, AtMostOne
  <2>4. PageApplied'
    BY <1>1, <2>1 DEF Arrive, Inv, TypeOK, PageApplied, Run
  <2> QED BY <1>1, <2>3, <2>4 DEF Arrive, Inv, CursorApplied, CopiesApplied, Within
<1>2. CASE \E d \in Devices : RevokeElsewhere(d)
  BY <1>2 DEF RevokeElsewhere, Inv, TypeOK, CursorApplied, CopiesApplied, PageApplied,
     Within, AtMostOne
<1> QED BY <1>1, <1>2

(* What a task writes is a row it read or the new one, and a new device     *)
(* starts at the beginning of the log.                                      *)
LEMMA TaskMoves ==
  ASSUME Inv, NEW t \in Tab, NEW does \in Tasks, NEW seen \in SUBSET Connection,
         AtMostOne(seen), Within(seen), Turn(t, does, seen)
  PROVE  /\ task' \in [Tab -> Task] /\ \A u \in Tab : AtMostOne(task'[u].seen)
         /\ \A u \in Tab : Within(task'[u].seen)
<1>1. [does |-> does, seen |-> seen] \in Task
  BY DEF Task
<1>2. \A u \in Tab : task'[u] = IF u = t THEN [does |-> does, seen |-> seen] ELSE task[u]
  BY DEF Turn, Inv, TypeOK
<1>3. task' \in [Tab -> Task]
  BY <1>1 DEF Turn, Inv, TypeOK
<1> QED BY <1>2, <1>3 DEF Inv, TypeOK, CopiesApplied

LEMMA UserKeeps ==
  ASSUME Inv, NEW t \in Tab, UserStep(t)
  PROVE  Inv'
<1>1. AtMostOne({}) /\ Within({}) /\ {} \in SUBSET Connection
  BY DEF AtMostOne, Within
<1>2. AtMostOne(row) /\ Within(row) /\ row \in SUBSET Connection
  BY DEF Inv, TypeOK, CursorApplied, Within
<1>3. AtMostOne(task[t].seen) /\ Within(task[t].seen) /\ task[t].seen \in SUBSET Connection
  BY DEF Inv, TypeOK, CopiesApplied, Task
<1>4. ASSUME UNCHANGED <<server, applied, row, run, faults>>,
             NEW does \in Tasks, NEW seen \in SUBSET Connection,
             AtMostOne(seen), Within(seen), Turn(t, does, seen)
      PROVE  Inv'
  <2>1. /\ task' \in [Tab -> Task] /\ \A u \in Tab : AtMostOne(task'[u].seen)
        /\ \A u \in Tab : Within(task'[u].seen)
    BY <1>4, TaskMoves
  <2> QED BY <1>4, <2>1 DEF Inv, TypeOK, CursorApplied, CopiesApplied, PageApplied, Within,
             server, AtMostOne
<1>5. ASSUME UNCHANGED <<server, applied, run, faults>>,
             row' \in SUBSET Connection, AtMostOne(row'), Within(row'),
             Turn(t, "none", {})
      PROVE  Inv'
  <2>1. /\ task' \in [Tab -> Task] /\ \A u \in Tab : AtMostOne(task'[u].seen)
        /\ \A u \in Tab : Within(task'[u].seen)
    BY <1>1, <1>5, TaskMoves DEF Tasks
  <2> QED BY <1>5, <2>1 DEF Inv, TypeOK, CursorApplied, CopiesApplied, PageApplied, Within,
             server, AtMostOne
<1>6. CASE StartConnect(t)
  BY <1>1, <1>4, <1>6 DEF StartConnect, Tasks
<1>7. CASE CreateDevice(t)
  <2> DEFINE fresh == {[device |-> created', cursor |-> 0, auto |-> FALSE]}
  <2>1. created' \in 1 .. MaxDevices /\ created' = created + 1 /\ created \in Nat
    BY <1>7, ConnectionAssumption DEF CreateDevice, Inv, TypeOK
  <2>2. fresh \in SUBSET Connection /\ AtMostOne(fresh)
    BY <2>1 DEF Connection, Devices, AtMostOne
  <2>3. Within(fresh)
    BY <2>1 DEF Within, Inv, TypeOK, Devices
  <2>4. /\ task' \in [Tab -> Task] /\ \A u \in Tab : AtMostOne(task'[u].seen)
        /\ \A u \in Tab : Within(task'[u].seen)
    BY <1>7, <2>2, <2>3, TaskMoves DEF CreateDevice, Tasks
  <2>5. alive' \subseteq 1 .. created'
    <3>1. alive' = alive \cup {created'} /\ alive \subseteq 1 .. created
      BY <1>7 DEF CreateDevice, Inv, TypeOK
    <3>2. 1 .. created \subseteq 1 .. created' /\ created' \in 1 .. created'
      BY <2>1
    <3> QED BY <3>1, <3>2
  <2> QED BY <1>7, <2>1, <2>4, <2>5 DEF CreateDevice, Inv, TypeOK, CursorApplied, CopiesApplied,
             PageApplied, Within, AtMostOne
<1>8. CASE StoreConnection(t)
  BY <1>3, <1>5, <1>8 DEF StoreConnection
<1>9. CASE StartDisconnect(t)
  BY <1>2, <1>4, <1>9 DEF StartDisconnect, Tasks
<1>10. CASE Revoke(t)
  <2>1. /\ task' \in [Tab -> Task] /\ \A u \in Tab : AtMostOne(task'[u].seen)
        /\ \A u \in Tab : Within(task'[u].seen)
    BY <1>1, <1>10, TaskMoves DEF Revoke, Tasks
  <2>2. alive' \subseteq alive
    BY <1>10 DEF Revoke
  <2> QED BY <1>10, <2>1, <2>2 DEF Revoke, Inv, TypeOK, CursorApplied, CopiesApplied,
             PageApplied, Within, AtMostOne
<1>11. CASE Clear(t)
  BY <1>1, <1>5, <1>11 DEF Clear
<1>12. CASE StartChoose(t)
  BY <1>2, <1>4, <1>12 DEF StartChoose, Tasks
<1>13. CASE StoreChoice(t)
  <2>1. PICK choice \in BOOLEAN : row' = {[c EXCEPT !.auto = choice] : c \in task[t].seen}
    BY <1>13 DEF StoreChoice
  <2>2. \A c \in Connection : /\ [c EXCEPT !.auto = choice] \in Connection
                              /\ [c EXCEPT !.auto = choice].cursor = c.cursor
                              /\ [c EXCEPT !.auto = choice].device = c.device
    BY <2>1 DEF Connection
  <2>3. row' \in SUBSET Connection /\ AtMostOne(row') /\ Within(row')
    BY <1>3, <2>1, <2>2 DEF AtMostOne, Within
  <2> QED BY <1>5, <1>13, <2>3 DEF StoreChoice
<1>14. CASE GiveUp(t)
  BY <1>1, <1>4, <1>14 DEF GiveUp, Tasks
<1> QED BY <1>6, <1>7, <1>8, <1>9, <1>10, <1>11, <1>12, <1>13, <1>14 DEF UserStep

(* Pull: the page ends within the log. *)
LEMMA PullKeeps ==
  ASSUME Inv, Pull
  PROVE  Inv'
<1>1. PICK c \in run.copy :
        run' = IF c.device \in alive
               THEN [run EXCEPT !.step = "apply", !.next = EndOfPage(c.cursor),
                                !.more = stored > EndOfPage(c.cursor)]
               ELSE NoRun
  BY DEF Pull, Become
<1>2. c \in Connection /\ stored \in Nat /\ run \in Run
  BY DEF Inv, TypeOK, Run
<1>3. EndOfPage(c.cursor) \in Nat /\ EndOfPage(c.cursor) <= stored
  BY <1>2, ConnectionAssumption DEF EndOfPage, Connection
<1>4. run' \in Run /\ run'.copy \subseteq run.copy /\ run'.next <= stored /\ run'.step # "save"
  <2> DEFINE next == EndOfPage(c.cursor)
             more == stored > next
  <2>1. next \in Nat /\ next <= stored /\ more \in BOOLEAN
    BY <1>3
  <2> HIDE DEF next, more
  <2>2. CASE c.device \in alive
    <3>1. run' = [run EXCEPT !.step = "apply", !.next = next, !.more = more]
      BY <1>1, <2>2 DEF next, more
    <3> QED BY <1>2, <2>1, <3>1 DEF Run, Steps
  <2>3. CASE c.device \notin alive
    <3>1. run' = NoRun
      BY <1>1, <2>3
    <3> QED BY <1>2, <3>1 DEF Run, Steps, NoRun
  <2> QED BY <2>2, <2>3
<1>5. AtMostOne(run'.copy) /\ Within(run'.copy)
  BY <1>4 DEF Inv, TypeOK, CopiesApplied, AtMostOne, Within
<1> QED BY <1>4, <1>5, RunMoves DEF Pull, Inv, TypeOK

(* Apply: how far the log is applied only grows, up to the page's end.      *)
LEMMA ApplyKeeps ==
  ASSUME Inv, Apply
  PROVE  Inv'
<1>1. PICK c \in run.copy :
        applied' = [applied EXCEPT ![c.device] = IF run.next > @ THEN run.next ELSE @]
  BY DEF Apply
<1>2. /\ c \in Connection /\ c.device \in Devices /\ stored \in Nat /\ run \in Run
      /\ run.next \in Nat /\ run.next <= stored /\ applied \in [Devices -> 0 .. stored]
  BY DEF Inv, TypeOK, Run, Connection, PageApplied
<1>3. applied' \in [Devices -> 0 .. stored]
  BY <1>1, <1>2
<1>4. \A d \in Devices : applied[d] <= applied'[d]
  BY <1>1, <1>2
<1>5. ASSUME NEW rows \in SUBSET Connection, Within(rows)
      PROVE  \A e \in rows : e.cursor <= applied'[e.device]
  BY <1>2, <1>3, <1>4, <1>5 DEF Within, Connection
<1>6. run' = [run EXCEPT !.step = "save"]
  BY DEF Apply, Become
<1>7. run' \in Run /\ run'.copy = run.copy /\ run'.next = run.next
  BY <1>2, <1>6 DEF Run, Steps
<1>8. \A e \in run.copy : e = c
  BY DEF Inv, TypeOK, AtMostOne
<1>9. run.next <= applied'[c.device]
  BY <1>1, <1>2
<1>10. TypeOK'
  BY <1>3, <1>7 DEF Apply, server, Inv, TypeOK, AtMostOne
<1>11. CursorApplied' /\ CopiesApplied'
  <2>1. Within(row) /\ Within(run.copy) /\ \A t \in Tab : Within(task[t].seen)
    BY DEF Inv, CursorApplied, CopiesApplied, Within
  <2>2. /\ row \in SUBSET Connection /\ run.copy \in SUBSET Connection
        /\ \A t \in Tab : task[t].seen \in SUBSET Connection
    BY <1>2 DEF Inv, TypeOK, Run, Task
  <2> QED BY <1>5, <1>7, <2>1, <2>2 DEF Apply, CursorApplied, CopiesApplied, Within
<1>12. PageApplied'
  BY <1>2, <1>7, <1>8, <1>9 DEF Apply, server, PageApplied
<1> QED BY <1>10, <1>11, <1>12 DEF Inv

(* Save: the page was applied for the device the row is written for.        *)
LEMMA SaveKeeps ==
  ASSUME Inv, Save
  PROVE  Inv'
<1> DEFINE advanced == \E c \in run.copy : run.next > c.cursor
           copy == IF advanced THEN Advanced(run.copy) ELSE run.copy
<1>1. run \in Run /\ run.copy \in SUBSET Connection /\ run.next \in Nat
  BY DEF Inv, TypeOK, Run
<1>2. \A c \in Connection : /\ [c EXCEPT !.cursor = run.next] \in Connection
                            /\ [c EXCEPT !.cursor = run.next].cursor = run.next
                            /\ [c EXCEPT !.cursor = run.next].device = c.device
  BY <1>1 DEF Connection
<1>3. \A c \in run.copy : run.next <= applied[c.device]
  BY DEF Save, Inv, PageApplied
<1>4. copy \in SUBSET Connection /\ AtMostOne(copy)
  BY <1>1, <1>2 DEF Advanced, Inv, TypeOK, AtMostOne
<1>5. Within(copy)
  BY <1>1, <1>2, <1>3 DEF Advanced, Within, Inv, CopiesApplied
<1>6. /\ row' = IF advanced THEN copy ELSE row
      /\ UNCHANGED <<server, applied, task, faults>>
  BY DEF Save
<1>7. \/ run' = [NoRun EXCEPT !.step = "settled"]
      \/ run' = [run EXCEPT !.step = "pull", !.copy = copy]
      \/ run' = NoRun
  BY <1>1 DEF Save, Become, Run
<1>8. /\ run' \in Run /\ run'.copy \in {copy, {}} /\ run'.next <= stored
      /\ run'.step # "save"
  <2>1. run.next <= stored /\ stored \in Nat
    BY DEF Inv, TypeOK, PageApplied
  <2>2. CASE run' = [NoRun EXCEPT !.step = "settled"]
    <3> HIDE DEF copy
    <3>1. /\ run'.step = "settled" /\ run'.copy = {} /\ run'.next = 0
          /\ run' \in Run
      BY <2>2 DEF NoRun, Run, Steps
    <3> QED BY <2>1, <3>1
  <2>3. CASE run' = [run EXCEPT !.step = "pull", !.copy = copy]
    <3> HIDE DEF copy
    <3> QED BY <1>1, <1>4, <2>1, <2>3 DEF Run, Steps
  <2>4. CASE run' = NoRun
    <3> HIDE DEF copy
    <3> QED BY <2>1, <2>4 DEF NoRun, Run, Steps
  <2> QED BY <1>7, <2>2, <2>3, <2>4
<1>9. AtMostOne(run'.copy) /\ Within(run'.copy)
  BY <1>4, <1>5, <1>8 DEF AtMostOne, Within
<1>10. row' \in SUBSET Connection /\ AtMostOne(row') /\ Within(row')
  BY <1>4, <1>5, <1>6 DEF Inv, TypeOK, CursorApplied, Within
<1> QED BY <1>6, <1>8, <1>9, <1>10 DEF Inv, TypeOK, CursorApplied, CopiesApplied, PageApplied,
           Within, AtMostOne, server

(* Every other step of the run reads the row or writes its copy of it.      *)
LEMMA RunKeeps ==
  ASSUME Inv, RunStep \/ StartRun \/ Fail
  PROVE  Inv'
<1>1. stored \in Nat
  BY DEF Inv, TypeOK
<1>2. ASSUME NEW step \in Steps \ {"save"}, run' = WithRow(step),
             UNCHANGED <<server, applied, row, task, faults>>
      PROVE  Inv'
  <2>1. run' \in Run /\ AtMostOne(run'.copy) /\ Within(run'.copy)
    BY <1>2, WithRowFits
  <2>2. run'.next <= stored /\ run'.step # "save"
    BY <1>1, <1>2, WithRowFits
  <2> QED BY <1>2, <2>1, <2>2, RunMoves DEF Inv, TypeOK
<1>3. CASE StartRun
  BY <1>2, <1>3 DEF StartRun, Become, Steps
<1>4. CASE Push
  <2>1. run' = [run EXCEPT !.step = "held"]
    BY <1>4 DEF Push, Become
  <2>2. run' \in Run /\ run'.copy = run.copy /\ run'.next = run.next /\ run'.step # "save"
    BY <2>1 DEF Inv, TypeOK, Run, Steps
  <2> QED BY <1>4, <2>2, RunMoves DEF Push, Inv, TypeOK, CopiesApplied, PageApplied
<1>5. CASE RetryHeld
  BY <1>2, <1>5 DEF RetryHeld, Become, Steps
<1>6. CASE OpenPull
  BY <1>2, <1>6 DEF OpenPull, Become, Steps
<1>7. CASE Settled
  BY <1>2, <1>7 DEF Settled, Become, Steps
<1>8. CASE ReadTime
  BY <1>2, <1>8 DEF ReadTime, Become, Steps
<1>9. CASE Stamp
  <2>1. row' = run.copy /\ run' = NoRun /\ UNCHANGED <<server, applied, task, faults>>
    BY <1>9 DEF Stamp, Become
  <2>2. row' \in SUBSET Connection /\ AtMostOne(row') /\ Within(row')
    BY <2>1 DEF Inv, TypeOK, Run, CopiesApplied
  <2>3. /\ run' \in Run /\ AtMostOne(run'.copy) /\ Within(run'.copy)
        /\ run'.next <= stored /\ run'.step # "save"
    BY <1>1, <2>1, NoRunFits
  <2> QED BY <2>1, <2>2, <2>3 DEF Inv, TypeOK, CursorApplied, CopiesApplied, PageApplied,
             Within, AtMostOne, server
<1>10. CASE Fail
  <2>1. run' = NoRun /\ UNCHANGED <<server, applied, row, task>>
    BY <1>10 DEF Fail, Become
  <2>2. faults' \in 0 .. MaxFaults
    BY <1>10, ConnectionAssumption DEF Fail, Inv, TypeOK
  <2> QED BY <1>1, <2>1, <2>2, NoRunFits, RunMoves
<1> QED BY <1>3, <1>4, <1>5, <1>6, <1>7, <1>8, <1>9, <1>10, PullKeeps, ApplyKeeps, SaveKeeps
        DEF RunStep

(* Every step of the specification keeps the invariant. *)
LEMMA NextKeeps == Inv /\ [Next]_vars => Inv'
<1> SUFFICES ASSUME Inv, [Next]_vars PROVE Inv'
  OBVIOUS
<1>1. CASE UNCHANGED vars
  BY <1>1 DEF vars, Inv, TypeOK, CursorApplied, CopiesApplied, PageApplied, Within, AtMostOne,
     server
<1>2. CASE Next
  BY <1>2, OthersKeep, UserKeeps, RunKeeps DEF Next
<1> QED BY <1>1, <1>2

(* The invariant holds in every state. *)
LEMMA Always == Spec => []Inv
  BY InitInv, NextKeeps, PTL DEF Spec

(* Every variable has its type, and there is never more than one row.       *)
THEOREM RowsTyped == Spec => []TypeOK
  BY Always, PTL DEF Inv

(* The cursor stored never claims a change as applied that was not, however *)
(* runs, choices, disconnections and new connections write over each other. *)
THEOREM CursorsApplied == Spec => []CursorApplied
  BY Always, PTL DEF Inv
===============================================================================
