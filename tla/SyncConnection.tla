---------------------------- MODULE SyncConnection ----------------------------
(***************************************************************************)
(* The connection row: the account's server, this device's id there, how   *)
(* far its log is applied, and whether books are downloaded unasked.  The  *)
(* sync run reads it and writes it back whole, more than once and with     *)
(* requests in between; so do connecting, disconnecting and choosing,      *)
(* which take no lock and may be under way in several tabs.                *)
(* Source: composition/sync.ts and the use cases of domains/sync.          *)
(***************************************************************************)
EXTENDS Naturals

CONSTANTS
  Tab,         \* the tabs of the browser
  PageSize,    \* changes in one page of a pull
  MaxLog,      \* bound: how many changes the server ever stores
  MaxFaults,   \* bound: how often a run fails
  MaxDevices   \* bound: how often a device is created

ASSUME ConnectionAssumption ==
  /\ PageSize \in Nat \ {0}
  /\ MaxLog \in Nat
  /\ MaxFaults \in Nat
  /\ MaxDevices \in Nat

VARIABLES
  stored,   \* how many changes the server's log has
  created,  \* how many devices the server created for this browser
  alive,    \* those of them the server has not revoked
  applied,  \* how far the log was applied in the name of each device
  row,      \* the connection row: none or one
  task,     \* what the user is doing in each tab
  run,      \* the sync run: one at a time, the lock sees to that
  faults    \* how many runs have failed

server == <<stored, created, alive>>
vars == <<stored, created, alive, applied, row, task, run, faults>>

Devices == 1 .. MaxDevices
Connection == [device : Devices, cursor : Nat, auto : BOOLEAN]

Tasks == {"none", "create", "store", "revoke", "clear", "choose"}
Task == [does : Tasks, seen : SUBSET Connection]
NoTask == [does |-> "none", seen |-> {}]

Steps == {"idle", "push", "held", "open", "pull", "apply", "save", "settled",
          "time", "stamp"}
Run == [step : Steps, copy : SUBSET Connection, next : Nat, more : BOOLEAN]
NoRun == [step |-> "idle", copy |-> {}, next |-> 0, more |-> FALSE]

Init ==
  /\ stored = 0 /\ created = 0 /\ alive = {}
  /\ applied = [d \in Devices |-> 0]
  /\ row = {}
  /\ task = [t \in Tab |-> NoTask]
  /\ run = NoRun
  /\ faults = 0
-------------------------------------------------------------------------------
(* The other devices of the account: they push, and may revoke this one.    *)

Arrive ==
  /\ stored < MaxLog /\ stored' = stored + 1
  /\ UNCHANGED <<created, alive, applied, row, task, run, faults>>

RevokeElsewhere(d) ==
  /\ d \in alive /\ alive' = alive \ {d}
  /\ UNCHANGED <<stored, created, applied, row, task, run, faults>>
-------------------------------------------------------------------------------
(* The user, in a tab: every operation reads the row first.                 *)

Turn(t, does, seen) == task' = [task EXCEPT ![t] = [does |-> does, seen |-> seen]]

StartConnect(t) ==
  /\ task[t].does = "none" /\ row = {}
  /\ Turn(t, "create", {})
  /\ UNCHANGED <<server, applied, row, run, faults>>

CreateDevice(t) ==
  /\ task[t].does = "create" /\ created < MaxDevices
  /\ created' = created + 1 /\ alive' = alive \cup {created'}
  /\ Turn(t, "store", {[device |-> created', cursor |-> 0, auto |-> FALSE]})
  /\ UNCHANGED <<stored, applied, row, run, faults>>

(* The row is written without a second look. *)
StoreConnection(t) ==
  /\ task[t].does = "store"
  /\ row' = task[t].seen
  /\ Turn(t, "none", {})
  /\ UNCHANGED <<server, applied, run, faults>>

StartDisconnect(t) ==
  /\ task[t].does = "none" /\ row # {}
  /\ Turn(t, "revoke", row)
  /\ UNCHANGED <<server, applied, row, run, faults>>

(* The answer does not matter: offline or refused, the row is cleared.      *)
Revoke(t) ==
  /\ task[t].does = "revoke"
  /\ \/ alive' = alive \ {c.device : c \in task[t].seen}
     \/ alive' = alive
  /\ Turn(t, "clear", {})
  /\ UNCHANGED <<stored, created, applied, row, run, faults>>

Clear(t) ==
  /\ task[t].does = "clear"
  /\ row' = {}
  /\ Turn(t, "none", {})
  /\ UNCHANGED <<server, applied, run, faults>>

StartChoose(t) ==
  /\ task[t].does = "none" /\ row # {}
  /\ Turn(t, "choose", row)
  /\ UNCHANGED <<server, applied, row, run, faults>>

StoreChoice(t) ==
  /\ task[t].does = "choose"
  /\ \E choice \in BOOLEAN : row' = {[c EXCEPT !.auto = choice] : c \in task[t].seen}
  /\ Turn(t, "none", {})
  /\ UNCHANGED <<server, applied, run, faults>>

(* A request fails, storage refuses, or the tab closes. *)
GiveUp(t) ==
  /\ task[t].does # "none"
  /\ Turn(t, "none", {})
  /\ UNCHANGED <<server, applied, row, run, faults>>
-------------------------------------------------------------------------------
(* The sync run. *)

Become(next) == run' = next
WithRow(step) ==
  IF row = {} THEN NoRun ELSE [NoRun EXCEPT !.step = step, !.copy = row]

StartRun ==
  /\ run.step = "idle" /\ row # {}
  /\ Become(WithRow("push"))
  /\ UNCHANGED <<server, applied, row, task, faults>>

(* With nothing to send the push asks the server nothing, so that a revoked *)
(* device gets past it.                                                     *)
Push ==
  /\ run.step = "push"
  /\ Become([run EXCEPT !.step = "held"])
  /\ UNCHANGED <<server, applied, row, task, faults>>

(* Without a row the retry of the changes kept aside ends the run. *)
RetryHeld ==
  /\ run.step = "held"
  /\ Become(WithRow("open"))
  /\ UNCHANGED <<server, applied, row, task, faults>>

OpenPull ==
  /\ run.step = "open"
  /\ Become(WithRow("pull"))
  /\ UNCHANGED <<server, applied, row, task, faults>>

(* The server stops at the end of the log, and says whether there is more.  *)
EndOfPage(after) == IF after + PageSize < stored THEN after + PageSize ELSE stored

Pull ==
  /\ run.step = "pull"
  /\ \E c \in run.copy :
       LET next == EndOfPage(c.cursor)
       IN  Become(IF c.device \in alive
                  THEN [run EXCEPT !.step = "apply", !.next = next, !.more = stored > next]
                  ELSE NoRun)
  /\ UNCHANGED <<server, applied, row, task, faults>>

Apply ==
  /\ run.step = "apply"
  /\ \E c \in run.copy :
       applied' = [applied EXCEPT ![c.device] = IF run.next > @ THEN run.next ELSE @]
  /\ Become([run EXCEPT !.step = "save"])
  /\ UNCHANGED <<server, row, task, faults>>

(* The cursor is saved by writing the whole row as it was when the pull     *)
(* began, whatever became of it since.                                      *)
\* Mutant: the new cursor goes into the row of now, whichever device it is of.
AdvancedNow(rows) == {[c EXCEPT !.cursor = run.next] : c \in row}

\* Mutant: the row is written without the new cursor.
Unadvanced(rows) == rows

Advanced(rows) == {[c EXCEPT !.cursor = run.next] : c \in rows}

Save ==
  /\ run.step = "save"
  /\ LET advanced == \E c \in run.copy : run.next > c.cursor
         copy == IF advanced THEN Advanced(run.copy) ELSE run.copy
     IN  /\ row' = IF advanced THEN copy ELSE row
         /\ Become(CASE ~run.more -> [NoRun EXCEPT !.step = "settled"]
                     [] run.more /\ advanced -> [run EXCEPT !.step = "pull", !.copy = copy]
                     [] OTHER -> NoRun)
  /\ UNCHANGED <<server, applied, task, faults>>

(* The changes kept aside are tried again, for a row that is still there.   *)
Settled ==
  /\ run.step = "settled"
  /\ Become(WithRow("time"))
  /\ UNCHANGED <<server, applied, row, task, faults>>

(* The time of the run is stored with the row, read once more. *)
ReadTime ==
  /\ run.step = "time"
  /\ Become(WithRow("stamp"))
  /\ UNCHANGED <<server, applied, row, task, faults>>

Stamp ==
  /\ run.step = "stamp"
  /\ row' = run.copy
  /\ Become(NoRun)
  /\ UNCHANGED <<server, applied, task, faults>>

(* Offline, a refusal, storage out of reach or the tab closed. *)
Fail ==
  /\ run.step # "idle" /\ faults < MaxFaults
  /\ faults' = faults + 1
  /\ Become(NoRun)
  /\ UNCHANGED <<server, applied, row, task>>
-------------------------------------------------------------------------------
RunStep == Push \/ RetryHeld \/ OpenPull \/ Pull \/ Apply \/ Save \/ Settled \/ ReadTime \/ Stamp

UserStep(t) ==
  \/ StartConnect(t) \/ CreateDevice(t) \/ StoreConnection(t)
  \/ StartDisconnect(t) \/ Revoke(t) \/ Clear(t)
  \/ StartChoose(t) \/ StoreChoice(t) \/ GiveUp(t)

Next ==
  \/ Arrive
  \/ \E d \in Devices : RevokeElsewhere(d)
  \/ \E t \in Tab : UserStep(t)
  \/ StartRun \/ RunStep \/ Fail

Spec == Init /\ [][Next]_vars

(* A run that was started goes on until it ends, and another starts now and *)
(* then: at the start of the app, on return to it and after a change.       *)
FairSpec == Spec /\ WF_vars(RunStep) /\ WF_vars(StartRun)
-------------------------------------------------------------------------------
AtMostOne(rows) == \A c, e \in rows : c = e

TypeOK ==
  /\ stored \in 0 .. MaxLog /\ created \in 0 .. MaxDevices /\ faults \in 0 .. MaxFaults
  /\ alive \subseteq 1 .. created
  /\ applied \in [Devices -> 0 .. stored]
  /\ task \in [Tab -> Task] /\ \A t \in Tab : AtMostOne(task[t].seen)
  /\ row \subseteq Connection /\ AtMostOne(row)
  /\ run \in Run /\ AtMostOne(run.copy)

(* The row never says more of the log is applied than was applied for its   *)
(* device, although the run, the choice and a new connection write whole    *)
(* rows over each other: a change skipped this way would never be fetched.  *)
CursorApplied == \A c \in row : c.cursor <= applied[c.device]

(* Once the other devices and the user are done, a device that stayed       *)
(* connected and was not revoked has read the whole log: a cursor set back  *)
(* by the write of an older row is caught up again.                         *)
Settles == <>[](row # {} /\ \A c \in row : c.device \in alive)
CatchesUp ==
  (Settles /\ <>[](\A t \in Tab : task[t] = NoTask))
    => <>[](\A c \in row : c.cursor = stored)
===============================================================================
