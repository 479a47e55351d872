----------------------------- MODULE SyncScheduler -----------------------------
(***************************************************************************)
(* When a browser syncs.  Every write of a synced record is announced to   *)
(* all tabs; a tab that hears of one requests a run after a pause, as it   *)
(* does when it starts and when it is shown again.  The gate of a tab lets *)
(* one run through at a time and remembers a request made meanwhile; a run *)
(* goes ahead only if no other tab holds the sync lock.  The runs the user *)
(* asks for wait for that lock.                                            *)
(* Source: domains/sync/ui, platform/events, platform/locks.               *)
(***************************************************************************)
EXTENDS Naturals

CONSTANTS
  Tab,         \* the tabs of the browser
  UserTabs,    \* those in which the user runs syncs and downloads by hand
  MaxChanges,  \* bound: how many records are written
  MaxOutages   \* bound: how often the network, the connection or a run is lost

ASSUME SchedulerAssumption ==
  /\ UserTabs \subseteq Tab
  /\ MaxChanges \in Nat
  /\ MaxOutages \in Nat

VARIABLES
  open,     \* the tabs that are open, with a scheduler each
  mail,     \* the tabs a change was announced to that have not heard of it
  timer,    \* the tabs that pause before they request a run
  gate,     \* of each tab: no run, one, or one and a request for another
  phase,    \* how far the scheduled and the user's run of each tab are
  seen,     \* how many changes the outbox had when each run read it
  made,     \* how many records were written
  pushed,   \* how many of them were pushed
  excused,  \* how many of them a run gave up on: offline, refused, closed
  yielded,  \* how many there were when a run was last given up for the user's
  usable,   \* the browser is online and connected to a server
  outages   \* how often that was lost, or a run failed

vars == <<open, mail, timer, gate, phase, seen, made, pushed, excused, yielded, usable, outages>>

Gates == {"idle", "running", "again"}
Phases == {"none", "waits", "online", "lock", "read", "push", "rest"}

(* A run is the scheduler's or the user's, in a tab. *)
Scheduled(t) == <<t, "auto">>
ByHand(t) == <<t, "user">>
Worker == Tab \X {"auto", "user"}

Holds(w) == phase[w] \in {"read", "push", "rest"}
Free == \A w \in Worker : ~Holds(w)

Init ==
  /\ open = {} /\ mail = {} /\ timer = {}
  /\ gate = [t \in Tab |-> "idle"]
  /\ phase = [w \in Worker |-> "none"]
  /\ seen = [w \in Worker |-> 0]
  /\ made = 0 /\ pushed = 0 /\ excused = 0 /\ yielded = 0
  /\ usable \in BOOLEAN /\ outages = 0

Goes(w, to) == phase' = [phase EXCEPT ![w] = to]
-------------------------------------------------------------------------------
(* Requests. *)

RequestRun(t) ==
  IF gate[t] = "idle"
  THEN gate' = [gate EXCEPT ![t] = "running"] /\ Goes(Scheduled(t), "online")
  ELSE gate' = [gate EXCEPT ![t] = "again"] /\ UNCHANGED phase

Start(t) ==
  /\ t \notin open /\ open' = open \cup {t}
  /\ RequestRun(t)
  /\ UNCHANGED <<mail, timer, seen, made, pushed, excused, yielded, usable, outages>>

Shown(t) ==
  /\ t \in open
  /\ RequestRun(t)
  /\ UNCHANGED <<open, mail, timer, seen, made, pushed, excused, yielded, usable, outages>>

\* Mutant: a channel does not hear its own messages.
ToOthers(t) == mail \cup (open \ {t})

(* The announcement goes through a channel of its own, so that the tab that *)
(* wrote hears it like the others.                                          *)
Announced(t) == mail \cup open

Change(t) ==
  /\ t \in open /\ made < MaxChanges
  /\ made' = made + 1
  /\ mail' = Announced(t)
  /\ UNCHANGED <<open, timer, gate, phase, seen, pushed, excused, yielded, usable, outages>>

Hear(t) ==
  /\ t \in mail /\ mail' = mail \ {t}
  /\ timer' = timer \cup {t}
  /\ UNCHANGED <<open, gate, phase, seen, made, pushed, excused, yielded, usable, outages>>

TimerFires(t) ==
  /\ t \in timer /\ timer' = timer \ {t}
  /\ RequestRun(t)
  /\ UNCHANGED <<open, mail, seen, made, pushed, excused, yielded, usable, outages>>

(* A tab is closed, with whatever it was doing. *)
Close(t) ==
  /\ t \in open /\ open' = open \ {t}
  /\ mail' = mail \ {t} /\ timer' = timer \ {t}
  /\ gate' = [gate EXCEPT ![t] = "idle"]
  /\ phase' = [w \in Worker |-> IF w[1] = t THEN "none" ELSE phase[w]]
  /\ excused' = made
  /\ UNCHANGED <<seen, made, pushed, yielded, usable, outages>>
-------------------------------------------------------------------------------
(* A run, from the check of the network to the release of the lock.         *)

\* Mutant: a request made during a run is forgotten.
FinishForgetting(w) ==
  IF w[2] = "auto"
  THEN gate' = [gate EXCEPT ![w[1]] = "idle"] /\ Goes(w, "none")
  ELSE Goes(w, "none") /\ UNCHANGED gate

Finish(w) ==
  IF w[2] = "auto" /\ gate[w[1]] = "again"
  THEN gate' = [gate EXCEPT ![w[1]] = "running"] /\ Goes(w, "online")
  ELSE /\ gate' = IF w[2] = "auto" THEN [gate EXCEPT ![w[1]] = "idle"] ELSE gate
       /\ Goes(w, "none")

CheckUsable(t) ==
  /\ phase[Scheduled(t)] = "online"
  /\ IF usable
     THEN Goes(Scheduled(t), "lock") /\ UNCHANGED <<gate, excused>>
     ELSE Finish(Scheduled(t)) /\ excused' = made
  /\ UNCHANGED <<open, mail, timer, seen, made, pushed, yielded, usable, outages>>

\* Mutant: the lock is taken before those who wait for it.
BusyHeld == ~Free

\* Mutant: the run goes on without the lock.
NeverBusy == FALSE

Busy == ~Free \/ \E w \in Worker : phase[w] = "waits"

(* The lock is taken if it is free, and the run given up if it is not: for  *)
(* the run of another tab, or for a sync or a download of the user's.       *)
ForScheduled == \E t \in Tab : Holds(Scheduled(t))

TryLock(t) ==
  /\ phase[Scheduled(t)] = "lock"
  /\ IF Busy THEN Finish(Scheduled(t)) ELSE Goes(Scheduled(t), "read") /\ UNCHANGED gate
  /\ yielded' = IF Busy /\ ~ForScheduled THEN made ELSE yielded
  /\ UNCHANGED <<open, mail, timer, seen, made, pushed, excused, usable, outages>>

(* The user's run waits for the lock. *)
Ask(t) ==
  /\ t \in open \cap UserTabs /\ phase[ByHand(t)] = "none"
  /\ Goes(ByHand(t), "waits")
  /\ UNCHANGED <<open, mail, timer, gate, seen, made, pushed, excused, yielded, usable, outages>>

(* A sync pushes first; a download of a book does not push. *)
Granted(t) ==
  /\ phase[ByHand(t)] = "waits" /\ Free
  /\ \E to \in {"read", "rest"} : Goes(ByHand(t), to)
  /\ UNCHANGED <<open, mail, timer, gate, seen, made, pushed, excused, yielded, usable, outages>>

ReadOutbox(w) ==
  /\ phase[w] = "read"
  /\ seen' = [seen EXCEPT ![w] = made]
  /\ Goes(w, "push")
  /\ UNCHANGED <<open, mail, timer, gate, made, pushed, excused, yielded, usable, outages>>

Push(w) ==
  /\ phase[w] = "push"
  /\ pushed' = IF seen[w] > pushed THEN seen[w] ELSE pushed
  /\ Goes(w, "rest")
  /\ UNCHANGED <<open, mail, timer, gate, seen, made, excused, yielded, usable, outages>>

(* The pull, the downloads and the time of the run. *)
EndRun(w) ==
  /\ phase[w] = "rest"
  /\ Finish(w)
  /\ UNCHANGED <<open, mail, timer, seen, made, pushed, excused, yielded, usable, outages>>

Fail(w) ==
  /\ Holds(w) /\ outages < MaxOutages
  /\ outages' = outages + 1 /\ excused' = made
  /\ Finish(w)
  /\ UNCHANGED <<open, mail, timer, seen, made, pushed, yielded, usable>>
-------------------------------------------------------------------------------
Lose ==
  /\ usable /\ outages < MaxOutages
  /\ usable' = FALSE /\ outages' = outages + 1
  /\ UNCHANGED <<open, mail, timer, gate, phase, seen, made, pushed, excused, yielded>>

Regain ==
  /\ ~usable /\ usable' = TRUE
  /\ UNCHANGED <<open, mail, timer, gate, phase, seen, made, pushed, excused, yielded, outages>>

RunStep(w) == ReadOutbox(w) \/ Push(w) \/ EndRun(w)
TabStep(t) ==
  \/ Hear(t) \/ TimerFires(t) \/ CheckUsable(t) \/ TryLock(t) \/ Granted(t)
  \/ RunStep(Scheduled(t)) \/ RunStep(ByHand(t))

Next ==
  \/ \E t \in Tab : Start(t) \/ Shown(t) \/ Change(t) \/ Close(t) \/ Ask(t) \/ TabStep(t)
  \/ \E w \in Worker : Fail(w)
  \/ Lose \/ Regain

Spec == Init /\ [][Next]_vars

(* A message arrives, a timer fires, and a run that was started goes on.    *)
Fairness ==
  \A t \in Tab : /\ WF_vars(Hear(t)) /\ WF_vars(TimerFires(t)) /\ WF_vars(Granted(t))
                 /\ WF_vars(CheckUsable(t)) /\ WF_vars(TryLock(t))
                 /\ WF_vars(RunStep(Scheduled(t))) /\ WF_vars(RunStep(ByHand(t)))

FairSpec == Spec /\ Fairness
-------------------------------------------------------------------------------
TypeOK ==
  /\ open \subseteq Tab /\ mail \subseteq open /\ timer \subseteq open
  /\ gate \in [Tab -> Gates]
  /\ phase \in [Worker -> Phases]
  /\ seen \in [Worker -> Nat]
  /\ {made, pushed, excused, yielded, outages} \subseteq Nat
  /\ usable \in BOOLEAN

Alert(t) == t \in mail \/ t \in timer \/ gate[t] = "again"

TakesAlong(w) ==
  \/ phase[w] \in {"waits", "online", "lock", "read"}
  \/ phase[w] = "push" /\ seen[w] = made

(* Unless a run gave up on it, a change that is not pushed is one a tab     *)
(* still has to do with: it has yet to hear of it, waits to request a run,  *)
(* has a request pending, or has a run that takes the change along.  No     *)
(* gate that is closed and no lock that another tab's run has taken loses   *)
(* the last wake-up; only a run of the user's does (yielded).               *)
Pending == made > pushed /\ made > excused /\ made > yielded

Awake == Pending => \E t \in Tab : Alert(t) \/ TakesAlong(Scheduled(t))

(* One run at a time, over all tabs, whoever asked for it. *)
OneRun == \A v, w \in Worker : Holds(v) /\ Holds(w) => v = w

(* What the user asks for starts, whatever the scheduler requests.          *)
AskedStarts ==
  \A t \in Tab : phase[ByHand(t)] = "waits" ~> phase[ByHand(t)] # "waits"

(* Every change is pushed, or given up on by a run that failed or that left *)
(* the lock to the user.                                                    *)
Served ==
  \A n \in 1 .. MaxChanges :
    made >= n ~> (pushed >= n \/ excused >= n \/ yielded >= n)
===============================================================================
