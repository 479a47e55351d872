-------------------------- MODULE SyncSchedulerProofs --------------------------
(***************************************************************************)
(* That the scheduler loses no wake-up, for any number of tabs and         *)
(* whatever the user runs by hand.  A request refused because another tab  *)
(* has the lock is safe for one reason: that tab heard of the change too,  *)
(* so either its run has yet to read the outbox or it will go around       *)
(* again.  The invariant says that of every run which is past reading.     *)
(***************************************************************************)
EXTENDS SyncScheduler, TLAPS

(* A tab has a run when its gate says so, and only if it is open; the       *)
(* scheduler does not wait for the lock.                                    *)
GatesFit ==
  \A t \in Tab : /\ gate[t] = "idle" <=> phase[Scheduled(t)] = "none"
                 /\ phase[Scheduled(t)] # "none" => t \in open
                 /\ phase[Scheduled(t)] # "waits"

(* A run that read the outbox too early is in a tab that will run again.    *)
Late(t) == \/ phase[Scheduled(t)] = "rest"
           \/ phase[Scheduled(t)] = "push" /\ seen[Scheduled(t)] # made

LateAlert == Pending => \A t \in Tab : Late(t) => Alert(t)

Inv == TypeOK /\ GatesFit /\ LateAlert /\ Awake
-------------------------------------------------------------------------------
(* The runs there are: two for each tab. *)
LEMMA Workers ==
  /\ \A t \in Tab : Scheduled(t) \in Worker /\ ByHand(t) \in Worker
  /\ \A t, u \in Tab : Scheduled(t) # ByHand(u)
  /\ \A w \in Worker : \E t \in Tab : w = Scheduled(t) \/ w = ByHand(t)
  /\ \A t, u \in Tab : Scheduled(t) = Scheduled(u) => t = u
  BY DEF Scheduled, ByHand, Worker

(* Init satisfies the invariant. *)
LEMMA InitInv == Init => Inv
  BY Workers DEF Init, Inv, TypeOK, GatesFit, LateAlert, Awake, Pending, Gates, Phases

-------------------------------------------------------------------------------
(* A request opens the gate or is remembered: either way the tab is awake.  *)
LEMMA RequestKeeps ==
  ASSUME Inv, NEW t \in Tab, RequestRun(t), open' = open \cup {t},
         UNCHANGED <<mail, seen, made, pushed, excused, yielded, usable, outages>>,
         timer' = timer \ {t} \/ timer' = timer
  PROVE  Inv'
<1>1. phase \in [Worker -> Phases] /\ gate \in [Tab -> Gates] /\ Scheduled(t) \in Worker
  BY Workers DEF Inv, TypeOK
<1>2. phase[Scheduled(t)] = "none" => gate[t] = "idle"
  BY DEF Inv, GatesFit
<1>3. \/ /\ gate[t] = "idle" /\ phase[Scheduled(t)] = "none"
         /\ gate' = [gate EXCEPT ![t] = "running"]
         /\ phase' = [phase EXCEPT ![Scheduled(t)] = "online"]
      \/ /\ gate[t] # "idle" /\ phase[Scheduled(t)] # "none"
         /\ gate' = [gate EXCEPT ![t] = "again"] /\ phase' = phase
  BY <1>1 DEF RequestRun, Goes, Inv, GatesFit
<1>4. gate' \in [Tab -> Gates] /\ phase' \in [Worker -> Phases]
  BY <1>1, <1>3 DEF Gates, Phases
<1>5. TypeOK'
  BY <1>4 DEF Inv, TypeOK
<1>6. \A u \in Tab \ {t} : gate'[u] = gate[u] /\ phase'[Scheduled(u)] = phase[Scheduled(u)]
  <2>1. \A u \in Tab \ {t} : Scheduled(u) \in Worker /\ Scheduled(t) # Scheduled(u)
    BY Workers
  <2> QED BY <1>1, <1>3, <2>1
<1>7. gate'[t] = "again" \/ phase'[Scheduled(t)] = "online"
  BY <1>1, <1>3
<1>8. gate'[t] # "idle" /\ phase'[Scheduled(t)] \notin {"none", "waits"}
  BY <1>1, <1>3 DEF Inv, GatesFit
<1>9. GatesFit'
  <2> SUFFICES ASSUME NEW u \in Tab
               PROVE  /\ gate'[u] = "idle" <=> phase'[Scheduled(u)] = "none"
                      /\ phase'[Scheduled(u)] # "none" => u \in open'
                      /\ phase'[Scheduled(u)] # "waits"
    BY DEF GatesFit, Scheduled
  <2> QED BY <1>6, <1>8 DEF Inv, GatesFit
<1>10. LateAlert'
  BY <1>6, <1>7 DEF Inv, LateAlert, Late, Pending, Alert, Scheduled
<1>11. Awake'
  BY <1>7 DEF Awake, Alert, TakesAlong
<1> QED BY <1>5, <1>9, <1>10, <1>11 DEF Inv

(* A run that ends leaves the tab as it was, or goes around again.          *)
LEMMA FinishKeeps ==
  ASSUME Inv, NEW t \in Tab, Finish(Scheduled(t)), phase[Scheduled(t)] # "none",
         UNCHANGED <<open, mail, timer, seen, made, pushed>>,
         usable' \in BOOLEAN, outages' \in Nat,
         excused' \in {excused, made}, yielded' \in {yielded, made},
         Pending' => \/ Alert(t)
                     \/ \E u \in Tab \ {t} : Alert(u) \/ TakesAlong(Scheduled(u))
  PROVE  Inv'
<1>1. phase \in [Worker -> Phases] /\ gate \in [Tab -> Gates] /\ Scheduled(t) \in Worker
  BY Workers DEF Inv, TypeOK
<1>2. Scheduled(t)[1] = t /\ Scheduled(t)[2] = "auto"
  BY DEF Scheduled
<1>3. \/ /\ gate[t] = "again"
         /\ gate' = [gate EXCEPT ![t] = "running"]
         /\ phase' = [phase EXCEPT ![Scheduled(t)] = "online"]
      \/ /\ gate[t] # "again"
         /\ gate' = [gate EXCEPT ![t] = "idle"]
         /\ phase' = [phase EXCEPT ![Scheduled(t)] = "none"]
  BY <1>2 DEF Finish, Goes
<1>4. gate' \in [Tab -> Gates] /\ phase' \in [Worker -> Phases]
  BY <1>1, <1>3 DEF Gates, Phases
<1>5. TypeOK'
  BY <1>4 DEF Inv, TypeOK
<1>6. \A u \in Tab \ {t} : gate'[u] = gate[u] /\ phase'[Scheduled(u)] = phase[Scheduled(u)]
  <2>1. \A u \in Tab \ {t} : Scheduled(u) \in Worker /\ Scheduled(t) # Scheduled(u)
    BY Workers
  <2> QED BY <1>1, <1>3, <2>1
<1>7. \/ gate'[t] = "running" /\ phase'[Scheduled(t)] = "online" /\ gate[t] = "again"
      \/ gate'[t] = "idle" /\ phase'[Scheduled(t)] = "none" /\ gate[t] # "again"
  BY <1>1, <1>3
<1>8. GatesFit'
  <2> SUFFICES ASSUME NEW u \in Tab
               PROVE  /\ gate'[u] = "idle" <=> phase'[Scheduled(u)] = "none"
                      /\ phase'[Scheduled(u)] # "none" => u \in open'
                      /\ phase'[Scheduled(u)] # "waits"
    BY DEF GatesFit, Scheduled
  <2>1. CASE u = t
    BY <1>6, <1>7, <2>1 DEF Inv, GatesFit
  <2>2. CASE u # t
    BY <1>6, <2>2 DEF Inv, GatesFit
  <2> QED BY <2>1, <2>2
<1>9. Pending' => Pending
  BY DEF Pending, Inv, TypeOK
<1>10. LateAlert'
  <2> SUFFICES ASSUME Pending', NEW u \in Tab, Late(u)' PROVE Alert(u)'
    BY DEF LateAlert
  <2>1. u # t
    BY <1>7 DEF Late
  <2>2. Late(u)
    BY <1>6, <2>1 DEF Late
  <2> QED BY <1>6, <1>9, <2>1, <2>2 DEF Inv, LateAlert, Alert
<1>11. Awake'
  <2> SUFFICES ASSUME Pending'
               PROVE  \E u \in Tab : Alert(u)' \/ TakesAlong(Scheduled(u))'
    BY DEF Awake
  <2>1. CASE Alert(t)
    BY <1>7, <2>1 DEF Alert, TakesAlong
  <2>2. CASE \E u \in Tab \ {t} : Alert(u) \/ TakesAlong(Scheduled(u))
    BY <1>6, <2>2 DEF Alert, TakesAlong
  <2> QED BY <2>1, <2>2
<1> QED BY <1>5, <1>8, <1>10, <1>11 DEF Inv

(* A run that goes on from one of its steps to another.                     *)
LEMMA GoesKeeps ==
  ASSUME Inv, NEW t \in Tab, NEW to \in Phases \ {"none", "waits"},
         phase[Scheduled(t)] # "none", Goes(Scheduled(t), to),
         UNCHANGED <<open, mail, timer, gate, made, excused, yielded, usable, outages>>,
         seen' \in [Worker -> Nat], \A w \in Worker : w # Scheduled(t) => seen'[w] = seen[w],
         pushed' \in Nat, pushed' >= pushed,
         Pending' => TakesAlong(Scheduled(t))' \/ Alert(t),
         Pending' /\ Late(t)' => Alert(t)
  PROVE  Inv'
<1>1. phase \in [Worker -> Phases] /\ Scheduled(t) \in Worker
  BY Workers DEF Inv, TypeOK
<1>2. phase' = [phase EXCEPT ![Scheduled(t)] = to]
  BY DEF Goes
<1>3. TypeOK'
  BY <1>1, <1>2 DEF Inv, TypeOK
<1>4. /\ \A u \in Tab \ {t} : /\ phase'[Scheduled(u)] = phase[Scheduled(u)]
                              /\ seen'[Scheduled(u)] = seen[Scheduled(u)]
      /\ phase'[Scheduled(t)] = to
  <2>1. \A u \in Tab \ {t} : Scheduled(u) \in Worker /\ Scheduled(t) # Scheduled(u)
    BY Workers
  <2> QED BY <1>1, <1>2, <2>1
<1>5. GatesFit'
  <2> SUFFICES ASSUME NEW u \in Tab
               PROVE  /\ gate'[u] = "idle" <=> phase'[Scheduled(u)] = "none"
                      /\ phase'[Scheduled(u)] # "none" => u \in open'
                      /\ phase'[Scheduled(u)] # "waits"
    BY DEF GatesFit, Scheduled
  <2>1. CASE u = t
    BY <1>4, <2>1 DEF Inv, GatesFit
  <2>2. CASE u # t
    BY <1>4, <2>2 DEF Inv, GatesFit
  <2> QED BY <2>1, <2>2
<1>6. Pending' => Pending
  BY DEF Pending, Inv, TypeOK
<1>7. LateAlert'
  <2> SUFFICES ASSUME Pending', NEW u \in Tab, Late(u)' PROVE Alert(u)'
    BY DEF LateAlert
  <2>1. CASE u = t
    BY <2>1 DEF Alert
  <2>2. CASE u # t
    BY <1>4, <1>6, <2>2 DEF Inv, LateAlert, Late, Alert
  <2> QED BY <2>1, <2>2
<1>8. Awake'
  <2>1. Pending' => TakesAlong(Scheduled(t))' \/ Alert(t)'
    BY DEF Alert
  <2> QED BY <2>1 DEF Awake
<1> QED BY <1>3, <1>5, <1>7, <1>8 DEF Inv
-------------------------------------------------------------------------------
(* A change is announced to every open tab, late or not.                    *)
LEMMA ChangeKeeps ==
  ASSUME Inv, NEW t \in Tab, Change(t)
  PROVE  Inv'
<1>1. \A u \in open : Alert(u)'
  BY DEF Change, Announced, Alert
<1>2. TypeOK' /\ GatesFit'
  BY DEF Change, Announced, Inv, TypeOK, GatesFit, Scheduled
<1>3. LateAlert'
  BY <1>1 DEF Change, LateAlert, Late, Inv, GatesFit, Scheduled
<1>4. Awake'
  BY <1>1 DEF Change, Awake, Inv, TypeOK
<1> QED BY <1>2, <1>3, <1>4 DEF Inv

(* Hearing of it starts the pause before the request.                       *)
LEMMA HearKeeps ==
  ASSUME Inv, NEW t \in Tab, Hear(t)
  PROVE  Inv'
<1>1. \A u \in Tab : Alert(u) => Alert(u)'
  BY DEF Hear, Alert
<1>2. TypeOK' /\ GatesFit'
  BY DEF Hear, Inv, TypeOK, GatesFit, Scheduled
<1>3. LateAlert'
  BY <1>1 DEF Hear, LateAlert, Late, Pending, Inv, Scheduled
<1>4. Awake'
  BY <1>1 DEF Hear, Awake, TakesAlong, Pending, Inv, Scheduled
<1> QED BY <1>2, <1>3, <1>4 DEF Inv

(* Closing a tab gives up on what is not pushed.                            *)
LEMMA CloseKeeps ==
  ASSUME Inv, NEW t \in Tab, Close(t)
  PROVE  Inv'
<1>1. ~Pending'
  BY DEF Close, Pending, Inv, TypeOK
<1>2. /\ gate' = [gate EXCEPT ![t] = "idle"]
      /\ phase' = [w \in Worker |-> IF w[1] = t THEN "none" ELSE phase[w]]
      /\ open' = open \ {t} /\ mail' = mail \ {t} /\ timer' = timer \ {t}
      /\ UNCHANGED <<seen, made, pushed, yielded, usable, outages>> /\ excused' = made
  BY DEF Close
<1>3. phase' \in [Worker -> Phases] /\ gate' \in [Tab -> Gates]
  BY <1>2 DEF Inv, TypeOK, Phases, Gates
<1>4. TypeOK'
  BY <1>2, <1>3 DEF Inv, TypeOK
<1>5. \A u \in Tab : phase'[Scheduled(u)] = IF u = t THEN "none" ELSE phase[Scheduled(u)]
  BY <1>2, Workers DEF Scheduled
<1>6. GatesFit'
  <2> SUFFICES ASSUME NEW u \in Tab
               PROVE  /\ gate'[u] = "idle" <=> phase'[Scheduled(u)] = "none"
                      /\ phase'[Scheduled(u)] # "none" => u \in open'
                      /\ phase'[Scheduled(u)] # "waits"
    BY DEF GatesFit, Scheduled
  <2>1. CASE u = t
    <3>1. gate'[u] = "idle"
      BY <1>2, <2>1 DEF Inv, TypeOK
    <3>2. phase'[Scheduled(u)] = "none"
      BY <1>5, <2>1
    <3> QED BY <3>1, <3>2
  <2>2. CASE u # t
    BY <1>2, <1>5, <2>2 DEF Inv, TypeOK, GatesFit
  <2> QED BY <2>1, <2>2
<1> QED BY <1>1, <1>4, <1>6 DEF Inv, LateAlert, Awake

(* Requests: at the start of a tab, when it is shown and after the pause.   *)
LEMMA RequestsKeep ==
  ASSUME Inv, NEW t \in Tab, Start(t) \/ Shown(t) \/ TimerFires(t)
  PROVE  Inv'
<1>1. t \in open => open = open \cup {t}
  OBVIOUS
<1>2. timer \subseteq open
  BY DEF Inv, TypeOK
<1> QED BY <1>1, <1>2, RequestKeeps DEF Start, Shown, TimerFires

(* CheckUsable: a run that goes no further gives up on what is not pushed.  *)
LEMMA CheckKeeps ==
  ASSUME Inv, NEW t \in Tab, CheckUsable(t)
  PROVE  Inv'
<1>1. CASE usable
  <2>1. Goes(Scheduled(t), "lock")
    BY <1>1 DEF CheckUsable
  <2>2. phase'[Scheduled(t)] = "lock"
    BY <2>1, Workers DEF Goes, Inv, TypeOK
  <2>3. /\ TakesAlong(Scheduled(t))' /\ ~Late(t)' /\ "lock" \in Phases \ {"none", "waits"}
    BY <2>2 DEF TakesAlong, Late, Phases
  <2> QED BY <1>1, <2>1, <2>3, GoesKeeps DEF CheckUsable, Inv, TypeOK
<1>2. CASE ~usable
  <2>1. ~Pending'
    BY <1>2 DEF CheckUsable, Pending, Inv, TypeOK
  <2> QED BY <1>2, <2>1, FinishKeeps DEF CheckUsable, Inv, TypeOK
<1> QED BY <1>1, <1>2

(* TryLock: the run of another tab that has the lock takes the change along *)
(* or is late, and the late are alert.                                      *)
LEMMA TryLockKeeps ==
  ASSUME Inv, NEW t \in Tab, TryLock(t)
  PROVE  Inv'
<1>1. CASE Busy /\ ForScheduled
  <2>1. PICK u \in Tab : Holds(Scheduled(u))
    BY <1>1 DEF ForScheduled
  <2>2. u # t
    BY <2>1 DEF TryLock, Holds
  <2>3. TakesAlong(Scheduled(u)) \/ Late(u)
    BY <2>1 DEF Holds, TakesAlong, Late
  <2>4. Pending => \E v \in Tab \ {t} : Alert(v) \/ TakesAlong(Scheduled(v))
    BY <2>2, <2>3 DEF Inv, LateAlert
  <2>5. yielded' = yielded
    BY <1>1 DEF TryLock
  <2>6. Pending' => Pending
    BY <2>5 DEF TryLock, Pending
  <2> QED BY <1>1, <2>4, <2>5, <2>6, FinishKeeps DEF TryLock, Inv, TypeOK
<1>2. CASE Busy /\ ~ForScheduled
  <2>1. yielded' = made
    BY <1>2 DEF TryLock
  <2>2. ~Pending'
    BY <2>1 DEF TryLock, Pending, Inv, TypeOK
  <2> QED BY <1>2, <2>1, <2>2, FinishKeeps DEF TryLock, Inv, TypeOK
<1>3. CASE ~Busy
  <2>1. Goes(Scheduled(t), "read")
    BY <1>3 DEF TryLock
  <2>2. phase'[Scheduled(t)] = "read"
    BY <2>1, Workers DEF Goes, Inv, TypeOK
  <2>3. /\ TakesAlong(Scheduled(t))' /\ ~Late(t)' /\ "read" \in Phases \ {"none", "waits"}
    BY <2>2 DEF TakesAlong, Late, Phases
  <2>4. yielded' = yielded
    BY <1>3 DEF TryLock
  <2> QED BY <1>3, <2>1, <2>3, <2>4, GoesKeeps DEF TryLock, Inv, TypeOK
<1> QED BY <1>1, <1>2, <1>3

(* ReadOutbox: from here on the run takes along what was written so far.    *)
LEMMA ReadKeeps ==
  ASSUME Inv, NEW t \in Tab, ReadOutbox(Scheduled(t))
  PROVE  Inv'
<1>1. Scheduled(t) \in Worker /\ seen \in [Worker -> Nat] /\ made \in Nat
  BY Workers DEF Inv, TypeOK
<1>2. seen' = [seen EXCEPT ![Scheduled(t)] = made] /\ made' = made
  BY DEF ReadOutbox
<1>3. phase'[Scheduled(t)] = "push"
  BY <1>1 DEF ReadOutbox, Goes, Inv, TypeOK
<1>4. seen' \in [Worker -> Nat] /\ \A w \in Worker : w # Scheduled(t) => seen'[w] = seen[w]
  BY <1>1, <1>2
<1>5. seen'[Scheduled(t)] = made'
  BY <1>1, <1>2
<1>6. TakesAlong(Scheduled(t))' /\ ~Late(t)' /\ "push" \in Phases \ {"none", "waits"}
  BY <1>3, <1>5 DEF TakesAlong, Late, Phases
<1> QED BY <1>4, <1>6, GoesKeeps DEF ReadOutbox, Inv, TypeOK

(* Push: what the run took along is on the server.                          *)
LEMMA PushKeeps ==
  ASSUME Inv, NEW t \in Tab, Push(Scheduled(t))
  PROVE  Inv'
<1>1. Scheduled(t) \in Worker /\ seen[Scheduled(t)] \in Nat /\ pushed \in Nat /\ made \in Nat
  BY Workers DEF Inv, TypeOK
<1>2. /\ pushed' = (IF seen[Scheduled(t)] > pushed THEN seen[Scheduled(t)] ELSE pushed)
      /\ UNCHANGED <<made, excused, yielded>>
  BY DEF Push
<1>3. pushed' \in Nat /\ pushed' >= pushed
  BY <1>1, <1>2
<1>4. Pending' => Alert(t)
  <2>1. CASE seen[Scheduled(t)] = made
    BY <1>1, <1>2, <2>1 DEF Pending
  <2>2. CASE seen[Scheduled(t)] # made
    <3>1. Late(t)
      BY <2>2 DEF Push, Late
    <3>2. Pending' => Pending
      BY <1>1, <1>2, <1>3 DEF Pending
    <3> QED BY <3>1, <3>2 DEF Inv, LateAlert
  <2> QED BY <2>1, <2>2
<1>5. "rest" \in Phases \ {"none", "waits"}
  BY DEF Phases
<1> QED BY <1>3, <1>4, <1>5, GoesKeeps DEF Push, Inv, TypeOK

(* EndRun and Fail: a run that ends late is in a tab that goes around again *)
(* or is about to, and one that fails gives up on what is not pushed.       *)
LEMMA EndKeeps ==
  ASSUME Inv, NEW t \in Tab, EndRun(Scheduled(t)) \/ Fail(Scheduled(t))
  PROVE  Inv'
<1>1. CASE EndRun(Scheduled(t))
  <2>1. Pending' => Pending /\ Late(t)
    BY <1>1 DEF EndRun, Pending, Late
  <2> QED BY <1>1, <2>1, FinishKeeps DEF EndRun, Inv, TypeOK, LateAlert
<1>2. CASE Fail(Scheduled(t))
  <2>1. ~Pending'
    BY <1>2 DEF Fail, Pending, Inv, TypeOK
  <2> QED BY <1>2, <2>1, FinishKeeps DEF Fail, Holds, Inv, TypeOK
<1> QED BY <1>1, <1>2

(* What the user runs by hand leaves every scheduled run and gate alone: it *)
(* pushes, or it fails and gives up on what is not pushed.                  *)
LEMMA ByHandKeeps ==
  ASSUME Inv, NEW t \in Tab,
         Ask(t) \/ Granted(t) \/ RunStep(ByHand(t)) \/ Fail(ByHand(t))
  PROVE  Inv'
<1>1. ByHand(t) \in Worker /\ ByHand(t)[2] = "user"
  BY Workers DEF ByHand
<1>2. /\ \E to \in Phases : Goes(ByHand(t), to)
      /\ seen' = seen \/ seen' = [seen EXCEPT ![ByHand(t)] = made]
      /\ UNCHANGED <<open, mail, timer, gate, made, yielded, usable>>
  BY <1>1 DEF Ask, Granted, RunStep, ReadOutbox, Push, EndRun, Fail, Finish, Phases
<1>3. pushed' \in Nat /\ pushed' >= pushed
  BY <1>1 DEF Ask, Granted, RunStep, ReadOutbox, Push, EndRun, Fail, Inv, TypeOK
<1>4. excused' \in {excused, made} /\ outages' \in Nat
  BY DEF Ask, Granted, RunStep, ReadOutbox, Push, EndRun, Fail, Inv, TypeOK
<1>5. phase' \in [Worker -> Phases] /\ seen' \in [Worker -> Nat]
  BY <1>1, <1>2 DEF Goes, Inv, TypeOK
<1>6. \A u \in Tab : /\ phase'[Scheduled(u)] = phase[Scheduled(u)]
                     /\ seen'[Scheduled(u)] = seen[Scheduled(u)]
  <2>1. \A u \in Tab : Scheduled(u) \in Worker /\ Scheduled(u) # ByHand(t)
    BY Workers
  <2> QED BY <1>2, <2>1 DEF Goes, Inv, TypeOK
<1>7. TypeOK'
  BY <1>2, <1>3, <1>4, <1>5 DEF Inv, TypeOK
<1>8. GatesFit'
  BY <1>2, <1>6 DEF Inv, GatesFit, Scheduled
<1>9. Pending' => Pending
  BY <1>2, <1>3, <1>4 DEF Pending, Inv, TypeOK
<1>10. \A u \in Tab : (Alert(u)' <=> Alert(u)) /\ (Late(u)' <=> Late(u))
  BY <1>2, <1>6 DEF Alert, Late, Scheduled
<1>11. \A u \in Tab : TakesAlong(Scheduled(u))' <=> TakesAlong(Scheduled(u))
  BY <1>2, <1>6 DEF TakesAlong, Scheduled
<1>12. LateAlert' /\ Awake'
  BY <1>9, <1>10, <1>11 DEF Inv, LateAlert, Awake
<1> QED BY <1>7, <1>8, <1>12 DEF Inv

(* The network or the connection comes and goes.                            *)
LEMMA UsableKeeps ==
  ASSUME Inv, Lose \/ Regain
  PROVE  Inv'
<1>1. UNCHANGED <<open, mail, timer, gate, phase, seen, made, pushed, excused, yielded>>
  BY DEF Lose, Regain
<1>2. usable' \in BOOLEAN /\ outages' \in Nat
  <2>1. (usable' = TRUE \/ usable' = FALSE) /\ (outages' = outages \/ outages' = outages + 1)
    BY DEF Lose, Regain
  <2>2. outages \in Nat
    BY DEF Inv, TypeOK
  <2>3. usable' \in BOOLEAN
    BY <2>1
  <2>4. outages' \in Nat
    BY <2>1, <2>2
  <2> QED BY <2>3, <2>4
<1>3. TypeOK'
  BY <1>1, <1>2 DEF Inv, TypeOK
<1>4. GatesFit'
  BY <1>1 DEF Inv, GatesFit, Scheduled
<1>5. LateAlert' /\ Awake'
  BY <1>1 DEF Inv, LateAlert, Late, Awake, Pending, Alert, TakesAlong, Scheduled
<1> QED BY <1>3, <1>4, <1>5 DEF Inv

(* Every step keeps the invariant. *)
LEMMA NextKeeps ==
  ASSUME Inv, [Next]_vars
  PROVE  Inv'
<1>1. CASE UNCHANGED vars
  BY <1>1 DEF vars, Inv, TypeOK, GatesFit, LateAlert, Late, Awake, Pending, Alert,
     TakesAlong, Scheduled
<1>2. CASE Lose \/ Regain
  BY <1>2, UsableKeeps
<1>3. CASE \E w \in Worker : Fail(w)
  BY <1>3, Workers, EndKeeps, ByHandKeeps
<1>4. ASSUME NEW t \in Tab, Start(t) \/ Shown(t) \/ Change(t) \/ Close(t) \/ Ask(t)
      PROVE  Inv'
  BY <1>4, RequestsKeep, ChangeKeeps, CloseKeeps, ByHandKeeps
<1>5. ASSUME NEW t \in Tab, TabStep(t)
      PROVE  Inv'
  BY <1>5, HearKeeps, RequestsKeep, CheckKeeps, TryLockKeeps, ReadKeeps, PushKeeps,
     EndKeeps, ByHandKeeps DEF TabStep, RunStep
<1> QED BY <1>1, <1>2, <1>3, <1>4, <1>5 DEF Next

(* In any number of tabs no change waits for a push that nobody has in      *)
(* mind, unless a run gave up on it or left the lock to the user.           *)
THEOREM NoWakeUpLost == Spec => []Awake
<1>1. Inv /\ [Next]_vars => Inv'
  BY NextKeeps
<1>2. Inv => Awake
  BY DEF Inv
<1> QED BY <1>1, <1>2, InitInv, PTL DEF Spec

(* Every variable has its type; only open tabs hear, pause and request. *)
THEOREM SchedulerTyped == Spec => []TypeOK
<1>1. Inv /\ [Next]_vars => Inv'
  BY NextKeeps
<1>2. Inv => TypeOK
  BY DEF Inv
<1> QED BY <1>1, <1>2, InitInv, PTL DEF Spec
-------------------------------------------------------------------------------
(* A step that lets no run take the lock keeps them apart, and so does one  *)
(* that gives it to a single run while it is free.                          *)
LEMMA NoneTakes ==
  ASSUME OneRun, \A w \in Worker : Holds(w)' => Holds(w)
  PROVE  OneRun'
  BY DEF OneRun

LEMMA OneTakes ==
  ASSUME Free, NEW w \in Worker, NEW to \in Phases, Goes(w, to), TypeOK
  PROVE  OneRun'
<1>1. \A v \in Worker \ {w} : phase'[v] = phase[v]
  BY DEF Goes, TypeOK
<1>2. \A v \in Worker \ {w} : ~Holds(v)'
  BY <1>1 DEF Free, Holds
<1> QED BY <1>2 DEF OneRun

(* A run that moves within the lock, or out of it, takes nothing.           *)
LEMMA MovesOn ==
  ASSUME TypeOK, NEW w \in Worker, NEW to \in Phases, Goes(w, to),
         Holds(w) \/ to \notin {"read", "push", "rest"}
  PROVE  \A v \in Worker : Holds(v)' => Holds(v)
<1>1. \A v \in Worker : phase'[v] = IF v = w THEN to ELSE phase[v]
  BY DEF Goes, TypeOK
<1> QED BY <1>1 DEF Holds

(* Every step keeps the runs apart: the two ways to the lock find it free.  *)
LEMMA NextOneRun ==
  ASSUME TypeOK, OneRun, [Next]_vars
  PROVE  OneRun'
<1>1. CASE phase' = phase
  BY <1>1, NoneTakes DEF Holds
<1>2. ASSUME NEW w \in Worker, Finish(w)
      PROVE  OneRun'
  <2>1. Goes(w, "online") \/ Goes(w, "none")
    BY <1>2 DEF Finish
  <2> QED BY <2>1, MovesOn, NoneTakes DEF Phases
<1>3. ASSUME NEW t \in Tab, RequestRun(t) \/ Ask(t)
      PROVE  OneRun'
  <2>1. phase' = phase \/ Goes(Scheduled(t), "online") \/ Goes(ByHand(t), "waits")
    BY <1>3 DEF RequestRun, Ask
  <2> QED BY <2>1, <1>1, MovesOn, NoneTakes, Workers DEF Phases
<1>4. ASSUME NEW t \in Tab, Close(t)
      PROVE  OneRun'
  <2>1. \A w \in Worker : phase'[w] = IF w[1] = t THEN "none" ELSE phase[w]
    BY <1>4 DEF Close
  <2> QED BY <2>1, NoneTakes DEF Holds
<1>5. ASSUME NEW t \in Tab, CheckUsable(t)
      PROVE  OneRun'
  BY <1>2, <1>5, MovesOn, NoneTakes, Workers DEF CheckUsable, Phases
<1>6. ASSUME NEW t \in Tab, TryLock(t)
      PROVE  OneRun'
  <2>1. CASE Busy
    BY <1>2, <1>6, <2>1, Workers DEF TryLock
  <2>2. CASE ~Busy
    BY <1>6, <2>2, OneTakes, Workers DEF TryLock, Busy, Phases
  <2> QED BY <2>1, <2>2
<1>7. ASSUME NEW t \in Tab, Granted(t)
      PROVE  OneRun'
  BY <1>7, OneTakes, Workers DEF Granted, Phases
<1>8. ASSUME NEW w \in Worker, RunStep(w) \/ Fail(w)
      PROVE  OneRun'
  <2>1. CASE ReadOutbox(w)
    BY <2>1, MovesOn, NoneTakes DEF ReadOutbox, Holds, Phases
  <2>2. CASE Push(w)
    BY <2>2, MovesOn, NoneTakes DEF Push, Holds, Phases
  <2>3. CASE EndRun(w) \/ Fail(w)
    BY <1>2, <2>3 DEF EndRun, Fail
  <2> QED BY <1>8, <2>1, <2>2, <2>3 DEF RunStep
<1>9. CASE Next
  <2>1. ASSUME NEW t \in Tab, TabStep(t)
        PROVE  OneRun'
    BY <2>1, <1>1, <1>3, <1>5, <1>6, <1>7, <1>8, Workers DEF TabStep, Hear, TimerFires
  <2>2. ASSUME NEW t \in Tab, Start(t) \/ Shown(t) \/ Change(t) \/ Close(t) \/ Ask(t)
        PROVE  OneRun'
    BY <2>2, <1>1, <1>3, <1>4 DEF Start, Shown, Change
  <2>3. CASE Lose \/ Regain
    BY <2>3, <1>1 DEF Lose, Regain
  <2> QED BY <1>8, <1>9, <2>1, <2>2, <2>3 DEF Next
<1> QED BY <1>1, <1>9 DEF vars

(* In any number of tabs one sync run at a time goes on, whether the        *)
(* scheduler or the user asked for it.                                      *)
THEOREM OneRunAtATime == Spec => []OneRun
<1>1. Init => OneRun
  BY DEF Init, OneRun, Holds
<1>2. TypeOK /\ OneRun /\ [Next]_vars => OneRun'
  BY NextOneRun
<1> QED BY <1>1, <1>2, SchedulerTyped, PTL DEF Spec
===============================================================================
