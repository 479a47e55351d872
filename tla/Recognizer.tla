------------------------------ MODULE Recognizer ------------------------------
(***************************************************************************)
(* The recognizer of one language: the page's side, which opens a worker   *)
(* when it is first needed, numbers the requests it sends it and settles   *)
(* them by number, and the worker's side, which opens the model and falls  *)
(* back from the GPU to the CPU when the first run there fails or is late. *)
(*                                                                         *)
(* An opening is one run of begin(), and the worker it starts has its      *)
(* number.  On the page, whatever waits for a promise that is settled      *)
(* (Resume) goes on before the next event: a setup that was read, a        *)
(* message or an error of a worker.  A caller may come at any time.        *)
(* Source: recognition/adapters/engine/worker-recognizer.ts,               *)
(* workers/ocr.worker.ts, workers/device-fallback.ts.                      *)
(***************************************************************************)
EXTENDS Naturals, FiniteSets

CONSTANTS
  Call,         \* calls of prepare and recognize, each with its image
  None,
  MaxOpenings,  \* bound: how often a worker is opened
  MaxCancels,   \* bound: how often the load is cancelled
  MaxFaults     \* bound: how many workers report an error

ASSUME RecognizerAssumption ==
  /\ None \notin Call \cup {"prepare", "read", "setup"}
  /\ MaxOpenings \in Nat /\ MaxCancels \in Nat /\ MaxFaults \in Nat

VARIABLES
  kind,      \* what a call asks for
  awaits,    \* the opening a call waits for, or 0
  answer,    \* what it was answered
  begun,     \* how many openings began
  opening,   \* how far each got, or what it came to
  starting,  \* the opening that callers are handed, or 0
  settling,  \* the opening that a worker's reply settles (settleOpening), or 0
  worker,    \* the worker that requests are sent to, or 0
  lastId,    \* the last number given
  pending,   \* the requests that wait for a reply: <<number, call>>
  running,   \* the workers that run
  session,   \* the session of each worker
  proven,    \* those whose GPU has run once
  requests,  \* what the workers were sent and have not replied to
  overtaken, \* history: openings that were forgotten while they read the setup
  cancels, faults

page == <<kind, awaits, answer, begun, opening, starting, settling, worker, lastId, pending>>
workers == <<running, session, proven, requests>>
vars == <<page, workers, overtaken, cancels, faults>>

Openings == 1..MaxOpenings
Results == {"success", "unavailable", "cancelled", "unset", "threw"}

Init ==
  /\ kind = [c \in Call |-> None] /\ answer = [c \in Call |-> None]
  /\ awaits = [c \in Call |-> 0]
  /\ begun = 0 /\ opening = [k \in Openings |-> None]
  /\ starting = 0 /\ settling = 0 /\ worker = 0 /\ lastId = 0 /\ pending = {}
  /\ running = {} /\ session = [k \in Openings |-> "none"] /\ proven = {} /\ requests = {}
  /\ overtaken = {} /\ cancels = 0 /\ faults = 0
-------------------------------------------------------------------------------
(* The page. *)

Settled(k) == opening[k] \in Results
Resumable == \E c \in Call : awaits[c] # 0 /\ Settled(awaits[c])

Ask(c, what) ==
  /\ kind[c] = None
  /\ kind' = [kind EXCEPT ![c] = what]
  /\ IF starting # 0
     THEN /\ awaits' = [awaits EXCEPT ![c] = starting]
          /\ UNCHANGED <<begun, opening, starting>>
     ELSE /\ begun < MaxOpenings /\ begun' = begun + 1
          /\ starting' = begun' /\ awaits' = [awaits EXCEPT ![c] = begun']
          /\ opening' = [opening EXCEPT ![begun'] = "setup"]
  /\ UNCHANGED <<answer, settling, worker, lastId, pending, workers,
                 overtaken, cancels, faults>>

\* Mutant: a request has the number of the one before.
TakesNumberNot == UNCHANGED lastId

TakesNumber == lastId' = lastId + 1

(* No model is set up, or reading the setup failed. *)
NoSetup(k, result) ==
  /\ ~Resumable /\ opening[k] = "setup"
  /\ opening' = [opening EXCEPT ![k] = result]
  /\ UNCHANGED <<kind, awaits, answer, begun, starting, settling, worker, lastId, pending,
                 workers, overtaken, cancels, faults>>

CannotStart(k) ==
  /\ ~Resumable /\ opening[k] = "setup"
  /\ opening' = [opening EXCEPT ![k] = "unavailable"]
  /\ starting' = 0
  /\ UNCHANGED <<kind, awaits, answer, begun, settling, worker, lastId, pending,
                 workers, overtaken, cancels, faults>>

Start(k) ==
  /\ ~Resumable /\ opening[k] = "setup"
  /\ opening' = [opening EXCEPT ![k] = "waiting"]
  /\ worker' = k /\ settling' = k /\ TakesNumber
  /\ running' = running \cup {k} /\ session' = [session EXCEPT ![k] = "opening"]
  /\ UNCHANGED <<kind, awaits, answer, begun, starting, pending, proven, requests,
                 overtaken, cancels, faults>>

(* A call goes on with what its opening came to.  A read is sent to the     *)
(* worker there is by then.                                                 *)
Resume(c) ==
  LET k == awaits[c]
      answered(a) == /\ answer' = [answer EXCEPT ![c] = a]
                     /\ UNCHANGED <<lastId, pending, requests>>
  IN  /\ k # 0 /\ Settled(k)
      /\ awaits' = [awaits EXCEPT ![c] = 0]
      /\ \/ opening[k] = "threw" /\ answered("threw")
         \/ /\ opening[k] = "success" /\ kind[c] = "prepare"
            /\ answered("session")
         \/ /\ opening[k] \notin {"success", "threw"}
            /\ answered(IF opening[k] = "cancelled" /\ kind[c] = "prepare"
                        THEN "cancelled" ELSE "unavailable")
         \/ /\ opening[k] = "success" /\ kind[c] = "read" /\ worker = 0
            /\ answered("unavailable")
         \/ /\ opening[k] = "success" /\ kind[c] = "read" /\ worker # 0
            /\ \/ answered("failed")
               \/ /\ TakesNumber /\ pending' = pending \cup {<<lastId', c>>}
                  /\ requests' = requests \cup
                       {[on |-> worker, id |-> lastId', image |-> c, at |-> "sent"]}
                  /\ UNCHANGED answer
      /\ UNCHANGED <<kind, begun, opening, starting, settling, worker,
                     running, session, proven, overtaken, cancels, faults>>

Reading == {k \in Openings : opening[k] = "setup"}

\* Mutant: the worker is dropped without being terminated.
ForgetsRunning(result, pendingToo) ==
  /\ opening' = IF settling = 0 THEN opening ELSE [opening EXCEPT ![settling] = result]
  /\ settling' = 0 /\ worker' = 0 /\ starting' = 0
  /\ overtaken' = overtaken \cup Reading
  /\ IF pendingToo
     THEN /\ answer' = [c \in Call |-> IF \E p \in pending : p[2] = c
                                       THEN "failed" ELSE answer[c]]
          /\ pending' = {}
     ELSE UNCHANGED <<answer, pending>>
  /\ UNCHANGED <<kind, awaits, begun, lastId, running, session, proven, requests>>

\* Mutant: the opening that failed is still handed out.
ForgetsNotStarting(result, pendingToo) ==
  /\ opening' = IF settling = 0 THEN opening ELSE [opening EXCEPT ![settling] = result]
  /\ settling' = 0 /\ worker' = 0 /\ UNCHANGED starting
  /\ running' = running \ {worker}
  /\ requests' = {r \in requests : r.on # worker}
  /\ overtaken' = overtaken \cup Reading
  /\ IF pendingToo
     THEN /\ answer' = [c \in Call |-> IF \E p \in pending : p[2] = c
                                       THEN "failed" ELSE answer[c]]
          /\ pending' = {}
     ELSE UNCHANGED <<answer, pending>>
  /\ UNCHANGED <<kind, awaits, begun, lastId, session, proven>>

\* Mutant: what waits for a reply of the worker is left to wait.
ForgetsNotPending(result, pendingToo) ==
  /\ opening' = IF settling = 0 THEN opening ELSE [opening EXCEPT ![settling] = result]
  /\ settling' = 0 /\ worker' = 0 /\ starting' = 0
  /\ running' = running \ {worker}
  /\ requests' = {r \in requests : r.on # worker}
  /\ overtaken' = overtaken \cup Reading
  /\ UNCHANGED <<kind, awaits, answer, begun, lastId, pending, session, proven>>

(* finishOpening with a failure, then forget. *)
Forgets(result, pendingToo) ==
  /\ opening' = IF settling = 0 THEN opening ELSE [opening EXCEPT ![settling] = result]
  /\ settling' = 0 /\ worker' = 0 /\ starting' = 0
  /\ running' = running \ {worker}
  /\ requests' = {r \in requests : r.on # worker}
  /\ overtaken' = overtaken \cup Reading
  /\ IF pendingToo
     THEN /\ answer' = [c \in Call |-> IF \E p \in pending : p[2] = c
                                       THEN "failed" ELSE answer[c]]
          /\ pending' = {}
     ELSE UNCHANGED <<answer, pending>>
  /\ UNCHANGED <<kind, awaits, begun, lastId, session, proven>>

Cancel ==
  /\ cancels < MaxCancels /\ cancels' = cancels + 1
  /\ Forgets("cancelled", TRUE)
  /\ UNCHANGED faults

(* An uncaught error of a worker, or a reply that cannot be read: whichever *)
(* worker it was, the one there is now is discarded.                        *)
Discard(w) ==
  /\ ~Resumable /\ w \in running
  /\ faults < MaxFaults /\ faults' = faults + 1
  /\ Forgets("unavailable", TRUE)
  /\ UNCHANGED cancels

(* A reply settles the request of its number, if it still waits. *)
Settles(id, a) ==
  /\ answer' = [c \in Call |-> IF <<id, c>> \in pending THEN a ELSE answer[c]]
  /\ pending' = {p \in pending : p[1] # id}
-------------------------------------------------------------------------------
(* The worker.  Its opening is the promise of a session: "none" before it   *)
(* was asked for and after it failed.                                       *)

history == <<overtaken, cancels, faults>>

Opened(w, device) ==
  /\ ~Resumable /\ w \in running /\ session[w] = "opening"
  /\ session' = [session EXCEPT ![w] = device]
  /\ IF settling = w
     THEN opening' = [opening EXCEPT ![w] = "success"] /\ settling' = 0
     ELSE UNCHANGED <<opening, settling>>
  /\ UNCHANGED <<kind, awaits, answer, begun, starting, worker, lastId, pending,
                 running, proven, requests, history>>

OpenFails(w) ==
  /\ ~Resumable /\ w \in running /\ session[w] = "opening"
  /\ IF settling = w
     THEN Forgets("unavailable", FALSE) /\ UNCHANGED <<cancels, faults>>
     ELSE /\ session' = [session EXCEPT ![w] = "none"]
          /\ UNCHANGED <<page, running, proven, requests, history>>

Moves(r, at) == requests' = (requests \ {r}) \cup {[r EXCEPT !.at = at]}

(* A request waits for the session there is when it arrives. *)
Arrive(r) ==
  LET s == session[r.on]
  IN  /\ r.at = "sent"
      /\ Moves(r, IF s = "none" THEN "unopened"
                  ELSE IF s \in {"opening", "reopening"} THEN "held"
                  ELSE IF s = "cpu" \/ r.on \in proven THEN "reading" ELSE "first")
      /\ UNCHANGED <<page, running, session, proven, history>>

Held(r) ==
  /\ r.at = "held" /\ session[r.on] \in {"gpu", "cpu"}
  /\ Moves(r, IF session[r.on] = "cpu" \/ r.on \in proven THEN "reading" ELSE "first")
  /\ UNCHANGED <<page, running, session, proven, history>>

(* The first run on the GPU fails or is late: the first request that finds  *)
(* it so reopens the model on the CPU, and others wait for that.            *)
FallBack(r) ==
  /\ r.at = "first"
  /\ IF session[r.on] = "cpu" THEN Moves(r, "reading") /\ UNCHANGED session
     ELSE Moves(r, "falling") /\ session' = [session EXCEPT ![r.on] = "reopening"]
  /\ UNCHANGED <<page, running, proven, history>>

(* What those that wait for the session there is do, and the one that fell *)
(* back, when the reopening comes to an end.                               *)
After(w, held, falling) ==
  requests' = {IF r.on = w /\ r.at = "held" THEN [r EXCEPT !.at = held]
               ELSE IF r.on = w /\ r.at = "falling" THEN [r EXCEPT !.at = falling]
               ELSE r : r \in requests}

(* The page takes no notice of the second "opened" of a worker. *)
Reopened(w) ==
  /\ w \in running /\ session[w] = "reopening"
  /\ session' = [session EXCEPT ![w] = "cpu"]
  /\ After(w, "reading", "reading")
  /\ UNCHANGED <<page, running, proven, history>>

\* Mutant: who waits for the CPU is not told that it cannot be opened.
ReopenFailsUntold(w) ==
  /\ w \in running /\ session[w] = "reopening"
  /\ session' = [session EXCEPT ![w] = "none"]
  /\ After(w, "unopened", "falling")
  /\ UNCHANGED <<page, running, proven, history>>

ReopenFails(w) ==
  /\ w \in running /\ session[w] = "reopening"
  /\ session' = [session EXCEPT ![w] = "none"]
  /\ After(w, "unopened", "unread")
  /\ UNCHANGED <<page, running, proven, history>>

Replies(r, a) ==
  /\ ~Resumable /\ Settles(r.id, a) /\ requests' = requests \ {r}
  /\ UNCHANGED <<kind, awaits, begun, opening, starting, settling, worker, lastId,
                 running, session, history>>

FirstRan(r) ==
  /\ r.at = "first" /\ Replies(r, r.image) /\ proven' = proven \cup {r.on}

Read(r) ==
  /\ r.at = "reading" /\ (Replies(r, r.image) \/ Replies(r, "failed"))
  /\ UNCHANGED proven

Unread(r) ==
  /\ \/ r.at = "unopened" /\ Replies(r, "unavailable")
     \/ r.at = "unread" /\ Replies(r, "failed")
  /\ UNCHANGED proven
-------------------------------------------------------------------------------
Begins(k) == NoSetup(k, "unset") \/ NoSetup(k, "threw") \/ CannotStart(k) \/ Start(k)
Opens(w) == \/ Opened(w, "gpu") \/ Opened(w, "cpu") \/ OpenFails(w)
            \/ Reopened(w) \/ ReopenFails(w)
Works(r) == Arrive(r) \/ Held(r) \/ FallBack(r) \/ Read(r) \/ Unread(r)

Next == \/ \E c \in Call : Ask(c, "prepare") \/ Ask(c, "read") \/ Resume(c)
        \/ Cancel
        \/ \E k \in Openings : Begins(k) \/ Opens(k) \/ Discard(k)
        \/ \E r \in requests : Works(r) \/ FirstRan(r)

Spec == Init /\ [][Next]_vars

(* What was asked of the database, of a worker or of a device comes back,   *)
(* and the deadline of a first run does.  A first run on the GPU need not.  *)
Numbers == 0..(Cardinality(Call) + MaxOpenings)
Fairness ==
  /\ \A c \in Call : WF_vars(Resume(c))
  /\ \A k \in Openings : WF_vars(Begins(k)) /\ WF_vars(Opens(k))
  /\ \A n \in Numbers : WF_vars(\E r \in requests : r.id = n /\ Works(r))
FairSpec == Spec /\ Fairness
-------------------------------------------------------------------------------
Stages == {"sent", "held", "unopened", "first", "falling", "unread", "reading"}

TypeOK ==
  /\ kind \in [Call -> {None, "prepare", "read"}]
  /\ awaits \in [Call -> 0..MaxOpenings]
  /\ answer \in [Call -> {None, "session", "unavailable", "cancelled", "failed", "threw"}
                          \cup Call]
  /\ begun \in 0..MaxOpenings
  /\ opening \in [Openings -> {None, "setup", "waiting"} \cup Results]
  /\ starting \in 0..MaxOpenings /\ settling \in 0..MaxOpenings /\ worker \in 0..MaxOpenings
  /\ lastId \in Nat
  /\ pending \subseteq Nat \X Call
  /\ running \subseteq Openings /\ proven \subseteq Openings
  /\ session \in [Openings -> {"none", "opening", "reopening", "gpu", "cpu"}]
  /\ requests \subseteq [on : Openings, id : Nat, image : Call, at : Stages]
  /\ overtaken \subseteq Openings
  /\ cancels \in 0..MaxCancels /\ faults \in 0..MaxFaults

(* Numbers, messages and workers are a way to answer each call once, a read *)
(* with the text of its own image: the recognizer implements Requests.      *)
Promise == INSTANCE Requests WITH Call <- Call, None <- None, kind <- kind, answer <- answer
KeepsPromise == Promise!Spec

(* A call that waits for a reply has a request with a worker that runs, so  *)
(* that a reply will come: whatever stops a worker answers its calls.  Only *)
(* one that was sent to an opening cancelled while it read the setup can be *)
(* forgotten, when that opening fails.                                      *)
PendingServed ==
  \A p \in pending :
    \/ \E r \in requests : r.id = p[1] /\ r.image = p[2] /\ r.on \in running
    \/ overtaken # {}

(* Workers, each with a model in memory, are not left running: there is one *)
(* beside the current one at most for each opening that was cancelled while *)
(* it read the setup, which is started all the same.                        *)
OneWorker == Cardinality(running \ {worker}) <= Cardinality(overtaken)

(* Callers are handed an opening that will be settled, or whose worker runs *)
(* still; one that failed is not handed out again, but for want of a setup. *)
HandedOut ==
  starting # 0 =>
    CASE opening[starting] = "waiting" -> settling = starting \/ overtaken # {}
      [] opening[starting] = "success" -> starting \in running
      [] OTHER -> opening[starting] \in {"setup", "unset", "threw"}

(* Every call is answered: a load that hangs up, a worker that dies, a GPU  *)
(* that never comes back leave no one waiting, unless an opening was        *)
(* cancelled while it read the setup.                                       *)
Answered ==
  \A c \in Call : kind[c] # None ~> answer[c] # None \/ overtaken # {}
===============================================================================
