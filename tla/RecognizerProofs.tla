--------------------------- MODULE RecognizerProofs ---------------------------
(***************************************************************************)
(* That the recognizer keeps its promise to its callers, whatever workers, *)
(* numbers and messages it takes: for any calls, openings, cancels and     *)
(* errors, each call is answered once, and a read with the text of its own *)
(* image.  And that workers are not left behind, but for openings that     *)
(* were cancelled while they read the setup.                               *)
(*                                                                         *)
(* What happens inside the workers is one case of all (Inside): it moves   *)
(* requests on and leaves the page alone.                                  *)
(***************************************************************************)
EXTENDS Recognizer, FiniteSetTheorems, TLAPS

(* The same requests, further on. *)
SameRequests ==
  /\ \A q \in requests' : \E r \in requests : q.on = r.on /\ q.id = r.id /\ q.image = r.image
  /\ \A r \in requests : \E q \in requests' : q.on = r.on /\ q.id = r.id /\ q.image = r.image

Inside == UNCHANGED <<page, running, history>> /\ SameRequests
-------------------------------------------------------------------------------
(* Types. *)

RequestSet == [on : Openings, id : Nat, image : Call, at : Stages]

LEMMA MovedFits ==
  ASSUME TypeOK, NEW r \in requests, NEW at \in Stages, Moves(r, at)
  PROVE  requests' \subseteq RequestSet /\ SameRequests
<1>1. PICK q : q = [r EXCEPT !.at = at]
  OBVIOUS
<1>2. r \in RequestSet
  BY DEF TypeOK, RequestSet
<1>3. q \in RequestSet /\ q.on = r.on /\ q.id = r.id /\ q.image = r.image
  BY <1>1, <1>2 DEF RequestSet
<1>4. requests' = (requests \ {r}) \cup {q}
  BY <1>1 DEF Moves
<1> QED BY <1>3, <1>4 DEF TypeOK, RequestSet, SameRequests

LEMMA AfterFits ==
  ASSUME TypeOK, NEW w \in Openings,
         NEW held \in Stages, NEW falling \in Stages, After(w, held, falling)
  PROVE  requests' \subseteq RequestSet /\ SameRequests
<1> DEFINE next(r) == IF r.on = w /\ r.at = "held" THEN [r EXCEPT !.at = held]
                      ELSE IF r.on = w /\ r.at = "falling" THEN [r EXCEPT !.at = falling]
                      ELSE r
<1>1. \A r \in requests : next(r) \in RequestSet /\ next(r).on = r.on
                            /\ next(r).id = r.id /\ next(r).image = r.image
  <2> SUFFICES ASSUME NEW r \in requests
               PROVE  next(r) \in RequestSet /\ next(r).on = r.on
                        /\ next(r).id = r.id /\ next(r).image = r.image
    OBVIOUS
  <2>1. r \in RequestSet
    BY DEF TypeOK, RequestSet
  <2> QED BY <2>1 DEF RequestSet
<1>2. requests' = {next(r) : r \in requests}
  BY DEF After
<1> HIDE DEF next
<1> QED BY <1>1, <1>2 DEF SameRequests

LEMMA WorksFit ==
  ASSUME TypeOK, NEW r \in requests, Arrive(r) \/ Held(r) \/ FallBack(r)
  PROVE  TypeOK' /\ Inside
<1> USE DEF Stages
<1>1. r.on \in Openings
  BY DEF TypeOK
<1>2. PICK at \in Stages : Moves(r, at)
  BY DEF Arrive, Held, FallBack
<1>3. requests' \subseteq RequestSet /\ SameRequests
  BY <1>2, MovedFits
<1>4. session' \in [Openings -> {"none", "opening", "reopening", "gpu", "cpu"}]
  BY <1>1 DEF Arrive, Held, FallBack, TypeOK
<1> QED BY <1>3, <1>4 DEF Arrive, Held, FallBack, Inside, RequestSet, TypeOK, page, history

(* What stops a worker: the calls that wait for a reply, if any, have failed. *)
Stopping(result, pendingToo) ==
  /\ Forgets(result, pendingToo)
  /\ result \in Results \ {"success"}
  /\ pendingToo \in BOOLEAN
  /\ ~pendingToo => settling # 0

LEMMA StoppingFits ==
  ASSUME TypeOK, NEW result, NEW pendingToo, Stopping(result, pendingToo),
         cancels' \in 0..MaxCancels, faults' \in 0..MaxFaults
  PROVE  TypeOK'
<1>1. opening' \in [Openings -> {None, "setup", "waiting"} \cup Results]
  BY DEF TypeOK, Stopping, Forgets
<1>2. answer' \in [Call -> {None, "session", "unavailable", "cancelled", "failed", "threw"}
                            \cup Call]
  BY DEF TypeOK, Stopping, Forgets
<1>3. /\ pending' \subseteq Nat \X Call
      /\ running' \subseteq Openings
      /\ requests' \subseteq [on : Openings, id : Nat, image : Call, at : Stages]
  BY DEF TypeOK, Stopping, Forgets
<1>4. overtaken' \subseteq Openings
  BY DEF TypeOK, Stopping, Forgets, Reading
<1>5. starting' \in 0..MaxOpenings /\ settling' \in 0..MaxOpenings /\ worker' \in 0..MaxOpenings
  BY RecognizerAssumption DEF Stopping, Forgets
<1> QED BY <1>1, <1>2, <1>3, <1>4, <1>5 DEF TypeOK, Stopping, Forgets

(* A reply, by what it says. *)
Replying(r, a) ==
  /\ Replies(r, a) /\ a \in {r.image, "failed", "unavailable"}
  /\ proven' \in SUBSET Openings

LEMMA RepliesFit ==
  ASSUME TypeOK, NEW r \in requests, NEW a, Replying(r, a)
  PROVE  TypeOK'
<1>1. r.image \in Call
  BY DEF TypeOK
<1>2. answer' \in [Call -> {None, "session", "unavailable", "cancelled", "failed", "threw"}
                            \cup Call]
  BY <1>1 DEF TypeOK, Replying, Replies, Settles
<1>3. pending' \subseteq Nat \X Call
  BY DEF TypeOK, Replying, Replies, Settles
<1> QED BY <1>2, <1>3 DEF TypeOK, Replying, Replies, history

(* What a step of the recognizer is. *)
StepCases ==
  \/ \E c \in Call, what \in {"prepare", "read"} : Ask(c, what)
  \/ \E c \in Call : Resume(c)
  \/ \E result \in Results, pendingToo \in BOOLEAN : Stopping(result, pendingToo)
  \/ \E k \in Openings, result \in {"unset", "threw"} : NoSetup(k, result)
  \/ \E k \in Openings : CannotStart(k) \/ Start(k)
  \/ \E w \in Openings, device \in {"gpu", "cpu"} : Opened(w, device)
  \/ \E r \in requests, a \in Call \cup {"failed", "unavailable"} : Replying(r, a)
  \/ Inside

LEMMA Steps ==
  ASSUME TypeOK, Next
  PROVE  TypeOK' /\ StepCases
<1>1. CASE \E c \in Call, what \in {"prepare", "read"} : Ask(c, what)
  <2>1. PICK c \in Call, what \in {"prepare", "read"} : Ask(c, what)
    BY <1>1
  <2>2. starting # 0 => TypeOK'
    BY <2>1 DEF Ask, TypeOK, workers
  <2>3. starting = 0 => TypeOK'
    <3> SUFFICES ASSUME starting = 0 PROVE TypeOK'
      OBVIOUS
    <3>1. begun' \in Openings
      BY <2>1, RecognizerAssumption DEF Ask, TypeOK, Openings
    <3>2. begun' \in 0..MaxOpenings
      BY <3>1, RecognizerAssumption DEF Openings
    <3>3. opening' \in [Openings -> {None, "setup", "waiting"} \cup Results]
      BY <2>1, <3>1 DEF Ask, TypeOK
    <3> QED BY <2>1, <3>2, <3>3 DEF Ask, TypeOK, workers
  <2> QED BY <2>2, <2>3, <1>1 DEF StepCases
<1>2. CASE \E c \in Call : Resume(c)
  <2>1. PICK c \in Call : Resume(c)
    BY <1>2
  <2>2. awaits' \in [Call -> 0..MaxOpenings]
    BY <2>1, RecognizerAssumption DEF Resume, TypeOK
  <2>3. answer' \in [Call -> {None, "session", "unavailable", "cancelled", "failed", "threw"}
                            \cup Call]
    BY <2>1 DEF Resume, TypeOK
  <2>4. /\ lastId' \in Nat /\ pending' \subseteq Nat \X Call
        /\ requests' \subseteq [on : Openings, id : Nat, image : Call, at : Stages]
    <3>1. CASE UNCHANGED <<lastId, pending, requests>>
      BY <3>1 DEF TypeOK
    <3>2. CASE /\ worker # 0 /\ TakesNumber /\ pending' = pending \cup {<<lastId', c>>}
               /\ requests' = requests \cup
                    {[on |-> worker, id |-> lastId', image |-> c, at |-> "sent"]}
      <4>1. worker \in Openings /\ lastId' \in Nat
        BY <3>2, RecognizerAssumption DEF TypeOK, Openings, TakesNumber
      <4>2. [on |-> worker, id |-> lastId', image |-> c, at |-> "sent"]
              \in [on : Openings, id : Nat, image : Call, at : Stages]
        BY <4>1 DEF Stages
      <4> QED BY <3>2, <4>1, <4>2 DEF TypeOK
    <3> QED BY <2>1, <3>1, <3>2 DEF Resume
  <2> QED BY <2>1, <2>2, <2>3, <2>4, <1>2 DEF Resume, TypeOK, StepCases
<1>3. CASE Cancel
  <2>1. Stopping("cancelled", TRUE)
    BY <1>3 DEF Cancel, Stopping, Results
  <2>2. cancels' \in 0..MaxCancels /\ faults' \in 0..MaxFaults
    BY <1>3, RecognizerAssumption DEF Cancel, TypeOK
  <2> QED BY <2>1, <2>2, StoppingFits DEF StepCases, Results
<1>4. CASE \E k \in Openings : Discard(k)
  <2>1. Stopping("unavailable", TRUE)
    BY <1>4 DEF Discard, Stopping, Results
  <2>2. cancels' \in 0..MaxCancels /\ faults' \in 0..MaxFaults
    BY <1>4, RecognizerAssumption DEF Discard, TypeOK
  <2> QED BY <2>1, <2>2, StoppingFits DEF StepCases, Results
<1>5. CASE \E k \in Openings : OpenFails(k)
  <2>1. PICK w \in Openings : OpenFails(w)
    BY <1>5
  <2>2. CASE settling = w
    <3>0. settling # 0
      BY <2>2 DEF Openings
    <3>1. Stopping("unavailable", FALSE)
      BY <2>1, <2>2, <3>0 DEF OpenFails, Stopping, Results
    <3>2. cancels' \in 0..MaxCancels /\ faults' \in 0..MaxFaults
      BY <2>1, <2>2 DEF OpenFails, TypeOK
    <3> QED BY <3>1, <3>2, StoppingFits DEF StepCases, Results
  <2>3. CASE settling # w
    <3>1. TypeOK' /\ Inside
      BY <2>1, <2>3 DEF OpenFails, TypeOK, Inside, SameRequests, page, history
    <3> QED BY <3>1 DEF StepCases
  <2> QED BY <2>2, <2>3
<1>6. CASE \E k \in Openings : NoSetup(k, "unset") \/ NoSetup(k, "threw")
  <2>1. PICK k \in Openings, result \in {"unset", "threw"} : NoSetup(k, result)
    BY <1>6
  <2>2. TypeOK'
    BY <2>1 DEF NoSetup, TypeOK, workers, Results
  <2> QED BY <2>1, <2>2 DEF StepCases
<1>7. CASE \E k \in Openings : CannotStart(k)
  <2>1. PICK k \in Openings : CannotStart(k)
    BY <1>7
  <2>2. TypeOK'
    BY <2>1, RecognizerAssumption DEF CannotStart, TypeOK, workers, Results
  <2> QED BY <1>7, <2>2 DEF StepCases
<1>8. CASE \E k \in Openings : Start(k)
  <2>1. PICK k \in Openings : Start(k)
    BY <1>8
  <2>2. worker' \in 0..MaxOpenings /\ settling' \in 0..MaxOpenings /\ lastId' \in Nat
    BY <2>1, RecognizerAssumption DEF Start, TypeOK, TakesNumber, Openings
  <2>3. /\ opening' \in [Openings -> {None, "setup", "waiting"} \cup Results]
        /\ session' \in [Openings -> {"none", "opening", "reopening", "gpu", "cpu"}]
        /\ running' \subseteq Openings
    BY <2>1 DEF Start, TypeOK
  <2>4. TypeOK'
    BY <2>1, <2>2, <2>3 DEF Start, TypeOK
  <2> QED BY <1>8, <2>4 DEF StepCases
<1>9. CASE \E k \in Openings : Opened(k, "gpu") \/ Opened(k, "cpu")
  <2>1. PICK w \in Openings, device \in {"gpu", "cpu"} : Opened(w, device)
    BY <1>9
  <2>2. /\ opening' \in [Openings -> {None, "setup", "waiting"} \cup Results]
        /\ session' \in [Openings -> {"none", "opening", "reopening", "gpu", "cpu"}]
        /\ settling' \in 0..MaxOpenings
    BY <2>1, RecognizerAssumption DEF Opened, TypeOK, Results
  <2>3. TypeOK'
    BY <2>1, <2>2 DEF Opened, TypeOK, history
  <2> QED BY <2>1, <2>3 DEF StepCases
<1>10. CASE \E k \in Openings : Reopened(k) \/ ReopenFails(k)
  <2>1. PICK w \in Openings : Reopened(w) \/ ReopenFails(w)
    BY <1>10
  <2>2. TypeOK' /\ Inside
    <3>1. CASE Reopened(w)
      <4>1. requests' \subseteq RequestSet /\ SameRequests
        BY <3>1, AfterFits DEF Reopened, Stages
      <4>2. session' \in [Openings -> {"none", "opening", "reopening", "gpu", "cpu"}]
        BY <3>1 DEF Reopened, TypeOK
      <4> QED BY <3>1, <4>1, <4>2 DEF Reopened, Inside, RequestSet, TypeOK, page, history
    <3>2. CASE ReopenFails(w)
      <4>1. requests' \subseteq RequestSet /\ SameRequests
        BY <3>2, AfterFits DEF ReopenFails, Stages
      <4>2. session' \in [Openings -> {"none", "opening", "reopening", "gpu", "cpu"}]
        BY <3>2 DEF ReopenFails, TypeOK
      <4> QED BY <3>2, <4>1, <4>2 DEF ReopenFails, Inside, RequestSet, TypeOK, page, history
    <3> QED BY <2>1, <3>1, <3>2
  <2> QED BY <2>2 DEF StepCases
<1>11. CASE \E r \in requests : Arrive(r) \/ Held(r) \/ FallBack(r)
  <2>1. TypeOK' /\ Inside
    BY <1>11, WorksFit
  <2> QED BY <2>1 DEF StepCases
<1>12. CASE \E r \in requests : Read(r) \/ Unread(r) \/ FirstRan(r)
  <2>1. PICK r \in requests : Read(r) \/ Unread(r) \/ FirstRan(r)
    BY <1>12
  <2>2. r.image \in Call /\ r.on \in Openings
    BY DEF TypeOK
  <2>3. PICK a \in Call \cup {"failed", "unavailable"} : Replying(r, a)
    BY <2>1, <2>2 DEF Read, Unread, FirstRan, Replying, TypeOK
  <2> QED BY <2>3, RepliesFit DEF StepCases
<1> QED BY <1>1, <1>2, <1>3, <1>4, <1>5, <1>6, <1>7, <1>8, <1>9, <1>10, <1>11, <1>12
        DEF Next, Begins, Opens, Works
-------------------------------------------------------------------------------
(* The promise.  A call that waits, for an opening or for a reply, has been  *)
(* asked and not answered; it waits for one thing, and a reply knows it.     *)

CallsWait ==
  \A c \in Call : /\ kind[c] = None => answer[c] = None
                  /\ awaits[c] # 0 => kind[c] # None /\ answer[c] = None

PendingWait ==
  \A p \in pending : /\ kind[p[2]] = "read" /\ answer[p[2]] = None /\ awaits[p[2]] = 0
                     /\ p[1] <= lastId

OnePending == \A p, q \in pending : p[1] = q[1] \/ p[2] = q[2] => p = q

RepliesKnow ==
  \A r \in requests : /\ r.id <= lastId
                      /\ \A p \in pending : r.id = p[1] => r.image = p[2]

Waiting == TypeOK /\ CallsWait /\ PendingWait /\ OnePending /\ RepliesKnow

(* The calls that a step answers, and with what, as the promise puts it. *)
Answers(calls) ==
  /\ \A c \in calls : kind[c] # None /\ answer[c] = None
  /\ \A c \in Call : IF c \in calls THEN answer'[c] \in Promise!Refusals \cup Promise!Successes(c)
                     ELSE answer'[c] = answer[c]
  /\ UNCHANGED kind

LEMMA AnswersPromise ==
  ASSUME TypeOK, TypeOK', NEW calls \in SUBSET Call, Answers(calls)
  PROVE  [Promise!Next]_<<kind, answer>>
<1>1. CASE calls = {}
  <2>1. answer' = answer
    BY <1>1 DEF TypeOK, Answers
  <2> QED BY <2>1 DEF Answers
<1>2. CASE calls # {}
  <2>1. answer' \in [Call -> {None, Promise!Session} \cup Call \cup Promise!Refusals]
    BY DEF TypeOK, Promise!Session, Promise!Refusals
  <2>2. Promise!Answer(calls)
    BY <1>2, <2>1 DEF Answers, Promise!Answer
  <2> QED BY <2>2 DEF Promise!Next
<1> QED BY <1>1, <1>2

LEMMA AskWaits ==
  ASSUME Waiting, TypeOK', NEW c \in Call, NEW what \in {"prepare", "read"}, Ask(c, what)
  PROVE  Waiting' /\ [Promise!Next]_<<kind, answer>>
<1> USE DEF Waiting
<1>1. /\ kind[c] = None /\ kind' = [kind EXCEPT ![c] = what]
      /\ UNCHANGED <<answer, lastId, pending, requests>>
      /\ \A d \in Call \ {c} : awaits'[d] = awaits[d]
  BY DEF Ask, workers, TypeOK
<1>2. CallsWait'
  BY <1>1, RecognizerAssumption DEF CallsWait, TypeOK
<1>3. PendingWait'
  <2> SUFFICES ASSUME NEW p \in pending
               PROVE  /\ kind'[p[2]] = "read" /\ answer[p[2]] = None /\ awaits'[p[2]] = 0
                      /\ p[1] <= lastId
    BY <1>1 DEF PendingWait
  <2>1. p[2] \in Call /\ p[2] # c
    BY <1>1, RecognizerAssumption DEF PendingWait, TypeOK
  <2> QED BY <1>1, <2>1 DEF PendingWait, TypeOK
<1>4. OnePending' /\ RepliesKnow'
  BY <1>1 DEF OnePending, RepliesKnow
<1>5. Promise!Ask(c)
  BY <1>1 DEF Promise!Ask, Promise!Kinds
<1> QED BY <1>2, <1>3, <1>4, <1>5 DEF Promise!Next

LEMMA ResumeWaits ==
  ASSUME Waiting, TypeOK', NEW c \in Call, Resume(c)
  PROVE  Waiting' /\ [Promise!Next]_<<kind, answer>>
<1> USE DEF Waiting
<1>1. /\ awaits[c] # 0 /\ awaits' = [awaits EXCEPT ![c] = 0]
      /\ UNCHANGED kind
  BY DEF Resume
<1>2. kind[c] # None /\ answer[c] = None
  BY <1>1 DEF CallsWait
<1>3. \A p \in pending : p[2] \in Call /\ p[2] # c
  BY <1>1 DEF PendingWait, TypeOK
<1>4. CASE \E a \in Promise!Refusals \cup Promise!Successes(c) :
             /\ answer' = [answer EXCEPT ![c] = a]
             /\ UNCHANGED <<lastId, pending, requests>>
  <2>1. CallsWait'
    BY <1>1, <1>2, <1>4 DEF CallsWait, TypeOK
  <2>2. PendingWait' /\ OnePending' /\ RepliesKnow'
    BY <1>1, <1>3, <1>4 DEF PendingWait, OnePending, RepliesKnow, TypeOK
  <2>3. Answers({c})
    BY <1>1, <1>2, <1>4 DEF Answers, TypeOK
  <2> QED BY <2>1, <2>2, <2>3, AnswersPromise
<1>5. CASE /\ kind[c] = "read" /\ lastId' = lastId + 1
           /\ pending' = pending \cup {<<lastId', c>>}
           /\ \E q : /\ q.id = lastId' /\ q.image = c
                     /\ requests' = requests \cup {q}
           /\ UNCHANGED answer
  <2>1. CallsWait'
    BY <1>1, <1>5 DEF CallsWait, TypeOK
  <2>2. lastId \in Nat /\ \A p \in pending : p[1] \in Nat
    BY DEF TypeOK
  <2>3. PendingWait'
    BY <1>1, <1>2, <1>3, <1>5, <2>2 DEF PendingWait, TypeOK
  <2>4. OnePending'
    BY <1>3, <1>5, <2>2 DEF OnePending, PendingWait
  <2>5. \A r \in requests : r.id \in Nat /\ r.id <= lastId
    BY DEF RepliesKnow, TypeOK
  <2>6. RepliesKnow'
    BY <1>5, <2>2, <2>5 DEF RepliesKnow, PendingWait
  <2> QED BY <1>1, <1>5, <2>1, <2>3, <2>4, <2>6
<1>6. CASE opening[awaits[c]] # "success"
  <2>1. \E a \in Promise!Refusals : answer' = [answer EXCEPT ![c] = a]
    BY <1>6 DEF Resume, Promise!Refusals
  <2> QED BY <1>4, <1>6, <2>1 DEF Resume
<1>7. CASE opening[awaits[c]] = "success" /\ kind[c] = "prepare"
  <2>1. "session" \in Promise!Successes(c)
    BY <1>7 DEF Promise!Successes, Promise!Session
  <2> QED BY <1>4, <1>7, <2>1 DEF Resume
<1>8. CASE opening[awaits[c]] = "success" /\ kind[c] = "read"
  <2>1. "unavailable" \in Promise!Refusals /\ "failed" \in Promise!Refusals
    BY DEF Promise!Refusals
  <2>2. CASE worker = 0
    BY <1>4, <1>8, <2>1, <2>2 DEF Resume
  <2>3. CASE worker # 0
    <3>1. CASE answer' = [answer EXCEPT ![c] = "failed"] /\ UNCHANGED <<lastId, pending, requests>>
      BY <1>4, <2>1, <3>1
    <3>2. CASE /\ TakesNumber /\ pending' = pending \cup {<<lastId', c>>}
               /\ requests' = requests \cup
                    {[on |-> worker, id |-> lastId', image |-> c, at |-> "sent"]}
               /\ UNCHANGED answer
      BY <1>5, <1>8, <3>2 DEF TakesNumber
    <3> QED BY <1>8, <2>3, <3>1, <3>2 DEF Resume
  <2> QED BY <2>2, <2>3
<1>9. kind[c] \in {"prepare", "read"}
  BY <1>2 DEF TypeOK
<1> QED BY <1>6, <1>7, <1>8, <1>9

LEMMA StoppingWaits ==
  ASSUME Waiting, TypeOK', NEW result, NEW pendingToo, Stopping(result, pendingToo)
  PROVE  Waiting' /\ [Promise!Next]_<<kind, answer>>
<1> USE DEF Waiting
<1>1. /\ UNCHANGED <<kind, awaits, lastId>> /\ requests' \subseteq requests
  BY DEF Stopping, Forgets
<1>2. CASE pendingToo = TRUE
  <2> DEFINE calls == {c \in Call : \E p \in pending : p[2] = c}
  <2>1. /\ answer' = [c \in Call |-> IF c \in calls THEN "failed" ELSE answer[c]]
        /\ pending' = {}
    BY <1>2 DEF Stopping, Forgets
  <2>2. \A c \in calls : kind[c] = "read" /\ answer[c] = None /\ awaits[c] = 0
    BY DEF PendingWait
  <2>3. CallsWait'
    BY <1>1, <2>1, <2>2, RecognizerAssumption DEF CallsWait, TypeOK
  <2>4. PendingWait' /\ OnePending' /\ RepliesKnow'
    BY <1>1, <2>1 DEF PendingWait, OnePending, RepliesKnow
  <2>5. Answers(calls)
    BY <1>1, <2>1, <2>2, RecognizerAssumption DEF Answers, Promise!Refusals
  <2> QED BY <2>3, <2>4, <2>5, AnswersPromise
<1>3. CASE pendingToo = FALSE
  <2>1. UNCHANGED <<answer, pending>>
    BY <1>3 DEF Stopping, Forgets
  <2>2. CallsWait' /\ PendingWait' /\ OnePending' /\ RepliesKnow'
    BY <1>1, <2>1 DEF CallsWait, PendingWait, OnePending, RepliesKnow
  <2> QED BY <1>1, <2>1, <2>2
<1> QED BY <1>2, <1>3 DEF Stopping

LEMMA ReplyingWaits ==
  ASSUME Waiting, TypeOK', NEW r \in requests, NEW a, Replying(r, a)
  PROVE  Waiting' /\ [Promise!Next]_<<kind, answer>>
<1> USE DEF Waiting
<1>1. /\ UNCHANGED <<kind, awaits, lastId>> /\ requests' \subseteq requests
      /\ answer' = [c \in Call |-> IF <<r.id, c>> \in pending THEN a ELSE answer[c]]
      /\ pending' = {p \in pending : p[1] # r.id}
      /\ a \in {r.image, "failed", "unavailable"}
  BY DEF Replying, Replies, Settles
<1>2. \A c \in Call : <<r.id, c>> \in pending =>
        c = r.image /\ kind[c] = "read" /\ answer[c] = None /\ awaits[c] = 0
  BY DEF PendingWait, RepliesKnow
<1>3. CallsWait'
  BY <1>1, <1>2, RecognizerAssumption DEF CallsWait, TypeOK
<1>4. PendingWait'
  <2> SUFFICES ASSUME NEW p \in pending, p[1] # r.id
               PROVE  /\ kind[p[2]] = "read" /\ answer'[p[2]] = None /\ awaits[p[2]] = 0
                      /\ p[1] <= lastId
    BY <1>1 DEF PendingWait
  <2>1. p[2] \in Call /\ <<r.id, p[2]>> \notin pending
    BY DEF OnePending, TypeOK
  <2> QED BY <1>1, <2>1 DEF PendingWait
<1>5. OnePending' /\ RepliesKnow'
  BY <1>1 DEF OnePending, RepliesKnow
<1>6. Answers({c \in Call : <<r.id, c>> \in pending})
  <2>1. \A c \in Call : <<r.id, c>> \in pending => a \in Promise!Refusals \cup Promise!Successes(c)
    BY <1>1, <1>2 DEF Promise!Refusals, Promise!Successes
  <2>2. "read" # None
    BY RecognizerAssumption
  <2> QED BY <1>1, <1>2, <2>1, <2>2 DEF Answers
<1> QED BY <1>3, <1>4, <1>5, <1>6, AnswersPromise

LEMMA InsideWaits ==
  ASSUME Waiting, TypeOK', Inside
  PROVE  Waiting' /\ UNCHANGED <<kind, answer>>
<1> USE DEF Waiting
<1>1. UNCHANGED <<kind, awaits, answer, pending, lastId>>
  BY DEF Inside, page
<1>2. CallsWait' /\ PendingWait' /\ OnePending'
  BY <1>1 DEF CallsWait, PendingWait, OnePending
<1>3. RepliesKnow'
  BY <1>1 DEF RepliesKnow, Inside, SameRequests
<1> QED BY <1>1, <1>2, <1>3

LEMMA OpeningWaits ==
  ASSUME Waiting, TypeOK',
         \/ \E k \in Openings, result \in {"unset", "threw"} : NoSetup(k, result)
         \/ \E k \in Openings : CannotStart(k) \/ Start(k)
         \/ \E w \in Openings, device \in {"gpu", "cpu"} : Opened(w, device)
  PROVE  Waiting' /\ UNCHANGED <<kind, answer>>
<1> USE DEF Waiting
<1>1. /\ UNCHANGED <<kind, awaits, answer, pending, requests>>
      /\ lastId' = lastId \/ lastId' = lastId + 1
  BY DEF NoSetup, CannotStart, Start, Opened, workers, history, TakesNumber
<1>2. lastId \in Nat /\ lastId' \in Nat /\ lastId <= lastId'
  BY <1>1 DEF TypeOK
<1>3. \A p \in pending : p[1] \in Nat
  BY DEF TypeOK
<1>4. \A r \in requests : r.id \in Nat
  BY DEF TypeOK
<1>5. CallsWait' /\ OnePending'
  BY <1>1 DEF CallsWait, OnePending
<1>6. PendingWait'
  BY <1>1, <1>2, <1>3 DEF PendingWait
<1>7. RepliesKnow'
  BY <1>1, <1>2, <1>4 DEF RepliesKnow
<1> QED BY <1>1, <1>5, <1>6, <1>7

LEMMA InitTyped == Init => TypeOK
<1> SUFFICES ASSUME Init PROVE TypeOK
  OBVIOUS
<1>1. 0 \in 0..MaxOpenings /\ 0 \in 0..MaxCancels /\ 0 \in 0..MaxFaults
  BY RecognizerAssumption
<1> QED BY <1>1 DEF Init, TypeOK

LEMMA InitWaits == Init => Waiting
BY InitTyped DEF Init, Waiting, CallsWait, PendingWait, OnePending, RepliesKnow

LEMMA NextWaits ==
  ASSUME Waiting, [Next]_vars
  PROVE  Waiting' /\ [Promise!Next]_<<kind, answer>>
<1>1. CASE UNCHANGED vars
  BY <1>1 DEF vars, page, workers, Waiting, TypeOK, CallsWait, PendingWait, OnePending,
              RepliesKnow
<1>2. CASE Next
  <2>1. TypeOK' /\ StepCases
    BY <1>2, Steps DEF Waiting
  <2> QED BY <2>1, AskWaits, ResumeWaits, StoppingWaits, ReplyingWaits, InsideWaits,
             OpeningWaits DEF StepCases
<1> QED BY <1>1, <1>2

(* The recognizer's variables keep to their types. *)
THEOREM Typed == Spec => []TypeOK
<1>1. TypeOK /\ [Next]_vars => TypeOK'
  BY Steps DEF vars, page, workers, TypeOK
<1> QED BY InitTyped, <1>1, PTL DEF Spec

(* The recognizer implements the promise to its callers: numbers, workers,  *)
(* cancelled loads and errors answer no call twice, no call that was not    *)
(* made, and no read with the text of another image.                        *)
THEOREM PromiseKept == Spec => KeepsPromise
<1>1. Init => Promise!Init
  BY DEF Init, Promise!Init
<1> QED BY InitWaits, <1>1, NextWaits, PTL DEF Spec, KeepsPromise, Promise!Spec
-------------------------------------------------------------------------------
(* Workers that are left behind.  An opening that reads the setup and was not *)
(* forgotten (Expected) will have a worker; one that was forgotten and reads  *)
(* no longer (Consumed) may have left one.                                    *)

Expected == Reading \ overtaken
Consumed == overtaken \ Reading

Counted ==
  /\ Cardinality(running) + Cardinality(Expected) <= Cardinality(Consumed) + 1
  /\ starting = 0 => Cardinality(running) + Cardinality(Expected) <= Cardinality(Consumed)
  /\ worker = 0 => Cardinality(running) <= Cardinality(Consumed)
  /\ worker # 0 => worker \in running
  /\ overtaken \cup Reading \subseteq 1..begun

LEMMA CardinalityGrows ==
  ASSUME NEW S \in SUBSET Openings, NEW T \in SUBSET S
  PROVE  /\ IsFiniteSet(S) /\ Cardinality(S) \in Nat /\ Cardinality(T) \in Nat
         /\ Cardinality(T) <= Cardinality(S)
<1>1. IsFiniteSet(Openings)
  BY FS_Interval, RecognizerAssumption DEF Openings
<1>2. IsFiniteSet(S)
  BY <1>1, FS_Subset
<1> QED BY <1>2, FS_Subset, FS_CardinalityType

LEMMA CountsAreNumbers ==
  ASSUME TypeOK
  PROVE  /\ Cardinality(running) \in Nat /\ Cardinality(Expected) \in Nat
         /\ Cardinality(Consumed) \in Nat
         /\ IsFiniteSet(running) /\ IsFiniteSet(Expected) /\ IsFiniteSet(Consumed)
         /\ Expected \subseteq Openings /\ Consumed \subseteq Openings /\ running \subseteq Openings
<1>1. Expected \subseteq Openings /\ Consumed \subseteq Openings /\ running \subseteq Openings
  BY DEF Expected, Consumed, Reading, TypeOK
<1> QED BY <1>1, CardinalityGrows

LEMMA CountedImplies == TypeOK /\ Counted => OneWorker
<1> SUFFICES ASSUME TypeOK, Counted PROVE OneWorker
  OBVIOUS
<1>1. /\ Cardinality(Consumed) <= Cardinality(overtaken) /\ Cardinality(overtaken) \in Nat
  BY CardinalityGrows DEF Consumed, TypeOK
<1>2. CASE worker = 0
  <2>1. running \ {worker} = running
    BY <1>2 DEF TypeOK, Openings
  <2> QED BY <1>1, <1>2, <2>1, CountsAreNumbers DEF Counted, OneWorker
<1>3. CASE worker # 0
  <2>1. Cardinality(running \ {worker}) = Cardinality(running) - 1
    BY <1>3, CountsAreNumbers, FS_RemoveElement DEF Counted
  <2> QED BY <1>1, <2>1, CountsAreNumbers DEF Counted, OneWorker
<1> QED BY <1>2, <1>3

(* One opening reads the setup no longer, and may have its worker. *)
LEMMA ReadCounted ==
  ASSUME TypeOK, TypeOK', NEW k \in Reading, Reading' = Reading \ {k}, overtaken' = overtaken
  PROVE  Cardinality(Expected') - Cardinality(Consumed')
           = Cardinality(Expected) - Cardinality(Consumed) - 1
<1>1. CASE k \in overtaken
  <2>1. Expected' = Expected /\ Consumed' = Consumed \cup {k} /\ k \notin Consumed
    BY <1>1 DEF Expected, Consumed
  <2>2. Cardinality(Consumed') = Cardinality(Consumed) + 1
    BY <2>1, CountsAreNumbers, FS_AddElement
  <2> QED BY <2>1, <2>2, CountsAreNumbers
<1>2. CASE k \notin overtaken
  <2>1. Consumed' = Consumed /\ Expected' = Expected \ {k} /\ k \in Expected
    BY <1>2 DEF Expected, Consumed
  <2>2. Cardinality(Expected') = Cardinality(Expected) - 1
    BY <2>1, CountsAreNumbers, FS_RemoveElement
  <2> QED BY <2>1, <2>2, CountsAreNumbers
<1> QED BY <1>1, <1>2

(* What forgets and what stays where it was only lowers what is expected. *)
LEMMA FewerExpected ==
  ASSUME TypeOK, Reading' \subseteq Reading, overtaken \subseteq overtaken',
         overtaken' \subseteq overtaken \cup Reading, TypeOK'
  PROVE  /\ Expected' \subseteq Expected /\ Consumed \subseteq Consumed'
         /\ Cardinality(Expected') \in Nat /\ Cardinality(Consumed') \in Nat
         /\ Cardinality(Expected') <= Cardinality(Expected)
         /\ Cardinality(Consumed) <= Cardinality(Consumed')
<1>1. Expected' \subseteq Expected /\ Consumed \subseteq Consumed'
  BY DEF Expected, Consumed
<1>2. Expected \subseteq Openings /\ Consumed' \subseteq Openings
  BY DEF Expected, Consumed, Reading, TypeOK
<1>3. Cardinality(Expected') \in Nat /\ Cardinality(Expected') <= Cardinality(Expected)
  BY <1>1, <1>2, CardinalityGrows
<1>4. Cardinality(Consumed') \in Nat /\ Cardinality(Consumed) <= Cardinality(Consumed')
  BY <1>1, <1>2, CardinalityGrows
<1> QED BY <1>1, <1>3, <1>4

(* Those that read the setup after a step that settles an opening or not. *)
LEMMA ReadingSettled ==
  ASSUME TypeOK, NEW k \in Openings, NEW result \in Results \cup {"waiting"},
         opening' = [opening EXCEPT ![k] = result]
  PROVE  Reading' = Reading \ {k}
BY DEF Reading, TypeOK, Results

LEMMA CountedKept ==
  ASSUME TypeOK, Counted, TypeOK', StepCases
  PROVE  Counted'
<1>0. /\ Cardinality(running) \in Nat /\ Cardinality(Expected) \in Nat
      /\ Cardinality(Consumed) \in Nat /\ IsFiniteSet(running)
  BY CountsAreNumbers
<1>1. CASE \E c \in Call, what \in {"prepare", "read"} : Ask(c, what)
  <2>1. CASE UNCHANGED <<begun, opening, starting, running, overtaken, worker>>
    BY <2>1 DEF Counted, Expected, Consumed, Reading
  <2>2. CASE /\ starting = 0 /\ begun' = begun + 1 /\ starting' = begun'
             /\ opening' = [opening EXCEPT ![begun'] = "setup"]
             /\ UNCHANGED <<running, overtaken, worker>>
    <3>1. Reading' \subseteq Reading \cup {begun'} /\ begun' \notin overtaken
      BY <2>2 DEF Reading, Counted, TypeOK
    <3>2. Reading \subseteq Reading'
      BY <2>2 DEF Reading, TypeOK
    <3>3. Consumed' = Consumed /\ Expected' \subseteq Expected \cup {begun'}
      BY <2>2, <3>1, <3>2 DEF Consumed, Expected
    <3>4. IsFiniteSet(Expected \cup {begun'})
            /\ Cardinality(Expected \cup {begun'}) <= Cardinality(Expected) + 1
            /\ Cardinality(Expected \cup {begun'}) \in Nat
      BY <1>0, CountsAreNumbers, FS_AddElement
    <3>5. Cardinality(Expected') <= Cardinality(Expected) + 1 /\ Cardinality(Expected') \in Nat
      BY <3>3, <3>4, <1>0, FS_Subset, FS_CardinalityType
    <3>6. starting' # 0
      BY <2>2 DEF TypeOK
    <3>7. (overtaken \cup Reading)' \subseteq 1..begun'
      BY <2>2, <3>1 DEF Counted, TypeOK
    <3>8. Cardinality(running) + Cardinality(Expected) <= Cardinality(Consumed)
      BY <2>2 DEF Counted
    <3>9. Cardinality(running') + Cardinality(Expected') <= Cardinality(Consumed') + 1
      BY <1>0, <2>2, <3>3, <3>5, <3>8
    <3> QED BY <2>2, <3>3, <3>6, <3>7, <3>9 DEF Counted
  <2> QED BY <1>1, <2>1, <2>2 DEF Ask, workers
<1>2. CASE UNCHANGED <<begun, opening, starting, running, overtaken, worker>>
  BY <1>2 DEF Counted, Expected, Consumed, Reading
<1>3. CASE \E result \in Results, pendingToo \in BOOLEAN : Stopping(result, pendingToo)
  <2>1. PICK result \in Results, pendingToo \in BOOLEAN : Stopping(result, pendingToo)
    BY <1>3
  <2>2. Reading' \subseteq Reading
    BY <2>1 DEF Stopping, Forgets, Reading, TypeOK, Results
  <2>3. /\ worker' = 0 /\ starting' = 0 /\ running' = running \ {worker} /\ begun' = begun
        /\ overtaken' = overtaken \cup Reading
    BY <2>1 DEF Stopping, Forgets
  <2>4. Expected' = {} /\ Cardinality(Expected') = 0
    BY <2>2, <2>3, FS_EmptySet DEF Expected
  <2>5. Cardinality(Consumed) <= Cardinality(Consumed') /\ Cardinality(Consumed') \in Nat
    BY <2>2, <2>3, FewerExpected
  <2>6. Cardinality(running') <= Cardinality(Consumed) /\ Cardinality(running') \in Nat
    <3>1. CASE worker = 0
      <4>1. running' = running
        BY <2>3, <3>1 DEF TypeOK, Openings
      <4> QED BY <1>0, <3>1, <4>1 DEF Counted
    <3>2. CASE worker # 0
      <4>1. Cardinality(running') = Cardinality(running) - 1 /\ Cardinality(running') \in Nat
        BY <1>0, <2>3, <3>2, FS_RemoveElement, FS_CardinalityType DEF Counted
      <4> QED BY <1>0, <4>1 DEF Counted
    <3> QED BY <3>1, <3>2
  <2>7. (overtaken \cup Reading)' \subseteq 1..begun'
    BY <2>2, <2>3 DEF Counted
  <2> QED BY <1>0, <2>3, <2>4, <2>5, <2>6, <2>7 DEF Counted
<1>4. CASE \E k \in Openings, result \in {"unset", "threw"} : NoSetup(k, result)
  <2>1. PICK k \in Openings, result \in {"unset", "threw"} : NoSetup(k, result)
    BY <1>4
  <2>2. Reading' \subseteq Reading
    BY <2>1, ReadingSettled DEF NoSetup, Results
  <2>3. UNCHANGED <<begun, starting, running, overtaken, worker>>
    BY <2>1 DEF NoSetup, workers
  <2> QED BY <1>0, <2>2, <2>3, FewerExpected DEF Counted
<1>5. CASE \E w \in Openings, device \in {"gpu", "cpu"} : Opened(w, device)
  <2>1. PICK w \in Openings, device \in {"gpu", "cpu"} : Opened(w, device)
    BY <1>5
  <2>2. Reading' \subseteq Reading
    BY <2>1 DEF Opened, Reading, TypeOK
  <2>3. UNCHANGED <<begun, starting, running, overtaken, worker>>
    BY <2>1 DEF Opened, history
  <2> QED BY <1>0, <2>2, <2>3, FewerExpected DEF Counted
<1>6. CASE \E k \in Openings : CannotStart(k)
  <2>1. PICK k \in Openings : CannotStart(k)
    BY <1>6
  <2>2. k \in Reading /\ Reading' = Reading \ {k}
    BY <2>1, ReadingSettled DEF CannotStart, Reading, Results
  <2>3. UNCHANGED <<begun, running, overtaken, worker>>
    BY <2>1 DEF CannotStart, workers
  <2>4. Cardinality(Expected') - Cardinality(Consumed')
           = Cardinality(Expected) - Cardinality(Consumed) - 1
    BY <2>2, <2>3, ReadCounted
  <2>5. /\ Cardinality(Expected') \in Nat /\ Cardinality(Consumed') \in Nat
        /\ Cardinality(Consumed) <= Cardinality(Consumed')
    BY <2>2, <2>3, FewerExpected
  <2> QED BY <1>0, <2>2, <2>3, <2>4, <2>5 DEF Counted
<1>7. CASE \E k \in Openings : Start(k)
  <2>1. PICK k \in Openings : Start(k)
    BY <1>7
  <2>2. k \in Reading /\ Reading' = Reading \ {k}
    BY <2>1, ReadingSettled DEF Start, Reading
  <2>3. /\ UNCHANGED <<begun, starting, overtaken>>
        /\ worker' = k /\ running' = running \cup {k}
    BY <2>1 DEF Start
  <2>4. Cardinality(Expected') - Cardinality(Consumed')
           = Cardinality(Expected) - Cardinality(Consumed) - 1
    BY <2>2, <2>3, ReadCounted
  <2>5. Cardinality(Expected') \in Nat /\ Cardinality(Consumed') \in Nat
    BY <2>2, <2>3, FewerExpected
  <2>6. Cardinality(running') <= Cardinality(running) + 1 /\ Cardinality(running') \in Nat
    <3>1. Cardinality(running \cup {k}) = IF k \in running THEN Cardinality(running)
                                         ELSE Cardinality(running) + 1
      BY <1>0, FS_AddElement
    <3> QED BY <1>0, <2>3, <3>1
  <2>7. worker' # 0 /\ worker' \in running'
    BY <2>3 DEF Openings
  <2>8. (overtaken \cup Reading)' \subseteq 1..begun'
    BY <2>2, <2>3 DEF Counted
  <2> QED BY <1>0, <2>3, <2>4, <2>5, <2>6, <2>7, <2>8 DEF Counted
<1>8. CASE \E c \in Call : Resume(c)
  BY <1>2, <1>8 DEF Resume
<1>9. CASE \E r \in requests, a \in Call \cup {"failed", "unavailable"} : Replying(r, a)
  BY <1>2, <1>9 DEF Replying, Replies, history
<1>10. CASE Inside
  BY <1>2, <1>10 DEF Inside, page, history
<1> QED BY <1>1, <1>3, <1>4, <1>5, <1>6, <1>7, <1>8, <1>9, <1>10 DEF StepCases

LEMMA InitCounted == Init => Counted
<1> SUFFICES ASSUME Init PROVE Counted
  OBVIOUS
<1>1. running = {} /\ Expected = {} /\ Consumed = {} /\ Reading = {} /\ overtaken = {}
  BY RecognizerAssumption DEF Init, Expected, Consumed, Reading
<1> QED BY <1>1, FS_EmptySet DEF Init, Counted

LEMMA NextCounted == TypeOK /\ Counted /\ [Next]_vars => Counted'
<1>1. TypeOK /\ Counted /\ UNCHANGED vars => Counted'
  BY DEF vars, page, workers, Counted, Expected, Consumed, Reading
<1> QED BY <1>1, Steps, CountedKept

(* Workers are not left behind, but for openings cancelled while they read  *)
(* the setup: with the current one there is one more at most for each.      *)
THEOREM WorkersCounted == Spec => []OneWorker
<1>1. TypeOK /\ Counted => OneWorker
  BY CountedImplies
<1> QED BY Typed, InitCounted, NextCounted, <1>1, PTL DEF Spec
-------------------------------------------------------------------------------
(* What callers are handed, and who serves those that wait for a reply: an   *)
(* opening that was not forgotten while it read the setup is the only one,   *)
(* and nothing waits for a reply before it has its session.                  *)

Handed ==
  /\ overtaken = {} => Reading \subseteq {starting}
  /\ starting # 0 => /\ opening[starting] \in {"setup", "waiting", "success", "unset", "threw"}
                     /\ opening[starting] = "success" => starting \in running
                     /\ opening[starting] = "waiting" => settling = starting \/ overtaken # {}

LEMMA HandedImplies == TypeOK /\ Handed => HandedOut
BY DEF Handed, HandedOut

LEMMA HandedKept ==
  ASSUME TypeOK, Handed, TypeOK', StepCases
  PROVE  Handed'
<1>1. CASE UNCHANGED <<opening, starting, settling, running, overtaken>>
  BY <1>1 DEF Handed, Reading
<1>2. CASE \E c \in Call, what \in {"prepare", "read"} : Ask(c, what)
  <2>1. CASE /\ starting = 0 /\ begun' = begun + 1 /\ starting' = begun'
             /\ opening' = [opening EXCEPT ![begun'] = "setup"]
             /\ begun < MaxOpenings /\ UNCHANGED <<running, overtaken, settling>>
    <3>1. Reading' \subseteq Reading \cup {begun'}
      BY <2>1 DEF Reading, TypeOK
    <3>2. overtaken = {} => Reading = {}
      BY <2>1 DEF Handed, Reading, Openings
    <3>3. begun' \in Openings
      BY <2>1, RecognizerAssumption DEF TypeOK, Openings
    <3>4. opening'[starting'] = "setup"
      BY <2>1, <3>3 DEF TypeOK
    <3> QED BY <2>1, <3>1, <3>2, <3>4 DEF Handed
  <2> QED BY <1>1, <1>2, <2>1 DEF Ask, workers
<1>3. CASE \E result \in Results, pendingToo \in BOOLEAN : Stopping(result, pendingToo)
  <2>1. PICK result \in Results, pendingToo \in BOOLEAN : Stopping(result, pendingToo)
    BY <1>3
  <2>2. Reading' \subseteq Reading
    BY <2>1 DEF Stopping, Forgets, Reading, TypeOK, Results
  <2>3. starting' = 0 /\ overtaken' = overtaken \cup Reading
    BY <2>1 DEF Stopping, Forgets
  <2> QED BY <2>2, <2>3 DEF Handed
<1>4. CASE \E k \in Openings, result \in {"unset", "threw"} : NoSetup(k, result)
  <2>1. PICK k \in Openings, result \in {"unset", "threw"} : NoSetup(k, result)
    BY <1>4
  <2>2. Reading' \subseteq Reading
    BY <2>1, ReadingSettled DEF NoSetup, Results
  <2>3. UNCHANGED <<starting, settling, running, overtaken>>
    BY <2>1 DEF NoSetup, workers
  <2>4. \A j \in Openings : opening'[j] = opening[j] \/ opening'[j] \in {"unset", "threw"}
    BY <2>1 DEF NoSetup, TypeOK
  <2>5. starting # 0 => starting \in Openings
    BY RecognizerAssumption DEF TypeOK, Openings
  <2> QED BY <2>2, <2>3, <2>4, <2>5 DEF Handed
<1>5. CASE \E k \in Openings : CannotStart(k)
  <2>1. PICK k \in Openings : CannotStart(k)
    BY <1>5
  <2>2. k \in Reading /\ Reading' = Reading \ {k}
    BY <2>1, ReadingSettled DEF CannotStart, Reading, Results
  <2> QED BY <2>1, <2>2 DEF CannotStart, Handed
<1>6. CASE \E k \in Openings : Start(k)
  <2>1. PICK k \in Openings : Start(k)
    BY <1>6
  <2>2. k \in Reading /\ Reading' = Reading \ {k}
    BY <2>1, ReadingSettled DEF Start, Reading
  <2>3. /\ UNCHANGED <<starting, overtaken>> /\ settling' = k /\ running \subseteq running'
        /\ opening' = [opening EXCEPT ![k] = "waiting"]
    BY <2>1 DEF Start
  <2>4. overtaken = {} => k = starting
    BY <2>2 DEF Handed
  <2>5. starting # 0 => starting \in Openings
    BY RecognizerAssumption DEF TypeOK, Openings
  <2>6. \A j \in Openings : opening'[j] = IF j = k THEN "waiting" ELSE opening[j]
    BY <2>3 DEF TypeOK
  <2> QED BY <2>2, <2>3, <2>4, <2>5, <2>6 DEF Handed
<1>7. CASE \E w \in Openings, device \in {"gpu", "cpu"} : Opened(w, device)
  <2>1. PICK w \in Openings, device \in {"gpu", "cpu"} : Opened(w, device)
    BY <1>7
  <2>2. CASE settling # w
    BY <1>1, <2>1, <2>2 DEF Opened, history
  <2>3. CASE settling = w
    <3>1. Reading' \subseteq Reading
      BY <2>1 DEF Opened, Reading, TypeOK
    <3>2. /\ UNCHANGED <<starting, running, overtaken>> /\ w \in running
          /\ \A j \in Openings : opening'[j] = IF j = w THEN "success" ELSE opening[j]
      BY <2>1, <2>3 DEF Opened, history, TypeOK
    <3>3. starting # 0 => starting \in Openings
      BY RecognizerAssumption DEF TypeOK, Openings
    <3> QED BY <2>3, <3>1, <3>2, <3>3 DEF Handed
  <2> QED BY <2>2, <2>3
<1>8. CASE \E c \in Call : Resume(c)
  BY <1>1, <1>8 DEF Resume
<1>9. CASE \E r \in requests, a \in Call \cup {"failed", "unavailable"} : Replying(r, a)
  BY <1>1, <1>9 DEF Replying, Replies, history
<1>10. CASE Inside
  BY <1>1, <1>10 DEF Inside, page, history
<1> QED BY <1>2, <1>3, <1>4, <1>5, <1>6, <1>7, <1>8, <1>9, <1>10 DEF StepCases

(* Callers are handed an opening that will be settled, or whose worker runs  *)
(* still, or one that found no setup.                                        *)
THEOREM OpeningsHandedOut == Spec => []HandedOut
<1>1. Init => Handed
  <2>1. Init => Reading = {}
    BY RecognizerAssumption DEF Init, Reading
  <2> QED BY <2>1 DEF Init, Handed
<1>2. TypeOK /\ Handed /\ [Next]_vars => Handed'
  <2>1. TypeOK /\ Handed /\ UNCHANGED vars => Handed'
    BY DEF vars, page, workers, Handed, Reading
  <2> QED BY <2>1, Steps, HandedKept
<1> QED BY Typed, <1>1, <1>2, HandedImplies, PTL DEF Spec
-------------------------------------------------------------------------------
(* A reply will come.  What waits for a reply has a request with a worker;   *)
(* and, as long as nothing was forgotten while it read the setup, nothing    *)
(* waits for a reply while a worker can be stopped that answers nobody.      *)

AwaitedSuccess == \E c \in Call : awaits[c] # 0 /\ opening[awaits[c]] = "success"

Orderly ==
  overtaken = {} =>
    /\ Reading \subseteq {starting}
    /\ Reading # {} \/ starting = 0 => worker = 0 /\ pending = {}
    /\ settling # 0 => /\ settling = starting /\ opening[settling] = "waiting"
                       /\ pending = {} /\ ~AwaitedSuccess

Served(p) == \E r \in requests : r.id = p[1] /\ r.image = p[2] /\ r.on \in running

Serves == (overtaken = {} => \A p \in pending : Served(p)) /\ Orderly

CurrentRuns == worker # 0 => worker \in running

LEMMA ServesImplies == Serves => PendingServed
BY DEF Serves, Served, PendingServed

LEMMA AskServes ==
  ASSUME TypeOK, Serves, NEW c \in Call, NEW what \in {"prepare", "read"}, Ask(c, what)
  PROVE  Serves'
<1> SUFFICES ASSUME overtaken = {}
             PROVE  (\A p \in pending' : Served(p)') /\ Orderly'
  BY DEF Ask, Serves, Orderly
<1>1. \A p \in pending' : Served(p)'
  BY DEF Ask, workers, Serves, Served
<1>2. UNCHANGED <<settling, worker, pending, overtaken>>
  BY DEF Ask
<1>3. \A d \in Call : awaits'[d] = IF d = c THEN starting' ELSE awaits[d]
  BY DEF Ask, TypeOK
<1>4. CASE starting # 0
  <2>1. UNCHANGED <<opening, starting>> /\ starting' # 0
    BY <1>4 DEF Ask
  <2>2. settling # 0 => ~AwaitedSuccess'
    BY <1>3, <2>1 DEF Serves, Orderly, AwaitedSuccess
  <2> QED BY <1>1, <1>2, <2>1, <2>2 DEF Serves, Orderly, Reading
<1>5. CASE starting = 0
  <2>1. /\ starting' = begun + 1 /\ opening' = [opening EXCEPT ![begun + 1] = "setup"]
    BY <1>5 DEF Ask
  <2>2. settling = 0 /\ worker = 0 /\ pending = {}
    BY <1>5 DEF Serves, Orderly
  <2>3. Reading' \subseteq {starting'}
    <3>1. Reading = {}
      BY <1>5 DEF Serves, Orderly, Reading, Openings
    <3> QED BY <2>1, <3>1 DEF Reading, TypeOK
  <2> QED BY <1>1, <1>2, <2>1, <2>2, <2>3 DEF Orderly
<1> QED BY <1>4, <1>5

LEMMA ResumeServes ==
  ASSUME TypeOK, CurrentRuns, Serves, NEW c \in Call, Resume(c)
  PROVE  Serves'
<1> SUFFICES ASSUME overtaken = {}
             PROVE  (\A p \in pending' : Served(p)') /\ Orderly'
  BY DEF Resume, Serves, Orderly
<1>1. /\ UNCHANGED <<opening, starting, settling, worker, running, overtaken>>
      /\ awaits[c] # 0 /\ awaits' = [awaits EXCEPT ![c] = 0]
  BY DEF Resume
<1>2. AwaitedSuccess' => AwaitedSuccess
  BY <1>1 DEF AwaitedSuccess, TypeOK
<1>3. CASE UNCHANGED <<pending, requests>>
  <2>1. \A p \in pending' : Served(p)'
    BY <1>1, <1>3 DEF Serves, Served
  <2> QED BY <1>1, <1>2, <1>3, <2>1 DEF Serves, Orderly, Reading
<1>4. CASE /\ opening[awaits[c]] = "success" /\ worker # 0
           /\ pending' = pending \cup {<<lastId', c>>}
           /\ \E q : /\ q.id = lastId' /\ q.image = c /\ q.on = worker
                     /\ requests' = requests \cup {q}
  <2>1. AwaitedSuccess
    BY <1>1, <1>4 DEF AwaitedSuccess
  <2>2. settling = 0 /\ Reading = {} /\ starting # 0
    BY <1>4, <2>1 DEF Serves, Orderly
  <2>3. Orderly'
    BY <1>1, <2>2 DEF Orderly, Reading
  <2>4. worker \in running
    BY <1>4 DEF CurrentRuns
  <2>5. \A p \in pending' : Served(p)'
    BY <1>1, <1>4, <2>4 DEF Serves, Served
  <2> QED BY <2>3, <2>5
<1>5. CASE /\ opening[awaits[c]] = "success" /\ worker # 0
           /\ pending' = pending \cup {<<lastId', c>>}
           /\ requests' = requests \cup
                {[on |-> worker, id |-> lastId', image |-> c, at |-> "sent"]}
  BY <1>4, <1>5
<1> QED BY <1>3, <1>5 DEF Resume

LEMMA StoppingServes ==
  ASSUME TypeOK, Serves, NEW result \in Results, NEW pendingToo \in BOOLEAN,
         Stopping(result, pendingToo)
  PROVE  Serves'
<1>1. /\ overtaken' = overtaken \cup Reading /\ starting' = 0 /\ worker' = 0 /\ settling' = 0
      /\ pendingToo => pending' = {}
      /\ ~pendingToo => pending' = pending /\ settling # 0
  BY DEF Stopping, Forgets
<1>2. Reading' \subseteq Reading
  BY DEF Stopping, Forgets, Reading, TypeOK, Results
<1>3. overtaken' = {} => pending' = {}
  BY <1>1 DEF Serves, Orderly
<1> QED BY <1>1, <1>2, <1>3 DEF Serves, Orderly

LEMMA SetupServes ==
  ASSUME TypeOK, Serves, NEW k \in Openings,
         NoSetup(k, "unset") \/ NoSetup(k, "threw") \/ CannotStart(k)
  PROVE  Serves'
<1> SUFFICES ASSUME overtaken = {}
             PROVE  (\A p \in pending' : Served(p)') /\ Orderly'
  BY DEF NoSetup, CannotStart, workers, Serves, Orderly
<1>1. /\ UNCHANGED <<settling, worker, pending, running, requests, awaits>>
      /\ starting' \in {starting, 0}
  BY DEF NoSetup, CannotStart, workers
<1>2. k \in Reading /\ Reading' = Reading \ {k}
  BY ReadingSettled DEF NoSetup, CannotStart, Reading, Results
<1>3. k = starting /\ worker = 0 /\ pending = {} /\ settling = 0
  BY <1>2 DEF Serves, Orderly, Reading
<1> QED BY <1>1, <1>2, <1>3 DEF Orderly, Serves

LEMMA StartServes ==
  ASSUME TypeOK, Serves, NEW k \in Openings, Start(k)
  PROVE  Serves'
<1> SUFFICES ASSUME overtaken = {}
             PROVE  (\A p \in pending' : Served(p)') /\ Orderly'
  BY DEF Start, Serves, Orderly
<1>1. /\ UNCHANGED <<starting, pending, awaits>> /\ settling' = k
      /\ opening' = [opening EXCEPT ![k] = "waiting"]
  BY DEF Start
<1>2. k \in Reading /\ Reading' = Reading \ {k}
  BY <1>1, ReadingSettled DEF Start, Reading
<1>3. k = starting /\ k # 0 /\ pending = {} /\ Reading' = {}
  BY <1>2 DEF Serves, Orderly, Openings
<1>4. ~AwaitedSuccess'
  BY <1>1 DEF AwaitedSuccess, Start, Resumable, Settled, Results, TypeOK
<1>5. opening'[k] = "waiting"
  BY <1>1 DEF TypeOK
<1> QED BY <1>1, <1>3, <1>4, <1>5 DEF Orderly

LEMMA OpenedServes ==
  ASSUME TypeOK, Serves, NEW w \in Openings, NEW device \in {"gpu", "cpu"}, Opened(w, device)
  PROVE  Serves'
<1> SUFFICES ASSUME overtaken = {}
             PROVE  (\A p \in pending' : Served(p)') /\ Orderly'
  BY DEF Opened, history, Serves, Orderly
<1>1. UNCHANGED <<starting, worker, pending, running, requests, awaits>>
  BY DEF Opened
<1>2. \A p \in pending' : Served(p)'
  BY <1>1 DEF Serves, Served
<1>3. Reading' \subseteq Reading
  BY DEF Opened, Reading, TypeOK
<1>4. settling' = 0 \/ UNCHANGED <<settling, opening>>
  BY DEF Opened
<1> QED BY <1>1, <1>2, <1>3, <1>4 DEF Serves, Orderly, AwaitedSuccess

LEMMA ReplyingServes ==
  ASSUME Waiting, Serves, NEW r \in requests, NEW a, Replying(r, a)
  PROVE  Serves'
<1> SUFFICES ASSUME overtaken = {}
             PROVE  (\A p \in pending' : Served(p)') /\ Orderly'
  BY DEF Replying, Replies, history, Serves, Orderly
<1>1. /\ UNCHANGED <<starting, settling, worker, running, awaits, opening>>
      /\ requests' = requests \ {r} /\ pending' = {p \in pending : p[1] # r.id}
  BY DEF Replying, Replies, Settles
<1>2. \A p \in pending' : Served(p)'
  BY <1>1 DEF Serves, Served
<1> QED BY <1>1, <1>2 DEF Serves, Orderly, AwaitedSuccess, Reading

LEMMA InsideServes ==
  ASSUME TypeOK, Serves, Inside \/ UNCHANGED vars
  PROVE  Serves'
<1>1. /\ UNCHANGED <<starting, settling, worker, running, awaits, opening, pending, overtaken>>
      /\ SameRequests
  BY DEF Inside, page, history, vars, workers, SameRequests
<1>2. \A p \in pending : Served(p) => Served(p)'
  BY <1>1 DEF Served, SameRequests
<1> QED BY <1>1, <1>2 DEF Serves, Orderly, AwaitedSuccess, Reading

LEMMA ServesKept ==
  ASSUME Waiting, CurrentRuns, Serves, [Next]_vars
  PROVE  Serves'
<1>1. CASE UNCHANGED vars
  BY <1>1, InsideServes DEF Waiting
<1>2. CASE Next
  <2>1. StepCases /\ TypeOK
    BY <1>2, Steps DEF Waiting
  <2>2. CASE \E k \in Openings, result \in {"unset", "threw"} : NoSetup(k, result)
    BY <2>1, <2>2, SetupServes
  <2>3. CASE \E k \in Openings : CannotStart(k) \/ Start(k)
    BY <2>1, <2>3, SetupServes, StartServes
  <2> QED BY <2>1, <2>2, <2>3, AskServes, ResumeServes, StoppingServes, OpenedServes,
             ReplyingServes, InsideServes DEF StepCases
<1> QED BY <1>1, <1>2

(* A call that waits for a reply has a request with a worker that runs,      *)
(* unless an opening was forgotten while it read the setup: stopping a       *)
(* worker leaves no one waiting.                                             *)
THEOREM RepliesWillCome == Spec => []PendingServed
<1>1. Init => Waiting /\ Counted /\ Serves
  <2> SUFFICES ASSUME Init PROVE Waiting /\ Counted /\ Serves
    OBVIOUS
  <2>1. Waiting /\ Counted
    BY InitWaits, InitCounted
  <2>2. Reading = {}
    BY RecognizerAssumption DEF Init, Reading
  <2> QED BY <2>1, <2>2 DEF Init, Serves, Orderly
<1>2. Waiting /\ Counted /\ Serves /\ [Next]_vars => (Waiting /\ Counted /\ Serves)'
  <2>1. Waiting /\ Counted /\ Serves => TypeOK /\ CurrentRuns
    BY DEF Waiting, Counted, CurrentRuns
  <2> QED BY <2>1, NextWaits, NextCounted, ServesKept
<1> QED BY <1>1, <1>2, ServesImplies, PTL DEF Spec
===============================================================================
