------------------------------- MODULE Requests -------------------------------
(***************************************************************************)
(* What the recognizer of a language promises to those who call it,        *)
(* whatever worker, ids and messages stand behind it: a call is answered   *)
(* once, and a read that succeeds has the text of its own image.           *)
(* Source: the interface TextRecognizer, recognition/domain/engine.        *)
(***************************************************************************)
CONSTANTS Call, None

VARIABLES kind, answer

Kinds == {"prepare", "read"}
Refusals == {"unavailable", "cancelled", "failed", "threw"}

(* A prepare succeeds with a session, a read with the text of an image. *)
Session == "session"
Successes(c) == IF kind[c] = "read" THEN {c} ELSE {Session}

Init == kind = [c \in Call |-> None] /\ answer = [c \in Call |-> None]

Ask(c) ==
  /\ kind[c] = None
  /\ \E k \in Kinds : kind' = [kind EXCEPT ![c] = k]
  /\ UNCHANGED answer

(* What stops a worker answers several calls at once. *)
Answer(calls) ==
  /\ calls # {} /\ \A c \in calls : kind[c] # None /\ answer[c] = None
  /\ answer' \in [Call -> {None, Session} \cup Call \cup Refusals]
  /\ \A c \in Call : IF c \in calls THEN answer'[c] \in Refusals \cup Successes(c)
                     ELSE answer'[c] = answer[c]
  /\ UNCHANGED kind

Next == (\E c \in Call : Ask(c)) \/ (\E calls \in SUBSET Call : Answer(calls))

Spec == Init /\ [][Next]_<<kind, answer>>
===============================================================================
