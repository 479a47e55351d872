------------------------------ MODULE Registers ------------------------------
(***************************************************************************)
(* What sync makes of the records of an account, whatever batches, pages,  *)
(* copies in memory and failed runs stand behind it: a register for each   *)
(* record on every device, where the last writer wins.                     *)
(* Source: the rules of dokseo-sync for its clients (openapi.yaml) and the *)
(* markers and versions of shared/change-marker.ts.                        *)
(***************************************************************************)
EXTENDS Versions

CONSTANTS
  Device,
  Record,
  Separate   \* the records whose content goes with no other record

VARIABLES
  stored,    \* the changes the server has
  pending,   \* the markers of each device: what it wrote and has to push
  known,     \* the versions each device holds
  value      \* the content of the separate records on every device

Nothing == 0

NameOf(change) ==
  [record |-> change.record, at |-> change.at, device |-> change.device]

Init ==
  /\ stored = {}
  /\ pending = [d \in Device |-> {}] /\ known = [d \in Device |-> {}]
  /\ value = [d \in Device |-> [r \in Separate |-> Nothing]]

(* A user writes records of a device: one new marker for each of them.      *)
Write(d, R) ==
  /\ pending' = [pending EXCEPT ![d] = pending'[d]]
  /\ \A m \in pending'[d] \ pending[d] :
       m.record \in R /\ \A c \in stored : c.record = m.record => c.id # m.id
  /\ {m \in pending'[d] : m.record \notin R} = {m \in pending[d] : m.record \notin R}
  /\ \A r \in R : \E m \in pending'[d] \ pending[d] : m.record = r
  /\ value' = [value EXCEPT ![d] = value'[d]]
  /\ \A r \in Separate \ R : value'[d][r] = value[d][r]
  /\ UNCHANGED <<stored, known>>

(* The server stores changes of one device, each once, and as it was made.  *)
Store(d) ==
  /\ stored \subseteq stored'
  /\ \A c \in stored' \ stored :
       /\ c.device = d
       /\ \A o \in stored' : (o.record = c.record /\ o.id = c.id) => o = c
       /\ \A m \in pending[d] : (m.record = c.record /\ m.id = c.id) =>
            c.at = m.at /\ (c.record \in Separate => c.data = value[d][c.record])
  /\ UNCHANGED <<pending, known, value>>

(* A version gives way to a later one only. *)
Rises(d) ==
  \A v \in known[d] \ known'[d] :
    \E w \in known'[d] : w.record = v.record /\ IsLaterVersion(w, v)

(* A device hears that changes it made are stored, and touches no content.  *)
Settle(d) ==
  /\ pending' = [pending EXCEPT ![d] = pending'[d]]
  /\ \A m \in pending[d] \ pending'[d] :
       \E c \in stored : /\ c.record = m.record /\ c.id = m.id
                         /\ NameOf(c) \in known'[d]
  /\ pending'[d] \subseteq pending[d]
  /\ known' = [known EXCEPT ![d] = known'[d]]
  /\ \A v \in known'[d] \ known[d] :
       \E c \in stored : c.device = d /\ NameOf(c) = v
  /\ Rises(d)
  /\ UNCHANGED <<stored, value>>

(* A device takes a stored change of another device, later than the version *)
(* it holds, with its content, and with that of no other separate record.   *)
Learn(d, c) ==
  /\ c.device # d
  /\ \A v \in known[d] : v.record = c.record => IsLaterVersion(c, v)
  /\ known' = [known EXCEPT ![d] = {v \in @ : v.record # c.record} \cup {NameOf(c)}]
  /\ pending' = [pending EXCEPT ![d] = {m \in @ : m.record # c.record}]
  /\ value' = [value EXCEPT ![d] =
       [r \in Separate |-> IF r = c.record THEN c.data ELSE @[r]]]
  /\ UNCHANGED stored

Next ==
  \E d \in Device : \/ \E R \in SUBSET Record : Write(d, R)
                    \/ Store(d) \/ Settle(d)
                    \/ \E c \in stored : Learn(d, c)

Spec == Init /\ [][Next]_<<stored, pending, known, value>>
===============================================================================
