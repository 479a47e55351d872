------------------------------- MODULE Versions -------------------------------
(***************************************************************************)
(* The precedence between two versions of one record, and the decision a   *)
(* device takes when a change of another device meets its own copy.        *)
(* Source: shared/change-marker.ts, domains/sync/domain/merge.ts and       *)
(* domains/sync/domain/local-change.ts.                                    *)
(*                                                                         *)
(* A timestamp is a number; a device id and a change id are numbers too:   *)
(* the code compares them as lower-case text, and only the order it gives  *)
(* is kept.  NoId is the empty id, below every other.                      *)
(***************************************************************************)
EXTENDS Integers

NoId == 0

(* A version, a marker's version and a change all have these two fields. *)
IsLaterVersion(candidate, held) ==
  \/ candidate.at > held.at
  \/ candidate.at = held.at /\ candidate.device > held.device

SameVersion(a, b) == a.at = b.at /\ a.device = b.device

(* precedence(a, b) > 0: an equal version is decided by the change id. *)
Beats(a, b) ==
  \/ IsLaterVersion(a, b)
  \/ ~IsLaterVersion(b, a) /\ a.id > b.id

(* Mutant: of two changes of one time each device keeps its own. *)
MergeAppliesByTime(local, incoming) ==
  \A l \in local : l.id # incoming.id /\ incoming.at > l.at

(* decideMerge: a set of at most one local change, and the incoming one.  *)
MergeApplies(local, incoming) ==
  \A l \in local : l.id # incoming.id /\ Beats(incoming, l)

(* Mutant: the version a device holds is not looked at. *)
MarkerOnly(marker, version, incoming, device) ==
  {[id |-> m.id, at |-> m.at, device |-> device] : m \in marker}

(* localChange: the pending marker hides the held version.  Both arguments *)
(* are sets of at most one element, empty when the device has none.        *)
LocalChange(marker, version, incoming, device) ==
  IF marker # {}
  THEN {[id |-> m.id, at |-> m.at, device |-> device] : m \in marker}
  ELSE {[id |-> IF SameVersion(v, incoming) THEN incoming.id ELSE NoId,
         at |-> v.at, device |-> v.device] : v \in version}

(* reduceToWinners: of the changes of one record, the one none beats. *)
Winners(changes) ==
  {c \in changes : \A e \in changes : e.record = c.record => ~Beats(e, c)}
===============================================================================
