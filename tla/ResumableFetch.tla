---------------------------- MODULE ResumableFetch ----------------------------
(***************************************************************************)
(* The download of one file of a model, which can be paused: it is asked   *)
(* for in chunks, and what arrives is appended to a partial file in OPFS   *)
(* that a later load resumes from.  Loads run in workers, of this tab and  *)
(* of others; the file of the server may change between two requests.      *)
(*                                                                         *)
(* A file is a sequence of blocks: a block is its version of the file and  *)
(* its place in it, or Hole, what a file is padded with when it grows.     *)
(* Source: workers/resumable-fetch.ts, platform/opfs/partial-store.ts,     *)
(* recognition/adapters/model/opfs-partial-downloads.ts.                   *)
(***************************************************************************)
EXTENDS Naturals, Sequences

CONSTANTS
  Loader,     \* loads that go on at once
  Length,     \* the length of each version of the file, in blocks
  Chunk,      \* how many blocks are asked for at once
  None, Hole,
  MaxStarts,  \* bound: how often a load is started or the partial discarded
  MaxFaults   \* bound: how often a load fails, is paused or is cut off

Version == DOMAIN Length

ASSUME ResumableFetchAssumption ==
  /\ Length \in Seq(Nat \ {0}) /\ Length # <<>> /\ Chunk \in Nat \ {0}
  /\ None \notin Loader /\ Hole \notin Version \X Nat
  /\ MaxStarts \in Nat /\ MaxFaults \in Nat

VARIABLES
  now,      \* the version the server has
  partial,  \* the partial file
  handle,   \* the load that has the partial file open, or None
  load,     \* what each load does
  shared,   \* history: a load overlapped another one, or a discard
  changed,  \* history: the file changed while a part of it was held or loaded
  starts, faults

vars == <<now, partial, handle, load, shared, changed, starts, faults>>

Stages == {"idle", "size", "ask", "refused", "drop", "whole", "opened", "restart",
           "stored", "request", "append", "read", "finish", "done", "failed"}

(* What a load held when it asked, the version and length it was answered,  *)
(* where its chunk begins, what the answer sends next and up to where, and  *)
(* what it handed on.                                                       *)
NoLoad == [at |-> "idle", have |-> 0, version |-> 0, total |-> 0,
           from |-> 0, next |-> 0, to |-> 0, body |-> <<>>]

Content(v) == [i \in 1..Length[v] |-> <<v, i>>]
Block == (Version \X (Nat \ {0})) \cup {Hole}
Lesser(m, n) == IF m < n THEN m ELSE n

Init ==
  /\ now = 1 /\ partial = <<>> /\ handle = None
  /\ load = [l \in Loader |-> NoLoad]
  /\ shared = FALSE /\ changed = FALSE /\ starts = 0 /\ faults = 0

Ended(l) == load[l].at \in {"idle", "done", "failed"}
Goes(l, at) == load' = [load EXCEPT ![l].at = at]
HandsOn(l, v) == load' = [load EXCEPT ![l].at = "done", ![l].body = Content(v)]
Fails(l) == Goes(l, "failed") /\ handle' = IF handle = l THEN None ELSE handle
-------------------------------------------------------------------------------
(* fetchResumable *)

Start(l) ==
  LET alone == \A other \in Loader : Ended(other)
  IN  /\ Ended(l) /\ starts < MaxStarts /\ starts' = starts + 1
      /\ load' = [load EXCEPT ![l] = [NoLoad EXCEPT !.at = "size"]]
      /\ shared' = IF alone THEN shared /\ partial # <<>> ELSE TRUE
      /\ changed' = (changed /\ (partial # <<>> \/ ~alone))
      /\ UNCHANGED <<now, partial, handle, faults>>

Size(l) ==
  /\ load[l].at = "size"
  /\ load' = [load EXCEPT ![l].have = Len(partial), ![l].at = "ask"]
  /\ UNCHANGED <<now, partial, handle, shared, changed, starts, faults>>

\* Mutant: an answer of another range is taken for the one asked for.
AskAnyRange(l) ==
  LET have == load[l].have
  IN  /\ load[l].at = "ask"
      /\ \/ /\ have < Length[now]
            /\ load' = [load EXCEPT ![l].at = "opened", ![l].version = now,
                          ![l].total = Length[now], ![l].from = have,
                          ![l].next = have, ![l].to = Lesser(have + Chunk, Length[now])]
         \/ have > 0 /\ Goes(l, "refused")
         \/ IF have > 0 THEN load' = [load EXCEPT ![l].at = "drop", ![l].version = now]
            ELSE HandsOn(l, now)
         \/ load' = [load EXCEPT ![l].at = "opened", ![l].version = now,
                       ![l].total = Length[now], ![l].from = have,
                       ![l].next = 0, ![l].to = Lesser(Chunk, Length[now])]
      /\ UNCHANGED <<now, partial, handle, shared, changed, starts, faults>>

(* The server answers a range as asked, refuses it (as it does one beyond   *)
(* the file), sends the whole file instead, or answers another range.       *)
Ask(l) ==
  LET have == load[l].have
  IN  /\ load[l].at = "ask"
      /\ \/ /\ have < Length[now]
            /\ load' = [load EXCEPT ![l].at = "opened", ![l].version = now,
                          ![l].total = Length[now], ![l].from = have,
                          ![l].next = have, ![l].to = Lesser(have + Chunk, Length[now])]
         \/ have > 0 /\ Goes(l, "refused")
         \/ IF have > 0 THEN load' = [load EXCEPT ![l].at = "drop", ![l].version = now]
            ELSE HandsOn(l, now)
         \/ Goes(l, IF have > 0 THEN "drop" ELSE "whole")
      /\ UNCHANGED <<now, partial, handle, shared, changed, starts, faults>>

(* The partial file is removed, which fails while it is open, and the load  *)
(* asks again from the beginning, hands on the whole file it was sent, asks *)
(* for the whole file, or looks for the partial file once more.             *)
Remove(l) ==
  /\ load[l].at \in {"refused", "drop", "restart"}
  /\ IF handle # None THEN Fails(l) /\ UNCHANGED partial
     ELSE /\ partial' = <<>> /\ UNCHANGED handle
          /\ CASE load[l].at = "refused" ->
                    load' = [load EXCEPT ![l].at = "ask", ![l].have = 0]
               [] load[l].at = "restart" ->
                    load' = [load EXCEPT ![l] = [NoLoad EXCEPT !.at = "size"]]
               [] OTHER -> IF load[l].version = 0 THEN Goes(l, "whole")
                           ELSE HandsOn(l, load[l].version)
  /\ UNCHANGED <<now, shared, changed, starts, faults>>

Whole(l) ==
  /\ load[l].at = "whole" /\ HandsOn(l, now)
  /\ UNCHANGED <<now, partial, handle, shared, changed, starts, faults>>

(* A file of one chunk is handed on at once, and not stored.  The partial   *)
(* file must still be as long as the range that was asked for.              *)
Opened(l) ==
  LET have == load[l].have
  IN  /\ load[l].at = "opened"
      /\ \/ have = 0 /\ load[l].total <= Chunk /\ HandsOn(l, load[l].version)
         \/ have = 0 /\ load[l].total > Chunk /\ Goes(l, "append")
         \/ have > 0 /\ Len(partial) # have /\ Goes(l, "restart")
         \/ /\ have > 0 /\ Len(partial) = have
            /\ load' = [load EXCEPT ![l].at = "stored", ![l].body = partial]
      /\ UNCHANGED <<now, partial, handle, shared, changed, starts, faults>>
-------------------------------------------------------------------------------
(* resumingBody *)

(* The stored part is handed on; a file that has changed since it was       *)
(* looked at cannot be read.                                                *)
Stored(l) ==
  /\ load[l].at = "stored"
  /\ IF partial = load[l].body THEN Goes(l, "append") /\ UNCHANGED handle ELSE Fails(l)
  /\ UNCHANGED <<now, partial, shared, changed, starts, faults>>

(* The next chunk must be of a file of the same length. *)
Request(l) ==
  LET offset == Len(load[l].body)
  IN  /\ load[l].at = "request"
      /\ IF Length[now] = load[l].total
         THEN /\ load' = [load EXCEPT ![l].at = "append", ![l].version = now,
                            ![l].from = offset, ![l].next = offset,
                            ![l].to = Lesser(offset + Chunk, Length[now])]
              /\ UNCHANGED handle
         ELSE Fails(l)
      /\ UNCHANGED <<now, partial, shared, changed, starts, faults>>

(* The partial file is opened for one load at a time, and cut or padded to  *)
(* the offset of the load.                                                  *)
OpenAppend(l) ==
  LET offset == Len(load[l].body)
  IN  /\ load[l].at = "append"
      /\ IF handle # None THEN Fails(l) /\ UNCHANGED partial
         ELSE /\ handle' = l /\ Goes(l, "read")
              /\ partial' = [i \in 1..offset |-> IF i <= Len(partial) THEN partial[i] ELSE Hole]
      /\ UNCHANGED <<now, shared, changed, starts, faults>>

\* Mutant: the file ends one block early.
ReadShort(l) ==
  LET offset == Len(load[l].body)
      last == offset + 2 >= load[l].total
  IN  /\ load[l].at = "read" /\ load[l].next < load[l].to
      /\ partial' = Append(partial, <<load[l].version, load[l].next + 1>>)
      /\ load' = [load EXCEPT ![l].body = Append(@, <<load[l].version, load[l].next + 1>>),
                              ![l].next = @ + 1,
                              ![l].at = IF last THEN "finish" ELSE "read"]
      /\ handle' = IF last THEN None ELSE handle
      /\ UNCHANGED <<now, shared, changed, starts, faults>>

Read(l) ==
  LET offset == Len(load[l].body)
      last == offset + 1 >= load[l].total
  IN  /\ load[l].at = "read" /\ load[l].next < load[l].to
      /\ partial' = Append(partial, <<load[l].version, load[l].next + 1>>)
      /\ load' = [load EXCEPT ![l].body = Append(@, <<load[l].version, load[l].next + 1>>),
                              ![l].next = @ + 1,
                              ![l].at = IF last THEN "finish" ELSE "read"]
      /\ handle' = IF last THEN None ELSE handle
      /\ UNCHANGED <<now, shared, changed, starts, faults>>

\* Mutant: a chunk with nothing in it is asked for again.
ChunkEndsEmpty(l) ==
  /\ load[l].at = "read"
  /\ handle' = None /\ Goes(l, "request")
  /\ UNCHANGED <<now, partial, shared, changed, starts, faults>>

(* A chunk ends, perhaps before it should, but not before it has begun. *)
ChunkEnds(l) ==
  /\ load[l].at = "read"
  /\ IF Len(load[l].body) = load[l].from THEN Fails(l)
     ELSE handle' = None /\ Goes(l, "request")
  /\ UNCHANGED <<now, partial, shared, changed, starts, faults>>

(* A partial file that cannot be removed is left. *)
Finish(l) ==
  /\ load[l].at = "finish" /\ Goes(l, "done")
  /\ partial' = IF handle = None THEN <<>> ELSE partial
  /\ UNCHANGED <<now, handle, shared, changed, starts, faults>>
-------------------------------------------------------------------------------
\* Mutant: a load that fails removes what it wrote.
StopRemoving(l) ==
  /\ ~Ended(l) /\ faults < MaxFaults /\ faults' = faults + 1
  /\ Fails(l)
  /\ partial' = <<>>
  /\ UNCHANGED <<now, shared, changed, starts>>

(* A request or a write fails, the reader cancels, the worker is stopped.   *)
(* What was written stays.                                                  *)
Stop(l) ==
  /\ ~Ended(l) /\ faults < MaxFaults /\ faults' = faults + 1
  /\ Fails(l)
  /\ UNCHANGED <<now, partial, shared, changed, starts>>

(* The user gives up the partial file; the load of this tab was stopped. *)
Discard ==
  /\ handle = None /\ partial # <<>> /\ starts < MaxStarts /\ starts' = starts + 1
  /\ partial' = <<>>
  /\ shared' = (shared \/ \E l \in Loader : ~Ended(l))
  /\ UNCHANGED <<now, handle, load, changed, faults>>

Change ==
  /\ now + 1 \in Version /\ now' = now + 1
  /\ changed' = (changed \/ partial # <<>> \/ \E l \in Loader : ~Ended(l))
  /\ UNCHANGED <<partial, handle, load, shared, starts, faults>>

GoOn(l) ==
  \/ Size(l) \/ Ask(l) \/ Remove(l) \/ Whole(l) \/ Opened(l) \/ Stored(l) \/ Request(l)
  \/ OpenAppend(l) \/ Read(l) \/ ChunkEnds(l) \/ Finish(l)

Next == Discard \/ Change \/ \E l \in Loader : Start(l) \/ GoOn(l) \/ Stop(l)

Spec == Init /\ [][Next]_vars

(* What was asked of the server or of the disk comes back. *)
FairSpec == Spec /\ \A l \in Loader : WF_vars(GoOn(l))
-------------------------------------------------------------------------------
TypeOK ==
  /\ now \in Version /\ partial \in Seq(Block)
  /\ handle \in Loader \cup {None}
  /\ load \in [Loader -> [at : Stages, have : Nat, version : Version \cup {0}, total : Nat,
                          from : Nat, next : Nat, to : Nat, body : Seq(Block)]]
  /\ shared \in BOOLEAN /\ changed \in BOOLEAN
  /\ starts \in 0..MaxStarts /\ faults \in 0..MaxFaults

Sound == ~shared /\ ~changed

(* The partial file is the beginning of the server's file, whatever loads   *)
(* failed, were paused or were cut off; unless two overlapped, or the file  *)
(* of the server changed while a part of it was held.                       *)
PartialFits ==
  Sound => /\ Len(partial) <= Length[now]
           /\ \A i \in 1..Len(partial) : partial[i] = <<now, i>>

(* Under the same conditions a body that was handed on to its end is the    *)
(* file, of one version, with no block twice and none missing.              *)
BodyWhole ==
  [][\A l \in Loader : Sound /\ load[l].at # "done" /\ load'[l].at = "done"
                         => load'[l].body = Content(now)]_vars

(* What was downloaded is not downloaded again: the partial file goes only  *)
(* with the load that finished it, with a discard, or when the server does  *)
(* not take up where it ends.                                               *)
KeepsBytes ==
  [][~shared' /\ (\E i \in 1..Len(partial) : i > Len(partial') \/ partial'[i] # partial[i])
       => \/ \E l \in Loader : load[l].at \in {"refused", "drop", "finish"}
          \/ \A l \in Loader : Ended(l)]_vars

(* Every load ends: no answer of the server makes one ask for ever. *)
Ends == \A l \in Loader : ~Ended(l) ~> Ended(l)
===============================================================================
