------------------------- MODULE ResumableFetchProofs -------------------------
(***************************************************************************)
(* That a download that was paused, cut off or resumed is the file of the  *)
(* server: for any number of loads, any versions of the file and any size  *)
(* of chunk, unless loads overlapped or the file changed meanwhile.        *)
(***************************************************************************)
EXTENDS ResumableFetch, SequenceTheorems, TLAPS

(* A beginning of the file the server has. *)
Begins(s) == Len(s) <= Length[now] /\ \A i \in 1..Len(s) : s[i] = <<now, i>>

Record == [at : Stages, have : Nat, version : Version \cup {0}, total : Nat,
           from : Nat, next : Nat, to : Nat, body : Seq(Block)]
-------------------------------------------------------------------------------
(* Types. *)

LEMMA LengthsFit == \A v \in Version : Length[v] \in Nat \ {0}
BY ResumableFetchAssumption DEF Version

LEMMA ContentFits ==
  ASSUME NEW v \in Version
  PROVE  Content(v) \in Seq(Block) /\ Len(Content(v)) = Length[v]
<1>1. Length[v] \in Nat
  BY LengthsFit
<1>2. \A i \in 1..Length[v] : <<v, i>> \in Block
  BY <1>1 DEF Block
<1> QED BY <1>1, <1>2 DEF Content

LEMMA NoLoadFits == NoLoad \in Record
<1>1. <<>> \in Seq(Block)
  OBVIOUS
<1> QED BY <1>1 DEF NoLoad, Record, Stages

LEMMA AStage ==
  {"size", "ask", "refused", "drop", "whole", "opened", "restart", "stored", "request",
   "append", "read", "finish", "done", "failed"} \subseteq Stages
BY DEF Stages

(* A load that goes on to a stage, and what is else true of it stays. *)
LEMMA GoesFits ==
  ASSUME TypeOK, NEW l \in Loader, NEW at \in Stages, Goes(l, at)
  PROVE  load' \in [Loader -> Record]
BY DEF TypeOK, Goes, Record

LEMMA FailsFits ==
  ASSUME TypeOK, NEW l \in Loader, Fails(l)
  PROVE  load' \in [Loader -> Record] /\ handle' \in Loader \cup {None}
BY GoesFits DEF TypeOK, Fails, Stages

LEMMA HandsOnFits ==
  ASSUME TypeOK, NEW l \in Loader, NEW v \in Version, HandsOn(l, v)
  PROVE  load' \in [Loader -> Record]
BY ContentFits, AStage DEF TypeOK, HandsOn, Record

LEMMA PaddedFits ==
  ASSUME TypeOK, NEW n \in Nat
  PROVE  [i \in 1..n |-> IF i <= Len(partial) THEN partial[i] ELSE Hole] \in Seq(Block)
<1>1. \A i \in 1..n : (IF i <= Len(partial) THEN partial[i] ELSE Hole) \in Block
  BY DEF TypeOK, Block
<1> QED BY <1>1

LEMMA LoadTyped ==
  ASSUME TypeOK, NEW l \in Loader
  PROVE  /\ load[l] \in Record /\ load[l].body \in Seq(Block) /\ Len(load[l].body) \in Nat
         /\ load[l].have \in Nat /\ load[l].total \in Nat /\ load[l].from \in Nat
         /\ load[l].next \in Nat /\ load[l].to \in Nat /\ load[l].version \in Version \cup {0}
BY DEF TypeOK, Record

LEMMA SetTo ==
  ASSUME TypeOK, NEW l \in Loader, NEW r \in Record, load' = [load EXCEPT ![l] = r]
  PROVE  load' \in [Loader -> Record]
BY DEF TypeOK, Record

(* A load that was answered knows the version it is loading. *)
Versioned ==
  \A l \in Loader : load[l].at \in {"opened", "stored", "append", "read", "request"}
                      => load[l].version \in Version

LEMMA StepTyped ==
  ASSUME TypeOK, Versioned, Next
  PROVE  TypeOK'
<1> USE DEF Record
<1>1. CASE Discard
  BY <1>1, ResumableFetchAssumption DEF Discard, TypeOK
<1>2. CASE Change
  BY <1>2 DEF Change, TypeOK
<1>3. ASSUME NEW l \in Loader, Start(l) PROVE TypeOK'
  <2>1. load' \in [Loader -> Record]
    <3>1. [NoLoad EXCEPT !.at = "size"] \in Record
      BY NoLoadFits, AStage DEF Record
    <3> QED BY <1>3, <3>1 DEF Start, TypeOK
  <2>2. shared' \in BOOLEAN /\ changed' \in BOOLEAN
    BY <1>3 DEF Start, TypeOK
  <2>3. starts' \in 0..MaxStarts
    <3>1. starts < MaxStarts /\ starts' = starts + 1
      BY <1>3 DEF Start
    <3> QED BY <3>1, ResumableFetchAssumption DEF TypeOK
  <2> QED BY <1>3, <2>1, <2>2, <2>3 DEF Start, TypeOK
<1>4. ASSUME NEW l \in Loader, Stop(l) PROVE TypeOK'
  <2>1. load' \in [Loader -> Record] /\ handle' \in Loader \cup {None}
    BY <1>4, FailsFits DEF Stop
  <2> QED BY <1>4, <2>1, ResumableFetchAssumption DEF Stop, TypeOK
<1>5. ASSUME NEW l \in Loader, Size(l) PROVE TypeOK'
  <2>1. Len(partial) \in Nat
    BY DEF TypeOK
  <2>2. load' \in [Loader -> Record]
    BY <1>5, <2>1, AStage DEF Size, TypeOK
  <2> QED BY <1>5, <2>2 DEF Size, TypeOK
<1>6. ASSUME NEW l \in Loader, Ask(l) PROVE TypeOK'
  <2>1. now \in Version /\ Length[now] \in Nat
    BY LengthsFit DEF TypeOK
  <2>2. load' \in [Loader -> Record]
    <3>1. CASE /\ load[l].have < Length[now]
               /\ load' = [load EXCEPT ![l].at = "opened", ![l].version = now,
                             ![l].total = Length[now], ![l].from = load[l].have,
                             ![l].next = load[l].have,
                             ![l].to = Lesser(load[l].have + Chunk, Length[now])]
      <4>1. Lesser(load[l].have + Chunk, Length[now]) \in Nat
        BY <2>1, LoadTyped, ResumableFetchAssumption DEF Lesser
      <4>2. PICK n \in Nat : n = Lesser(load[l].have + Chunk, Length[now])
        BY <4>1
      <4>3. load' = [load EXCEPT ![l] = [load[l] EXCEPT !.at = "opened", !.version = now,
                       !.total = Length[now], !.from = load[l].have, !.next = load[l].have,
                       !.to = n]]
        BY <3>1, <4>2 DEF TypeOK
      <4>4. [load[l] EXCEPT !.at = "opened", !.version = now, !.total = Length[now],
               !.from = load[l].have, !.next = load[l].have, !.to = n] \in Record
        BY <2>1, <4>2, LoadTyped, AStage DEF Record
      <4> QED BY <4>3, <4>4, SetTo
    <3>2. CASE Goes(l, "refused") \/ Goes(l, "drop") \/ Goes(l, "whole")
      BY <3>2, GoesFits DEF Stages
    <3>3. CASE load' = [load EXCEPT ![l].at = "drop", ![l].version = now]
      BY <2>1, <3>3, AStage DEF TypeOK
    <3>4. CASE HandsOn(l, now)
      BY <2>1, <3>4, HandsOnFits
    <3> QED BY <1>6, <3>1, <3>2, <3>3, <3>4 DEF Ask
  <2> QED BY <1>6, <2>2 DEF Ask, TypeOK
<1>7. ASSUME NEW l \in Loader, Remove(l) PROVE TypeOK'
  <2>1. CASE handle # None
    <3>1. Fails(l) /\ UNCHANGED partial
      BY <1>7, <2>1 DEF Remove
    <3> QED BY <1>7, <3>1, FailsFits DEF Remove, TypeOK
  <2>2. CASE handle = None
    <3>1. load' \in [Loader -> Record]
      <4>1. CASE load[l].at = "refused"
        <5>1. load' = [load EXCEPT ![l] = [load[l] EXCEPT !.at = "ask", !.have = 0]]
          BY <1>7, <2>2, <4>1 DEF Remove, TypeOK
        <5>2. [load[l] EXCEPT !.at = "ask", !.have = 0] \in Record
          BY LoadTyped, AStage DEF Record
        <5> QED BY <5>1, <5>2, SetTo
      <4>2. CASE load[l].at = "restart"
        <5>1. [NoLoad EXCEPT !.at = "size"] \in Record
          BY NoLoadFits, AStage DEF Record
        <5>2. load' = [load EXCEPT ![l] = [NoLoad EXCEPT !.at = "size"]]
          BY <1>7, <2>2, <4>2 DEF Remove
        <5> QED BY <5>1, <5>2 DEF TypeOK
      <4>3. CASE load[l].at = "drop"
        <5>1. CASE load[l].version = 0
          BY <1>7, <2>2, <4>3, <5>1, GoesFits DEF Remove, Stages
        <5>2. CASE load[l].version # 0
          BY <1>7, <2>2, <4>3, <5>2, HandsOnFits, LoadTyped DEF Remove
        <5> QED BY <5>1, <5>2, LoadTyped
      <4> QED BY <1>7, <4>1, <4>2, <4>3 DEF Remove
    <3>2. partial' = <<>> /\ UNCHANGED <<now, handle, shared, changed, starts, faults>>
      BY <1>7, <2>2 DEF Remove
    <3> QED BY <3>1, <3>2 DEF TypeOK
  <2> QED BY <2>1, <2>2
<1>8. ASSUME NEW l \in Loader, Whole(l) PROVE TypeOK'
  BY <1>8, HandsOnFits DEF Whole, TypeOK
<1>9. ASSUME NEW l \in Loader, Opened(l) PROVE TypeOK'
  <2>1. load' \in [Loader -> Record]
    <3>1. CASE HandsOn(l, load[l].version)
      BY <1>9, <3>1, HandsOnFits DEF Opened, Versioned
    <3>2. CASE Goes(l, "append") \/ Goes(l, "restart")
      BY <3>2, GoesFits DEF Stages
    <3>3. CASE load' = [load EXCEPT ![l].at = "stored", ![l].body = partial]
      BY <3>3, AStage DEF TypeOK
    <3> QED BY <1>9, <3>1, <3>2, <3>3 DEF Opened
  <2> QED BY <1>9, <2>1 DEF Opened, TypeOK
<1>10. ASSUME NEW l \in Loader, Stored(l) PROVE TypeOK'
  <2>1. load' \in [Loader -> Record] /\ handle' \in Loader \cup {None}
    BY <1>10, GoesFits, FailsFits DEF Stored, Stages, TypeOK
  <2> QED BY <1>10, <2>1 DEF Stored, TypeOK
<1>11. ASSUME NEW l \in Loader, Request(l) PROVE TypeOK'
  <2>1. CASE Fails(l)
    BY <1>11, <2>1, FailsFits DEF Request, TypeOK
  <2>2. CASE ~Fails(l)
    <3>1. /\ load' = [load EXCEPT ![l].at = "append", ![l].version = now,
                        ![l].from = Len(load[l].body), ![l].next = Len(load[l].body),
                        ![l].to = Lesser(Len(load[l].body) + Chunk, Length[now])]
          /\ UNCHANGED handle
      BY <1>11, <2>2 DEF Request
    <3>2. Lesser(Len(load[l].body) + Chunk, Length[now]) \in Nat
      <4>1. now \in Version
        BY DEF TypeOK
      <4>2. Length[now] \in Nat /\ Len(load[l].body) \in Nat /\ Chunk \in Nat
        BY <1>11, <4>1, LengthsFit, LoadTyped, ResumableFetchAssumption
      <4>3. \A m, n \in Nat : Lesser(m, n) \in Nat
        BY DEF Lesser
      <4>4. Len(load[l].body) + Chunk \in Nat
        BY <4>2
      <4> QED BY <4>2, <4>3, <4>4
    <3>3. load' \in [Loader -> Record]
      <4>1. PICK n \in Nat, m \in Nat : /\ n = Len(load[l].body)
                                        /\ m = Lesser(Len(load[l].body) + Chunk, Length[now])
        BY <3>2, LoadTyped
      <4>2. load' = [load EXCEPT ![l] = [load[l] EXCEPT !.at = "append", !.version = now,
                       !.from = n, !.next = n, !.to = m]]
        BY <3>1, <4>1 DEF TypeOK
      <4>3. [load[l] EXCEPT !.at = "append", !.version = now, !.from = n, !.next = n, !.to = m]
              \in Record
        BY LoadTyped, AStage DEF Record, TypeOK
      <4> QED BY <4>2, <4>3, SetTo
    <3> QED BY <1>11, <3>1, <3>3 DEF Request, TypeOK
  <2> QED BY <2>1, <2>2
<1>12. ASSUME NEW l \in Loader, OpenAppend(l) PROVE TypeOK'
  <2>1. CASE handle # None
    BY <1>12, <2>1, FailsFits DEF OpenAppend, TypeOK
  <2>2. CASE handle = None
    <3>1. partial' \in Seq(Block)
      BY <1>12, <2>2, PaddedFits, LoadTyped DEF OpenAppend
    <3>2. load' \in [Loader -> Record]
      BY <1>12, <2>2, GoesFits DEF OpenAppend, Stages
    <3> QED BY <1>12, <2>2, <3>1, <3>2 DEF OpenAppend, TypeOK
  <2> QED BY <2>1, <2>2
<1>13. ASSUME NEW l \in Loader, Read(l) PROVE TypeOK'
  <2>1. load[l].version \in Version /\ load[l].next + 1 \in Nat \ {0}
    BY <1>13, LoadTyped DEF Read, Versioned
  <2>2. <<load[l].version, load[l].next + 1>> \in Block
    BY <2>1 DEF Block
  <2>3. partial' \in Seq(Block) /\ handle' \in Loader \cup {None}
    BY <1>13, <2>2 DEF Read, TypeOK
  <2>4. Append(load[l].body, <<load[l].version, load[l].next + 1>>) \in Seq(Block)
    BY <2>2, LoadTyped
  <2>5. load' \in [Loader -> Record]
    <3>1. PICK b \in Seq(Block), n \in Nat, at \in Stages :
            /\ b = Append(load[l].body, <<load[l].version, load[l].next + 1>>)
            /\ n = load[l].next + 1
            /\ at = IF Len(load[l].body) + 1 >= load[l].total THEN "finish" ELSE "read"
      BY <2>1, <2>4, AStage
    <3>2. load' = [load EXCEPT ![l] = [load[l] EXCEPT !.body = b, !.next = n, !.at = at]]
      BY <1>13, <3>1 DEF Read, TypeOK
    <3>3. [load[l] EXCEPT !.body = b, !.next = n, !.at = at] \in Record
      BY LoadTyped DEF Record
    <3> QED BY <3>2, <3>3, SetTo
  <2> QED BY <1>13, <2>3, <2>5 DEF Read, TypeOK
<1>14. ASSUME NEW l \in Loader, ChunkEnds(l) PROVE TypeOK'
  <2>1. CASE Fails(l)
    BY <1>14, <2>1, FailsFits DEF ChunkEnds, TypeOK
  <2>2. CASE handle' = None /\ Goes(l, "request")
    BY <1>14, <2>2, GoesFits DEF ChunkEnds, TypeOK, Stages
  <2> QED BY <1>14, <2>1, <2>2 DEF ChunkEnds
<1>15. ASSUME NEW l \in Loader, Finish(l) PROVE TypeOK'
  <2>1. load' \in [Loader -> Record]
    BY <1>15, GoesFits DEF Finish, Stages
  <2> QED BY <1>15, <2>1 DEF Finish, TypeOK
<1> QED BY <1>1, <1>2, <1>3, <1>4, <1>5, <1>6, <1>7, <1>8, <1>9, <1>10, <1>11, <1>12, <1>13,
           <1>14, <1>15 DEF Next, GoOn
-------------------------------------------------------------------------------
(* Who has the partial file open, and who loads beside whom. *)

HandleHeld == \A l \in Loader : handle = l <=> load[l].at = "read"

OneAtATime == ~shared => \A l, m \in Loader : l # m => Ended(l) \/ Ended(m)

(* The others are where they were. *)
Only(l) == \A m \in Loader \ {l} : load'[m] = load[m]

LEMMA OnlyOne ==
  ASSUME TypeOK, NEW l \in Loader, Start(l) \/ GoOn(l) \/ Stop(l)
  PROVE  Only(l)
<1>1. CASE Start(l)
  BY <1>1 DEF Start, Only, TypeOK
<1>2. CASE Stop(l)
  BY <1>2 DEF Stop, Fails, Goes, Only, TypeOK
<1>3. CASE Remove(l)
  <2>1. CASE handle # None
    BY <1>3, <2>1 DEF Remove, Fails, Goes, Only, TypeOK
  <2>2. CASE handle = None
    <3>1. CASE load[l].at = "refused"
      BY <1>3, <2>2, <3>1 DEF Remove, Only, TypeOK
    <3>2. CASE load[l].at = "restart"
      BY <1>3, <2>2, <3>2 DEF Remove, Only, TypeOK
    <3>3. CASE load[l].at = "drop"
      BY <1>3, <2>2, <3>3 DEF Remove, HandsOn, Goes, Only, TypeOK
    <3> QED BY <1>3, <3>1, <3>2, <3>3 DEF Remove
  <2> QED BY <2>1, <2>2
<1>4. CASE Size(l) \/ Ask(l) \/ Whole(l) \/ Opened(l) \/ Stored(l)
  BY <1>4 DEF Size, Ask, Whole, Opened, Stored, HandsOn, Fails, Goes, Only, TypeOK
<1>5. CASE Request(l) \/ OpenAppend(l) \/ Read(l) \/ ChunkEnds(l) \/ Finish(l)
  BY <1>5 DEF Request, OpenAppend, Read, ChunkEnds, Finish, Fails, Goes, Only, TypeOK
<1> QED BY <1>1, <1>2, <1>3, <1>4, <1>5 DEF GoOn

(* What a step of a load makes of its place and of the handle: it ends, or   *)
(* goes on without the partial file, or has it open from then on, or still.  *)
Turns(l) ==
  \/ load'[l].at \in {"done", "failed"} /\ handle' = IF handle = l THEN None ELSE handle
  \/ load[l].at # "read" /\ load'[l].at # "read" /\ UNCHANGED handle
  \/ load[l].at = "read" /\ load'[l].at # "read" /\ handle' = None
  \/ handle' = l /\ load'[l].at = "read" /\ handle \in {None, l}

LEMMA EachTurns ==
  ASSUME TypeOK, HandleHeld, NEW l \in Loader, Start(l) \/ GoOn(l) \/ Stop(l)
  PROVE  Turns(l)
<1>0. ASSUME Fails(l) PROVE Turns(l)
  BY <1>0 DEF Fails, Goes, Turns, TypeOK
<1>00. ASSUME NEW at \in Stages, Goes(l, at) PROVE load'[l].at = at
  BY <1>00 DEF Goes, TypeOK
<1>000. ASSUME NEW v, HandsOn(l, v) PROVE load'[l].at = "done"
  BY <1>000 DEF HandsOn, TypeOK
<1>1. CASE Start(l)
  BY <1>1 DEF Start, Ended, Turns, TypeOK, NoLoad
<1>2. CASE Stop(l)
  BY <1>0, <1>2 DEF Stop
<1>3. CASE Remove(l)
  <2>1. CASE handle # None
    BY <1>0, <1>3, <2>1 DEF Remove
  <2>2. CASE handle = None
    <3>1. CASE load[l].at = "refused"
      BY <1>3, <2>2, <3>1 DEF Remove, Turns, TypeOK
    <3>2. CASE load[l].at = "restart"
      BY <1>3, <2>2, <3>2 DEF Remove, Turns, TypeOK, NoLoad
    <3>3. CASE load[l].at = "drop"
      BY <1>3, <2>2, <3>3, <1>00, <1>000, AStage DEF Remove, Turns
    <3> QED BY <1>3, <3>1, <3>2, <3>3 DEF Remove
  <2> QED BY <2>1, <2>2
<1>4. CASE Size(l) \/ Whole(l)
  BY <1>4, <1>000 DEF Size, Whole, Turns, TypeOK
<1>5. CASE Ask(l)
  <2>1. load'[l].at # "read" /\ load[l].at # "read" /\ UNCHANGED handle
    BY <1>5, <1>00, <1>000, AStage DEF Ask, TypeOK
  <2> QED BY <2>1 DEF Turns
<1>6. CASE Opened(l)
  <2>1. load'[l].at # "read" /\ load[l].at # "read" /\ UNCHANGED handle
    BY <1>6, <1>00, <1>000, AStage DEF Opened, TypeOK
  <2> QED BY <2>1 DEF Turns
<1>7. CASE Stored(l)
  BY <1>7, <1>0, <1>00, AStage DEF Stored, Turns
<1>8. CASE Request(l)
  <2>1. CASE Fails(l)
    BY <1>0, <2>1
  <2>2. CASE ~Fails(l)
    BY <1>8, <2>2 DEF Request, Turns, TypeOK
  <2> QED BY <2>1, <2>2
<1>9. CASE OpenAppend(l)
  BY <1>9, <1>0, <1>00, AStage DEF OpenAppend, Turns
<1>10. CASE Read(l)
  <2>1. handle = l
    BY <1>10 DEF Read, HandleHeld
  <2> QED BY <1>10, <2>1 DEF Read, Turns, TypeOK
<1>11. CASE ChunkEnds(l)
  BY <1>11, <1>0, <1>00, AStage DEF ChunkEnds, Turns
<1>12. CASE Finish(l)
  BY <1>12, <1>00, AStage DEF Finish, Turns
<1> QED BY <1>1, <1>2, <1>3, <1>4, <1>5, <1>6, <1>7, <1>8, <1>9, <1>10, <1>11, <1>12 DEF GoOn

LEMMA HandleKept ==
  ASSUME TypeOK, HandleHeld, Next
  PROVE  HandleHeld'
<1>1. CASE Discard \/ Change
  BY <1>1 DEF Discard, Change, HandleHeld
<1>2. ASSUME NEW l \in Loader, Start(l) \/ GoOn(l) \/ Stop(l) PROVE HandleHeld'
  <2>1. Only(l) /\ Turns(l)
    BY <1>2, OnlyOne, EachTurns
  <2>2. None \notin Loader
    BY ResumableFetchAssumption
  <2> SUFFICES ASSUME NEW m \in Loader
               PROVE  handle' = m <=> load'[m].at = "read"
    BY DEF HandleHeld
  <2>3. (handle = l <=> load[l].at = "read") /\ (handle = m <=> load[m].at = "read")
    BY DEF HandleHeld
  <2>4. CASE m = l
    BY <2>1, <2>2, <2>3, <2>4 DEF Turns
  <2>5. CASE m # l
    <3>1. load'[m] = load[m]
      BY <2>1, <2>5 DEF Only
    <3> QED BY <2>1, <2>2, <2>3, <2>5, <3>1 DEF Turns
  <2> QED BY <2>4, <2>5
<1> QED BY <1>1, <1>2 DEF Next

LEMMA OneKept ==
  ASSUME TypeOK, OneAtATime, Next
  PROVE  OneAtATime'
<1>1. CASE Discard \/ Change
  BY <1>1 DEF Discard, Change, OneAtATime, Ended
<1>2. ASSUME NEW l \in Loader, GoOn(l) \/ Stop(l) PROVE OneAtATime'
  <2>1. Only(l)
    BY <1>2, OnlyOne
  <2>2. ~Ended(l) /\ shared' = shared
    BY <1>2 DEF GoOn, Stop, Size, Ask, Remove, Whole, Opened, Stored, Request, OpenAppend,
                Read, ChunkEnds, Finish, Ended
  <2> QED BY <2>1, <2>2 DEF OneAtATime, Only, Ended
<1>3. ASSUME NEW l \in Loader, Start(l) PROVE OneAtATime'
  <2>1. Only(l)
    BY <1>3, OnlyOne
  <2>2. shared' \/ \A m \in Loader : Ended(m)
    BY <1>3 DEF Start
  <2> QED BY <2>1, <2>2 DEF OneAtATime, Only, Ended
<1> QED BY <1>1, <1>2, <1>3 DEF Next

Knowing == {"opened", "stored", "append", "read", "request"}

LEMMA VersionedKept ==
  ASSUME TypeOK, Versioned, Next
  PROVE  Versioned'
<1> USE DEF Versioned
<1>1. CASE Discard \/ Change
  BY <1>1 DEF Discard, Change
<1>2. ASSUME NEW l \in Loader, Start(l) \/ GoOn(l) \/ Stop(l),
             load'[l].at \in Knowing => load'[l].version \in Version
      PROVE  Versioned'
  BY <1>2, OnlyOne DEF Only, Knowing
<1>3. ASSUME NEW l \in Loader, Start(l) \/ GoOn(l) \/ Stop(l)
      PROVE  load'[l].at \in Knowing => load'[l].version \in Version
  <2>0. ASSUME Fails(l) PROVE load'[l].at \notin Knowing
    BY <2>0 DEF Fails, Goes, TypeOK, Knowing
  <2>00. ASSUME NEW at \in Stages, Goes(l, at)
         PROVE  load'[l].at = at /\ load'[l].version = load[l].version
    BY <2>00 DEF Goes, TypeOK
  <2>000. ASSUME NEW v, HandsOn(l, v) PROVE load'[l].at = "done"
    BY <2>000 DEF HandsOn, TypeOK
  <2>1. CASE Start(l)
    BY <2>1 DEF Start, TypeOK, NoLoad, Knowing
  <2>2. CASE Stop(l)
    BY <2>0, <2>2 DEF Stop
  <2>3. CASE Remove(l)
    <3>1. CASE handle # None
      BY <2>0, <2>3, <3>1 DEF Remove
    <3>2. CASE handle = None
      <4>1. CASE load[l].at = "refused"
        BY <2>3, <3>2, <4>1 DEF Remove, Knowing, TypeOK
      <4>2. CASE load[l].at = "restart"
        BY <2>3, <3>2, <4>2 DEF Remove, Knowing, TypeOK, NoLoad
      <4>3. CASE load[l].at = "drop"
        BY <2>3, <3>2, <4>3, <2>00, <2>000, AStage DEF Remove, Knowing
      <4> QED BY <2>3, <4>1, <4>2, <4>3 DEF Remove
    <3> QED BY <3>1, <3>2
  <2>4. CASE Size(l) \/ Whole(l)
    BY <2>4, <2>000 DEF Size, Whole, Knowing, TypeOK
  <2>5. CASE Ask(l)
    <3>1. CASE load' = [load EXCEPT ![l].at = "opened", ![l].version = now,
                          ![l].total = Length[now], ![l].from = load[l].have,
                          ![l].next = load[l].have,
                          ![l].to = Lesser(load[l].have + Chunk, Length[now])]
      BY <3>1 DEF TypeOK
    <3>2. CASE load' = [load EXCEPT ![l].at = "drop", ![l].version = now]
      BY <3>2 DEF TypeOK, Knowing
    <3>3. CASE HandsOn(l, now) \/ Goes(l, "refused") \/ Goes(l, "drop") \/ Goes(l, "whole")
      BY <3>3, <2>00, <2>000, AStage DEF Knowing
    <3> QED BY <2>5, <3>1, <3>2, <3>3 DEF Ask
  <2>6. CASE Opened(l)
    <3>1. load[l].version \in Version
      BY <2>6 DEF Opened
    <3>2. CASE HandsOn(l, load[l].version) \/ Goes(l, "append") \/ Goes(l, "restart")
      BY <3>1, <3>2, <2>00, <2>000, AStage DEF Knowing
    <3>3. CASE load' = [load EXCEPT ![l].at = "stored", ![l].body = partial]
      BY <3>1, <3>3 DEF TypeOK
    <3> QED BY <2>6, <3>2, <3>3 DEF Opened
  <2>7. CASE Stored(l)
    BY <2>7, <2>0, <2>00, AStage DEF Stored
  <2>8. CASE Request(l)
    <3>1. CASE Fails(l)
      BY <2>0, <3>1
    <3>2. CASE ~Fails(l)
      BY <2>8, <3>2 DEF Request, TypeOK
    <3> QED BY <3>1, <3>2
  <2>9. CASE OpenAppend(l)
    BY <2>9, <2>0, <2>00, AStage DEF OpenAppend
  <2>10. CASE Read(l)
    BY <2>10 DEF Read, TypeOK
  <2>11. CASE ChunkEnds(l)
    BY <2>11, <2>0, <2>00, AStage DEF ChunkEnds
  <2>12. CASE Finish(l)
    BY <2>12, <2>00, AStage DEF Finish, Knowing
  <2> QED BY <1>3, <2>1, <2>2, <2>3, <2>4, <2>5, <2>6, <2>7, <2>8, <2>9, <2>10, <2>11, <2>12
          DEF GoOn
<1> QED BY <1>1, <1>2, <1>3 DEF Next
-------------------------------------------------------------------------------
(* The content.  What a load that goes on has handed on is a beginning of    *)
(* the file, as the partial file is; the answer it reads takes up there.     *)

OnTrack(l) ==
  /\ load[l].version \in {0, now}
  /\ load[l].at \in {"size", "ask", "refused", "drop", "whole", "restart", "opened"}
       => load[l].body = <<>>
  /\ load[l].at \in {"opened", "stored", "append", "read"}
       => load[l].version = now /\ load[l].to <= Length[now]
  /\ load[l].at \in {"opened", "stored", "append", "read", "request"}
       => load[l].total = Length[now]
  /\ load[l].at = "opened" => load[l].next = load[l].have
  /\ load[l].at \in {"stored", "append", "read"} => load[l].next = Len(load[l].body)
  /\ load[l].at \in {"stored", "read", "request"} => load[l].body = partial
  /\ load[l].at = "append" => load[l].body \in {<<>>, partial}
  /\ load[l].at = "finish" => load[l].body = Content(now)

Resumes == Sound => Begins(partial) /\ \A l \in Loader : Ended(l) \/ OnTrack(l)

Inductive == TypeOK /\ Versioned /\ HandleHeld /\ OneAtATime /\ Resumes

LEMMA BeginsLonger ==
  ASSUME now \in Version, NEW s \in Seq(Block), Begins(s), Len(s) < Length[now]
  PROVE  Begins(Append(s, <<now, Len(s) + 1>>))
<1>1. Len(s) \in Nat /\ Length[now] \in Nat
  BY LengthsFit
<1>2. Len(Append(s, <<now, Len(s) + 1>>)) = Len(s) + 1
  OBVIOUS
<1>3. \A i \in 1..(Len(s) + 1) : Append(s, <<now, Len(s) + 1>>)[i]
                                   = IF i <= Len(s) THEN s[i] ELSE <<now, Len(s) + 1>>
  BY <1>1
<1> QED BY <1>1, <1>2, <1>3 DEF Begins

LEMMA BeginsWhole ==
  ASSUME now \in Version, NEW s \in Seq(Block), Begins(s), Len(s) = Length[now]
  PROVE  s = Content(now)
<1>1. Content(now) \in Seq(Block) /\ Len(Content(now)) = Len(s)
  BY ContentFits
<1>2. \A i \in 1..Len(s) : s[i] = Content(now)[i]
  BY DEF Begins, Content
<1> QED BY <1>1, <1>2

LEMMA Padded ==
  ASSUME TypeOK, NEW s \in {<<>>, partial}
  PROVE  [i \in 1..Len(s) |-> IF i <= Len(partial) THEN partial[i] ELSE Hole] = s
<1>1. CASE s = partial
  <2>1. partial = [i \in 1..Len(partial) |-> partial[i]]
    BY DEF TypeOK
  <2> QED BY <1>1, <2>1 DEF TypeOK
<1>2. CASE s = <<>>
  BY <1>2
<1> QED BY <1>1, <1>2

(* What a step of a load that is alone, and on track, comes to. *)
StaysOnTrack(l) ==
  /\ Begins(partial') /\ UNCHANGED now
  /\ load'[l].at \in {"done", "failed"} \/ OnTrack(l)'
  /\ load'[l].at = "done" => load'[l].body = Content(now)

LEMMA ContentGoesOn ==
  ASSUME TypeOK, Versioned, HandleHeld, NEW l \in Loader, OnTrack(l), Begins(partial), GoOn(l)
  PROVE  StaysOnTrack(l)
<1> USE DEF StaysOnTrack
<1> DEFINE Keeps(fields) == \A f \in fields : load'[l][f] = load[l][f]
<1>0. ASSUME Fails(l), UNCHANGED <<partial, now>> PROVE StaysOnTrack(l)
  <2>1. load'[l].at = "failed"
    BY <1>0 DEF Fails, Goes, TypeOK
  <2> QED BY <1>0, <2>1
<1>00. ASSUME NEW at \in Stages, Goes(l, at)
       PROVE  load'[l].at = at /\ Keeps({"version", "to", "total", "next", "have", "body"})
  BY <1>00 DEF Goes, TypeOK
<1>000. ASSUME HandsOn(l, now), Begins(partial'), UNCHANGED now PROVE StaysOnTrack(l)
  <2>1. load'[l].at = "done" /\ load'[l].body = Content(now)
    BY <1>000 DEF HandsOn, TypeOK
  <2> QED BY <1>000, <2>1
<1>T. /\ now \in Version /\ Length[now] \in Nat \ {0} /\ partial \in Seq(Block)
      /\ load[l] \in Record /\ Len(load[l].body) \in Nat /\ load[l].to \in Nat
      /\ load[l].next \in Nat /\ load[l].have \in Nat /\ load[l].total \in Nat
  BY LengthsFit, LoadTyped DEF TypeOK
<1>E. Begins(<<>>)
  BY <1>T DEF Begins
<1>1. CASE Size(l)
  <2>1. load'[l].at = "ask" /\ Keeps({"version", "body"})
    BY <1>1 DEF Size, TypeOK
  <2> QED BY <1>1, <2>1 DEF Size, OnTrack
<1>2. CASE Ask(l)
  <2>0. UNCHANGED <<now, partial>> /\ load[l].at = "ask"
    BY <1>2 DEF Ask
  <2>1. CASE load' = [load EXCEPT ![l].at = "opened", ![l].version = now,
                        ![l].total = Length[now], ![l].from = load[l].have,
                        ![l].next = load[l].have,
                        ![l].to = Lesser(load[l].have + Chunk, Length[now])]
    <3>1. /\ load'[l].at = "opened" /\ load'[l].version = now /\ load'[l].total = Length[now]
          /\ load'[l].next = load'[l].have /\ load'[l].body = load[l].body
          /\ load'[l].to = Lesser(load[l].have + Chunk, Length[now])
      BY <2>1 DEF TypeOK
    <3>2. Lesser(load[l].have + Chunk, Length[now]) <= Length[now]
      BY <1>T, ResumableFetchAssumption DEF Lesser
    <3> QED BY <2>0, <3>1, <3>2 DEF OnTrack
  <2>2. CASE load' = [load EXCEPT ![l].at = "drop", ![l].version = now]
    <3>1. load'[l].at = "drop" /\ load'[l].version = now /\ Keeps({"body"})
      BY <2>2 DEF TypeOK
    <3> QED BY <2>0, <3>1 DEF OnTrack
  <2>3. CASE HandsOn(l, now)
    BY <2>0, <2>3, <1>000
  <2>4. CASE Goes(l, "refused") \/ Goes(l, "drop") \/ Goes(l, "whole")
    BY <1>T, <2>0, <2>4, <1>00, AStage DEF OnTrack
  <2> QED BY <1>2, <2>1, <2>2, <2>3, <2>4 DEF Ask
<1>3. CASE Remove(l)
  <2>1. CASE handle # None
    BY <1>0, <1>3, <2>1 DEF Remove
  <2>2. CASE handle = None
    <3>0. partial' = <<>> /\ UNCHANGED now
      BY <1>3, <2>2 DEF Remove
    <3>1. CASE load[l].at = "refused"
      <4>1. load'[l].at = "ask" /\ Keeps({"version", "body"})
        BY <1>3, <2>2, <3>1 DEF Remove, TypeOK
      <4> QED BY <1>E, <3>0, <3>1, <4>1 DEF OnTrack
    <3>2. CASE load[l].at = "restart"
      <4>1. load'[l] = [NoLoad EXCEPT !.at = "size"]
        BY <1>3, <2>2, <3>2 DEF Remove, TypeOK
      <4> QED BY <1>T, <1>E, <3>0, <4>1 DEF OnTrack, NoLoad
    <3>3. CASE load[l].at = "drop"
      <4>1. CASE load[l].version = 0
        <5>1. Goes(l, "whole")
          BY <1>3, <2>2, <3>3, <4>1 DEF Remove
        <5> QED BY <1>T, <1>E, <3>0, <3>3, <5>1, <1>00, AStage DEF OnTrack
      <4>2. CASE load[l].version # 0
        <5>1. HandsOn(l, load[l].version) /\ load[l].version = now
          BY <1>3, <2>2, <3>3, <4>2 DEF Remove, OnTrack
        <5> QED BY <1>E, <3>0, <5>1, <1>000
      <4> QED BY <4>1, <4>2
    <3> QED BY <1>3, <3>1, <3>2, <3>3 DEF Remove
  <2> QED BY <2>1, <2>2
<1>4. CASE Whole(l)
  BY <1>4, <1>000 DEF Whole
<1>5. CASE Opened(l)
  <2>0. UNCHANGED <<now, partial>> /\ load[l].at = "opened"
    BY <1>5 DEF Opened
  <2>1. CASE HandsOn(l, load[l].version)
    BY <2>0, <2>1, <1>000 DEF OnTrack
  <2>2. CASE load[l].have = 0 /\ Goes(l, "append")
    BY <1>T, <2>0, <2>2, <1>00, AStage DEF OnTrack
  <2>3. CASE Goes(l, "restart")
    BY <1>T, <2>0, <2>3, <1>00, AStage DEF OnTrack
  <2>4. CASE Len(partial) = load[l].have
             /\ load' = [load EXCEPT ![l].at = "stored", ![l].body = partial]
    <3>1. /\ load'[l].at = "stored" /\ load'[l].body = partial
          /\ Keeps({"version", "to", "total", "next"})
      BY <2>4 DEF TypeOK
    <3> QED BY <2>0, <2>4, <3>1 DEF OnTrack
  <2> QED BY <1>5, <2>1, <2>2, <2>3, <2>4 DEF Opened
<1>6. CASE Stored(l)
  <2>0. UNCHANGED <<now, partial>> /\ load[l].at = "stored"
    BY <1>6 DEF Stored
  <2>1. CASE Fails(l)
    BY <2>0, <2>1, <1>0
  <2>2. CASE Goes(l, "append")
    BY <1>T, <2>0, <2>2, <1>00, AStage DEF OnTrack
  <2> QED BY <1>6, <2>1, <2>2 DEF Stored
<1>7. CASE Request(l)
  <2>0. UNCHANGED <<now, partial>> /\ load[l].at = "request"
    BY <1>7 DEF Request
  <2>1. CASE Fails(l)
    BY <2>0, <2>1, <1>0
  <2>2. CASE ~Fails(l)
    <3>1. /\ load'[l].at = "append" /\ load'[l].version = now
          /\ load'[l].total = load[l].total /\ load'[l].body = load[l].body
          /\ load'[l].next = Len(load[l].body)
          /\ load'[l].to = Lesser(Len(load[l].body) + Chunk, Length[now])
      <4>1. load' = [load EXCEPT ![l].at = "append", ![l].version = now,
                       ![l].from = Len(load[l].body), ![l].next = Len(load[l].body),
                       ![l].to = Lesser(Len(load[l].body) + Chunk, Length[now])]
        BY <1>7, <2>2 DEF Request
      <4> QED BY <4>1 DEF TypeOK
    <3>2. Lesser(Len(load[l].body) + Chunk, Length[now]) <= Length[now]
      BY <1>T, ResumableFetchAssumption DEF Lesser
    <3> QED BY <2>0, <3>1, <3>2 DEF OnTrack
  <2> QED BY <2>1, <2>2
<1>8. CASE OpenAppend(l)
  <2>1. CASE handle # None
    BY <1>0, <1>8, <2>1 DEF OpenAppend
  <2>2. CASE handle = None
    <3>1. /\ load[l].at = "append" /\ UNCHANGED now /\ Goes(l, "read")
          /\ partial' = [i \in 1..Len(load[l].body) |->
                           IF i <= Len(partial) THEN partial[i] ELSE Hole]
      BY <1>8, <2>2 DEF OpenAppend
    <3>2. load[l].body \in {<<>>, partial}
      BY <3>1 DEF OnTrack
    <3>3. partial' = load[l].body
      BY <3>1, <3>2, Padded
    <3>4. /\ load'[l].at = "read"
          /\ Keeps({"version", "to", "total", "next", "have", "body"})
      BY <3>1, <1>00, AStage
    <3> QED BY <1>T, <1>E, <3>1, <3>2, <3>3, <3>4 DEF OnTrack
  <2> QED BY <2>1, <2>2
<1>9. CASE Read(l)
  <2> DEFINE block == <<now, Len(partial) + 1>>
             last == Len(load[l].body) + 1 >= load[l].total
  <2>1. /\ load[l].at = "read" /\ load[l].next < load[l].to /\ load[l].version = now
        /\ load[l].body = partial /\ load[l].next = Len(partial)
        /\ load[l].to <= Length[now] /\ load[l].total = Length[now] /\ UNCHANGED now
    BY <1>9 DEF Read, OnTrack
  <2>2. /\ partial' = Append(partial, block) /\ load'[l].body = Append(partial, block)
        /\ load'[l].next = Len(partial) + 1 /\ load'[l].at = (IF last THEN "finish" ELSE "read")
        /\ load'[l].version = now /\ load'[l].to = load[l].to /\ load'[l].total = load[l].total
    BY <1>9, <2>1 DEF Read, TypeOK
  <2>3. Len(partial) \in Nat /\ Len(partial) < Length[now]
    BY <1>T, <2>1
  <2>4. Begins(partial')
    BY <1>T, <2>2, <2>3, BeginsLonger
  <2>5. Len(partial') = Len(partial) + 1 /\ partial' \in Seq(Block)
    <3>1. block \in Block
      BY <1>T, <2>3 DEF Block
    <3> QED BY <1>T, <2>2, <3>1
  <2>6. last => partial' = Content(now)
    BY <1>T, <2>1, <2>3, <2>4, <2>5, BeginsWhole
  <2> HIDE DEF last
  <2> QED BY <2>1, <2>2, <2>4, <2>5, <2>6 DEF OnTrack
<1>10. CASE ChunkEnds(l)
  <2>0. UNCHANGED <<now, partial>> /\ load[l].at = "read"
    BY <1>10 DEF ChunkEnds
  <2>1. CASE Fails(l)
    BY <2>0, <2>1, <1>0
  <2>2. CASE Goes(l, "request")
    BY <1>T, <2>0, <2>2, <1>00, AStage DEF OnTrack
  <2> QED BY <1>10, <2>1, <2>2 DEF ChunkEnds
<1>11. CASE Finish(l)
  <2>1. Goes(l, "done") /\ load[l].at = "finish" /\ UNCHANGED now
    BY <1>11 DEF Finish
  <2>2. Begins(partial')
    BY <1>11, <1>E DEF Finish
  <2>3. load'[l].at = "done" /\ load'[l].body = load[l].body
    BY <2>1, <1>00, AStage
  <2> QED BY <2>1, <2>2, <2>3 DEF OnTrack
<1> QED BY <1>1, <1>2, <1>3, <1>4, <1>5, <1>6, <1>7, <1>8, <1>9, <1>10, <1>11 DEF GoOn

LEMMA ResumesKept ==
  ASSUME Inductive, Next, TypeOK'
  PROVE  Resumes'
<1> USE DEF Inductive
<1> SUFFICES ASSUME Sound'
             PROVE  Begins(partial)' /\ \A l \in Loader : Ended(l)' \/ OnTrack(l)'
  BY DEF Resumes
<1>E. partial' = <<>> => Begins(partial)'
  <2>1. now' \in Version /\ Length[now'] \in Nat
    BY LengthsFit DEF TypeOK
  <2> QED BY <2>1 DEF Begins
<1>1. CASE Discard
  <2>1. (\A l \in Loader : Ended(l)) /\ UNCHANGED load /\ partial' = <<>>
    BY <1>1 DEF Discard, Sound, TypeOK
  <2> QED BY <1>E, <2>1 DEF Ended
<1>2. CASE Change
  <2>1. (\A l \in Loader : Ended(l)) /\ UNCHANGED load /\ partial' = <<>>
    BY <1>2 DEF Change, Sound
  <2> QED BY <1>E, <2>1 DEF Ended
<1>3. ASSUME NEW l \in Loader, Start(l)
      PROVE  Begins(partial)' /\ \A m \in Loader : Ended(m)' \/ OnTrack(m)'
  <2>1. \A m \in Loader : Ended(m)
    BY <1>3 DEF Start, Sound
  <2>2. UNCHANGED <<now, partial>>
    BY <1>3 DEF Start
  <2>3. Begins(partial)'
    <3>1. CASE partial = <<>>
      BY <1>E, <2>2, <3>1
    <3>2. CASE partial # <<>>
      <4>1. shared' = shared /\ changed' = changed
        BY <1>3, <2>1, <3>2 DEF Start, TypeOK
      <4> QED BY <2>2, <4>1 DEF Resumes, Sound, Begins
    <3> QED BY <3>1, <3>2
  <2>4. OnTrack(l)'
    <3>1. load'[l] = [NoLoad EXCEPT !.at = "size"]
      BY <1>3 DEF Start, TypeOK
    <3> QED BY <3>1 DEF OnTrack, NoLoad
  <2> QED BY <1>3, <2>1, <2>3, <2>4, OnlyOne DEF Only, Ended
<1>4. ASSUME NEW l \in Loader, GoOn(l) \/ Stop(l)
      PROVE  Begins(partial)' /\ \A m \in Loader : Ended(m)' \/ OnTrack(m)'
  <2>1. UNCHANGED <<now, shared, changed>> /\ ~Ended(l)
    BY <1>4 DEF Stop, GoOn, Size, Ask, Remove, Whole, Opened, Stored, Request, OpenAppend, Read,
                ChunkEnds, Finish, Ended
  <2>2. Begins(partial) /\ OnTrack(l) /\ \A m \in Loader \ {l} : Ended(m)
    BY <2>1 DEF Resumes, OneAtATime, Sound
  <2>3. \A m \in Loader \ {l} : Ended(m)'
    BY <1>4, <2>2, OnlyOne DEF Only, Ended
  <2>4. CASE Stop(l)
    <3>1. load'[l].at = "failed" /\ UNCHANGED partial
      BY <2>4 DEF Stop, Fails, Goes, TypeOK
    <3> QED BY <2>1, <2>2, <2>3, <3>1 DEF Begins, Ended
  <2>5. CASE GoOn(l)
    <3>1. StaysOnTrack(l)
      BY <2>2, <2>5, ContentGoesOn
    <3> QED BY <2>1, <2>3, <3>1 DEF StaysOnTrack, Begins, Ended
  <2> QED BY <1>4, <2>4, <2>5
<1> QED BY <1>1, <1>2, <1>3, <1>4 DEF Next

LEMMA InitInductive == Init => Inductive
<1> SUFFICES ASSUME Init PROVE Inductive
  OBVIOUS
<1>1. 1 \in Version
  BY ResumableFetchAssumption DEF Version
<1>2. TypeOK
  <2>1. <<>> \in Seq(Block) /\ 0 \in 0..MaxStarts /\ 0 \in 0..MaxFaults
    BY ResumableFetchAssumption
  <2> QED BY <1>1, <2>1, NoLoadFits DEF Init, TypeOK, Record
<1>3. \A l \in Loader : load[l].at = "idle"
  BY DEF Init, NoLoad
<1>4. Versioned /\ HandleHeld /\ OneAtATime
  BY <1>3, ResumableFetchAssumption DEF Init, Versioned, HandleHeld, OneAtATime, Ended
<1>5. Resumes
  <2>1. Length[now] \in Nat
    BY <1>1, LengthsFit DEF Init
  <2> QED BY <1>3, <2>1 DEF Init, Resumes, Begins, Ended
<1> QED BY <1>2, <1>4, <1>5 DEF Inductive

LEMMA NextInductive == Inductive /\ [Next]_vars => Inductive'
<1>1. Inductive /\ Next => Inductive'
  <2> SUFFICES ASSUME Inductive, Next PROVE Inductive'
    OBVIOUS
  <2>1. TypeOK'
    BY StepTyped DEF Inductive
  <2> QED BY <2>1, HandleKept, OneKept, VersionedKept, ResumesKept DEF Inductive
<1>2. Inductive /\ UNCHANGED vars => Inductive'
  BY DEF vars, Inductive, TypeOK, Versioned, HandleHeld, OneAtATime, Resumes, Sound, Begins,
         OnTrack, Ended
<1> QED BY <1>1, <1>2

(* The variables of the downloads keep to their types. *)
THEOREM Typed == Spec => []TypeOK
BY InitInductive, NextInductive, PTL DEF Spec, Inductive

(* The partial file is the beginning of the server's file, however loads     *)
(* were paused, failed or cut off, unless two of them overlapped or the file *)
(* changed meanwhile.                                                        *)
THEOREM PartialIsBeginning == Spec => []PartialFits
<1>1. Inductive => PartialFits
  BY DEF Inductive, Resumes, PartialFits, Begins
<1> QED BY InitInductive, NextInductive, <1>1, PTL DEF Spec

(* And then what a load that ends has handed on is the whole file: a pause,  *)
(* a failure or a server that ignores ranges leaves no block out, and none   *)
(* twice.                                                                    *)
THEOREM BodiesWhole == Spec => BodyWhole
<1>1. Inductive /\ [Next]_vars =>
        [\A l \in Loader : Sound /\ load[l].at # "done" /\ load'[l].at = "done"
                            => load'[l].body = Content(now)]_vars
  <2> SUFFICES ASSUME Inductive, Next, NEW l \in Loader, Sound,
                      load[l].at # "done", load'[l].at = "done"
               PROVE  load'[l].body = Content(now)
    OBVIOUS
  <2>1. PICK m \in Loader : Start(m) \/ GoOn(m) \/ Stop(m)
    BY DEF Next, Discard, Change
  <2>2. m = l
    BY <2>1, OnlyOne DEF Inductive, Only
  <2>3. GoOn(l)
    <3>1. Start(l) => load'[l].at = "size"
      BY DEF Start, Inductive, TypeOK, NoLoad
    <3>2. Stop(l) => load'[l].at = "failed"
      BY DEF Stop, Fails, Goes, Inductive, TypeOK
    <3> QED BY <2>1, <2>2, <3>1, <3>2
  <2>4. OnTrack(l) /\ Begins(partial)
    <3>1. ~Ended(l)
      BY <2>3 DEF GoOn, Size, Ask, Remove, Whole, Opened, Stored, Request, OpenAppend, Read,
                  ChunkEnds, Finish, Ended
    <3> QED BY <3>1 DEF Inductive, Resumes
  <2> QED BY <2>3, <2>4, ContentGoesOn DEF Inductive, StaysOnTrack
<1> QED BY InitInductive, NextInductive, <1>1, PTL DEF Spec, BodyWhole
-------------------------------------------------------------------------------
(* What a load that is alone does to the partial file, the content of the    *)
(* file of the server left aside: its part is as long as it was when the     *)
(* load looked, and then what the load has handed on.                        *)

Follows(l) ==
  /\ load[l].at \in {"size", "ask", "refused", "drop", "whole", "opened"}
       => load[l].body = <<>>
  /\ load[l].at \in {"ask", "refused", "drop", "opened"} => load[l].have = Len(partial)
  /\ load[l].at \in {"stored", "append", "read", "request"} => load[l].body = partial
  /\ load[l].at # "restart"

Followed == ~shared => \A l \in Loader : Ended(l) \/ Follows(l)

(* What a step of it comes to: no block of the partial file goes, except on  *)
(* three occasions.                                                          *)
Keeping(l) ==
  /\ load'[l].at \in {"done", "failed"} \/ Follows(l)'
  /\ \/ load[l].at \in {"refused", "drop", "finish"}
     \/ Len(partial) <= Len(partial') /\ \A i \in 1..Len(partial) : partial'[i] = partial[i]

LEMMA LoadKeeps ==
  ASSUME TypeOK, NEW l \in Loader, Follows(l), GoOn(l)
  PROVE  Keeping(l)
<1> USE DEF Keeping
<1> DEFINE Same(fields) == \A f \in fields : load'[l][f] = load[l][f]
<1>0. ASSUME Fails(l), UNCHANGED partial PROVE Keeping(l)
  <2>1. load'[l].at = "failed"
    BY <1>0 DEF Fails, Goes, TypeOK
  <2> QED BY <1>0, <2>1 DEF TypeOK
<1>00. ASSUME NEW at \in Stages, Goes(l, at)
       PROVE  load'[l].at = at /\ Same({"have", "body"})
  BY <1>00 DEF Goes, TypeOK
<1>000. ASSUME NEW v, HandsOn(l, v) PROVE load'[l].at = "done"
  BY <1>000 DEF HandsOn, TypeOK
<1>T. partial \in Seq(Block) /\ Len(partial) \in Nat /\ load[l] \in Record
  BY LoadTyped DEF TypeOK
<1>1. CASE Size(l)
  <2>1. load'[l].at = "ask" /\ load'[l].have = Len(partial) /\ Same({"body"}) /\ UNCHANGED partial
        /\ load[l].at = "size"
    BY <1>1 DEF Size, TypeOK
  <2> QED BY <1>T, <2>1 DEF Follows
<1>2. CASE Ask(l)
  <2>0. UNCHANGED partial /\ load[l].at = "ask"
    BY <1>2 DEF Ask
  <2>1. \/ load'[l].at \in {"opened", "refused", "drop", "whole"} /\ Same({"have", "body"})
        \/ load'[l].at = "done"
    <3>1. CASE load' = [load EXCEPT ![l].at = "opened", ![l].version = now,
                          ![l].total = Length[now], ![l].from = load[l].have,
                          ![l].next = load[l].have,
                          ![l].to = Lesser(load[l].have + Chunk, Length[now])]
      BY <3>1 DEF TypeOK
    <3>2. CASE load' = [load EXCEPT ![l].at = "drop", ![l].version = now]
      BY <3>2 DEF TypeOK
    <3>3. CASE HandsOn(l, now) \/ Goes(l, "refused") \/ Goes(l, "drop") \/ Goes(l, "whole")
      BY <3>3, <1>00, <1>000, AStage
    <3> QED BY <1>2, <3>1, <3>2, <3>3 DEF Ask
  <2> QED BY <1>T, <2>0, <2>1 DEF Follows
<1>3. CASE Remove(l)
  <2>0. load[l].at \in {"refused", "drop"}
    BY <1>3 DEF Remove, Follows
  <2>1. CASE handle # None
    BY <1>0, <1>3, <2>1 DEF Remove
  <2>2. CASE handle = None
    <3>0. partial' = <<>>
      BY <1>3, <2>2 DEF Remove
    <3>1. CASE load[l].at = "refused"
      <4>1. load'[l].at = "ask" /\ load'[l].have = 0 /\ Same({"body"})
        BY <1>3, <2>2, <3>1 DEF Remove, TypeOK
      <4> QED BY <3>0, <3>1, <4>1 DEF Follows
    <3>2. CASE load[l].at = "drop"
      <4>1. Goes(l, "whole") \/ HandsOn(l, load[l].version)
        BY <1>3, <2>2, <3>2 DEF Remove
      <4> QED BY <3>0, <3>2, <4>1, <1>00, <1>000, AStage DEF Follows
    <3> QED BY <2>0, <3>1, <3>2
  <2> QED BY <2>1, <2>2
<1>4. CASE Whole(l)
  BY <1>T, <1>4, <1>000 DEF Whole
<1>5. CASE Opened(l)
  <2>0. UNCHANGED partial /\ load[l].at = "opened"
    BY <1>5 DEF Opened
  <2>1. CASE HandsOn(l, load[l].version)
    BY <1>T, <2>0, <2>1, <1>000
  <2>2. CASE load[l].have = 0 /\ Goes(l, "append")
    <3>1. partial = <<>> /\ load[l].body = <<>>
      BY <1>T, <2>0, <2>2 DEF Follows
    <3> QED BY <1>T, <2>0, <2>2, <3>1, <1>00, AStage DEF Follows
  <2>3. CASE Len(partial) # load[l].have
    BY <2>0, <2>3 DEF Follows
  <2>4. CASE load' = [load EXCEPT ![l].at = "stored", ![l].body = partial]
    <3>1. load'[l].at = "stored" /\ load'[l].body = partial
      BY <2>4 DEF TypeOK
    <3> QED BY <1>T, <2>0, <3>1 DEF Follows
  <2> QED BY <1>5, <2>1, <2>2, <2>3, <2>4 DEF Opened
<1>6. CASE Stored(l)
  <2>0. UNCHANGED partial /\ load[l].at = "stored"
    BY <1>6 DEF Stored
  <2>1. CASE Fails(l)
    BY <2>0, <2>1, <1>0
  <2>2. CASE Goes(l, "append")
    BY <1>T, <2>0, <2>2, <1>00, AStage DEF Follows
  <2> QED BY <1>6, <2>1, <2>2 DEF Stored
<1>7. CASE Request(l)
  <2>0. UNCHANGED partial /\ load[l].at = "request"
    BY <1>7 DEF Request
  <2>1. CASE Fails(l)
    BY <2>0, <2>1, <1>0
  <2>2. CASE ~Fails(l)
    <3>1. load'[l].at = "append" /\ load'[l].body = load[l].body
      <4>1. load' = [load EXCEPT ![l].at = "append", ![l].version = now,
                       ![l].from = Len(load[l].body), ![l].next = Len(load[l].body),
                       ![l].to = Lesser(Len(load[l].body) + Chunk, Length[now])]
        BY <1>7, <2>2 DEF Request
      <4> QED BY <4>1 DEF TypeOK
    <3> QED BY <1>T, <2>0, <3>1 DEF Follows
  <2> QED BY <2>1, <2>2
<1>8. CASE OpenAppend(l)
  <2>1. CASE handle # None
    BY <1>0, <1>8, <2>1 DEF OpenAppend
  <2>2. CASE handle = None
    <3>1. /\ load[l].at = "append" /\ Goes(l, "read")
          /\ partial' = [i \in 1..Len(load[l].body) |->
                           IF i <= Len(partial) THEN partial[i] ELSE Hole]
      BY <1>8, <2>2 DEF OpenAppend
    <3>2. load[l].body = partial
      BY <3>1 DEF Follows
    <3>3. partial' = partial
      BY <3>1, <3>2, Padded
    <3>4. load'[l].at = "read" /\ Same({"body"})
      BY <3>1, <1>00, AStage
    <3> QED BY <1>T, <3>2, <3>3, <3>4 DEF Follows
  <2> QED BY <2>1, <2>2
<1>9. CASE Read(l)
  <2> DEFINE block == <<load[l].version, load[l].next + 1>>
  <2>1. load[l].at = "read" /\ load[l].body = partial
    BY <1>9 DEF Read, Follows
  <2>2. /\ partial' = Append(partial, block) /\ load'[l].body = Append(partial, block)
        /\ load'[l].at \in {"finish", "read"}
    BY <1>9, <2>1 DEF Read, TypeOK
  <2>3. Len(partial) <= Len(partial') /\ \A i \in 1..Len(partial) : partial'[i] = partial[i]
    BY <1>T, <2>2
  <2>4. Follows(l)'
    BY <2>2 DEF Follows
  <2> QED BY <2>3, <2>4
<1>10. CASE ChunkEnds(l)
  <2>0. UNCHANGED partial /\ load[l].at = "read"
    BY <1>10 DEF ChunkEnds
  <2>1. CASE Fails(l)
    BY <2>0, <2>1, <1>0
  <2>2. CASE Goes(l, "request")
    BY <1>T, <2>0, <2>2, <1>00, AStage DEF Follows
  <2> QED BY <1>10, <2>1, <2>2 DEF ChunkEnds
<1>11. CASE Finish(l)
  <2>1. Goes(l, "done") /\ load[l].at = "finish"
    BY <1>11 DEF Finish
  <2> QED BY <2>1, <1>00, AStage
<1> QED BY <1>1, <1>2, <1>3, <1>4, <1>5, <1>6, <1>7, <1>8, <1>9, <1>10, <1>11 DEF GoOn

(* A load that goes on, or stops, was on, and says nothing of the others.    *)
LEMMA OneGoesOn ==
  ASSUME TypeOK, OneAtATime, Followed, NEW l \in Loader, GoOn(l) \/ Stop(l), ~shared
  PROVE  Follows(l) /\ UNCHANGED shared /\ \A m \in Loader \ {l} : Ended(m) /\ Ended(m)'
<1>1. UNCHANGED shared /\ ~Ended(l)
  BY DEF Stop, GoOn, Size, Ask, Remove, Whole, Opened, Stored, Request, OpenAppend, Read,
         ChunkEnds, Finish, Ended
<1>2. Follows(l) /\ \A m \in Loader \ {l} : Ended(m)
  BY <1>1 DEF OneAtATime, Followed
<1> QED BY <1>1, <1>2, OnlyOne DEF Only, Ended

LEMMA FollowedKept ==
  ASSUME TypeOK, OneAtATime, Followed, Next
  PROVE  Followed'
<1> SUFFICES ASSUME ~shared' PROVE \A m \in Loader : Ended(m)' \/ Follows(m)'
  BY DEF Followed
<1>1. CASE Discard
  <2>1. (\A l \in Loader : Ended(l)) /\ UNCHANGED load
    BY <1>1 DEF Discard, TypeOK
  <2> QED BY <2>1 DEF Ended
<1>2. CASE Change
  <2>1. UNCHANGED <<partial, load, shared>>
    BY <1>2 DEF Change
  <2> QED BY <2>1 DEF Followed, Follows, Ended
<1>3. ASSUME NEW l \in Loader, Start(l) PROVE \A m \in Loader : Ended(m)' \/ Follows(m)'
  <2>1. \A m \in Loader : Ended(m)
    BY <1>3 DEF Start
  <2>2. load'[l] = [NoLoad EXCEPT !.at = "size"]
    BY <1>3 DEF Start, TypeOK
  <2>3. Follows(l)'
    BY <2>2 DEF Follows, NoLoad
  <2> QED BY <1>3, <2>1, <2>3, OnlyOne DEF Only, Ended
<1>4. ASSUME NEW l \in Loader, GoOn(l) \/ Stop(l)
      PROVE  \A m \in Loader : Ended(m)' \/ Follows(m)'
  <2>0. ~shared
    BY <1>4 DEF Stop, GoOn, Size, Ask, Remove, Whole, Opened, Stored, Request, OpenAppend, Read,
                ChunkEnds, Finish
  <2>1. Follows(l) /\ \A m \in Loader \ {l} : Ended(m)'
    BY <1>4, <2>0, OneGoesOn
  <2>2. CASE Stop(l)
    <3>1. load'[l].at = "failed"
      BY <2>2 DEF Stop, Fails, Goes, TypeOK
    <3> QED BY <2>1, <3>1 DEF Ended
  <2>3. CASE GoOn(l)
    <3>1. Keeping(l)
      BY <2>1, <2>3, LoadKeeps
    <3> QED BY <2>1, <3>1 DEF Keeping, Ended
  <2> QED BY <1>4, <2>2, <2>3
<1> QED BY <1>1, <1>2, <1>3, <1>4 DEF Next

LEMMA FollowedAlways == Spec => []Followed
<1>1. Init => Followed
  <2> SUFFICES ASSUME Init PROVE Followed
    OBVIOUS
  <2>1. \A l \in Loader : load[l].at = "idle"
    BY DEF Init, NoLoad
  <2> QED BY <2>1 DEF Followed, Ended
<1>2. Inductive /\ Followed /\ [Next]_vars => Followed'
  <2>1. Inductive /\ Followed /\ Next => Followed'
    BY FollowedKept DEF Inductive
  <2>2. Followed /\ UNCHANGED vars => Followed'
    BY DEF vars, Followed, Follows, Ended
  <2> QED BY <2>1, <2>2
<1> QED BY InitInductive, NextInductive, <1>1, <1>2, PTL DEF Spec

(* While loads and discards keep apart, what was downloaded stays, through    *)
(* failures, pauses and changes of the server's file: the partial file loses  *)
(* a block only to the load that finished it, to one that the server does not *)
(* let take up where the file ends, or to a discard while nothing loads.      *)
THEOREM BytesKept == Spec => KeepsBytes
<1> DEFINE Loses == \E i \in 1..Len(partial) : i > Len(partial') \/ partial'[i] # partial[i]
           Occasion == \/ \E l \in Loader : load[l].at \in {"refused", "drop", "finish"}
                       \/ \A l \in Loader : Ended(l)
<1>1. Inductive /\ Followed /\ [Next]_vars => [~shared' /\ Loses => Occasion]_vars
  <2> SUFFICES ASSUME Inductive, Followed, Next, ~shared', Loses PROVE Occasion
    OBVIOUS
  <2>T. Len(partial) \in Nat /\ (partial' = partial => ~Loses)
    BY DEF Inductive, TypeOK
  <2>1. CASE Discard
    BY <2>1 DEF Discard, Inductive, TypeOK
  <2>2. CASE Change
    BY <2>T, <2>2 DEF Change
  <2>3. ASSUME NEW l \in Loader, Start(l) \/ Stop(l) PROVE Occasion
    BY <2>T, <2>3 DEF Start, Stop
  <2>4. ASSUME NEW l \in Loader, GoOn(l) PROVE Occasion
    <3>0. ~shared
      BY <2>4 DEF GoOn, Size, Ask, Remove, Whole, Opened, Stored, Request, OpenAppend, Read,
                  ChunkEnds, Finish
    <3>1. Follows(l)
      BY <2>4, <3>0, OneGoesOn DEF Inductive
    <3>2. Keeping(l)
      BY <2>4, <3>1, LoadKeeps DEF Inductive
    <3>3. Len(partial') \in Nat
      BY NextInductive DEF Inductive, TypeOK
    <3>4. CASE load[l].at \in {"refused", "drop", "finish"}
      BY <3>4
    <3>5. CASE Len(partial) <= Len(partial') /\ \A i \in 1..Len(partial) : partial'[i] = partial[i]
      BY <2>T, <3>3, <3>5
    <3> QED BY <3>2, <3>4, <3>5 DEF Keeping
  <2> QED BY <2>1, <2>2, <2>3, <2>4 DEF Next
<1> HIDE DEF Loses, Occasion
<1>2. Spec => [][~shared' /\ Loses => Occasion]_vars
  BY InitInductive, NextInductive, FollowedAlways, <1>1, PTL DEF Spec
<1> QED BY <1>2 DEF Loses, Occasion, KeepsBytes
===============================================================================
