-------------------------- MODULE ReadingPlacesProofs --------------------------
(***************************************************************************)
(* That the place the reader reaches in a book gets to the book's row, or  *)
(* there is a reason why not; that a keeper which told no failure believes *)
(* what the row holds; that the reader holds the setting of its book: for  *)
(* any books, places, settings and bounds, and saves that overlap.         *)
(***************************************************************************)
EXTENDS ReadingPlaces, SequenceTheorems, TLAPS

Unwr(u) == u.stage \in {"asked", "read"}

(* The saves of one field of a book, and the youngest of them. *)
On(us, b, f) == {i \in DOMAIN us : us[i].book = b /\ us[i].field = f}
Latest(us, b, f, i) == i \in On(us, b, f) /\ \A j \in On(us, b, f) : j <= i
-------------------------------------------------------------------------------
(* Types. *)

(* What the types leave open: the reader shows a book while it is open, a    *)
(* save has a value of its field, and a copy of the row once it was read.    *)
Fitting ==
  /\ shown.state # "closed" => shown.book \in Books
  /\ shown.state = "open" => shown.at \in Places /\ shown.choice \in Choices
  /\ \A i \in DOMAIN updates :
       /\ updates[i].field = "place" => updates[i].value \in Places
       /\ updates[i].field = "choice" => updates[i].value \in Choices
       /\ updates[i].stage = "read" => updates[i].copy \in Rows

Fits(u) ==
  /\ u.field = "place" => u.value \in Places
  /\ u.field = "choice" => u.value \in Choices
  /\ u.stage = "read" => u.copy \in Rows

LEMMA UpdatesAre ==
  ASSUME NEW us \in Seq(Updates)
  PROVE  /\ Len(us) \in Nat /\ DOMAIN us = 1 .. Len(us)
         /\ \A i \in DOMAIN us :
              /\ us[i] \in Updates /\ us[i].book \in Books /\ us[i].field \in Fields
              /\ us[i].value \in Places \cup Choices /\ us[i].stage \in Stages
              /\ us[i].copy \in Rows \cup {None} /\ us[i].current \in BOOLEAN
<1>1. Len(us) \in Nat /\ DOMAIN us = 1 .. Len(us) /\ \A i \in DOMAIN us : us[i] \in Updates
  OBVIOUS
<1>2. ASSUME NEW u \in Updates
      PROVE  /\ u.book \in Books /\ u.field \in Fields /\ u.value \in Places \cup Choices
             /\ u.stage \in Stages /\ u.copy \in Rows \cup {None} /\ u.current \in BOOLEAN
  BY DEF Updates
<1> QED BY <1>1, <1>2

LEMMA AnUpdate ==
  ASSUME NEW b \in Books, NEW f \in Fields, NEW v \in Places \cup Choices
  PROVE  /\ Update(b, f, v) \in Updates
         /\ Update(b, f, v).book = b /\ Update(b, f, v).field = f /\ Update(b, f, v).value = v
         /\ Update(b, f, v).stage = "asked" /\ Update(b, f, v).current = TRUE
BY DEF Update, Updates, Stages

(* Appending, ageing, moving one on, and answering the first: what becomes   *)
(* of each save.                                                             *)
LEMMA Appended ==
  ASSUME NEW us \in Seq(Updates), NEW u \in Updates
  PROVE  /\ Append(us, u) \in Seq(Updates)
         /\ Len(Append(us, u)) = Len(us) + 1
         /\ DOMAIN Append(us, u) = DOMAIN us \cup {Len(us) + 1}
         /\ \A i \in DOMAIN us : Append(us, u)[i] = us[i] /\ i < Len(us) + 1
         /\ Append(us, u)[Len(us) + 1] = u
         /\ Len(us) + 1 \notin DOMAIN us
OBVIOUS

Alike(v, u) == v.book = u.book /\ v.field = u.field /\ v.value = u.value /\ v.stage = u.stage
               /\ v.copy = u.copy

LEMMA Aged ==
  ASSUME NEW us \in Seq(Updates)
  PROVE  /\ Past(us) \in Seq(Updates) /\ Len(Past(us)) = Len(us)
         /\ DOMAIN Past(us) = DOMAIN us
         /\ \A i \in DOMAIN us : Alike(Past(us)[i], us[i]) /\ Past(us)[i].current = FALSE
<1> DEFINE old(u) == [u EXCEPT !.current = FALSE]
<1>1. ASSUME NEW u \in Updates
      PROVE  old(u) \in Updates /\ Alike(old(u), u) /\ old(u).current = FALSE
  BY DEF Updates, Alike
<1>2. Past(us) = [i \in DOMAIN us |-> old(us[i])]
  BY DEF Past
<1> HIDE DEF old
<1>3. DOMAIN us = 1 .. Len(us) /\ Len(us) \in Nat /\ \A i \in DOMAIN us : us[i] \in Updates
  OBVIOUS
<1>4. Past(us) \in Seq(Updates) /\ Len(Past(us)) = Len(us) /\ DOMAIN Past(us) = DOMAIN us
  <2>1. Past(us) \in [1 .. Len(us) -> Updates]
    BY <1>1, <1>2, <1>3
  <2> QED BY <1>3, <2>1
<1> QED BY <1>1, <1>2, <1>3, <1>4

LEMMA Answering ==
  ASSUME NEW us \in Seq(Updates), us # <<>>
  PROVE  /\ Tail(us) \in Seq(Updates) /\ Head(us) = us[1] /\ 1 \in DOMAIN us
         /\ Len(Tail(us)) = Len(us) - 1
         /\ \A i \in DOMAIN Tail(us) : i + 1 \in DOMAIN us /\ Tail(us)[i] = us[i + 1]
         /\ \A i \in DOMAIN us \ {1} : i - 1 \in DOMAIN Tail(us) /\ Tail(us)[i - 1] = us[i]
OBVIOUS

LEMMA Replaced ==
  ASSUME NEW us \in Seq(Updates), NEW i \in DOMAIN us, NEW u \in Updates
  PROVE  /\ [us EXCEPT ![i] = u] \in Seq(Updates) /\ Len([us EXCEPT ![i] = u]) = Len(us)
         /\ DOMAIN [us EXCEPT ![i] = u] = DOMAIN us
         /\ \A j \in DOMAIN us \ {i} : [us EXCEPT ![i] = u][j] = us[j]
         /\ [us EXCEPT ![i] = u][i] = u
OBVIOUS

LEMMA Staged ==
  ASSUME NEW us \in Seq(Updates), NEW i \in DOMAIN us, NEW stage \in Stages,
         NEW vs, vs = [us EXCEPT ![i].stage = stage]
  PROVE  /\ vs \in Seq(Updates) /\ Len(vs) = Len(us) /\ DOMAIN vs = DOMAIN us
         /\ \A j \in DOMAIN us \ {i} : vs[j] = us[j]
         /\ vs[i].book = us[i].book /\ vs[i].field = us[i].field /\ vs[i].value = us[i].value
         /\ vs[i].copy = us[i].copy /\ vs[i].current = us[i].current /\ vs[i].stage = stage
<1> DEFINE new == [us[i] EXCEPT !.stage = stage]
<1>1. us[i] \in Updates
  OBVIOUS
<1>2. /\ new \in Updates /\ new.stage = stage
      /\ new.book = us[i].book /\ new.field = us[i].field /\ new.value = us[i].value
      /\ new.copy = us[i].copy /\ new.current = us[i].current
  BY <1>1 DEF Updates
<1>3. vs = [us EXCEPT ![i] = new]
  OBVIOUS
<1> HIDE DEF new
<1> QED BY <1>2, <1>3

CopyOf(us, i, r) == [us EXCEPT ![i].stage = "read", ![i].copy = r]

LEMMA Copied ==
  ASSUME NEW us \in Seq(Updates), NEW i \in DOMAIN us, NEW r \in Rows,
         NEW vs, vs = CopyOf(us, i, r)
  PROVE  /\ vs \in Seq(Updates) /\ Len(vs) = Len(us) /\ DOMAIN vs = DOMAIN us
         /\ \A j \in DOMAIN us \ {i} : vs[j] = us[j]
         /\ vs[i].book = us[i].book /\ vs[i].field = us[i].field /\ vs[i].value = us[i].value
         /\ vs[i].copy = r /\ vs[i].current = us[i].current /\ vs[i].stage = "read"
<1> DEFINE new == [us[i] EXCEPT !.stage = "read", !.copy = r]
<1>1. us[i] \in Updates /\ "read" \in Stages
  BY DEF Stages
<1>2. /\ new \in Updates /\ new.stage = "read"
      /\ new.book = us[i].book /\ new.field = us[i].field /\ new.value = us[i].value
      /\ new.copy = r /\ new.current = us[i].current
  BY <1>1 DEF Updates
<1>3. vs = [us EXCEPT ![i] = new]
  BY <1>1, <1>2 DEF CopyOf
<1> HIDE DEF new
<1>5. /\ [us EXCEPT ![i] = new] \in Seq(Updates) /\ Len([us EXCEPT ![i] = new]) = Len(us)
      /\ DOMAIN [us EXCEPT ![i] = new] = DOMAIN us
      /\ \A j \in DOMAIN us \ {i} : [us EXCEPT ![i] = new][j] = us[j]
      /\ [us EXCEPT ![i] = new][i] = new
  <2>1. new \in Updates
    BY <1>2
  <2> HIDE <1>3
  <2> QED BY <2>1, Replaced
<1>4. /\ vs \in Seq(Updates) /\ Len(vs) = Len(us) /\ DOMAIN vs = DOMAIN us
      /\ \A j \in DOMAIN us \ {i} : vs[j] = us[j]
      /\ vs[i] = new
  BY <1>3, <1>5, Zenon
<1> QED BY <1>2, <1>4, Zenon
-------------------------------------------------------------------------------
(* What the steps do to the saves under way and to the rows. *)

LEMMA FlushIs ==
  ASSUME TypeOK, Fitting, Room
  PROVE  \/ ~Owed /\ Flushed = updates
         \/ /\ Owed /\ waiting # None /\ waiting.book \in Books /\ waiting.place \in Places
            /\ Update(waiting.book, "place", waiting.place) \in Updates
            /\ Flushed = Append(updates, Update(waiting.book, "place", waiting.place))
<1>1. CASE ~Owed
  BY <1>1 DEF Flushed
<1>2. CASE Owed
  <2>1. waiting # None /\ waiting.book \in Books /\ waiting.place \in Places
    BY <1>2 DEF Owed, TypeOK
  <2>2. "place" \in Fields
    BY DEF Fields
  <2>3. Update(waiting.book, "place", waiting.place) \in Updates
    BY <2>1, <2>2, AnUpdate
  <2> QED BY <1>2, <2>1, <2>3 DEF Flushed
<1> QED BY <1>1, <1>2

LEMMA FlushTyped ==
  ASSUME TypeOK, Fitting, Room
  PROVE  /\ Flushed \in Seq(Updates) /\ Len(Flushed) <= MaxInFlight
         /\ \A i \in DOMAIN Flushed : Fits(Flushed[i])
<1> DEFINE u == Update(waiting.book, "place", waiting.place)
<1>0. updates \in Seq(Updates) /\ Len(updates) <= MaxInFlight
      /\ \A i \in DOMAIN updates : Fits(updates[i])
  BY DEF TypeOK, Fitting, Fits
<1>1. CASE Flushed = updates
  BY <1>0, <1>1
<1>2. CASE Flushed # updates
  <2>1. u \in Updates /\ Flushed = Append(updates, u) /\ waiting.place \in Places
        /\ waiting.book \in Books
    BY <1>2, FlushIs
  <2>2. u.field = "place" /\ u.value = waiting.place /\ u.stage = "asked"
    BY DEF Update
  <2>3. Fits(u)
    BY <2>1, <2>2 DEF Fits
  <2> HIDE DEF u
  <2>4. Len(updates) + 1 <= MaxInFlight
    BY <1>0, PlacesAssumption DEF Room
  <2> QED BY <1>0, <2>1, <2>3, <2>4, Appended
<1> QED BY <1>1, <1>2

LEMMA PersistTyped ==
  ASSUME TypeOK, Fitting, Room, NEW b \in Books, NEW p \in Places, Persist(b, p)
  PROVE  /\ updates' \in Seq(Updates) /\ Len(updates') <= MaxInFlight
         /\ \A i \in DOMAIN updates' : Fits(updates'[i])
         /\ stored' \in Places
<1> DEFINE u == Update(b, "place", p)
<1>0. updates \in Seq(Updates) /\ Len(updates) <= MaxInFlight
      /\ \A i \in DOMAIN updates : Fits(updates[i])
  BY DEF TypeOK, Fitting, Fits
<1>1. u \in Updates /\ updates' = Append(updates, u) /\ stored' = p
  BY AnUpdate DEF Fields, Persist
<1>2. u.field = "place" /\ u.value = p /\ u.stage = "asked"
  BY DEF Update
<1>3. Fits(u)
  BY <1>2 DEF Fits
<1> HIDE DEF u
<1>4. Len(updates) + 1 <= MaxInFlight
  BY <1>0, PlacesAssumption DEF Room
<1> QED BY <1>0, <1>1, <1>3, <1>4, Appended

LEMMA SpendsTyped ==
  ASSUME TypeOK, NEW n \in DOMAIN Bounds, Spends(n)
  PROVE  spent' \in [DOMAIN Bounds -> Nat] /\ \A m \in DOMAIN Bounds : spent'[m] <= Bounds[m]
<1> DEFINE D == DOMAIN Bounds
<1>1. spent \in [D -> Nat] /\ n \in D
  BY DEF TypeOK
<1>2. spent' = [spent EXCEPT ![n] = spent[n] + 1]
  BY DEF Spends
<1>3. Bounds[n] \in Nat
  BY PlacesAssumption DEF Bounds
<1>4. spent[n] + 1 <= Bounds[n] /\ \A m \in D : spent[m] <= Bounds[m]
  BY <1>1, <1>3 DEF Spends, TypeOK
<1> HIDE DEF D
<1>5. spent' \in [D -> Nat] /\ \A m \in D : spent'[m] = IF m = n THEN spent[n] + 1 ELSE spent[m]
  BY <1>1, <1>2
<1> QED BY <1>4, <1>5 DEF D

(* A row that is written has the field's value, and what the copy had of     *)
(* the other field.                                                          *)
Other(f) == IF f = "place" THEN "choice" ELSE "place"

LEMMA RowWritten ==
  ASSUME TypeOK, Fitting, NEW i \in DOMAIN updates, Writes(i),
         NEW b, b = updates[i].book, NEW f, f = updates[i].field
  PROVE  /\ row' \in [Books -> Rows] /\ said' \in [Books -> Rows] /\ b \in Books /\ f \in Fields
         /\ row'[b][f] = updates[i].value /\ said'[b][f] = updates[i].value
         /\ row'[b][Other(f)] = updates[i].copy[Other(f)]
         /\ said'[b][Other(f)] = said[b][Other(f)]
         /\ \A c \in Books \ {b} : row'[c] = row[c] /\ said'[c] = said[c]
         /\ updates[i].copy \in Rows
<1> DEFINE r == updates[i].copy
           v == updates[i].value
<1>1. updates \in Seq(Updates) /\ updates[i].stage = "read"
      /\ row' = [row EXCEPT ![b] = [r EXCEPT ![f] = v]]
      /\ said' = [said EXCEPT ![b][f] = v]
  BY DEF Writes, Oldest, TypeOK
<1>2. r \in Rows /\ b \in Books /\ f \in {"place", "choice"}
      /\ (f = "place" => v \in Places) /\ (f = "choice" => v \in Choices)
  BY <1>1, UpdatesAre DEF Fitting, Fields
<1> HIDE DEF r, v
<1>3. CASE f = "place"
  <2>1. row' \in [Books -> Rows] /\ row'[b].place = v /\ row'[b].choice = r.choice
        /\ \A c \in Books \ {b} : row'[c] = row[c]
    BY <1>1, <1>2, <1>3 DEF TypeOK, Rows
  <2>2. said' \in [Books -> Rows] /\ said'[b].place = v /\ said'[b].choice = said[b].choice
        /\ \A c \in Books \ {b} : said'[c] = said[c]
    BY <1>1, <1>2, <1>3 DEF TypeOK, Rows
  <2> QED BY <1>2, <1>3, <2>1, <2>2 DEF Other, Fields, r, v
<1>4. CASE f = "choice"
  <2>1. row' \in [Books -> Rows] /\ row'[b].choice = v /\ row'[b].place = r.place
        /\ \A c \in Books \ {b} : row'[c] = row[c]
    BY <1>1, <1>2, <1>4 DEF TypeOK, Rows
  <2>2. said' \in [Books -> Rows] /\ said'[b].choice = v /\ said'[b].place = said[b].place
        /\ \A c \in Books \ {b} : said'[c] = said[c]
    BY <1>1, <1>2, <1>4 DEF TypeOK, Rows
  <2> QED BY <1>2, <1>4, <2>1, <2>2 DEF Other, Fields, r, v
<1> QED BY <1>2, <1>3, <1>4
(* The types of the saves, alone. *)
SavesTyped ==
  /\ updates \in Seq(Updates) /\ Len(updates) <= MaxInFlight
  /\ \A i \in DOMAIN updates : Fits(updates[i])

Shows ==
  /\ shown \in [state : {"closed", "opening", "open"}, book : Books \cup {None},
                at : Places \cup {None}, choice : Choices \cup {None}]
  /\ shown.state # "closed" => shown.book \in Books
  /\ shown.state = "open" => shown.at \in Places /\ shown.choice \in Choices

SpentTyped ==
  spent \in [DOMAIN Bounds -> Nat] /\ \A n \in DOMAIN Bounds : spent[n] <= Bounds[n]

Types ==
  /\ SavesTyped /\ Shows /\ SpentTyped
  /\ row \in [Books -> Rows] /\ kind \in {"images", "text"}
  /\ waiting \in [book : Books, place : Places] \cup {None}
  /\ stored \in Places \cup {None} /\ failing \in BOOLEAN
  /\ reached \in [Books -> Places] /\ said \in [Books -> Rows]
  /\ behind \in [Books -> SUBSET Reasons]

LEMMA TypesAre == (TypeOK /\ Fitting <=> Types) /\ (TypeOK' /\ Fitting' <=> Types')
BY DEF Types, TypeOK, Fitting, SavesTyped, Shows, SpentTyped, Fits

LEMMA ClosedShows ==
  /\ Closed \in [state : {"closed", "opening", "open"}, book : Books \cup {None},
                 at : Places \cup {None}, choice : Choices \cup {None}]
  /\ Closed.state = "closed"
BY DEF Closed

LEMMA BoundNames == {"moves", "opens", "choices", "faults", "closes"} = DOMAIN Bounds
BY DEF Bounds

LEMMA PastTyped ==
  ASSUME TypeOK, Fitting, Room, updates' = Past(Flushed)
  PROVE  SavesTyped'
<1>1. Flushed \in Seq(Updates) /\ Len(Flushed) <= MaxInFlight
      /\ \A i \in DOMAIN Flushed : Fits(Flushed[i])
  BY FlushTyped
<1>2. /\ updates' \in Seq(Updates) /\ Len(updates') <= MaxInFlight
      /\ DOMAIN updates' = DOMAIN Flushed
      /\ \A i \in DOMAIN Flushed : Alike(updates'[i], Flushed[i])
  BY <1>1, Aged
<1> QED BY <1>1, <1>2 DEF SavesTyped, Fits, Alike

LEMMA StageTyped ==
  ASSUME TypeOK, Fitting, NEW i \in DOMAIN updates, NEW stage \in {"written", "failed"},
         updates' = [updates EXCEPT ![i].stage = stage]
  PROVE  SavesTyped'
<1>1. updates \in Seq(Updates) /\ stage \in Stages
      /\ Len(updates) <= MaxInFlight /\ \A j \in DOMAIN updates : Fits(updates[j])
  BY DEF TypeOK, Fitting, Fits, Stages
<1>2. /\ updates' \in Seq(Updates) /\ Len(updates') = Len(updates)
      /\ DOMAIN updates' = DOMAIN updates
      /\ \A j \in DOMAIN updates \ {i} : updates'[j] = updates[j]
      /\ updates'[i].field = updates[i].field /\ updates'[i].value = updates[i].value
      /\ updates'[i].stage = stage
  BY <1>1, Staged
<1> QED BY <1>1, <1>2 DEF SavesTyped, Fits

LEMMA TailTyped ==
  ASSUME TypeOK, Fitting, updates # <<>>, updates' = Tail(updates)
  PROVE  SavesTyped'
<1>1. updates \in Seq(Updates) /\ Len(updates) <= MaxInFlight
      /\ \A j \in DOMAIN updates : Fits(updates[j]) /\ Len(updates) \in Nat
  BY DEF TypeOK, Fitting, Fits
<1>2. /\ updates' \in Seq(Updates) /\ Len(updates') = Len(updates) - 1
      /\ \A i \in DOMAIN updates' : i + 1 \in DOMAIN updates /\ updates'[i] = updates[i + 1]
  BY <1>1, Answering
<1>3. Len(updates') <= MaxInFlight
  BY <1>1, <1>2, PlacesAssumption
<1> QED BY <1>1, <1>2, <1>3 DEF SavesTyped

LEMMA ReaderTyped ==
  ASSUME TypeOK, Fitting, Reader \/ Settle
  PROVE  TypeOK' /\ Fitting'
<1>0. /\ SavesTyped /\ Shows /\ SpentTyped
      /\ row \in [Books -> Rows] /\ kind \in {"images", "text"}
      /\ waiting \in [book : Books, place : Places] \cup {None}
      /\ stored \in Places \cup {None} /\ failing \in BOOLEAN
      /\ reached \in [Books -> Places] /\ said \in [Books -> Rows]
      /\ behind \in [Books -> SUBSET Reasons]
  BY TypesAre DEF Types
<1> SUFFICES Types'
  BY TypesAre
<1> USE <1>0, BoundNames
<1>1. CASE Settle
  <2>1. SavesTyped' /\ stored' \in Places \cup {None}
    <3>1. CASE Owed
      <4>1. waiting.book \in Books /\ waiting.place \in Places /\ Room
            /\ Persist(waiting.book, waiting.place)
        BY <1>1, <3>1 DEF Settle, TypeOK
      <4> QED BY <4>1, PersistTyped DEF SavesTyped
    <3>2. CASE ~Owed
      BY <1>1, <3>2 DEF Settle, SavesTyped, TypeOK
    <3> QED BY <3>1, <3>2
  <2> QED BY <1>1, <2>1 DEF Settle, Shows, SpentTyped, Types
<1>2. ASSUME NEW b \in Books, OpenBook(b) PROVE Types'
  <2>1. SavesTyped'
    BY <1>2, PastTyped DEF OpenBook
  <2>2. Shows'
    BY <1>2 DEF OpenBook, Shows, Closed
  <2>3. SpentTyped'
    BY <1>2, SpendsTyped DEF OpenBook, SpentTyped
  <2> QED BY <1>2, <2>1, <2>2, <2>3 DEF OpenBook, Types
<1>3. ASSUME NEW b \in Books, NEW at \in Places, Opened(b, at) PROVE Types'
  <2>1. SavesTyped' /\ stored' \in Places
    <3>1. CASE at = row[b].place
      BY <1>3, <3>1 DEF Opened, SavesTyped
    <3>2. CASE at # row[b].place
      BY <1>3, <3>2, PersistTyped DEF Opened, SavesTyped
    <3> QED BY <3>1, <3>2
  <2>2. Shows'
    <3>1. row[b].choice \in Choices
      BY DEF Rows
    <3> QED BY <1>3, <3>1 DEF Opened, Shows
  <2>3. reached' \in [Books -> Places]
    BY <1>3 DEF Opened, Reach
  <2>4. behind' \in [Books -> SUBSET Reasons]
    BY <1>3 DEF Opened, Reasons
  <2> QED BY <1>3, <2>1, <2>2, <2>3, <2>4 DEF Opened, SpentTyped, Types
<1>4. CASE OpeningFails
  <2>1. Shows' /\ SpentTyped'
    BY <1>4, ClosedShows, SpendsTyped DEF OpeningFails, Shows, SpentTyped
  <2> QED BY <1>4, <2>1 DEF OpeningFails, SavesTyped, Types
<1>5. CASE Leave
  <2>1. SavesTyped'
    BY <1>5, PastTyped DEF Leave
  <2>2. Shows'
    BY <1>5, ClosedShows DEF Leave, Shows
  <2>3. stored' \in Places \cup {None}
    BY <1>5 DEF Leave, Owed
  <2> QED BY <1>5, <2>1, <2>2, <2>3 DEF Leave, SpentTyped, Types
<1>6. CASE TabCloses
  <2>1. Shows' /\ SpentTyped'
    BY <1>6, ClosedShows, SpendsTyped DEF TabCloses, Shows, SpentTyped
  <2>2. SavesTyped'
    BY <1>6, PlacesAssumption DEF TabCloses, SavesTyped
  <2>3. behind' \in [Books -> SUBSET Reasons]
    BY <1>6 DEF TabCloses, Reasons
  <2> QED BY <1>6, <2>1, <2>2, <2>3 DEF TabCloses, Types
<1>7. ASSUME NEW p \in Places, Move(p) \/ Turn(p) PROVE Types'
  <2>0. shown.book \in Books
    BY <1>7 DEF Move, Turn, Shows
  <2>1. Shows'
    BY <1>7, <2>0 DEF Move, Turn, Shows
  <2>2. SpentTyped'
    BY <1>7, SpendsTyped DEF Move, Turn, SpentTyped
  <2>3. SavesTyped' /\ stored' \in Places \cup {None}
    BY <1>7, <2>0, PersistTyped DEF Move, Turn, SavesTyped
  <2>4. reached' \in [Books -> Places] /\ waiting' \in [book : Books, place : Places]
    BY <1>7, <2>0 DEF Move, Turn, Reach
  <2> QED BY <1>7, <2>1, <2>2, <2>3, <2>4 DEF Move, Turn, Types
<1>8. ASSUME NEW c \in Choices, Choose(c) PROVE Types'
  <2> DEFINE u == Update(shown.book, "choice", c)
  <2>0. shown.book \in Books
    BY <1>8 DEF Choose, Shows
  <2>1. u \in Updates /\ updates' = Append(updates, u)
    BY <1>8, <2>0, AnUpdate DEF Choose, Fields
  <2>2. Fits(u)
    BY DEF Fits, Update
  <2> HIDE DEF u
  <2>3. Len(updates) + 1 <= MaxInFlight
    BY <1>8, PlacesAssumption DEF Room, Choose, SavesTyped
  <2>4. SavesTyped'
    BY <2>1, <2>2, <2>3, Appended DEF SavesTyped
  <2>5. SpentTyped'
    BY <1>8, SpendsTyped DEF Choose, SpentTyped
  <2> QED BY <1>8, <2>4, <2>5 DEF Choose, Shows, Types
<1> QED BY <1>1, <1>2, <1>3, <1>4, <1>5, <1>6, <1>7, <1>8 DEF Reader

LEMMA StorageTyped ==
  ASSUME TypeOK, Fitting, Storage
  PROVE  TypeOK' /\ Fitting'
<1>0. /\ SavesTyped /\ Shows /\ SpentTyped
      /\ row \in [Books -> Rows] /\ kind \in {"images", "text"}
      /\ waiting \in [book : Books, place : Places] \cup {None}
      /\ stored \in Places \cup {None} /\ failing \in BOOLEAN
      /\ reached \in [Books -> Places] /\ said \in [Books -> Rows]
      /\ behind \in [Books -> SUBSET Reasons]
  BY TypesAre DEF Types
<1> SUFFICES Types'
  BY TypesAre
<1> USE <1>0, BoundNames
<1>1. ASSUME NEW i \in 1 .. MaxInFlight, Reads(i) PROVE Types'
  <2>1. i \in DOMAIN updates /\ row[updates[i].book] \in Rows
        /\ updates' = CopyOf(updates, i, row[updates[i].book])
    BY <1>1, UpdatesAre DEF Reads, Oldest, SavesTyped, CopyOf
  <2>2. /\ updates' \in Seq(Updates) /\ Len(updates') = Len(updates)
        /\ DOMAIN updates' = DOMAIN updates
        /\ \A j \in DOMAIN updates \ {i} : updates'[j] = updates[j]
        /\ updates'[i].field = updates[i].field /\ updates'[i].value = updates[i].value
        /\ updates'[i].copy \in Rows
    BY <2>1, Copied DEF SavesTyped
  <2>3. SavesTyped'
    BY <2>1, <2>2 DEF SavesTyped, Fits
  <2> QED BY <1>1, <2>3 DEF Reads, Shows, SpentTyped, Types
<1>2. ASSUME NEW i \in 1 .. MaxInFlight, Writes(i) PROVE Types'
  <2>1. i \in DOMAIN updates /\ updates' = [updates EXCEPT ![i].stage = "written"]
    BY <1>2 DEF Writes, Oldest
  <2>2. SavesTyped'
    BY <2>1, StageTyped
  <2>3. row' \in [Books -> Rows] /\ said' \in [Books -> Rows]
    BY <1>2, <2>1, RowWritten
  <2>4. behind' \in [Books -> SUBSET Reasons]
    BY <1>2 DEF Writes, Reasons
  <2> QED BY <1>2, <2>2, <2>3, <2>4 DEF Writes, Shows, SpentTyped, Types
<1>3. ASSUME NEW i \in 1 .. MaxInFlight, Fails(i) PROVE Types'
  <2>1. i \in DOMAIN updates /\ updates' = [updates EXCEPT ![i].stage = "failed"]
    BY <1>3 DEF Fails, Oldest
  <2>2. SavesTyped'
    BY <2>1, StageTyped
  <2>3. SpentTyped'
    BY <1>3, SpendsTyped DEF Fails, SpentTyped
  <2>4. behind' \in [Books -> SUBSET Reasons]
    BY <1>3 DEF Fails, Reasons
  <2> QED BY <1>3, <2>2, <2>3, <2>4 DEF Fails, Shows, Types
<1>4. CASE PlaceSaved \/ PlaceRefused
  <2>1. SavesTyped'
    BY <1>4, TailTyped DEF PlaceSaved, PlaceRefused, Answered
  <2>2. stored' \in Places \cup {None} /\ failing' \in BOOLEAN
    BY <1>4 DEF PlaceSaved, PlaceRefused
  <2> QED BY <1>4, <2>1, <2>2 DEF PlaceSaved, PlaceRefused, Shows, SpentTyped, Types
<1>5. CASE ChoiceAnswered
  <2>0. updates # <<>> /\ updates' = Tail(updates) /\ Head(updates).field = "choice"
    BY <1>5 DEF ChoiceAnswered, Answered
  <2>1. SavesTyped'
    BY <2>0, TailTyped
  <2>2. Head(updates).value \in Choices
    BY <2>0, Answering DEF SavesTyped, Fits
  <2>3. Shows'
    BY <1>5, <2>2 DEF ChoiceAnswered, Shows
  <2> QED BY <1>5, <2>1, <2>3 DEF ChoiceAnswered, SpentTyped, Types
<1> QED BY <1>1, <1>2, <1>3, <1>4, <1>5 DEF Storage

LEMMA InitTyped == Init => TypeOK /\ Fitting
<1> SUFFICES ASSUME Init PROVE TypeOK /\ Fitting
  OBVIOUS
<1>1. (CHOOSE r \in Rows : TRUE) \in Rows
  <2>1. PICK p \in Places, c \in Choices : TRUE
    BY PlacesAssumption
  <2>2. [place |-> p, choice |-> c] \in Rows
    BY DEF Rows
  <2> QED BY <2>2
<1>2. row \in [Books -> Rows] /\ said \in [Books -> Rows] /\ reached \in [Books -> Places]
  BY <1>1 DEF Init, Rows
<1>3. SavesTyped
  BY PlacesAssumption DEF Init, SavesTyped
<1>4. Shows
  BY ClosedShows DEF Init, Shows
<1>5. SpentTyped
  <2>1. \A n \in DOMAIN Bounds : Bounds[n] \in Nat
    BY PlacesAssumption DEF Bounds
  <2> QED BY <2>1 DEF Init, SpentTyped
<1> QED BY <1>2, <1>3, <1>4, <1>5, TypesAre DEF Init, Types
-------------------------------------------------------------------------------
(* Saves of the place of a book: one is to come, none is, the last of them   *)
(* failed, and what the copies that were read hold.                          *)

Coming(us, b, v) == \E i \in DOMAIN us : Latest(us, b, "place", i) /\ Unwr(us[i]) /\ us[i].value = v
NoneComing(us, b) == \A i \in On(us, b, "place") : ~Unwr(us[i])
Refused(us, b) == \E i \in DOMAIN us : Latest(us, b, "place", i) /\ us[i].stage = "failed"
Copies(us, b, f, v) ==
  \A i \in DOMAIN us : us[i].book = b /\ us[i].stage = "read" => us[i].copy[f] = v

LEMMA AskedNext ==
  ASSUME NEW us \in Seq(Updates), NEW u \in Updates, u.stage = "asked", NEW b, NEW f, NEW v
  PROVE  /\ Copies(us, b, f, v) => Copies(Append(us, u), b, f, v)
         /\ u.book = b /\ u.field = "place" => Coming(Append(us, u), b, u.value)
         /\ ~(u.book = b /\ u.field = "place") =>
              /\ Coming(us, b, v) => Coming(Append(us, u), b, v)
              /\ NoneComing(us, b) => NoneComing(Append(us, u), b)
              /\ Refused(us, b) => Refused(Append(us, u), b)
<1> DEFINE vs == Append(us, u)
<1>1. /\ Len(us) \in Nat /\ DOMAIN us = 1 .. Len(us)
      /\ DOMAIN vs = DOMAIN us \cup {Len(us) + 1}
      /\ \A i \in DOMAIN us : vs[i] = us[i] /\ i < Len(us) + 1
      /\ vs[Len(us) + 1] = u
  BY Appended
<1> HIDE DEF vs
<1>2. Copies(us, b, f, v) => Copies(vs, b, f, v)
  BY <1>1 DEF Copies
<1>3. ASSUME u.book = b, u.field = "place" PROVE Coming(vs, b, u.value)
  <2>1. Latest(vs, b, "place", Len(us) + 1)
    BY <1>1, <1>3 DEF Latest, On
  <2> QED BY <1>1, <2>1 DEF Coming, Unwr
<1>4. ASSUME ~(u.book = b /\ u.field = "place")
      PROVE  /\ Coming(us, b, v) => Coming(vs, b, v)
             /\ NoneComing(us, b) => NoneComing(vs, b)
             /\ Refused(us, b) => Refused(vs, b)
  <2>1. On(vs, b, "place") = On(us, b, "place")
    BY <1>1, <1>4 DEF On
  <2>2. \A i \in DOMAIN us : Latest(us, b, "place", i) => Latest(vs, b, "place", i)
    BY <2>1 DEF Latest
  <2>3. NoneComing(us, b) => NoneComing(vs, b)
    BY <1>1, <2>1 DEF NoneComing, On
  <2> QED BY <1>1, <2>2, <2>3 DEF Coming, Refused
<1> QED BY <1>2, <1>3, <1>4 DEF vs

LEMMA AgedStill ==
  ASSUME NEW us \in Seq(Updates), NEW b, NEW f, NEW v
  PROVE  /\ Copies(us, b, f, v) => Copies(Past(us), b, f, v)
         /\ Coming(us, b, v) => Coming(Past(us), b, v)
         /\ NoneComing(us, b) => NoneComing(Past(us), b)
         /\ Refused(us, b) => Refused(Past(us), b)
<1> DEFINE vs == Past(us)
<1>1. DOMAIN vs = DOMAIN us /\ \A i \in DOMAIN us : Alike(vs[i], us[i])
  BY Aged
<1> HIDE DEF vs
<1>2. On(vs, b, "place") = On(us, b, "place")
  BY <1>1 DEF On, Alike
<1>3. \A i \in DOMAIN us : Latest(us, b, "place", i) => Latest(vs, b, "place", i)
  BY <1>2 DEF Latest
<1>4. NoneComing(us, b) => NoneComing(vs, b)
  BY <1>1, <1>2 DEF NoneComing, On, Unwr, Alike
<1>5. (Coming(us, b, v) => Coming(vs, b, v)) /\ (Refused(us, b) => Refused(vs, b))
  BY <1>1, <1>3 DEF Coming, Refused, Unwr, Alike
<1>6. Copies(us, b, f, v) => Copies(vs, b, f, v)
  BY <1>1 DEF Copies, Alike
<1> QED BY <1>4, <1>5, <1>6 DEF vs

LEMMA AnsweredStill ==
  ASSUME NEW us \in Seq(Updates), us # <<>>, ~Unwr(Head(us)), NEW b, NEW f, NEW v
  PROVE  /\ Copies(us, b, f, v) => Copies(Tail(us), b, f, v)
         /\ Coming(us, b, v) => Coming(Tail(us), b, v)
         /\ NoneComing(us, b) => NoneComing(Tail(us), b)
         /\ Refused(us, b) => Refused(Tail(us), b) \/ On(Tail(us), b, "place") = {}
<1> DEFINE vs == Tail(us)
<1>1. /\ Len(us) \in Nat /\ DOMAIN us = 1 .. Len(us)
      /\ Head(us) = us[1] /\ 1 \in DOMAIN us
      /\ \A i \in DOMAIN vs : i + 1 \in DOMAIN us /\ vs[i] = us[i + 1]
      /\ \A i \in DOMAIN us \ {1} : i - 1 \in DOMAIN vs /\ vs[i - 1] = us[i]
      /\ \A i \in DOMAIN vs : i \in Nat /\ 1 <= i
  BY Answering
<1> HIDE DEF vs
<1>2. Copies(us, b, f, v) => Copies(vs, b, f, v)
  BY <1>1 DEF Copies
<1>3. \A i \in DOMAIN us \ {1} : Latest(us, b, "place", i) => Latest(vs, b, "place", i - 1)
  <2> SUFFICES ASSUME NEW i \in DOMAIN us \ {1}, Latest(us, b, "place", i)
               PROVE  Latest(vs, b, "place", i - 1)
    OBVIOUS
  <2>1. i - 1 \in On(vs, b, "place")
    BY <1>1 DEF Latest, On
  <2>2. ASSUME NEW j \in On(vs, b, "place") PROVE j <= i - 1
    <3>1. j + 1 \in On(us, b, "place") /\ j \in Nat
      BY <1>1 DEF On
    <3> QED BY <1>1, <3>1 DEF Latest
  <2> QED BY <2>1, <2>2 DEF Latest
<1>4. Coming(us, b, v) => Coming(vs, b, v)
  BY <1>1, <1>3 DEF Coming
<1>5. NoneComing(us, b) => NoneComing(vs, b)
  BY <1>1 DEF NoneComing, On
<1>6. ASSUME Refused(us, b) PROVE Refused(vs, b) \/ On(vs, b, "place") = {}
  <2>1. PICK i \in DOMAIN us : Latest(us, b, "place", i) /\ us[i].stage = "failed"
    BY <1>6 DEF Refused
  <2>2. CASE i # 1
    BY <1>1, <1>3, <2>1, <2>2 DEF Refused
  <2>3. CASE i = 1
    <3>1. ASSUME NEW j \in On(vs, b, "place") PROVE FALSE
      <4>1. j + 1 \in On(us, b, "place") /\ j \in Nat /\ 1 <= j
        BY <1>1 DEF On
      <4> QED BY <2>1, <2>3, <4>1 DEF Latest
    <3> QED BY <3>1
  <2> QED BY <2>2, <2>3
<1> QED BY <1>2, <1>4, <1>5, <1>6 DEF vs

(* A save that goes on to a stage is still of its book, field and value.     *)
Going(us, vs, i) ==
  /\ i \in DOMAIN us /\ DOMAIN vs = DOMAIN us
  /\ \A j \in DOMAIN us \ {i} : vs[j] = us[j]
  /\ vs[i].book = us[i].book /\ vs[i].field = us[i].field /\ vs[i].value = us[i].value
  /\ vs[i].current = us[i].current

LEMMA GoingOn ==
  ASSUME NEW us \in Seq(Updates), NEW vs, NEW i, Going(us, vs, i), NEW b, NEW f
  PROVE  On(vs, b, f) = On(us, b, f) /\ \A j : Latest(vs, b, f, j) <=> Latest(us, b, f, j)
<1>1. On(vs, b, f) = On(us, b, f)
  BY DEF On, Going
<1> QED BY <1>1 DEF Latest
-------------------------------------------------------------------------------
(* What is always so. *)

(* Saves are read in the order they were made, and written in that order.    *)
InOrder(us) ==
  \A i, j \in DOMAIN us : i < j =>
    /\ us[j].stage = "read" => us[i].stage # "asked"
    /\ us[j].stage = "written" => ~Unwr(us[i])

(* What waits is the place of the book that is open.                         *)
WaitsShown ==
  waiting # None => Open(waiting.book) /\ waiting.place = reached[waiting.book]

(* A save of the present generation is one of the book that is open.         *)
CurrentShown == \A i \in DOMAIN updates : updates[i].current => Open(updates[i].book)

Overtaken(b) == "overtaken" \in behind[b]
Sure(b) == Open(b) /\ ~Overtaken(b)

(* And all that is to come of a book is, unless it was opened too early.     *)
FreshCurrent ==
  \A b \in Books : Sure(b) =>
    \A i \in DOMAIN updates : updates[i].book = b /\ Unwr(updates[i]) => updates[i].current

(* The row of a book has a place, or is about to have it: it is the last     *)
(* save to come, or none is to come and it was written, or the row has it    *)
(* and so has every copy that may be put back.                               *)
InHand(us, b, v) ==
  \/ Coming(us, b, v)
  \/ /\ NoneComing(us, b)
     /\ said[b].place = v \/ (row[b].place = v /\ Copies(us, b, "place", v))

(* A place may be lost, and the last save of it is why, or what came before. *)
Lost(us, b) ==
  \/ behind[b] \cap {"refused", "cut"} # {} /\ NoneComing(us, b)
  \/ "refused" \in behind[b] /\ Refused(us, b)

Kept ==
  \A b \in Books : ~Overtaken(b) =>
    \/ waiting = [book |-> b, place |-> reached[b]]
    \/ InHand(updates, b, reached[b])
    \/ Lost(updates, b)

(* The last save of a place was refused, and the keeper was told or will be. *)
Told(b, v) ==
  /\ "refused" \in behind[b]
  /\ \/ \E i \in DOMAIN updates : /\ Latest(updates, b, "place", i)
                                  /\ updates[i].stage = "failed" /\ updates[i].value = v
                                  /\ Heeded(updates[i])
     \/ kind = "images" /\ failing /\ On(updates, b, "place") = {}

(* What the keeper takes as stored is in hand, or refused.                   *)
Believed ==
  \A b \in Books : Sure(b) /\ stored # None => InHand(updates, b, stored) \/ Told(b, stored)

(* The settings of the book that were written and are not yet held.          *)
Due(us, b) == {i \in On(us, b, "choice") : us[i].current /\ us[i].stage = "written"}

(* The setting that is held, or is held when all are answered, is the one    *)
(* written last, or that of the row and of every copy that may be put back.  *)
HeldBy(us, b, held, last, inRow) ==
  \/ \E j \in Due(us, b) : (\A i \in Due(us, b) : i <= j) /\ us[j].value = last
  \/ /\ Due(us, b) = {}
     /\ held = last \/ (inRow = held /\ Copies(us, b, "choice", held))

Holding ==
  \A b \in Books : Sure(b) => HeldBy(updates, b, shown.choice, said[b].choice, row[b].choice)

Inductive ==
  /\ TypeOK /\ Fitting
  /\ InOrder(updates) /\ WaitsShown /\ CurrentShown /\ FreshCurrent
  /\ Kept /\ Believed /\ Holding
-------------------------------------------------------------------------------
(* The steps of the reader, as far as the saves are concerned: none, one     *)
(* more, all of them of an earlier generation (with one more), or no more.   *)

Joins(us, vs) ==
  vs = us \/ \E u \in Updates : u.stage = "asked" /\ vs = Append(us, u)

Ages(us, vs) == \E ws \in Seq(Updates) : Joins(us, ws) /\ vs = Past(ws)

LEMMA FlushJoins ==
  ASSUME TypeOK, Fitting, Room
  PROVE  Joins(updates, Flushed)
BY FlushIs, AnUpdate DEF Joins, Fields, Update

LEMMA PersistJoins ==
  ASSUME NEW b \in Books, NEW p \in Places, Persist(b, p)
  PROVE  /\ Joins(updates, updates') /\ stored' = p
         /\ Update(b, "place", p) \in Updates /\ updates' = Append(updates, Update(b, "place", p))
<1> "place" \in Fields /\ p \in Places \cup Choices
  BY DEF Fields
<1> QED BY AnUpdate DEF Joins, Persist

LEMMA ReaderSaves ==
  ASSUME TypeOK, Fitting, Reader \/ Settle
  PROVE  Joins(updates, updates') \/ Ages(updates, updates') \/ updates' = <<>>
<1>1. CASE Settle
  <2>1. waiting.book \in Books /\ waiting.place \in Places
    BY <1>1 DEF Settle, TypeOK
  <2> QED BY <1>1, <2>1, PersistJoins DEF Settle, Joins
<1>2. ASSUME updates' = Past(Flushed), Room PROVE Ages(updates, updates')
  BY <1>2, FlushJoins, FlushTyped DEF Ages
<1>3. ASSUME NEW b \in Books, NEW at \in Places, Opened(b, at) PROVE Joins(updates, updates')
  BY <1>3, PersistJoins DEF Opened, Joins
<1>4. ASSUME NEW p \in Places, Move(p) \/ Turn(p) PROVE Joins(updates, updates')
  BY <1>4, PersistJoins DEF Move, Turn, Joins, Fitting
<1>5. ASSUME NEW c \in Choices, Choose(c) PROVE Joins(updates, updates')
  <2>1. shown.book \in Books /\ updates' = Append(updates, Update(shown.book, "choice", c))
    BY <1>5 DEF Choose, Fitting
  <2>2. Update(shown.book, "choice", c) \in Updates
    BY <2>1, AnUpdate DEF Fields
  <2>3. Update(shown.book, "choice", c).stage = "asked"
    BY DEF Update
  <2> QED BY <2>1, <2>2, <2>3 DEF Joins
<1> QED BY <1>1, <1>2, <1>3, <1>4, <1>5
        DEF Reader, OpenBook, Leave, OpeningFails, TabCloses, Joins

(* The steps of storage, likewise. *)

LEMMA ReadsIs ==
  ASSUME TypeOK, NEW i, Reads(i)
  PROVE  /\ Going(updates, updates', i) /\ updates \in Seq(Updates)
         /\ updates[i].stage = "asked" /\ updates'[i].stage = "read"
         /\ updates'[i].copy = row[updates[i].book]
         /\ \A j \in DOMAIN updates : j < i => updates[j].stage # "asked"
<1>1. /\ i \in DOMAIN updates /\ row[updates[i].book] \in Rows /\ updates \in Seq(Updates)
      /\ updates' = CopyOf(updates, i, row[updates[i].book])
      /\ updates[i].stage = "asked" /\ \A j \in 1 .. i - 1 : updates[j].stage # "asked"
  BY UpdatesAre DEF Reads, Oldest, TypeOK, CopyOf
<1>2. \A j \in DOMAIN updates : j < i => updates[j].stage # "asked"
  BY <1>1
<1> QED BY <1>1, <1>2, Copied DEF Going

LEMMA StagedIs ==
  ASSUME TypeOK, NEW i \in DOMAIN updates, NEW stage \in {"written", "failed"},
         updates' = [updates EXCEPT ![i].stage = stage]
  PROVE  /\ Going(updates, updates', i) /\ updates \in Seq(Updates)
         /\ updates'[i].stage = stage /\ updates'[i].copy = updates[i].copy
<1>1. updates \in Seq(Updates) /\ stage \in Stages
  BY DEF TypeOK, Stages
<1> QED BY <1>1, Staged DEF Going

LEMMA WritesIs ==
  ASSUME TypeOK, NEW i, Writes(i)
  PROVE  /\ Going(updates, updates', i) /\ updates \in Seq(Updates)
         /\ updates[i].stage = "read" /\ updates'[i].stage = "written"
         /\ \A j \in DOMAIN updates : j < i => updates[j].stage # "read"
<1>1. /\ i \in DOMAIN updates /\ updates \in Seq(Updates)
      /\ updates' = [updates EXCEPT ![i].stage = "written"]
      /\ updates[i].stage = "read" /\ \A j \in 1 .. i - 1 : updates[j].stage # "read"
  BY DEF Writes, Oldest, TypeOK
<1>2. \A j \in DOMAIN updates : j < i => updates[j].stage # "read"
  BY <1>1
<1> QED BY <1>1, <1>2, StagedIs

LEMMA FailsIs ==
  ASSUME TypeOK, NEW i, Fails(i)
  PROVE  /\ Going(updates, updates', i) /\ updates \in Seq(Updates)
         /\ Unwr(updates[i]) /\ updates'[i].stage = "failed"
<1>1. /\ i \in DOMAIN updates /\ Unwr(updates[i])
      /\ updates' = [updates EXCEPT ![i].stage = "failed"]
  BY DEF Fails, Oldest, Unwr
<1> QED BY <1>1, StagedIs

Answers == PlaceSaved \/ PlaceRefused \/ ChoiceAnswered

LEMMA AnswersIs ==
  ASSUME TypeOK, Answers
  PROVE  /\ updates \in Seq(Updates) /\ updates # <<>> /\ updates' = Tail(updates)
         /\ Head(updates).stage \in {"written", "failed"} /\ ~Unwr(Head(updates))
         /\ UNCHANGED <<row, said, behind, waiting, reached, kind>>
         /\ shown' = shown \/ \E c \in Choices \cup Places : shown' = [shown EXCEPT !.choice = c]
<1>1. updates # <<>> /\ Head(updates) \in Updates
  BY Answering DEF Answers, Answered, TypeOK, PlaceSaved, PlaceRefused, ChoiceAnswered
<1>2. Head(updates).value \in Choices \cup Places
  BY <1>1 DEF Updates
<1> QED BY <1>1, <1>2
        DEF Answers, Answered, PlaceSaved, PlaceRefused, ChoiceAnswered, TypeOK, Unwr

Working(i) == Reads(i) \/ Writes(i) \/ Fails(i)

LEMMA StorageIs == Storage => Answers \/ \E i \in 1 .. MaxInFlight : Working(i)
BY DEF Storage, Answers, Working
-------------------------------------------------------------------------------
LEMMA InOrderKept ==
  ASSUME TypeOK, Fitting, InOrder(updates), Step
  PROVE  InOrder(updates')
<1>0. updates \in Seq(Updates)
  BY DEF TypeOK
<1>1. ASSUME NEW us \in Seq(Updates), NEW vs, InOrder(us), Joins(us, vs) PROVE InOrder(vs)
  <2>1. ASSUME NEW u \in Updates, u.stage = "asked", vs = Append(us, u) PROVE InOrder(vs)
    BY <1>1, <2>1, Appended DEF InOrder
  <2> QED BY <1>1, <2>1 DEF Joins
<1>2. ASSUME NEW us \in Seq(Updates), InOrder(us) PROVE InOrder(Past(us))
  <2> DEFINE vs == Past(us)
  <2>1. DOMAIN vs = DOMAIN us /\ \A i \in DOMAIN us : vs[i].stage = us[i].stage
    BY Aged DEF Alike
  <2> HIDE DEF vs
  <2>2. InOrder(vs)
    BY <1>2, <2>1 DEF InOrder, Unwr
  <2> QED BY <2>2 DEF vs
<1>3. CASE Reader \/ Settle
  <2>1. CASE Joins(updates, updates')
    BY <1>0, <1>1, <2>1
  <2>2. CASE Ages(updates, updates')
    BY <1>0, <1>1, <1>2, <2>2 DEF Ages
  <2>3. CASE updates' = <<>>
    BY <2>3 DEF InOrder
  <2> QED BY <1>3, <2>1, <2>2, <2>3, ReaderSaves
<1>4. ASSUME Answers PROVE InOrder(updates')
  <2>1. updates \in Seq(Updates) /\ updates # <<>> /\ updates' = Tail(updates)
    BY <1>4, AnswersIs
  <2>2. \A i \in DOMAIN updates' : i + 1 \in DOMAIN updates /\ updates'[i] = updates[i + 1]
                                   /\ i \in Nat
    BY <2>1, Answering
  <2> QED BY <2>2 DEF InOrder
<1>5. ASSUME NEW i, Reads(i) PROVE InOrder(updates')
  BY <1>5, ReadsIs DEF InOrder, Going, Unwr
<1>6. ASSUME NEW i, Writes(i) PROVE InOrder(updates')
  BY <1>6, WritesIs DEF InOrder, Going, Unwr
<1>7. ASSUME NEW i, Fails(i) PROVE InOrder(updates')
  BY <1>7, FailsIs DEF InOrder, Going, Unwr
<1> QED BY <1>3, <1>4, <1>5, <1>6, <1>7, StorageIs DEF Step, Working
-------------------------------------------------------------------------------
(* What waits, and the generations. *)

LEMMA OpenStays ==
  ASSUME TypeOK, Storage
  PROVE  /\ UNCHANGED <<waiting, reached, kind>>
         /\ shown'.state = shown.state /\ shown'.book = shown.book
         /\ \A b : Open(b)' <=> Open(b)
<1>1. UNCHANGED <<waiting, reached, kind>>
  BY StorageIs, AnswersIs DEF Working, Reads, Writes, Fails
<1>2. shown'.state = shown.state /\ shown'.book = shown.book
  <2>1. CASE Answers
    BY <2>1, AnswersIs DEF TypeOK
  <2>2. ASSUME NEW i, Working(i) PROVE shown' = shown
    BY <2>2 DEF Working, Reads, Writes, Fails
  <2> QED BY <2>1, <2>2, StorageIs
<1> QED BY <1>1, <1>2 DEF Open

LEMMA WaitsShownKept ==
  ASSUME TypeOK, Fitting, WaitsShown, Step
  PROVE  WaitsShown'
<1>1. CASE Storage
  BY <1>1, OpenStays DEF WaitsShown
<1>2. ASSUME NEW p \in Places, Move(p) \/ Turn(p) PROVE WaitsShown'
  <2>1. /\ shown.book \in Books /\ shown.state = "open" /\ shown' = [shown EXCEPT !.at = p]
        /\ waiting' = [book |-> shown.book, place |-> p]
        /\ reached' = [reached EXCEPT ![shown.book] = p]
    BY <1>2 DEF Move, Turn, Reach, Fitting
  <2>2. shown'.state = "open" /\ shown'.book = shown.book
    BY <2>1 DEF TypeOK
  <2>3. waiting'.book = shown.book /\ waiting'.place = p /\ reached'[shown.book] = p
    BY <2>1 DEF TypeOK
  <2> QED BY <2>2, <2>3 DEF WaitsShown, Open
<1>3. ASSUME waiting' = None PROVE WaitsShown'
  BY <1>3 DEF WaitsShown
<1>4. CASE Settle \/ Leave \/ TabCloses \/ OpeningFails \/ \E b \in Books :
             OpenBook(b) \/ \E at \in Places : Opened(b, at)
  BY <1>3, <1>4 DEF Settle, Leave, TabCloses, OpeningFails, OpenBook, Opened, WaitsShown, Open
<1>5. ASSUME NEW c \in Choices, Choose(c) PROVE WaitsShown'
  BY <1>5 DEF Choose, WaitsShown, Open
<1> QED BY <1>1, <1>2, <1>4, <1>5 DEF Step, Reader

(* A step of the reader makes a save of the book that it shows, or none.     *)
LEMMA ReaderGenerations ==
  ASSUME TypeOK, Fitting, WaitsShown, CurrentShown, Reader \/ Settle
  PROVE  \/ Ages(updates, updates') \/ updates' = <<>>
         \/ updates' = updates /\ \A i \in DOMAIN updates : ~updates[i].current
         \/ updates' = updates /\ shown'.state = shown.state /\ shown'.book = shown.book
         \/ \E u \in Updates :
              /\ updates' = Append(updates, u) /\ u.stage = "asked" /\ u.current
              /\ shown'.state = "open" /\ shown'.book = u.book
              /\ (\A i \in DOMAIN updates : ~updates[i].current)
                 \/ (shown.state = "open" /\ shown.book = u.book)
<1>1. ASSUME NEW b \in Books, NEW f \in Fields, NEW v \in Places \cup Choices,
             updates' = Append(updates, Update(b, f, v)),
             shown'.state = "open", shown'.book = b,
             (\A i \in DOMAIN updates : ~updates[i].current)
               \/ (shown.state = "open" /\ shown.book = b)
      PROVE  \E u \in Updates :
               /\ updates' = Append(updates, u) /\ u.stage = "asked" /\ u.current
               /\ shown'.state = "open" /\ shown'.book = u.book
               /\ (\A i \in DOMAIN updates : ~updates[i].current)
                  \/ (shown.state = "open" /\ shown.book = u.book)
  <2> DEFINE u == Update(b, f, v)
  <2>1. u \in Updates
    BY AnUpdate
  <2>2. u.book = b /\ u.stage = "asked" /\ u.current
    BY DEF Update
  <2>3. updates' = Append(updates, u)
    BY <1>1
  <2> HIDE DEF u
  <2> QED BY <1>1, <2>1, <2>2, <2>3
<1>P. "place" \in Fields /\ "choice" \in Fields
  BY DEF Fields
<1>2. CASE Settle
  <2>1. /\ waiting.book \in Books /\ waiting.place \in Places /\ UNCHANGED shown
        /\ shown.state = "open" /\ shown.book = waiting.book
    BY <1>2 DEF Settle, TypeOK, WaitsShown, Open
  <2> QED BY <1>1, <1>2, <1>P, <2>1 DEF Settle, Persist
<1>3. ASSUME NEW b \in Books, NEW at \in Places, Opened(b, at)
      PROVE  \/ updates' = updates
             \/ updates' = Append(updates, Update(b, "place", at))
  BY <1>3 DEF Opened, Persist
<1>4. ASSUME NEW b \in Books, NEW at \in Places, Opened(b, at)
      PROVE  /\ \A i \in DOMAIN updates : ~updates[i].current
             /\ shown'.state = "open" /\ shown'.book = b
  BY <1>4 DEF Opened, CurrentShown, Open
<1>5. CASE OpeningFails
  BY <1>5 DEF OpeningFails, CurrentShown, Open
<1>6. ASSUME NEW p \in Places, Move(p)
      PROVE  updates' = updates /\ shown'.state = shown.state /\ shown'.book = shown.book
  BY <1>6 DEF Move, TypeOK
<1>7. ASSUME NEW p \in Places, Turn(p)
      PROVE  /\ updates' = Append(updates, Update(shown.book, "place", p))
             /\ shown.state = "open" /\ shown.book \in Books
             /\ shown'.state = shown.state /\ shown'.book = shown.book
  BY <1>7 DEF Turn, Persist, TypeOK, Fitting
<1>8. ASSUME NEW c \in Choices, Choose(c)
      PROVE  /\ updates' = Append(updates, Update(shown.book, "choice", c))
             /\ shown.state = "open" /\ shown.book \in Books
             /\ shown'.state = shown.state /\ shown'.book = shown.book
  BY <1>8 DEF Choose, Fitting
<1>9. ASSUME updates' = Past(Flushed), Room PROVE Ages(updates, updates')
  BY <1>9, FlushJoins, FlushTyped DEF Ages
<1>10. CASE Leave \/ TabCloses \/ \E b \in Books : OpenBook(b)
  BY <1>9, <1>10 DEF Leave, TabCloses, OpenBook
<1>11. CASE \E b \in Books, at \in Places : Opened(b, at)
  BY <1>1, <1>3, <1>4, <1>11, <1>P
<1>12. CASE \E p \in Places : Turn(p)
  BY <1>1, <1>7, <1>12, <1>P
<1>13. CASE \E c \in Choices : Choose(c)
  BY <1>1, <1>8, <1>13, <1>P
<1> QED BY <1>2, <1>5, <1>6, <1>10, <1>11, <1>12, <1>13 DEF Reader

LEMMA CurrentShownKept ==
  ASSUME TypeOK, Fitting, WaitsShown, CurrentShown, Step
  PROVE  CurrentShown'
<1>0. updates \in Seq(Updates)
  BY DEF TypeOK
<1>1. CASE Reader \/ Settle
  <2>1. CASE Ages(updates, updates')
    BY <2>1, Aged DEF Ages, CurrentShown
  <2>2. CASE updates' = <<>>
    BY <2>2 DEF CurrentShown
  <2>3. CASE updates' = updates /\ \A i \in DOMAIN updates : ~updates[i].current
    BY <2>3 DEF CurrentShown
  <2>4. CASE updates' = updates /\ shown'.state = shown.state /\ shown'.book = shown.book
    BY <2>4 DEF CurrentShown, Open
  <2>5. ASSUME NEW u \in Updates, updates' = Append(updates, u),
               shown'.state = "open", shown'.book = u.book,
               (\A i \in DOMAIN updates : ~updates[i].current)
                 \/ (shown.state = "open" /\ shown.book = u.book)
        PROVE  CurrentShown'
    BY <1>0, <2>5, Appended DEF CurrentShown, Open
  <2> QED BY <1>1, <2>1, <2>2, <2>3, <2>4, <2>5, ReaderGenerations
<1>2. CASE Storage
  <2>1. CASE Answers
    <3>1. \A i \in DOMAIN updates' : i + 1 \in DOMAIN updates /\ updates'[i] = updates[i + 1]
      BY <2>1, AnswersIs, Answering
    <3> QED BY <1>2, <3>1, OpenStays DEF CurrentShown
  <2>2. ASSUME NEW i, Working(i) PROVE CurrentShown'
    <3>1. Going(updates, updates', i)
      BY <2>2, ReadsIs, WritesIs, FailsIs DEF Working
    <3> QED BY <1>2, <3>1, OpenStays DEF CurrentShown, Going
  <2> QED BY <1>2, <2>1, <2>2, StorageIs
<1> QED BY <1>1, <1>2 DEF Step
(* What an opening finds of the book. *)
LEMMA OpenedFinds ==
  ASSUME TypeOK, Fitting, WaitsShown, CurrentShown,
         NEW b \in Books, NEW at \in Places, Opened(b, at)
  PROVE  /\ shown.state = "opening" /\ waiting = None
         /\ shown'.state = "open" /\ shown'.book = b /\ shown'.choice = row[b].choice
         /\ stored' = at /\ UNCHANGED <<row, said, kind, failing, waiting>>
         /\ \A c \in Books \ {b} : behind'[c] = behind[c] /\ reached'[c] = reached[c]
         /\ \A i \in DOMAIN updates : ~updates[i].current
         /\ ~Overtaken(b)' => /\ \A i \in DOMAIN updates : updates[i].book = b => ~Unwr(updates[i])
                              /\ reached'[b] = at
         /\ \/ updates' = updates /\ at = row[b].place
            \/ /\ Update(b, "place", at) \in Updates
               /\ updates' = Append(updates, Update(b, "place", at))
<1>1. /\ shown.state = "opening" /\ waiting = None
      /\ shown'.state = "open" /\ shown'.book = b /\ shown'.choice = row[b].choice
      /\ UNCHANGED <<row, said, kind, failing, waiting>>
      /\ \A i \in DOMAIN updates : ~updates[i].current
  BY DEF Opened, CurrentShown, WaitsShown, Open
<1>2. /\ stored' = at
      /\ \/ updates' = updates /\ at = row[b].place
         \/ /\ Update(b, "place", at) \in Updates
            /\ updates' = Append(updates, Update(b, "place", at))
  BY PersistJoins DEF Opened
<1>3. \A c \in Books \ {b} : behind'[c] = behind[c] /\ reached'[c] = reached[c]
  BY DEF Opened, Reach, TypeOK
<1>4. ASSUME ~Overtaken(b)' PROVE Settled(b)
  BY <1>4 DEF Opened, Overtaken, TypeOK
<1>5. ASSUME Settled(b), NEW i \in DOMAIN updates, updates[i].book = b PROVE ~Unwr(updates[i])
  <2>1. updates[i].field \in {"place", "choice"}
    BY UpdatesAre DEF TypeOK, Fields
  <2> QED BY <1>5, <2>1 DEF Settled, Unwritten, Unwr
<1>6. Settled(b) => reached'[b] = at
  BY DEF Opened, Reach, TypeOK
<1> QED BY <1>1, <1>2, <1>3, <1>4, <1>5, <1>6

(* The steps after which a book that is open is not in doubt: it was not      *)
(* before, or it is opened.                                                  *)
Goes(b) ==
  \/ Settle
  \/ \E p \in Places : Move(p) \/ Turn(p)
  \/ \E c \in Choices : Choose(c)

LEMMA SureSteps ==
  ASSUME TypeOK, Fitting, Step, NEW b \in Books, Sure(b)'
  PROVE  (\E at \in Places : Opened(b, at)) \/ (Sure(b) /\ (Storage \/ Goes(b)))
<1>1. CASE Storage
  <2>1. Overtaken(b)' <=> Overtaken(b)
    <3>1. CASE Answers
      BY <3>1, AnswersIs DEF Overtaken
    <3>2. ASSUME NEW i, Reads(i) PROVE Overtaken(b)' <=> Overtaken(b)
      BY <3>2 DEF Reads, Overtaken
    <3>3. ASSUME NEW i, Writes(i) PROVE Overtaken(b)' <=> Overtaken(b)
      BY <3>3 DEF Writes, Overtaken, TypeOK
    <3>4. ASSUME NEW i, Fails(i) PROVE Overtaken(b)' <=> Overtaken(b)
      BY <3>4 DEF Fails, Overtaken, TypeOK
    <3> QED BY <1>1, <3>1, <3>2, <3>3, <3>4, StorageIs DEF Working
  <2> QED BY <1>1, <2>1, OpenStays DEF Sure
<1>2. CASE Settle \/ \E c \in Choices : Choose(c)
  BY <1>2 DEF Settle, Choose, Goes, Sure, Open, Overtaken
<1>3. ASSUME NEW p \in Places, Move(p) \/ Turn(p) PROVE Sure(b) /\ Goes(b)
  <2>1. shown'.state = shown.state /\ shown'.book = shown.book /\ UNCHANGED behind
    BY <1>3 DEF Move, Turn, TypeOK
  <2> QED BY <1>3, <2>1 DEF Goes, Sure, Open, Overtaken
<1>4. CASE OpeningFails \/ Leave \/ TabCloses
  BY <1>4 DEF OpeningFails, Leave, TabCloses, Sure, Open, Closed
<1>5. ASSUME NEW c \in Books, OpenBook(c) PROVE FALSE
  <2>1. shown'.state = "opening"
    BY <1>5 DEF OpenBook, Closed
  <2> QED BY <2>1 DEF Sure, Open
<1>6. ASSUME NEW c \in Books, NEW at \in Places, Opened(c, at) PROVE c = b
  BY <1>6 DEF Opened, Sure, Open
<1> QED BY <1>1, <1>2, <1>3, <1>4, <1>5, <1>6 DEF Step, Reader

LEMMA GoesJoins ==
  ASSUME TypeOK, Fitting, CurrentShown, WaitsShown, NEW b, Goes(b)
  PROVE  \/ updates' = updates
         \/ \E u \in Updates : u.stage = "asked" /\ u.current /\ updates' = Append(updates, u)
<1>P. "place" \in Fields /\ "choice" \in Fields
  BY DEF Fields
<1>1. ASSUME NEW c \in Books, NEW f \in Fields, NEW v \in Places \cup Choices,
             updates' = Append(updates, Update(c, f, v))
      PROVE  \E u \in Updates : u.stage = "asked" /\ u.current /\ updates' = Append(updates, u)
  BY <1>1, AnUpdate
<1>2. CASE Settle
  <2>1. waiting.book \in Books /\ waiting.place \in Places
    BY <1>2 DEF Settle, TypeOK
  <2> QED BY <1>1, <1>2, <1>P, <2>1 DEF Settle, Persist
<1>3. ASSUME NEW p \in Places, Turn(p)
      PROVE  updates' = Append(updates, Update(shown.book, "place", p)) /\ shown.book \in Books
  BY <1>3 DEF Turn, Persist, Fitting
<1>4. ASSUME NEW c \in Choices, Choose(c)
      PROVE  updates' = Append(updates, Update(shown.book, "choice", c)) /\ shown.book \in Books
  BY <1>4 DEF Choose, Fitting
<1>5. ASSUME NEW p \in Places, Move(p) PROVE updates' = updates
  BY <1>5 DEF Move
<1> QED BY <1>1, <1>2, <1>3, <1>4, <1>5, <1>P DEF Goes

LEMMA FreshCurrentKept ==
  ASSUME TypeOK, Fitting, WaitsShown, CurrentShown, FreshCurrent, Step
  PROVE  FreshCurrent'
<1>0. updates \in Seq(Updates)
  BY DEF TypeOK
<1> SUFFICES ASSUME NEW b \in Books, Sure(b)',
                    NEW i \in DOMAIN updates', updates'[i].book = b, Unwr(updates'[i])
             PROVE  updates'[i].current
  BY DEF FreshCurrent, Unwr
<1>1. ASSUME NEW at \in Places, Opened(b, at) PROVE updates'[i].current
  <2>1. \A j \in DOMAIN updates : updates[j].book = b => ~Unwr(updates[j])
    BY <1>1, OpenedFinds DEF Sure
  <2>2. CASE updates' = updates
    BY <2>1, <2>2
  <2>3. CASE updates' # updates
    <3> DEFINE u == Update(b, "place", at)
    <3>1. u \in Updates /\ updates' = Append(updates, u)
      BY <1>1, <2>3, OpenedFinds
    <3>2. u.current
      BY DEF Update
    <3> HIDE DEF u
    <3> QED BY <1>0, <2>1, <3>1, <3>2, Appended
  <2> QED BY <2>2, <2>3
<1>2. CASE Sure(b) /\ Goes(b)
  <2>1. \A j \in DOMAIN updates : updates[j].book = b /\ Unwr(updates[j]) => updates[j].current
    BY <1>2 DEF FreshCurrent
  <2>2. CASE updates' = updates
    BY <2>1, <2>2
  <2>3. ASSUME NEW u \in Updates, u.current, updates' = Append(updates, u)
        PROVE  updates'[i].current
    BY <1>0, <2>1, <2>3, Appended
  <2> QED BY <1>2, <2>2, <2>3, GoesJoins
<1>3. CASE Sure(b) /\ Storage
  <2>1. \A j \in DOMAIN updates : updates[j].book = b /\ Unwr(updates[j]) => updates[j].current
    BY <1>3 DEF FreshCurrent
  <2>2. CASE Answers
    <3>1. i + 1 \in DOMAIN updates /\ updates'[i] = updates[i + 1]
      BY <2>2, AnswersIs, Answering
    <3> QED BY <2>1, <3>1
  <2>3. ASSUME NEW k, Working(k) PROVE updates'[i].current
    <3>1. Going(updates, updates', k) /\ Unwr(updates[k])
      BY <2>3, ReadsIs, WritesIs, FailsIs DEF Working, Unwr
    <3> QED BY <2>1, <3>1 DEF Going
  <2> QED BY <1>3, <2>2, <2>3, StorageIs
<1> QED BY <1>1, <1>2, <1>3, SureSteps
-------------------------------------------------------------------------------
(* The last place reached. *)

(* All that was to come of a place, had come or was refused, still is.       *)
Still(us, vs, b) ==
  /\ \A v : Coming(us, b, v) => Coming(vs, b, v)
  /\ \A v : Copies(us, b, "place", v) => Copies(vs, b, "place", v)
  /\ NoneComing(us, b) => NoneComing(vs, b)
  /\ Refused(us, b) => Refused(vs, b)

LEMMA StillAsked ==
  ASSUME NEW us \in Seq(Updates), NEW u \in Updates, u.stage = "asked",
         NEW b, ~(u.book = b /\ u.field = "place")
  PROVE  Still(us, Append(us, u), b)
BY AskedNext DEF Still

LEMMA StillAged ==
  ASSUME NEW us \in Seq(Updates), NEW b
  PROVE  Still(us, Past(us), b)
BY AgedStill DEF Still

LEMMA HandStill ==
  ASSUME NEW us, NEW vs, NEW b, Still(us, vs, b)
  PROVE  (\A v : InHand(us, b, v) => InHand(vs, b, v)) /\ (Lost(us, b) => Lost(vs, b))
BY DEF Still, InHand, Lost

LEMMA ToldLost ==
  ASSUME NEW b, NEW v, Told(b, v)
  PROVE  Lost(updates, b)
<1>1. On(updates, b, "place") = {} => NoneComing(updates, b)
  BY DEF NoneComing
<1> QED BY <1>1 DEF Told, Lost, Refused

(* What waits, field by field. *)
LEMMA WaitsIs ==
  ASSUME TypeOK, NEW b \in Books, waiting = [book |-> b, place |-> reached[b]]
  PROVE  waiting # None /\ waiting.book = b /\ waiting.place = reached[b]
<1>1. reached[b] \in Places
  BY DEF TypeOK
<1>2. waiting \in [book : Books, place : Places]
  BY <1>1
<1> QED BY <1>2, PlacesAssumption

(* What waits is in hand when it is flushed, or was. *)
LEMMA FlushKeeps ==
  ASSUME TypeOK, Fitting, Room, WaitsShown, Kept, Believed, NEW b \in Books, ~Overtaken(b)
  PROVE  InHand(Flushed, b, reached[b]) \/ Lost(Flushed, b)
<1>0. updates \in Seq(Updates)
  BY DEF TypeOK
<1>1. CASE ~Owed
  <2>1. Flushed = updates
    BY <1>1 DEF Flushed
  <2>2. CASE waiting = [book |-> b, place |-> reached[b]]
    <3>1. Open(b) /\ stored = reached[b] /\ stored # None
      <4>1. waiting # None /\ waiting.book = b /\ waiting.place = reached[b]
        BY <2>2, WaitsIs
      <4>2. reached[b] # None
        BY PlacesAssumption DEF TypeOK
      <4> QED BY <1>1, <4>1, <4>2 DEF Owed, WaitsShown
    <3> QED BY <2>1, <3>1, ToldLost DEF Believed, Sure
  <2> QED BY <2>1, <2>2 DEF Kept
<1>2. CASE Owed
  <2> DEFINE u == Update(waiting.book, "place", waiting.place)
  <2>1. u \in Updates /\ Flushed = Append(updates, u) /\ waiting # None
    BY <1>2, FlushIs
  <2>2. u.stage = "asked" /\ u.book = waiting.book /\ u.field = "place" /\ u.value = waiting.place
    BY DEF Update
  <2>3. waiting.place = reached[waiting.book]
    BY <2>1 DEF WaitsShown
  <2> HIDE DEF u
  <2>4. CASE waiting.book = b
    BY <1>0, <2>1, <2>2, <2>3, <2>4, AskedNext DEF InHand
  <2>5. CASE waiting.book # b
    <3>1. InHand(updates, b, reached[b]) \/ Lost(updates, b)
      <4>1. waiting = [book |-> b, place |-> reached[b]] => waiting.book = b
        OBVIOUS
      <4> QED BY <2>5, <4>1 DEF Kept
    <3>2. Still(updates, Flushed, b)
      BY <1>0, <2>1, <2>2, <2>5, StillAsked
    <3> QED BY <3>1, <3>2, HandStill
  <2> QED BY <2>4, <2>5
<1> QED BY <1>1, <1>2

LEMMA KeptByReader ==
  ASSUME TypeOK, Fitting, WaitsShown, CurrentShown, Kept, Believed, Reader \/ Settle,
         NEW b \in Books, ~Overtaken(b)'
  PROVE  \/ waiting' = [book |-> b, place |-> reached'[b]]
         \/ InHand(updates, b, reached[b])'
         \/ Lost(updates, b)'
<1>0. updates \in Seq(Updates)
  BY DEF TypeOK
<1>1. ASSUME UNCHANGED <<row, said, behind, reached>>, Still(updates, updates', b),
             UNCHANGED waiting \/ waiting # [book |-> b, place |-> reached[b]]
      PROVE  \/ waiting' = [book |-> b, place |-> reached'[b]]
             \/ InHand(updates, b, reached[b])' \/ Lost(updates, b)'
  <2>1. ~Overtaken(b)
    BY <1>1 DEF Overtaken
  <2>2. CASE waiting = [book |-> b, place |-> reached[b]]
    BY <1>1, <2>2
  <2>3. CASE InHand(updates, b, reached[b]) \/ Lost(updates, b)
    <3>1. InHand(updates', b, reached[b]) \/ Lost(updates', b)
      BY <1>1, <2>3, HandStill
    <3> QED BY <1>1, <3>1 DEF InHand, Lost
  <2> QED BY <2>1, <2>2, <2>3 DEF Kept
<1>2. ASSUME Room, UNCHANGED <<row, said, behind, reached>>,
             updates' = Flushed \/ updates' = Past(Flushed)
      PROVE  InHand(updates, b, reached[b])' \/ Lost(updates, b)'
  <2>1. InHand(Flushed, b, reached[b]) \/ Lost(Flushed, b)
    BY <1>2, FlushKeeps DEF Overtaken
  <2>2. Still(Flushed, Past(Flushed), b)
    BY <1>2, FlushTyped, StillAged
  <2>3. InHand(updates', b, reached[b]) \/ Lost(updates', b)
    BY <1>2, <2>1, <2>2, HandStill
  <2> QED BY <1>2, <2>3 DEF InHand, Lost
<1>3. CASE Settle
  <2>1. updates' = Flushed /\ Room /\ UNCHANGED <<row, said, behind, reached>>
    BY <1>3 DEF Settle, Flushed, Persist
  <2> QED BY <1>2, <2>1
<1>4. CASE Leave \/ \E c \in Books : OpenBook(c)
  BY <1>2, <1>4 DEF Leave, OpenBook
<1>5. CASE OpeningFails
  <2>1. Still(updates, updates', b)
    BY <1>5 DEF OpeningFails, Still
  <2> QED BY <1>1, <1>5, <2>1 DEF OpeningFails
<1>6. ASSUME NEW c \in Choices, Choose(c)
      PROVE  \/ waiting' = [book |-> b, place |-> reached'[b]]
             \/ InHand(updates, b, reached[b])' \/ Lost(updates, b)'
  <2> DEFINE u == Update(shown.book, "choice", c)
  <2>1. updates' = Append(updates, u) /\ u \in Updates
    BY <1>6, AnUpdate DEF Choose, Fields, Fitting
  <2>2. u.stage = "asked" /\ u.field = "choice"
    BY DEF Update
  <2> HIDE DEF u
  <2>3. Still(updates, updates', b)
    BY <1>0, <2>1, <2>2, StillAsked
  <2> QED BY <1>1, <1>6, <2>3 DEF Choose
<1>7. ASSUME NEW p \in Places, Move(p) \/ Turn(p)
      PROVE  \/ waiting' = [book |-> b, place |-> reached'[b]]
             \/ InHand(updates, b, reached[b])' \/ Lost(updates, b)'
  <2>1. /\ shown.book \in Books /\ waiting' = [book |-> shown.book, place |-> p]
        /\ reached' = [reached EXCEPT ![shown.book] = p] /\ UNCHANGED <<row, said, behind>>
    BY <1>7 DEF Move, Turn, Reach, Fitting
  <2>2. CASE b = shown.book
    BY <2>1, <2>2 DEF TypeOK
  <2>3. CASE b # shown.book
    <3>1. reached'[b] = reached[b] /\ ~Overtaken(b)
      BY <2>1, <2>3 DEF TypeOK, Overtaken
    <3>2. waiting # [book |-> b, place |-> reached[b]]
      <4>1. ASSUME waiting = [book |-> b, place |-> reached[b]] PROVE FALSE
        <5>1. waiting.book = b /\ waiting # None
          BY <4>1, WaitsIs
        <5> QED BY <2>3, <5>1 DEF WaitsShown, Open
      <4> QED BY <4>1
    <3>3. Still(updates, updates', b)
      <4>1. CASE Move(p)
        BY <4>1 DEF Move, Still
      <4>2. CASE Turn(p)
        <5> DEFINE u == Update(shown.book, "place", p)
        <5>1. updates' = Append(updates, u) /\ u \in Updates
          BY <2>1, <4>2, PersistJoins DEF Turn
        <5>2. u.stage = "asked" /\ u.book = shown.book
          BY DEF Update
        <5> HIDE DEF u
        <5> QED BY <1>0, <2>3, <5>1, <5>2, StillAsked
      <4> QED BY <1>7, <4>1, <4>2
    <3>4. InHand(updates', b, reached[b]) \/ Lost(updates', b)
      BY <3>1, <3>2, <3>3, HandStill DEF Kept
    <3> QED BY <2>1, <3>1, <3>4 DEF InHand, Lost
  <2> QED BY <2>2, <2>3
<1>8. ASSUME NEW c \in Books, NEW at \in Places, Opened(c, at)
      PROVE  \/ waiting' = [book |-> b, place |-> reached'[b]]
             \/ InHand(updates, b, reached[b])' \/ Lost(updates, b)'
  <2> DEFINE u == Update(c, "place", at)
  <2>0. u.stage = "asked" /\ u.book = c /\ u.field = "place" /\ u.value = at
    BY DEF Update
  <2>1. waiting = None /\ UNCHANGED <<row, said, waiting>>
    BY <1>8, OpenedFinds
  <2>2. \/ updates' = updates /\ at = row[c].place
        \/ u \in Updates /\ updates' = Append(updates, u)
    BY <1>8, OpenedFinds
  <2>3. CASE b # c
    <3>1. behind'[b] = behind[b] /\ reached'[b] = reached[b]
      BY <1>8, <2>3, OpenedFinds
    <3>2. waiting # [book |-> b, place |-> reached[b]]
      BY <2>1, WaitsIs
    <3>3. Still(updates, updates', b)
      <4> HIDE DEF u
      <4>1. CASE updates' = updates
        BY <4>1 DEF Still
      <4>2. CASE u \in Updates /\ updates' = Append(updates, u)
        BY <1>0, <2>0, <2>3, <4>2, StillAsked
      <4> QED BY <2>2, <4>1, <4>2
    <3>4. InHand(updates', b, reached[b]) \/ Lost(updates', b)
      BY <3>1, <3>2, <3>3, HandStill DEF Kept, Overtaken
    <3> QED BY <2>1, <3>1, <3>4 DEF InHand, Lost
  <2>4. CASE b = c
    <3>1. reached'[b] = at /\ \A i \in DOMAIN updates : updates[i].book = b => ~Unwr(updates[i])
      BY <1>8, <2>4, OpenedFinds
    <3>2. CASE updates' = updates /\ at = row[b].place
      <4>1. NoneComing(updates, b) /\ Copies(updates, b, "place", at)
        BY <3>1 DEF NoneComing, Copies, On, Unwr
      <4>2. NoneComing(updates', b) /\ Copies(updates', b, "place", at) /\ row'[b].place = at
        BY <2>1, <3>2, <4>1
      <4> QED BY <3>1, <4>2 DEF InHand
    <3>3. CASE u \in Updates /\ updates' = Append(updates, u)
      <4> HIDE DEF u
      <4>1. Coming(updates', b, at)
        BY <1>0, <2>0, <2>4, <3>3, AskedNext
      <4> QED BY <3>1, <4>1 DEF InHand
    <3> QED BY <2>2, <2>4, <3>2, <3>3
  <2> QED BY <2>3, <2>4
<1>9. CASE TabCloses
  <2>0. /\ updates' = <<>> /\ UNCHANGED <<row, said, reached>>
        /\ behind'[b] = IF Unwritten(b, "place") # {} \/ (waiting # None /\ waiting.book = b)
                          THEN behind[b] \cup {"cut"} ELSE behind[b]
    BY <1>9 DEF TabCloses
  <2>1. NoneComing(updates', b) /\ \A v : Copies(updates', b, "place", v)
    BY <2>0 DEF NoneComing, Copies, On
  <2>2. CASE Unwritten(b, "place") # {} \/ (waiting # None /\ waiting.book = b)
    BY <2>0, <2>1, <2>2 DEF Lost
  <2>3. CASE ~(Unwritten(b, "place") # {} \/ (waiting # None /\ waiting.book = b))
    <3>1. ~Overtaken(b) /\ waiting # [book |-> b, place |-> reached[b]]
      <4>1. waiting = [book |-> b, place |-> reached[b]] => waiting # None /\ waiting.book = b
        BY WaitsIs
      <4> QED BY <2>0, <2>3, <4>1 DEF Overtaken
    <3>2. ASSUME NEW v, Coming(updates, b, v) PROVE FALSE
      BY <2>3, <3>2 DEF Coming, Latest, On, Unwr, Unwritten
    <3>3. CASE InHand(updates, b, reached[b])
      BY <2>0, <2>1, <3>2, <3>3 DEF InHand
    <3>4. CASE Lost(updates, b)
      BY <2>0, <2>1, <2>3, <3>4 DEF Lost
    <3> QED BY <3>1, <3>3, <3>4 DEF Kept
  <2> QED BY <2>2, <2>3
<1> QED BY <1>3, <1>4, <1>5, <1>6, <1>7, <1>8, <1>9 DEF Reader

(* What is in hand stays so while storage works, unless its last save fails. *)
FailsLast(b, v) ==
  \E i \in DOMAIN updates :
    /\ Fails(i) /\ Latest(updates, b, "place", i)
    /\ Unwr(updates[i]) /\ updates[i].value = v

LEMMA WorkingIs ==
  ASSUME TypeOK, NEW k, Working(k)
  PROVE  Step /\ k \in DOMAIN updates
<1>1. k \in DOMAIN updates /\ updates \in Seq(Updates) /\ Len(updates) <= MaxInFlight
  BY ReadsIs, WritesIs, FailsIs DEF Working, Going, TypeOK
<1>2. k \in 1 .. MaxInFlight
  BY <1>1, PlacesAssumption
<1> QED BY <1>1, <1>2 DEF Step, Storage, Working

LEMMA ComingWorked ==
  ASSUME TypeOK, Fitting, InOrder(updates), NEW b \in Books, NEW v,
         Coming(updates, b, v), NEW k, Working(k)
  PROVE  InHand(updates, b, v)' \/ FailsLast(b, v)
<1>0. Going(updates, updates', k) /\ updates \in Seq(Updates)
      /\ Unwr(updates[k]) /\ k \in DOMAIN updates
  BY ReadsIs, WritesIs, FailsIs DEF Working, Unwr, Going
<1>1. PICK i \in DOMAIN updates : /\ Latest(updates, b, "place", i) /\ Unwr(updates[i])
                                  /\ updates[i].value = v
  BY DEF Coming
<1>2. Latest(updates', b, "place", i) /\ i \in DOMAIN updates' /\ updates'[i].value = v
  BY <1>0, <1>1, GoingOn DEF Going
<1>3. CASE k # i \/ Reads(k)
  <2>1. Unwr(updates'[i])
    BY <1>0, <1>1, <1>3, ReadsIs DEF Going, Unwr
  <2> QED BY <1>2, <2>1 DEF InHand, Coming
<1>4. CASE k = i /\ Writes(k)
  <2>1. InOrder(updates') /\ updates'[i].stage = "written"
    BY <1>4, WorkingIs, InOrderKept, WritesIs
  <2>2. NoneComing(updates', b)
    <3> SUFFICES ASSUME NEW j \in On(updates', b, "place") PROVE ~Unwr(updates'[j])
      BY DEF NoneComing
    <3>1. j <= i /\ j \in DOMAIN updates' /\ j \in Nat /\ i \in Nat
      BY <1>0, <1>2 DEF Latest, On, Going
    <3>2. j = i => ~Unwr(updates'[j])
      BY <2>1 DEF Unwr
    <3> QED BY <1>2, <2>1, <3>1, <3>2 DEF InOrder
  <2>3. said'[b].place = v
    <3>1. updates[i].book = b /\ updates[i].field = "place"
      BY <1>1 DEF Latest, On
    <3> QED BY <1>0, <1>1, <1>4, <3>1, RowWritten
  <2> QED BY <2>2, <2>3 DEF InHand
<1>5. CASE k = i /\ Fails(k)
  BY <1>1, <1>5 DEF FailsLast
<1> QED BY <1>3, <1>4, <1>5 DEF Working

LEMMA NoneComingWorked ==
  ASSUME TypeOK, NEW b, NoneComing(updates, b), NEW k, Working(k)
  PROVE  /\ NoneComing(updates', b)
         /\ ~(updates[k].book = b /\ updates[k].field = "place")
<1>0. Going(updates, updates', k) /\ Unwr(updates[k]) /\ updates \in Seq(Updates)
  BY ReadsIs, WritesIs, FailsIs DEF Working, Unwr
<1>1. On(updates', b, "place") = On(updates, b, "place")
  BY <1>0, GoingOn
<1>2. ~(updates[k].book = b /\ updates[k].field = "place")
  BY <1>0 DEF NoneComing, On, Going
<1>3. ASSUME NEW i \in On(updates', b, "place") PROVE ~Unwr(updates'[i])
  BY <1>0, <1>1, <1>2 DEF NoneComing, Going, On
<1> QED BY <1>2, <1>3 DEF NoneComing

(* Reading keeps what all copies hold, if the row holds it; so does the rest. *)
LEMMA CopiesWorked ==
  ASSUME TypeOK, NEW b \in Books, NEW f, NEW v, Copies(updates, b, f, v), row[b][f] = v,
         NEW k, Working(k)
  PROVE  Copies(updates', b, f, v)
<1>1. CASE Reads(k)
  BY <1>1, ReadsIs DEF Copies, Going
<1>2. CASE Writes(k)
  BY <1>2, WritesIs DEF Copies, Going
<1>3. CASE Fails(k)
  BY <1>3, FailsIs DEF Copies, Going
<1> QED BY <1>1, <1>2, <1>3 DEF Working

LEMMA HandByStorage ==
  ASSUME TypeOK, Fitting, InOrder(updates), Storage, NEW b \in Books, NEW v,
         InHand(updates, b, v)
  PROVE  InHand(updates, b, v)' \/ FailsLast(b, v)
<1>1. CASE Answers
  <2>1. /\ updates' = Tail(updates) /\ updates \in Seq(Updates) /\ updates # <<>>
        /\ ~Unwr(Head(updates)) /\ UNCHANGED <<row, said>>
    BY <1>1, AnswersIs
  <2>2. /\ Coming(updates, b, v) => Coming(updates', b, v)
        /\ NoneComing(updates, b) => NoneComing(updates', b)
        /\ Copies(updates, b, "place", v) => Copies(updates', b, "place", v)
    BY <2>1, AnsweredStill
  <2> QED BY <2>1, <2>2 DEF InHand
<1>2. ASSUME NEW k, Working(k), ~Coming(updates, b, v) PROVE InHand(updates, b, v)'
  <2>1. NoneComing(updates', b) /\ ~(updates[k].book = b /\ updates[k].field = "place")
    BY <1>2, NoneComingWorked DEF InHand
  <2>2. said'[b].place = said[b].place
    <3>1. CASE Writes(k)
      <4>1. k \in DOMAIN updates /\ updates[k].field \in Fields
        BY <3>1, UpdatesAre DEF Writes, Oldest, TypeOK
      <4> QED BY <2>1, <3>1, <4>1, RowWritten DEF Fields, Other
    <3> QED BY <1>2, <3>1 DEF Working, Reads, Fails
  <2>3. ASSUME row[b].place = v, Copies(updates, b, "place", v)
        PROVE  row'[b].place = v /\ Copies(updates', b, "place", v)
    <3>1. Copies(updates', b, "place", v)
      BY <1>2, <2>3, CopiesWorked
    <3>2. row'[b].place = v
      <4>1. CASE Writes(k)
        <5>1. k \in DOMAIN updates /\ updates[k].field \in Fields /\ updates[k].stage = "read"
          BY <4>1, UpdatesAre DEF Writes, Oldest, TypeOK
        <5>2. updates[k].book = b => updates[k].copy.place = v
          BY <2>3, <5>1 DEF Copies
        <5> QED BY <2>1, <2>3, <4>1, <5>1, <5>2, RowWritten DEF Fields, Other
      <4> QED BY <1>2, <2>3, <4>1 DEF Working, Reads, Fails
    <3> QED BY <3>1, <3>2
  <2> QED BY <1>2, <2>1, <2>2, <2>3 DEF InHand
<1> QED BY <1>1, <1>2, ComingWorked, StorageIs

(* And what was lost stays lost: no save that is written clears a refusal of *)
(* a younger one.                                                            *)
LEMMA RefusalStays ==
  ASSUME TypeOK, NEW b \in Books, NEW k, Working(k),
         NoneComing(updates, b) \/ Refused(updates, b)
  PROVE  behind[b] \subseteq behind'[b]
<1>1. CASE Reads(k)
  BY <1>1 DEF Reads
<1>2. CASE Fails(k)
  BY <1>2 DEF Fails, TypeOK
<1>3. CASE Writes(k)
  <2>0. /\ k \in DOMAIN updates /\ updates[k].stage = "read" /\ Unwr(updates[k])
        /\ DOMAIN updates = 1 .. Len(updates) /\ Len(updates) \in Nat
    BY <1>3, WritesIs DEF Going, Unwr
  <2>1. CASE updates[k].book = b /\ updates[k].field = "place"
    <3>1. PICK l \in DOMAIN updates : /\ Latest(updates, b, "place", l)
                                      /\ updates[l].stage = "failed"
      BY <2>0, <2>1 DEF NoneComing, Refused, On
    <3>2. k <= l /\ k # l /\ updates[l].book = b /\ updates[l].field = "place"
      BY <2>0, <2>1, <3>1 DEF Latest, On
    <3>3. l \in k + 1 .. Len(updates)
      BY <2>0, <3>1, <3>2
    <3>4. Superseded(k)
      BY <2>1, <3>1, <3>2, <3>3 DEF Superseded
    <3> QED BY <1>3, <3>4 DEF Writes
  <2>2. CASE ~(updates[k].book = b /\ updates[k].field = "place")
    BY <1>3, <2>2 DEF Writes, TypeOK
  <2> QED BY <2>1, <2>2
<1> QED BY <1>1, <1>2, <1>3 DEF Working

LEMMA RefusedWorked ==
  ASSUME TypeOK, NEW b, NEW k, Working(k), NEW i \in DOMAIN updates,
         Latest(updates, b, "place", i), updates[i].stage = "failed"
  PROVE  /\ i \in DOMAIN updates' /\ Latest(updates', b, "place", i)
         /\ updates'[i] = updates[i]
<1>0. Going(updates, updates', k) /\ Unwr(updates[k]) /\ updates \in Seq(Updates)
  BY ReadsIs, WritesIs, FailsIs DEF Working, Unwr
<1>1. k # i
  BY <1>0 DEF Unwr
<1> QED BY <1>0, <1>1, GoingOn DEF Going

LEMMA LostByStorage ==
  ASSUME TypeOK, Storage, NEW b \in Books, Lost(updates, b)
  PROVE  Lost(updates, b)'
<1>1. CASE Answers
  <2>1. /\ updates' = Tail(updates) /\ updates \in Seq(Updates) /\ updates # <<>>
        /\ ~Unwr(Head(updates)) /\ UNCHANGED behind
    BY <1>1, AnswersIs
  <2>2. /\ NoneComing(updates, b) => NoneComing(updates', b)
        /\ Refused(updates, b) => Refused(updates', b) \/ On(updates', b, "place") = {}
    BY <2>1, AnsweredStill
  <2>3. On(updates', b, "place") = {} => NoneComing(updates', b)
    BY DEF NoneComing
  <2> QED BY <2>1, <2>2, <2>3 DEF Lost
<1>2. ASSUME NEW k, Working(k) PROVE Lost(updates, b)'
  <2>1. behind[b] \subseteq behind'[b]
    BY <1>2, RefusalStays DEF Lost
  <2>2. CASE NoneComing(updates, b)
    <3>1. NoneComing(updates', b)
      BY <1>2, <2>2, NoneComingWorked
    <3> QED BY <2>1, <3>1 DEF Lost
  <2>3. CASE ~NoneComing(updates, b)
    <3>1. "refused" \in behind[b] /\ Refused(updates, b)
      BY <2>3 DEF Lost
    <3>2. Refused(updates', b)
      BY <1>2, <3>1, RefusedWorked DEF Refused
    <3> QED BY <2>1, <3>1, <3>2 DEF Lost
  <2> QED BY <2>2, <2>3
<1> QED BY <1>1, <1>2, StorageIs

(* A last save that fails. *)
LEMMA LastFailed ==
  ASSUME TypeOK, NEW b \in Books, NEW i \in DOMAIN updates, Fails(i),
         Latest(updates, b, "place", i)
  PROVE  /\ "refused" \in behind'[b]
         /\ i \in DOMAIN updates' /\ Latest(updates', b, "place", i)
         /\ updates'[i].stage = "failed" /\ updates'[i].value = updates[i].value
         /\ updates'[i].current = updates[i].current
<1>1. updates[i].book = b /\ updates[i].field = "place"
  BY DEF Latest, On
<1>2. "refused" \in behind'[b]
  BY <1>1 DEF Fails, TypeOK
<1> QED BY <1>2, FailsIs, GoingOn DEF Going

LEMMA KeptByStorage ==
  ASSUME TypeOK, Fitting, InOrder(updates), Kept, Storage, NEW b \in Books, ~Overtaken(b)
  PROVE  \/ waiting' = [book |-> b, place |-> reached'[b]]
         \/ InHand(updates, b, reached[b])'
         \/ Lost(updates, b)'
<1>0. waiting' = waiting /\ reached' = reached
  BY OpenStays
<1>1. CASE InHand(updates, b, reached[b])
  <2>1. ASSUME FailsLast(b, reached[b]) PROVE Lost(updates, b)'
    BY <2>1, LastFailed DEF FailsLast, Lost, Refused
  <2>2. PICK v : v = reached[b]
    OBVIOUS
  <2>3. InHand(updates, b, v)' \/ FailsLast(b, v)
    BY <1>1, <2>2, HandByStorage
  <2>4. InHand(updates, b, v)' => InHand(updates, b, reached[b])'
    BY <1>0, <2>2 DEF InHand
  <2> QED BY <2>1, <2>2, <2>3, <2>4
<1>2. CASE Lost(updates, b)
  BY <1>2, LostByStorage
<1> QED BY <1>0, <1>1, <1>2 DEF Kept

LEMMA KeptKept ==
  ASSUME TypeOK, Fitting, InOrder(updates), WaitsShown, CurrentShown, Kept, Believed, Step
  PROVE  Kept'
<1> SUFFICES ASSUME NEW b \in Books, ~Overtaken(b)'
             PROVE  \/ waiting' = [book |-> b, place |-> reached'[b]]
                    \/ InHand(updates, b, reached[b])'
                    \/ Lost(updates, b)'
  BY DEF Kept
<1>1. CASE Reader \/ Settle
  BY <1>1, KeptByReader
<1>2. CASE Storage
  <2>1. ~Overtaken(b)
    <3>1. CASE Answers
      BY <3>1, AnswersIs DEF Overtaken
    <3>2. ASSUME NEW k, Working(k) PROVE Overtaken(b) => Overtaken(b)'
      BY <3>2 DEF Working, Reads, Writes, Fails, Overtaken, TypeOK
    <3> QED BY <1>2, <3>1, <3>2, StorageIs
  <2> QED BY <1>2, <2>1, KeptByStorage
<1> QED BY <1>1, <1>2 DEF Step
-------------------------------------------------------------------------------
(* What the keeper takes as stored. *)

LEMMA ToldByStorage ==
  ASSUME TypeOK, Fitting, CurrentShown, Storage, NEW b \in Books, Open(b),
         NEW v, stored = v, Told(b, v), stored' # None
  PROVE  Told(b, v)'
<1>0. updates \in Seq(Updates) /\ kind' = kind /\ kind \in {"images", "text"}
  BY OpenStays DEF TypeOK
<1>1. ASSUME NEW k, Working(k) PROVE Told(b, v)'
  <2>0. Going(updates, updates', k) /\ failing' = failing
    BY <1>1, ReadsIs, WritesIs, FailsIs DEF Working, Reads, Writes, Fails
  <2>1. On(updates', b, "place") = On(updates, b, "place")
    BY <1>0, <2>0, GoingOn
  <2>2. behind[b] \subseteq behind'[b]
    <3>1. NoneComing(updates, b) \/ Refused(updates, b)
      BY DEF Told, NoneComing, Refused
    <3> QED BY <1>1, <3>1, RefusalStays
  <2>3. ASSUME NEW i \in DOMAIN updates, Latest(updates, b, "place", i),
               updates[i].stage = "failed", updates[i].value = v, Heeded(updates[i])
        PROVE  /\ i \in DOMAIN updates' /\ Latest(updates', b, "place", i)
               /\ updates'[i].stage = "failed" /\ updates'[i].value = v /\ Heeded(updates[i])'
    BY <1>0, <1>1, <2>3, RefusedWorked DEF Heeded
  <2> QED BY <1>0, <2>0, <2>1, <2>2, <2>3 DEF Told
<1>2. CASE Answers
  <2>0. /\ updates' = Tail(updates) /\ updates # <<>> /\ UNCHANGED behind
        /\ Head(updates).stage \in {"written", "failed"}
        /\ Head(updates) = updates[1] /\ 1 \in DOMAIN updates
        /\ DOMAIN updates = 1 .. Len(updates) /\ Len(updates) \in Nat
        /\ \A i \in DOMAIN updates' : i + 1 \in DOMAIN updates /\ updates'[i] = updates[i + 1]
                                      /\ i \in Nat /\ 1 <= i
        /\ \A i \in DOMAIN updates \ {1} : i - 1 \in DOMAIN updates' /\ updates'[i - 1] = updates[i]
    BY <1>0, <1>2, AnswersIs, Answering
  <2>1. ASSUME NEW i \in DOMAIN updates, Latest(updates, b, "place", i),
               updates[i].stage = "failed", updates[i].value = v, Heeded(updates[i])
        PROVE  Told(b, v)'
    <3>1. CASE i = 1
      <4>1. ASSUME NEW j \in On(updates', b, "place") PROVE FALSE
        <5>1. j + 1 \in On(updates, b, "place") /\ j \in Nat /\ 1 <= j
          BY <2>0 DEF On
        <5> QED BY <2>1, <3>1, <5>1 DEF Latest
      <4>2. PlaceRefused /\ Heeded(Head(updates)) /\ stored = Head(updates).value
        <5>1. Head(updates).stage = "failed" /\ Head(updates).field = "place"
          BY <2>0, <2>1, <3>1 DEF Latest, On
        <5> QED BY <1>2, <2>0, <2>1, <3>1, <5>1
                DEF Answers, PlaceSaved, ChoiceAnswered, Answered
      <4>3. kind = "images" /\ failing' = TRUE
        BY <1>0, <4>2 DEF PlaceRefused
      <4> QED BY <1>0, <2>0, <4>1, <4>3 DEF Told
    <3>2. CASE i # 1
      <4>1. i - 1 \in DOMAIN updates' /\ updates'[i - 1] = updates[i] /\ i \in Nat
        BY <2>0, <3>2
      <4>2. Latest(updates', b, "place", i - 1)
        <5>1. i - 1 \in On(updates', b, "place")
          BY <2>1, <4>1 DEF Latest, On
        <5>2. ASSUME NEW j \in On(updates', b, "place") PROVE j <= i - 1
          <6>1. j + 1 \in On(updates, b, "place") /\ j \in Nat
            BY <2>0 DEF On
          <6> QED BY <2>1, <4>1, <6>1 DEF Latest
        <5> QED BY <5>1, <5>2 DEF Latest
      <4>3. Heeded(updates[i - 1])'
        BY <1>0, <2>1, <4>1 DEF Heeded
      <4> QED BY <2>0, <2>1, <4>1, <4>2, <4>3 DEF Told
    <3> QED BY <3>1, <3>2
  <2>2. ASSUME kind = "images", failing, On(updates, b, "place") = {} PROVE Told(b, v)'
    <3>1. On(updates', b, "place") = {}
      BY <2>0, <2>2 DEF On
    <3>2. PlaceSaved => ~Heeded(Head(updates))
      <4> SUFFICES ASSUME PlaceSaved, Heeded(Head(updates)) PROVE FALSE
        OBVIOUS
      <4>1. updates[1].current /\ updates[1].field = "place"
        BY <2>0, <2>2 DEF Heeded, PlaceSaved
      <4>2. updates[1].book = b
        BY <2>0, <4>1 DEF CurrentShown, Open
      <4> QED BY <2>0, <2>2, <4>1, <4>2 DEF On
    <3>3. failing' = TRUE
      BY <1>2, <2>2, <3>2 DEF Answers, PlaceSaved, PlaceRefused, ChoiceAnswered, TypeOK
    <3> QED BY <1>0, <2>0, <2>2, <3>1, <3>3 DEF Told
  <2> QED BY <2>1, <2>2 DEF Told
<1> QED BY <1>1, <1>2, StorageIs

LEMMA BelievedByStorage ==
  ASSUME TypeOK, Fitting, InOrder(updates), CurrentShown, FreshCurrent, Believed, Storage,
         NEW b \in Books, Sure(b), stored' # None
  PROVE  InHand(updates, b, stored)' \/ Told(b, stored)'
<1>1. stored' = stored
  <2>1. CASE Answers
    BY <2>1 DEF Answers, PlaceSaved, PlaceRefused, ChoiceAnswered
  <2>2. ASSUME NEW k, Working(k) PROVE stored' = stored
    BY <2>2 DEF Working, Reads, Writes, Fails
  <2> QED BY <2>1, <2>2, StorageIs
<1>2. PICK v : v = stored
  OBVIOUS
<1>3. InHand(updates, b, v) \/ Told(b, v)
  BY <1>1, <1>2 DEF Believed
<1>4. InHand(updates, b, v)' \/ Told(b, v)'
  <2>1. CASE Told(b, v)
    BY <1>2, <2>1, ToldByStorage DEF Sure
  <2>2. ASSUME FailsLast(b, v) PROVE Told(b, v)'
    <3>1. PICK i \in DOMAIN updates : /\ Fails(i) /\ Latest(updates, b, "place", i)
                                      /\ Unwr(updates[i]) /\ updates[i].value = v
      BY <2>2 DEF FailsLast
    <3>2. updates[i].current
      BY <3>1 DEF FreshCurrent, Latest, On
    <3>3. Heeded(updates[i])'
      BY <3>1, <3>2, LastFailed DEF Heeded
    <3> QED BY <3>1, <3>3, LastFailed DEF Told
  <2> QED BY <1>3, <2>1, <2>2, HandByStorage
<1> QED BY <1>1, <1>2, <1>4 DEF InHand, Told

LEMMA BelievedKept ==
  ASSUME TypeOK, Fitting, InOrder(updates), WaitsShown, CurrentShown, FreshCurrent,
         Believed, Step
  PROVE  Believed'
<1> SUFFICES ASSUME NEW b \in Books, Sure(b)', stored' # None
             PROVE  InHand(updates, b, stored)' \/ Told(b, stored)'
  BY DEF Believed
<1>0. updates \in Seq(Updates)
  BY DEF TypeOK
<1>1. ASSUME NEW p \in Places, Persist(b, p) PROVE InHand(updates, b, stored)'
  <2> DEFINE u == Update(b, "place", p)
  <2>1. u \in Updates /\ updates' = Append(updates, u) /\ stored' = p
    BY <1>1, PersistJoins
  <2>2. u.stage = "asked" /\ u.book = b /\ u.field = "place" /\ u.value = p
    BY DEF Update
  <2> HIDE DEF u
  <2>3. Coming(updates', b, p)
    BY <1>0, <2>1, <2>2, AskedNext
  <2> QED BY <2>1, <2>3 DEF InHand
<1>2. ASSUME NEW at \in Places, Opened(b, at)
      PROVE  InHand(updates, b, stored)'
  <2>1. /\ stored' = at /\ UNCHANGED <<row, said>>
        /\ \A i \in DOMAIN updates : updates[i].book = b => ~Unwr(updates[i])
    BY <1>2, OpenedFinds DEF Sure
  <2>2. CASE at # row[b].place
    BY <1>1, <1>2, <2>2 DEF Opened
  <2>3. CASE at = row[b].place
    <3>1. NoneComing(updates', b) /\ Copies(updates', b, "place", at) /\ updates' = updates
      BY <1>2, <2>1, <2>3 DEF NoneComing, Copies, On, Unwr, Opened
    <3> QED BY <2>1, <2>3, <3>1 DEF InHand
  <2> QED BY <2>2, <2>3
<1>3. ASSUME Sure(b), UNCHANGED <<row, said, behind, kind, failing, stored, updates>>
      PROVE  InHand(updates, b, stored)' \/ Told(b, stored)'
  <2>1. InHand(updates, b, stored) \/ Told(b, stored)
    BY <1>3 DEF Believed
  <2> QED BY <1>3, <2>1 DEF InHand, Told, Heeded
<1>4. ASSUME Sure(b), NEW p \in Places, Move(p) \/ Turn(p)
      PROVE  InHand(updates, b, stored)' \/ Told(b, stored)'
  BY <1>1, <1>3, <1>4 DEF Move, Turn, Sure, Open
<1>5. CASE Sure(b) /\ Settle
  <2>1. waiting.book = b /\ waiting.place \in Places
    BY <1>5 DEF Settle, WaitsShown, Open, Sure, TypeOK
  <2> QED BY <1>1, <1>3, <1>5, <2>1 DEF Settle
<1>6. ASSUME Sure(b), NEW c \in Choices, Choose(c)
      PROVE  InHand(updates, b, stored)' \/ Told(b, stored)'
  <2> DEFINE u == Update(shown.book, "choice", c)
  <2>1. updates' = Append(updates, u) /\ u \in Updates
    BY <1>6, AnUpdate DEF Choose, Fields, Fitting
  <2>2. u.stage = "asked" /\ u.field = "choice"
    BY DEF Update
  <2> HIDE DEF u
  <2>3. UNCHANGED <<row, said, behind, kind, failing, stored>>
    BY <1>6 DEF Choose
  <2>4. Still(updates, updates', b)
    BY <1>0, <2>1, <2>2, StillAsked
  <2>5. CASE InHand(updates, b, stored)
    <3>1. InHand(updates', b, stored)
      BY <2>4, <2>5, HandStill
    <3> QED BY <2>3, <3>1 DEF InHand
  <2>6. CASE Told(b, stored)
    <3>1. /\ \A i \in DOMAIN updates : i \in DOMAIN updates' /\ updates'[i] = updates[i]
          /\ On(updates', b, "place") = On(updates, b, "place")
      <4>1. /\ DOMAIN updates' = DOMAIN updates \cup {Len(updates) + 1}
            /\ \A i \in DOMAIN updates : updates'[i] = updates[i]
            /\ updates'[Len(updates) + 1] = u
        BY <1>0, <2>1, Appended
      <4> QED BY <2>2, <4>1 DEF On
    <3>2. \A i : Latest(updates', b, "place", i) <=> Latest(updates, b, "place", i)
      BY <3>1 DEF Latest
    <3> QED BY <2>3, <2>6, <3>1, <3>2 DEF Told, Heeded
  <2>7. InHand(updates, b, stored) \/ Told(b, stored)
    BY <1>6, <2>3 DEF Believed
  <2> QED BY <2>5, <2>6, <2>7
<1>7. CASE Sure(b) /\ Storage
  BY <1>7, BelievedByStorage
<1> QED BY <1>2, <1>4, <1>5, <1>6, <1>7, SureSteps DEF Goes
-------------------------------------------------------------------------------
(* The setting that is held. *)

(* A save that is asked for changes nothing of that. *)
LEMMA AskedHolds ==
  ASSUME NEW us \in Seq(Updates), NEW u \in Updates, u.stage = "asked",
         NEW b, NEW held, NEW last, NEW inRow, HeldBy(us, b, held, last, inRow)
  PROVE  HeldBy(Append(us, u), b, held, last, inRow)
<1> DEFINE vs == Append(us, u)
<1>1. /\ DOMAIN vs = DOMAIN us \cup {Len(us) + 1}
      /\ \A i \in DOMAIN us : vs[i] = us[i]
      /\ vs[Len(us) + 1] = u
  BY Appended
<1>2. Copies(us, b, "choice", held) => Copies(vs, b, "choice", held)
  BY AskedNext
<1> HIDE DEF vs
<1>3. Due(vs, b) = Due(us, b)
  BY <1>1 DEF Due, On
<1>4. \A j \in Due(us, b) : vs[j] = us[j]
  BY <1>1 DEF Due, On
<1>5. HeldBy(vs, b, held, last, inRow)
  BY <1>2, <1>3, <1>4 DEF HeldBy
<1> QED BY <1>5 DEF vs

(* Nor does one that goes on, but to be written. *)
LEMMA WorkedDue ==
  ASSUME TypeOK, NEW b, NEW k, Working(k),
         ~(Writes(k) /\ updates[k].book = b /\ updates[k].field = "choice")
  PROVE  Due(updates', b) = Due(updates, b)
         /\ \A j \in Due(updates, b) : updates'[j].value = updates[j].value
<1>1. Going(updates, updates', k) /\ updates \in Seq(Updates)
  BY ReadsIs, WritesIs, FailsIs DEF Working
<1>2. On(updates', b, "choice") = On(updates, b, "choice")
  BY <1>1, GoingOn
<1>3. k \notin On(updates, b, "choice") \/ (updates[k].stage # "written"
                                            /\ updates'[k].stage # "written")
  BY ReadsIs, WritesIs, FailsIs DEF Working, On, Unwr
<1>4. \A j \in On(updates, b, "choice") \ {k} : updates'[j] = updates[j]
  BY <1>1 DEF Going, On
<1> QED BY <1>1, <1>2, <1>3, <1>4 DEF Due, Going

LEMMA HeldWorked ==
  ASSUME TypeOK, Fitting, InOrder(updates), FreshCurrent, NEW b \in Books, Sure(b),
         NEW k, Working(k),
         HeldBy(updates, b, shown.choice, said[b].choice, row[b].choice)
  PROVE  HeldBy(updates', b, shown'.choice, said'[b].choice, row'[b].choice)
<1>0. /\ Going(updates, updates', k) /\ updates \in Seq(Updates) /\ Unwr(updates[k])
      /\ k \in DOMAIN updates /\ updates[k].field \in Fields /\ shown' = shown
  BY ReadsIs, WritesIs, FailsIs, UpdatesAre, WorkingIs
     DEF Working, Unwr, Reads, Writes, Fails, TypeOK
<1>1. CASE Writes(k) /\ updates[k].book = b /\ updates[k].field = "choice"
  <2>1. updates[k].current
    BY <1>0, <1>1 DEF FreshCurrent
  <2>2. k \in Due(updates', b)
    <3>1. k \in On(updates', b, "choice")
      BY <1>0, <1>1 DEF On, Going
    <3> QED BY <1>0, <1>1, <2>1, <3>1, WritesIs DEF Due, Going
  <2>3. ASSUME NEW i \in Due(updates', b) PROVE i <= k
    <3>1. i \in DOMAIN updates' /\ i \in Nat /\ k \in Nat
      BY <1>0 DEF Due, On, Going
    <3>2. CASE i > k
      <4>1. updates'[i].stage = "written" /\ updates'[i] = updates[i] /\ i \in DOMAIN updates
        BY <1>0, <3>1, <3>2 DEF Due, Going
      <4> QED BY <1>0, <3>1, <3>2, <4>1 DEF InOrder
    <3> QED BY <3>1, <3>2
  <2>4. updates'[k].value = said'[b].choice
    BY <1>0, <1>1, RowWritten DEF Going
  <2> QED BY <2>2, <2>3, <2>4 DEF HeldBy
<1>2. CASE ~(Writes(k) /\ updates[k].book = b /\ updates[k].field = "choice")
  <2>1. Due(updates', b) = Due(updates, b)
        /\ \A j \in Due(updates, b) : updates'[j].value = updates[j].value
    BY <1>2, WorkedDue
  <2>2. said'[b].choice = said[b].choice
    <3>1. CASE Writes(k)
      BY <1>0, <1>2, <3>1, RowWritten DEF Fields, Other
    <3>2. CASE Reads(k) \/ Fails(k)
      BY <3>2 DEF Reads, Fails
    <3> QED BY <3>1, <3>2 DEF Working
  <2>3. ASSUME row[b].choice = shown.choice, Copies(updates, b, "choice", shown.choice)
        PROVE  row'[b].choice = shown.choice /\ Copies(updates', b, "choice", shown.choice)
    <3>1. PICK v : v = shown.choice
      OBVIOUS
    <3>2. Copies(updates', b, "choice", v)
      BY <2>3, <3>1, CopiesWorked
    <3>3. row'[b].choice = v
      <4>1. CASE Writes(k)
        <5>1. updates[k].book = b => updates[k].copy.choice = v
          BY <1>0, <2>3, <3>1, <4>1, WritesIs DEF Copies
        <5> QED BY <1>0, <1>2, <2>3, <3>1, <4>1, <5>1, RowWritten DEF Fields, Other
      <4>2. CASE Reads(k) \/ Fails(k)
        BY <2>3, <3>1, <4>2 DEF Reads, Fails
      <4> QED BY <4>1, <4>2 DEF Working
    <3> QED BY <3>1, <3>2, <3>3
  <2> QED BY <1>0, <2>1, <2>2, <2>3 DEF HeldBy
<1> QED BY <1>1, <1>2

LEMMA HeldAnswered ==
  ASSUME TypeOK, Fitting, CurrentShown, NEW b \in Books, Open(b), Answers,
         HeldBy(updates, b, shown.choice, said[b].choice, row[b].choice)
  PROVE  HeldBy(updates', b, shown'.choice, said'[b].choice, row'[b].choice)
<1>0. /\ updates' = Tail(updates) /\ updates # <<>> /\ UNCHANGED <<row, said>>
      /\ ~Unwr(Head(updates)) /\ updates \in Seq(Updates)
      /\ Head(updates) = updates[1] /\ 1 \in DOMAIN updates
      /\ DOMAIN updates = 1 .. Len(updates) /\ Len(updates) \in Nat
      /\ \A i \in DOMAIN updates' : i + 1 \in DOMAIN updates /\ updates'[i] = updates[i + 1]
                                    /\ i \in Nat /\ 1 <= i
      /\ \A i \in DOMAIN updates \ {1} : i - 1 \in DOMAIN updates' /\ updates'[i - 1] = updates[i]
  BY AnswersIs, Answering
<1>1. \A i \in Due(updates, b) \ {1} :
        i \in Nat /\ i - 1 \in Due(updates', b) /\ updates'[i - 1] = updates[i]
  BY <1>0 DEF Due, On
<1>2. \A i \in Due(updates', b) : i \in Nat /\ i + 1 \in Due(updates, b)
  BY <1>0 DEF Due, On
<1>3. CASE 1 \in Due(updates, b)
  <2>1. /\ updates[1].field = "choice" /\ updates[1].current /\ updates[1].stage = "written"
        /\ updates[1].book = b
    BY <1>3 DEF Due, On
  <2>2. shown'.choice = updates[1].value
    <3>1. ChoiceAnswered
      BY <1>0, <2>1 DEF Answers, PlaceSaved, PlaceRefused
    <3> QED BY <1>0, <2>1, <3>1 DEF ChoiceAnswered, TypeOK
  <2>3. PICK j \in Due(updates, b) : (\A i \in Due(updates, b) : i <= j)
                                       /\ updates[j].value = said[b].choice
    BY <1>3 DEF HeldBy
  <2>4. CASE j = 1
    <3>1. Due(updates', b) = {}
      <4>1. ASSUME NEW i \in Due(updates', b) PROVE FALSE
        <5>1. i \in Nat /\ i + 1 <= 1 /\ i \in DOMAIN updates'
          BY <1>2, <2>3, <2>4 DEF Due, On
        <5> QED BY <1>0, <5>1
      <4> QED BY <4>1
    <3> QED BY <1>0, <2>2, <2>3, <2>4, <3>1 DEF HeldBy
  <2>5. CASE j # 1
    <3>1. j - 1 \in Due(updates', b) /\ updates'[j - 1].value = said'[b].choice
      BY <1>0, <1>1, <2>3, <2>5
    <3>2. \A i \in Due(updates', b) : i <= j - 1
      BY <1>1, <1>2, <2>3, <2>5
    <3> QED BY <3>1, <3>2 DEF HeldBy
  <2> QED BY <2>4, <2>5
<1>4. CASE 1 \notin Due(updates, b)
  <2>1. shown'.choice = shown.choice
    <3>1. CASE ChoiceAnswered
      <4>1. ~(updates[1].current /\ updates[1].stage = "written")
        <5> SUFFICES ASSUME updates[1].current, updates[1].stage = "written" PROVE FALSE
          OBVIOUS
        <5>1. updates[1].book = b /\ updates[1].field = "choice"
          BY <1>0, <3>1 DEF CurrentShown, Open, ChoiceAnswered
        <5> QED BY <1>0, <1>4, <5>1 DEF Due, On
      <4> QED BY <1>0, <3>1, <4>1 DEF ChoiceAnswered
    <3> QED BY <3>1 DEF Answers, PlaceSaved, PlaceRefused
  <2>2. CASE Due(updates, b) = {}
    <3>1. Due(updates', b) = {}
      BY <1>2, <2>2
    <3>2. PICK v : v = shown.choice
      OBVIOUS
    <3>3. Copies(updates, b, "choice", v) => Copies(updates', b, "choice", v)
      BY <1>0, AnsweredStill
    <3> QED BY <1>0, <2>1, <2>2, <3>1, <3>2, <3>3 DEF HeldBy
  <2>3. ASSUME NEW j \in Due(updates, b), \A i \in Due(updates, b) : i <= j,
               updates[j].value = said[b].choice
        PROVE  HeldBy(updates', b, shown'.choice, said'[b].choice, row'[b].choice)
    <3>1. j - 1 \in Due(updates', b) /\ updates'[j - 1].value = said'[b].choice
      BY <1>0, <1>1, <1>4, <2>3
    <3>2. \A i \in Due(updates', b) : i <= j - 1
      BY <1>1, <1>2, <1>4, <2>3
    <3> QED BY <3>1, <3>2 DEF HeldBy
  <2> QED BY <2>2, <2>3 DEF HeldBy
<1> QED BY <1>3, <1>4

LEMMA HoldingKept ==
  ASSUME TypeOK, Fitting, InOrder(updates), WaitsShown, CurrentShown, FreshCurrent,
         Holding, Step
  PROVE  Holding'
<1> SUFFICES ASSUME NEW b \in Books, Sure(b)'
             PROVE  HeldBy(updates', b, shown'.choice, said'[b].choice, row'[b].choice)
  BY DEF Holding
<1>0. updates \in Seq(Updates)
  BY DEF TypeOK
<1>1. ASSUME NEW at \in Places, Opened(b, at)
      PROVE  HeldBy(updates', b, shown'.choice, said'[b].choice, row'[b].choice)
  <2>1. /\ shown'.choice = row[b].choice /\ row' = row
        /\ \A i \in DOMAIN updates : ~updates[i].current
        /\ \A i \in DOMAIN updates : updates[i].book = b => ~Unwr(updates[i])
    BY <1>1, OpenedFinds DEF Sure
  <2>2. PICK v : v = row[b].choice
    OBVIOUS
  <2>3. HeldBy(updates, b, v, said'[b].choice, v)
    BY <2>1 DEF HeldBy, Due, On, Copies, Unwr
  <2>4. CASE updates' = updates
    BY <2>1, <2>2, <2>3, <2>4
  <2>5. CASE updates' # updates
    <3> DEFINE u == Update(b, "place", at)
    <3>1. u \in Updates /\ updates' = Append(updates, u)
      BY <1>1, <2>5, OpenedFinds
    <3>2. u.stage = "asked"
      BY DEF Update
    <3> HIDE DEF u
    <3>3. HeldBy(updates', b, v, said'[b].choice, v)
      <4>1. PICK w : w = said'[b].choice
        OBVIOUS
      <4>2. PICK x \in Updates : x = u
        BY <3>1
      <4> QED BY <1>0, <2>3, <3>1, <3>2, <4>1, <4>2, AskedHolds
    <3> QED BY <2>1, <2>2, <3>3
  <2> QED BY <2>4, <2>5
<1>2. CASE Sure(b) /\ Goes(b)
  <2>1. /\ shown'.choice = shown.choice /\ UNCHANGED <<said, row>>
    BY <1>2 DEF Goes, Settle, Move, Turn, Choose, TypeOK
  <2>2. HeldBy(updates, b, shown.choice, said[b].choice, row[b].choice)
    BY <1>2 DEF Holding
  <2>3. ASSUME NEW u \in Updates, u.stage = "asked", updates' = Append(updates, u)
        PROVE  HeldBy(updates', b, shown.choice, said[b].choice, row[b].choice)
    BY <1>0, <2>2, <2>3, AskedHolds
  <2> QED BY <1>2, <2>1, <2>2, <2>3, GoesJoins
<1>3. CASE Sure(b) /\ Storage
  <2>1. HeldBy(updates, b, shown.choice, said[b].choice, row[b].choice)
    BY <1>3 DEF Holding
  <2> QED BY <1>3, <2>1, HeldWorked, HeldAnswered, StorageIs DEF Sure
<1> QED BY <1>1, <1>2, <1>3, SureSteps
-------------------------------------------------------------------------------
(* The invariant, and what follows. *)

LEMMA InitInductive == Init => Inductive
<1> SUFFICES ASSUME Init PROVE Inductive
  OBVIOUS
<1>1. updates = <<>> /\ waiting = None /\ shown.state = "closed" /\ TypeOK /\ Fitting
  BY InitTyped, ClosedShows DEF Init
<1>2. InOrder(updates) /\ WaitsShown /\ CurrentShown
  BY <1>1 DEF InOrder, WaitsShown, CurrentShown
<1>3. \A b \in Books : ~Sure(b)
  BY <1>1 DEF Sure, Open
<1>4. FreshCurrent /\ Believed /\ Holding
  BY <1>3 DEF FreshCurrent, Believed, Holding
<1>5. Kept
  <2>1. \A b \in Books : reached[b] = row[b].place
    BY DEF Init
  <2>2. \A b \in Books : NoneComing(updates, b) /\ Copies(updates, b, "place", reached[b])
    BY <1>1 DEF NoneComing, Copies, On
  <2> QED BY <2>1, <2>2 DEF Kept, InHand
<1> QED BY <1>1, <1>2, <1>4, <1>5 DEF Inductive

LEMMA StutterInductive ==
  ASSUME Inductive, UNCHANGED vars
  PROVE  Inductive'
<1>1. TypeOK' /\ Fitting'
  BY DEF Inductive, vars, TypeOK, Fitting
<1>2. InOrder(updates') /\ WaitsShown' /\ CurrentShown' /\ FreshCurrent'
  BY DEF Inductive, vars, WaitsShown, CurrentShown, FreshCurrent, Open, Sure, Overtaken
<1>3. Kept' /\ Believed' /\ Holding'
  BY DEF Inductive, vars, Kept, Believed, Holding, InHand, Lost, Told, Heeded, Open, Sure,
         Overtaken
<1> QED BY <1>1, <1>2, <1>3 DEF Inductive

LEMMA NextInductive ==
  ASSUME Inductive, [Step]_vars
  PROVE  Inductive'
<1>1. CASE UNCHANGED vars
  BY <1>1, StutterInductive
<1>2. CASE Step
  <2>1. /\ TypeOK /\ Fitting /\ InOrder(updates) /\ WaitsShown /\ CurrentShown
        /\ FreshCurrent /\ Kept /\ Believed /\ Holding
    BY DEF Inductive
  <2>2. TypeOK' /\ Fitting'
    BY <1>2, <2>1, ReaderTyped, StorageTyped DEF Step
  <2>3. InOrder(updates') /\ WaitsShown' /\ CurrentShown' /\ FreshCurrent'
    BY <1>2, <2>1, InOrderKept, WaitsShownKept, CurrentShownKept, FreshCurrentKept
  <2>4. Kept' /\ Believed' /\ Holding'
    BY <1>2, <2>1, KeptKept, BelievedKept, HoldingKept
  <2> QED BY <2>2, <2>3, <2>4 DEF Inductive
<1> QED BY <1>1, <1>2

THEOREM AlwaysInductive == Spec => []Inductive
BY InitInductive, NextInductive, PTL DEF Spec

(* Every row, save and answer is of its type, whatever overlaps.             *)
THEOREM PlacesTyped == Spec => []TypeOK
<1>1. Inductive => TypeOK
  BY DEF Inductive
<1> QED BY <1>1, AlwaysInductive, PTL

(* The last place the reader went to in a book is in its row or on its way   *)
(* there, or one of the reasons why not is recorded: place-keeper.ts loses   *)
(* none between schedule, flush and persist.                                 *)
THEOREM NoPlaceLost == Spec => []LastPlaceKept
<1>1. ASSUME Inductive PROVE LastPlaceKept
  <2> SUFFICES ASSUME NEW b \in Books, behind[b] = {}, ~Undone(b),
                      waiting # [book |-> b, place |-> reached[b]]
               PROVE  \/ row[b].place = reached[b]
                      \/ \E u \in Unwritten(b, "place") : u.value = reached[b]
    BY DEF LastPlaceKept
  <2>1. InHand(updates, b, reached[b])
    BY <1>1 DEF Inductive, Kept, Overtaken, Lost
  <2>2. CASE Coming(updates, b, reached[b])
    BY <2>2 DEF Coming, Latest, On, Unwr, Unwritten
  <2>3. CASE said[b].place = reached[b] \/ row[b].place = reached[b]
    BY <2>3 DEF Undone
  <2> QED BY <2>1, <2>2, <2>3 DEF InHand
<1> QED BY <1>1, AlwaysInductive, PTL

(* A keeper that has told no failure believes what the row holds, once the   *)
(* saves of its book are over: place-keeper.ts #alreadyStored drops no place *)
(* the row lacks.                                                            *)
THEOREM KeeperIsRight == Spec => []KeeperBelievesRow
<1>1. ASSUME Inductive PROVE KeeperBelievesRow
  <2> SUFFICES ASSUME NEW b \in Books, Open(b), ~failing, ~Overtaken(b), ~Undone(b),
                      \A i \in DOMAIN updates : updates[i].book # b, stored # None
               PROVE  stored = row[b].place
    BY DEF KeeperBelievesRow, Overtaken
  <2>1. InHand(updates, b, stored) \/ Told(b, stored)
    BY <1>1 DEF Inductive, Believed, Sure
  <2>2. ~Coming(updates, b, stored) /\ ~Told(b, stored)
    BY DEF Coming, Told, Latest, On
  <2> QED BY <2>1, <2>2 DEF InHand, Undone
<1> QED BY <1>1, AlwaysInductive, PTL

(* The reader holds the setting of the row of its book, once the edits of    *)
(* the book are over, though answers for other books come in late            *)
(* (book-preferences.svelte.ts edit).                                        *)
THEOREM SettingIsHeld == Spec => []HeldIsStored
<1>1. ASSUME Inductive PROVE HeldIsStored
  <2> SUFFICES ASSUME NEW b \in Books, Open(b), ~Overtaken(b),
                      \A i \in DOMAIN updates : updates[i].book # b
               PROVE  shown.choice = row[b].choice \/ row[b].choice # said[b].choice
    BY DEF HeldIsStored, Overtaken
  <2>1. HeldBy(updates, b, shown.choice, said[b].choice, row[b].choice)
    BY <1>1 DEF Inductive, Holding, Sure
  <2>2. Due(updates, b) = {}
    BY DEF Due, On
  <2> QED BY <2>1, <2>2 DEF HeldBy
<1> QED BY <1>1, AlwaysInductive, PTL
===============================================================================
