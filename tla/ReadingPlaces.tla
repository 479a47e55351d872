---------------------------- MODULE ReadingPlaces ----------------------------
(***************************************************************************)
(* Where the reader is in a book, and how it gets into the book's row:     *)
(* the place keeper of shared/place-keeper.ts as the two readers own it,   *)
(* ReaderView for books of images and FlowView for books of text, with     *)
(* the book's own settings (the page fit, the language) saved beside it.   *)
(* Every save is repository.update: the row is read in one transaction     *)
(* and the edited row written in another, so two saves can overlap.        *)
(*                                                                         *)
(* One tab.  A place is a model value; a generation is kept as whether a   *)
(* save was made in the current one.                                       *)
(***************************************************************************)
EXTENDS Naturals, Sequences, FiniteSets

CONSTANTS Books, Places, Choices, None,
          MaxMoves,      \* places the reader reaches
          MaxOpens,      \* times a book is opened
          MaxChoices,    \* settings the reader chooses
          MaxFaults,     \* saves and openings that fail
          MaxCloses,     \* times the tab is closed
          MaxInFlight    \* saves under way at once

\* Every row has a place and settings: there is a first page, and a default.
ASSUME PlacesAssumption ==
    /\ None \notin Books \cup Places \cup Choices \cup [book : Books, place : Places]
    /\ Places # {} /\ Choices # {}
    /\ \A max \in {MaxMoves, MaxOpens, MaxChoices, MaxFaults, MaxCloses, MaxInFlight} :
         max \in Nat

VARIABLES
    row,        \* the place and the setting in each book's row
    kind,       \* the reader: "images" (ReaderView) or "text" (FlowView)
    shown,      \* the book it shows, where it stands, the setting it holds
    waiting,    \* #saving: the place the timer will save
    stored,     \* #stored: the place the keeper takes the row to hold
    failing,    \* #failing: the reader was told that saving fails
    updates,    \* repository.update calls under way, oldest first
    spent,      \* what is used of the bounds
    reached,    \* history: the last place the reader went to in each book
    said,       \* history: what the last write of each field put in the row
    behind      \* history: why a row may lack the last place reached

vars == <<row, kind, shown, waiting, stored, failing, updates, spent,
          reached, said, behind>>

-----------------------------------------------------------------------------
Fields == {"place", "choice"}
Stages == {"asked", "read", "written", "failed"}
Rows == [place : Places, choice : Choices]
Updates == [book : Books, field : Fields, value : Places \cup Choices,
            stage : Stages, copy : Rows \cup {None}, current : BOOLEAN]
Reasons == {"refused", "cut", "overtaken"}
Bounds == [moves |-> MaxMoves, opens |-> MaxOpens, choices |-> MaxChoices,
           faults |-> MaxFaults, closes |-> MaxCloses]

TypeOK ==
    /\ row \in [Books -> Rows]
    /\ kind \in {"images", "text"}
    /\ shown \in [state : {"closed", "opening", "open"}, book : Books \cup {None},
                  at : Places \cup {None}, choice : Choices \cup {None}]
    /\ waiting \in [book : Books, place : Places] \cup {None}
    /\ stored \in Places \cup {None}
    /\ failing \in BOOLEAN
    /\ updates \in Seq(Updates)
    /\ Len(updates) <= MaxInFlight
    /\ spent \in [DOMAIN Bounds -> Nat] /\ \A n \in DOMAIN Bounds : spent[n] <= Bounds[n]
    /\ reached \in [Books -> Places]
    /\ said \in [Books -> Rows]
    /\ behind \in [Books -> SUBSET Reasons]

Closed == [state |-> "closed", book |-> None, at |-> None, choice |-> None]

\* Where the books start makes no difference.
Init ==
    /\ row = [b \in Books |-> CHOOSE r \in Rows : TRUE]
    /\ said = row
    /\ kind \in {"images", "text"}
    /\ shown = Closed
    /\ waiting = None
    /\ stored = None
    /\ failing = FALSE
    /\ updates = <<>>
    /\ spent = [n \in DOMAIN Bounds |-> 0]
    /\ reached = [b \in Books |-> row[b].place]
    /\ behind = [b \in Books |-> {}]

-----------------------------------------------------------------------------
(* The keeper *)

Spends(n) ==
    /\ spent[n] < Bounds[n]
    /\ spent' = [spent EXCEPT ![n] = @ + 1]

Room == Len(updates) < MaxInFlight

Open(b) == shown.state = "open" /\ shown.book = b

Update(b, f, v) == [book |-> b, field |-> f, value |-> v, stage |-> "asked",
                    copy |-> None, current |-> TRUE]

\* persist: the keeper takes the place as stored before the save is answered.
Persist(b, p) ==
    /\ stored' = p
    /\ updates' = Append(updates, Update(b, "place", p))

\* The place that waits is not stored already.
Owed == waiting # None /\ waiting.place # stored

\* Mutant: A flush that hands on all that waits, not its place.
FlushedWhole == IF Owed THEN Append(updates, Update(waiting.book, "place", waiting))
                        ELSE updates

\* Mutant: A flush that forgets the place instead of saving it.
FlushedNot == updates

\* The save a flush makes, if the place that waits is not stored already.
Flushed == IF Owed THEN Append(updates, Update(waiting.book, "place", waiting.place))
                   ELSE updates

\* Mutant: Edits of an earlier opening are held by the book now shown.
PastNot(us) == us

\* A new generation: no save made so far is one of it.
Past(us) == [i \in DOMAIN us |-> [us[i] EXCEPT !.current = FALSE]]

Reach(b, p) == reached' = [reached EXCEPT ![b] = p]

\* The timer of schedule(): the place waits no more, and is saved if it is not stored.
Settle ==
    /\ waiting # None
    /\ Room
    /\ waiting' = None
    /\ IF Owed THEN Persist(waiting.book, waiting.place) ELSE UNCHANGED <<stored, updates>>
    /\ UNCHANGED <<row, kind, shown, failing, spent, reached, said, behind>>

-----------------------------------------------------------------------------
(* The reader *)

\* open: what waits is saved, nobody awaits it, and the keeper starts again.
OpenBook(b) ==
    /\ Room
    /\ Spends("opens")
    /\ updates' = Past(Flushed)
    /\ waiting' = None
    /\ stored' = None
    /\ failing' = FALSE
    /\ shown' = [Closed EXCEPT !.state = "opening", !.book = b]
    /\ UNCHANGED <<row, kind, reached, said, behind>>

\* A save of the book that has not reached its row yet.
Unwritten(b, f) == {u \in {updates[i] : i \in DOMAIN updates} :
                      u.book = b /\ u.field = f /\ u.stage \in {"asked", "read"}}

\* Nothing of the book is on its way to its row.
Settled(b) == Unwritten(b, "place") \cup Unwritten(b, "choice") = {}

\* The row is read and the book shown where it says, or where the address asks;
\* a place the address asks for is saved at once.  A book that is settled is
\* where its reader is now.
Opened(b, at) ==
    /\ Room
    /\ shown.state = "opening" /\ shown.book = b
    /\ shown' = [state |-> "open", book |-> b, at |-> at, choice |-> row[b].choice]
    /\ IF at = row[b].place
         THEN stored' = at /\ UNCHANGED updates
         ELSE kind = "images" /\ Persist(b, at)
    /\ IF Settled(b) \/ at # row[b].place THEN Reach(b, at) ELSE UNCHANGED reached
    /\ behind' = [behind EXCEPT ![b] =
                    IF Settled(b) THEN @ \ {"overtaken"} ELSE @ \cup {"overtaken"}]
    /\ UNCHANGED <<row, kind, waiting, failing, spent, said>>

\* The book cannot be read or shown.
OpeningFails ==
    /\ shown.state = "opening"
    /\ Spends("faults")
    /\ shown' = Closed
    /\ UNCHANGED <<row, kind, waiting, stored, failing, updates, reached, said, behind>>

\* moveTo, or a relocation of the text: the place waits for the timer.  The
\* reader of images takes no move to where it is.
Move(p) ==
    /\ shown.state = "open"
    /\ kind = "images" => p # shown.at
    /\ Spends("moves")
    /\ shown' = [shown EXCEPT !.at = p]
    /\ waiting' = [book |-> shown.book, place |-> p]
    /\ Reach(shown.book, p)
    /\ UNCHANGED <<row, kind, stored, failing, updates, said, behind>>

\* goToGroup: the place waits for the timer and is saved at once as well.
Turn(p) ==
    /\ kind = "images"
    /\ shown.state = "open"
    /\ p # shown.at
    /\ Room
    /\ Spends("moves")
    /\ shown' = [shown EXCEPT !.at = p]
    /\ waiting' = [book |-> shown.book, place |-> p]
    /\ Persist(shown.book, p)
    /\ Reach(shown.book, p)
    /\ UNCHANGED <<row, kind, failing, said, behind>>

\* setPageFit, or setLanguage for a book of text, which waits for the edit before it.
Choose(c) ==
    /\ shown.state = "open"
    /\ c # shown.choice
    /\ kind = "text" =>
         \A i \in DOMAIN updates : ~(updates[i].field = "choice" /\ updates[i].current)
    /\ Room
    /\ Spends("choices")
    /\ updates' = Append(updates, Update(shown.book, "choice", c))
    /\ UNCHANGED <<row, kind, shown, waiting, stored, failing, reached, said, behind>>

\* dispose and close: what waits is saved; ReaderView forgets what was stored.
Leave ==
    /\ shown.state # "closed"
    /\ Room
    /\ updates' = Past(Flushed)
    /\ waiting' = None
    /\ stored' = CASE kind = "images" -> None
                   [] kind = "text" /\ Owed -> waiting.place
                   [] OTHER -> stored
    /\ shown' = Closed
    /\ UNCHANGED <<row, kind, failing, spent, reached, said, behind>>

\* The tab goes: nothing saves what waits, and what is not written is lost.
TabCloses ==
    /\ Spends("closes")
    /\ behind' = [b \in Books |->
                    IF Unwritten(b, "place") # {} \/ (waiting # None /\ waiting.book = b)
                      THEN behind[b] \cup {"cut"} ELSE behind[b]]
    /\ shown' = Closed
    /\ waiting' = None
    /\ stored' = None
    /\ failing' = FALSE
    /\ updates' = <<>>
    /\ UNCHANGED <<row, kind, reached, said>>

-----------------------------------------------------------------------------
(* repository.update.  Transactions on one store run in the order they are  *)
(* asked for, so reads keep the order of the calls, and so do writes.       *)

\* Mutant: An update that waits until nothing else is under way.
OldestAlone(i, stage) ==
    /\ i \in DOMAIN updates
    /\ updates[i].stage = stage
    /\ Len(updates) = 1

\* The oldest update that is at a stage.
Oldest(i, stage) ==
    /\ i \in DOMAIN updates
    /\ updates[i].stage = stage
    /\ \A j \in 1 .. i - 1 : updates[j].stage # stage

Reads(i) ==
    /\ Oldest(i, "asked")
    /\ updates' = [updates EXCEPT ![i].stage = "read", ![i].copy = row[updates[i].book]]
    /\ UNCHANGED <<row, kind, shown, waiting, stored, failing, spent, reached, said, behind>>

\* A younger save of the same place has failed.
Superseded(i) == \E j \in i + 1 .. Len(updates) :
    /\ updates[j].book = updates[i].book
    /\ updates[j].field = "place" /\ updates[j].stage = "failed"

\* The row read before, with the edit applied, is put over whatever the row holds now.
Writes(i) ==
    LET u == updates[i] IN
    /\ Oldest(i, "read")
    /\ row' = [row EXCEPT ![u.book] = [u.copy EXCEPT ![u.field] = u.value]]
    /\ updates' = [updates EXCEPT ![i].stage = "written"]
    /\ said' = [said EXCEPT ![u.book][u.field] = u.value]
    /\ behind' = IF u.field = "place" /\ ~Superseded(i)
                   THEN [behind EXCEPT ![u.book] = @ \ {"refused", "cut"}] ELSE behind
    /\ UNCHANGED <<kind, shown, waiting, stored, failing, spent, reached>>

\* Storage is refused, the row is gone or corrupt, or the transaction aborts.
Fails(i) ==
    /\ Oldest(i, "asked") \/ Oldest(i, "read")
    /\ Spends("faults")
    /\ updates' = [updates EXCEPT ![i].stage = "failed"]
    /\ behind' = IF updates[i].field = "place"
                   THEN [behind EXCEPT ![updates[i].book] = @ \cup {"refused"}] ELSE behind
    /\ UNCHANGED <<row, kind, shown, waiting, stored, failing, reached, said>>

Answered(stage) == updates # <<>> /\ Head(updates).stage = stage

\* ReaderView's keeper heeds the answers of its generation; FlowView's all of them.
Heeded(u) == u.current \/ kind = "text"

\* The answer to a place save.
PlaceSaved ==
    /\ Answered("written") /\ Head(updates).field = "place"
    /\ updates' = Tail(updates)
    /\ failing' = (failing /\ ~Heeded(Head(updates)))
    /\ UNCHANGED <<row, kind, shown, waiting, stored, spent, reached, said, behind>>

\* Mutant: A refusal nobody is told of.
PlaceRefusedUntold ==
    LET u == Head(updates) IN
    /\ Answered("failed") /\ u.field = "place"
    /\ updates' = Tail(updates)
    /\ failing' = failing
    /\ stored' = IF Heeded(u) /\ kind = "text" /\ stored = u.value THEN None ELSE stored
    /\ UNCHANGED <<row, kind, shown, waiting, spent, reached, said, behind>>

PlaceRefused ==
    LET u == Head(updates) IN
    /\ Answered("failed") /\ u.field = "place"
    /\ updates' = Tail(updates)
    /\ failing' = (failing \/ Heeded(u))
    /\ stored' = IF Heeded(u) /\ kind = "text" /\ stored = u.value THEN None ELSE stored
    /\ UNCHANGED <<row, kind, shown, waiting, spent, reached, said, behind>>

\* The answer to an edit of the preferences: held if it is of this generation.
ChoiceAnswered ==
    LET u == Head(updates) IN
    /\ Answered("written") \/ Answered("failed")
    /\ u.field = "choice"
    /\ updates' = Tail(updates)
    /\ shown' = IF u.current /\ u.stage = "written"
                  THEN [shown EXCEPT !.choice = u.value] ELSE shown
    /\ UNCHANGED <<row, kind, waiting, stored, failing, spent, reached, said, behind>>

-----------------------------------------------------------------------------
Reader ==
    \/ \E b \in Books : OpenBook(b) \/ \E at \in Places : Opened(b, at)
    \/ OpeningFails \/ Leave \/ TabCloses
    \/ \E p \in Places : Move(p) \/ Turn(p)
    \/ \E c \in Choices : Choose(c)

Storage ==
    \/ \E i \in 1 .. MaxInFlight : Reads(i) \/ Writes(i) \/ Fails(i)
    \/ PlaceSaved \/ PlaceRefused \/ ChoiceAnswered

Step == Settle \/ Reader \/ Storage

Spec == Init /\ [][Step]_vars

\* The timer fires, and storage runs and answers every transaction.
FairSpec == Spec /\ WF_vars(Settle) /\ WF_vars(Storage)
-----------------------------------------------------------------------------
(* Properties *)

\* An edit that read the row before a place was written has put the old place back.
Undone(b) == row[b].place # said[b].place

\* The last place the reader went to in a book is in its row, waits for the
\* timer, or is on its way there; or a save was refused, the tab closed on it,
\* an edit put the old place back, or the book was opened again before its last
\* place was written.  (place-keeper.ts schedule, flush and persist,
\* reader-view.svelte.ts open and dispose, flow-view.svelte.ts open and close.)
LastPlaceKept ==
    \A b \in Books :
        \/ row[b].place = reached[b]
        \/ waiting = [book |-> b, place |-> reached[b]]
        \/ \E u \in Unwritten(b, "place") : u.value = reached[b]
        \/ behind[b] # {}
        \/ Undone(b)

\* While a book is open and none of its saves is under way, a keeper that has
\* told no failure believes what the row holds: a place it will not save
\* again is the place stored (place-keeper.ts #alreadyStored and #failed).
KeeperBelievesRow ==
    \A b \in Books :
        (Open(b) /\ ~failing /\ \A i \in DOMAIN updates : updates[i].book # b) =>
            \/ stored \in {row[b].place, None}
            \/ "overtaken" \in behind[b]
            \/ Undone(b)

\* While a book is open and none of its saves is under way, the reader holds the
\* setting of that book's row, though answers for other books and earlier
\* openings come in late (book-preferences.svelte.ts edit).
HeldIsStored ==
    \A b \in Books :
        (Open(b) /\ \A i \in DOMAIN updates : updates[i].book # b) =>
            \/ shown.choice = row[b].choice
            \/ "overtaken" \in behind[b]
            \/ row[b].choice # said[b].choice

\* A place the row does not hold gets there, or there is a reason why not: no
\* save waits for good behind another (indexeddb-opfs-library.repo.ts update).
AllSettle ==
    \A b \in Books :
        (row[b].place # reached[b]) ~>
            (row[b].place = reached[b] \/ behind[b] # {} \/ Undone(b))

\* The setting the reader chose stays in the row until the reader chooses again:
\* reader-view.spec.ts:1019 "saves the page fit even while another write is in
\* flight".
ChoiceKept == \A b \in Books : row[b].choice = said[b].choice
=============================================================================
