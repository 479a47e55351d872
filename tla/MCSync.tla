-------------------------------- MODULE MCSync --------------------------------
EXTENDS SyncProperties

CONSTANTS tag1, book1, place1, capture1

NoClockAhead == [d \in Device |-> 0]
AllLegible == [d \in Device |-> {}]
LastIllegible == [d \in Device |-> IF d = 2 THEN {2} ELSE {}]

KindOf == [r \in Record |-> CASE r = book1 -> "book" [] r = place1 -> "position"
                              [] r = capture1 -> "capture" [] OTHER -> "tag"]
BookOfEach == [r \in Record |-> IF r = tag1 THEN r ELSE book1]
===============================================================================
