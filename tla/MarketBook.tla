----------------------------- MODULE MarketBook -----------------------------
(***************************************************************************)
(* What an order book on the screen promises, whatever brings it there.    *)
(* The book of the exchange is at a version, and each version changes one  *)
(* level.  The book on the screen is the exchange's book at the version    *)
(* shown with it: a snapshot puts it at any version the exchange has had,  *)
(* a difference moves it forward.  A reader that starts anew in the middle *)
(* of the differences has nothing to rely on before its next snapshot.     *)
(***************************************************************************)
EXTENDS Naturals

CONSTANTS
    Levels,       \* price levels
    MaxVersion,   \* bound: versions of the exchange's book
    LevelOf       \* the level each version changes: a function on 1 .. MaxVersion

VARIABLES
    version,    \* of the exchange's book
    shown,      \* version shown on the screen, 0 before the first snapshot
    book,       \* the book on the screen: the version that set each level
    sound       \* the reader has had a snapshot since it started

bookVars == <<version, shown, book, sound>>

Books == [Levels -> 0 .. MaxVersion]
Empty == [l \in Levels |-> 0]

(* The version that set level l, as seen at version n. *)
SetBy(n, l) ==
    LET past == {k \in 1 .. n : LevelOf[k] = l}
    IN  IF past = {} THEN 0 ELSE CHOOSE k \in past : \A j \in past : j <= k

BookAt(n) == [l \in Levels |-> SetBy(n, l)]

Init ==
    /\ version = 1
    /\ shown = 0
    /\ book = Empty
    /\ sound = FALSE

Moves ==
    /\ version' \in version + 1 .. MaxVersion
    /\ UNCHANGED <<shown, book, sound>>

Restarts(n) ==
    /\ n \in 1 .. version
    /\ shown' = n
    /\ book' = BookAt(n)
    /\ sound' \in BOOLEAN
    /\ UNCHANGED version

Follows(n) ==
    /\ sound
    /\ n \in shown + 1 .. version
    /\ shown' = n
    /\ book' = BookAt(n)
    /\ UNCHANGED <<version, sound>>

(* What a reader shows before its first snapshot is not promised. *)
Unpromised ==
    /\ ~sound'
    /\ shown' \in 0 .. version
    /\ book' \in Books
    /\ UNCHANGED version

Next == Moves \/ Unpromised \/ \E n \in 1 .. MaxVersion : Restarts(n) \/ Follows(n)

Spec == Init /\ [][Next]_bookVars
=============================================================================
