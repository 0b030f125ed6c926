----------------------------- MODULE RecordBook -----------------------------
(***************************************************************************)
(* What a directory of call records promises, whatever its files look      *)
(* like: a record is either kept or missed, this is decided once, a record *)
(* that is missed never turns up later, and one that is kept stays, unless *)
(* the machine itself goes down.                                           *)
(***************************************************************************)
CONSTANT Calls   \* calls that leave a record

VARIABLES
    kept,        \* calls whose record can be read
    missed       \* calls whose record never will be
book == <<kept, missed>>

Init ==
    /\ kept = {}
    /\ missed = {}

Keep(c) ==
    /\ c \notin kept \cup missed
    /\ kept' = kept \cup {c}
    /\ UNCHANGED missed

\* Tasks give up, or die with their process.
Miss ==
    /\ UNCHANGED kept
    /\ missed' \in SUBSET (Calls \ kept)
    /\ missed \subseteq missed'

\* Nothing is synced, so the machine may forget what was kept.
GoesDown ==
    /\ kept' \in SUBSET kept
    /\ missed' \in SUBSET (Calls \ kept')
    /\ missed \cup (kept \ kept') \subseteq missed'

Next == (\E c \in Calls : Keep(c)) \/ Miss \/ GoesDown

Spec == Init /\ [][Next]_book
=============================================================================
