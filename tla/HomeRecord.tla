----------------------------- MODULE HomeRecord -----------------------------
(***************************************************************************)
(* What the HOME menu should see of one game, whatever the app does to its *)
(* record underneath: titles are listed, unlisted and relocated one at a   *)
(* time, a newer copy of a title takes the place of the older, and only    *)
(* the whole game ever goes at once.                                       *)
(***************************************************************************)
EXTENDS FiniteSets

CONSTANTS
    Base,       \* the game itself
    Patches,    \* versions of its update: one title id between them
    Storages    \* SD card and internal storage

Titles == {Base} \cup Patches
SameId(t, u) == t = u \/ {t, u} \subseteq Patches
Copies == [t : Titles, at : Storages]

VARIABLE listed     \* the copies the record names

List(c) == listed' = {r \in listed : ~SameId(r.t, c.t)} \cup {c}
Unlist(c) == c \in listed /\ listed' = listed \ {c}
Relocate(c, to) == c \in listed /\ listed' = (listed \ {c}) \cup {[c EXCEPT !.at = to]}
DropGame == listed' = {}

HomeInit == listed = {}
HomeNext ==
    \/ \E c \in Copies : List(c) \/ Unlist(c) \/ \E to \in Storages : Relocate(c, to)
    \/ DropGame
HomeSpec == HomeInit /\ [][HomeNext]_listed
=============================================================================
