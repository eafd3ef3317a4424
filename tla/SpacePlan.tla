------------------------------- MODULE SpacePlan -------------------------------
(***************************************************************************)
(* Will it fit?  planSpace of the server plays the queue of a console      *)
(* forward from the space it last reported (device/space.ts, checkSpace of *)
(* device/service.ts), the page says how much room is short                *)
(* (SendToSwitch.tsx), and the console's installs then find what they find *)
(* (preflight.cpp, engine.cpp).  The three go through the same list of     *)
(* demands, the installs already queued first and the batch after them.    *)
(***************************************************************************)
EXTENDS Integers

CONSTANTS
    Pending,    \* installs already queued for the console
    Batch,      \* installs asked about
    Demands,    \* what each takes, in queue order: bytes and target
    Target,     \* the target of the batch
    Reported,   \* the free bytes of each storage, as the console last reported them
    NoCard      \* ... which may have no SD card, or have reported nothing yet

VARIABLES
    placing,    \* the demand the plan comes to next
    left,       \* what it has left of each storage
    placed,     \* where it put each demand
    used,       \* what the first so many demands took
    adding,     \* the page adds up the batch
    sums,
    running,    \* the install the console comes to next
    free,       \* what is really free there
    came,       \* where each install went
    surprised,  \* history: one so far was not what it had been counted as
    trying,     \* the same demands again, had the room that is short been freed:
    room,       \* what is left then, and where each would go
    tried

planVars == <<placing, left, placed, used>>
sumVars == <<adding, sums>>
consoleVars == <<running, free, came, surprised>>
trialVars == <<trying, room, tried>>
spaceVars == <<placing, left, placed, used, adding, sums, running, free, came, surprised, trying, room, tried>>

Storages == {"sd", "nand"}
Targets == {"auto", "sd", "nand"}
All == Pending + Batch
Bytes(i) == Demands[i].bytes
Nowhere == "none"       \* no room anywhere it may go
Spots == Storages \cup {Nowhere}

SpaceSized ==
    /\ Pending \in Nat /\ Batch \in Nat /\ NoCard \notin Nat /\ Target \in Targets
    /\ Demands \in [1..All -> [bytes : Nat, target : Targets]]
    /\ \A i \in (Pending + 1)..All : Demands[i].target = Target
    /\ Reported \in [Storages -> Nat \cup {NoCard}]
    /\ Reported["nand"] = NoCard => Reported["sd"] = NoCard     \* a report has both

SpaceTypeOK ==
    /\ placing \in 1..(All + 1) /\ adding \in 1..(Batch + 1)
    /\ running \in 1..(All + 1) /\ trying \in 1..(All + 1)
    /\ left \in [Storages -> Nat \cup {NoCard}]
    /\ free \in [Storages -> Nat \cup {NoCard}] /\ free["nand"] # NoCard
    /\ room \in [Storages -> Nat \cup {NoCard}]
    /\ placed \in [1..All -> Spots] /\ came \in [1..All -> Spots] /\ tried \in [1..All -> Spots]
    /\ used \in [0..All -> [Storages -> Nat]] /\ sums \in [0..Batch -> Nat]
    /\ surprised \in BOOLEAN

SpaceInit ==
    /\ placing = 1 /\ left = Reported /\ placed = [i \in 1..All |-> Nowhere]
    /\ used = [i \in 0..All |-> [s \in Storages |-> 0]]
    /\ adding = 1 /\ sums = [j \in 0..Batch |-> 0]
    /\ running = 1 /\ came = [i \in 1..All |-> Nowhere]
    /\ free \in [Storages -> Nat \cup {NoCard}] /\ free["nand"] # NoCard
    /\ surprised = (free # Reported)
    /\ trying = 1 /\ room = Reported /\ tried = [i \in 1..All |-> Nowhere]

--------------------------------------------------------------------------------
(* The plan of the server.                                                      *)

HasRoom(space, s, bytes) == space[s] # NoCard /\ bytes <= space[s]

\* place: auto prefers the SD card; what doesn't fit takes nothing.
Place(space, target, bytes) ==
    IF target = "auto" THEN IF HasRoom(space, "sd", bytes) THEN "sd"
                            ELSE IF HasRoom(space, "nand", bytes) THEN "nand" ELSE Nowhere
    ELSE IF HasRoom(space, target, bytes) THEN target ELSE Nowhere

Taken(space, s, bytes) == [t \in Storages |-> IF t = s THEN space[t] - bytes ELSE space[t]]

PlaceNext ==
    LET s == Place(left, Demands[placing].target, Bytes(placing))
    IN  /\ placing <= All /\ placing' = placing + 1
        /\ placed' = [placed EXCEPT ![placing] = s]
        /\ left' = Taken(left, s, Bytes(placing))
        /\ used' = [used EXCEPT ![placing] =
                       [t \in Storages |-> used[placing - 1][t] + (IF t = s THEN Bytes(placing) ELSE 0)]]
        /\ UNCHANGED <<sumVars, consoleVars, trialVars>>

Planned == placing = All + 1

\* What the answer of checkSpace says of a storage and of an item.
Known == \E s \in Storages : Reported[s] # NoCard
QueuedUse(s) == used[Pending][s]
BatchUse(s) == used[All][s] - used[Pending][s]
ItemFits(j) == Known => placed[Pending + j] # Nowhere
AllFit == \A j \in 1..Batch : ItemFits(j)

--------------------------------------------------------------------------------
(* What the page makes of it.                                                   *)

AddNext ==
    /\ Planned /\ adding <= Batch /\ adding' = adding + 1
    /\ sums' = [sums EXCEPT ![adding] = sums[adding - 1] + Bytes(Pending + adding)]
    /\ UNCHANGED <<planVars, consoleVars, trialVars>>

\* shortOn: with a fixed target, how much has to be freed there for everything to fit.
ShortOn(s) ==
    LET missing == QueuedUse(s) + sums[Batch] - Reported[s]
    IN  IF Reported[s] = NoCard \/ Target # s \/ AllFit \/ missing < 0 THEN 0 ELSE missing

--------------------------------------------------------------------------------
(* The installs of the console.                                                 *)

\* pickStorage, and install's fallback: an auto install that fits nowhere as a whole goes where
\* there is more, since not all of it may have to be written.
Picks(target, need) ==
    IF target # "auto" THEN IF free[target] = NoCard THEN Nowhere ELSE target
    ELSE IF HasRoom(free, "sd", need) THEN "sd"
    ELSE IF HasRoom(free, "nand", need) THEN "nand"
    ELSE IF free["sd"] # NoCard /\ free["sd"] >= free["nand"] THEN "sd" ELSE "nand"

\* An install: need is the size of all its NCAs, missing what is not on the storage yet.
ConsoleInstalls(need, missing) ==
    LET s == Picks(Demands[running].target, need)
        fits == s # Nowhere /\ HasRoom(free, s, missing)
    IN  /\ running < placing /\ running' = running + 1
        /\ came' = [came EXCEPT ![running] = IF fits THEN s ELSE Nowhere]
        /\ free' = IF fits THEN Taken(free, s, missing) ELSE free
        /\ surprised' = (surprised \/ need # Bytes(running) \/ missing # Bytes(running))
        /\ UNCHANGED <<planVars, sumVars, trialVars>>

\* Titles are removed or moved, something else is written, the card is taken out.
SpaceMoves(s, now) ==
    /\ s = "nand" => now # NoCard
    /\ free' = [free EXCEPT ![s] = now] /\ surprised' = TRUE
    /\ UNCHANGED <<running, came, planVars, sumVars, trialVars>>

--------------------------------------------------------------------------------
(* A trial: had the person freed what the page says is short, and nothing else. *)

Summed == Planned /\ adding = Batch + 1

\* The room there would be.
Freed == [s \in Storages |-> IF s = Target /\ Reported[s] # NoCard THEN Reported[s] + ShortOn(s) ELSE Reported[s]]

TryNext ==
    LET before == IF trying = 1 THEN Freed ELSE room
        s == Place(before, Demands[trying].target, Bytes(trying))
    IN  /\ Summed /\ trying <= All /\ trying' = trying + 1
        /\ tried' = [tried EXCEPT ![trying] = s]
        /\ room' = Taken(before, s, Bytes(trying))
        /\ UNCHANGED <<planVars, sumVars, consoleVars>>

--------------------------------------------------------------------------------
SpaceNext ==
    \/ PlaceNext \/ AddNext \/ TryNext
    \/ \E need, missing \in Nat : ConsoleInstalls(need, missing)
    \/ \E s \in Storages, now \in Nat \cup {NoCard} : SpaceMoves(s, now)

SpaceSpec == SpaceInit /\ [][SpaceNext]_spaceVars

--------------------------------------------------------------------------------
(* Properties.                                                                  *)

\* What the page draws is what there is: on each storage the installs already queued and those of
\* the batch take no more together than the console reported, and nothing where nothing is known.
NothingIsTakenTwice ==
    \A s \in Storages :
        /\ Reported[s] = NoCard => used[placing - 1][s] = 0
        /\ Reported[s] # NoCard => used[placing - 1][s] <= Reported[s] /\ left[s] = Reported[s] - used[placing - 1][s]

\* "Plays the queue forward the way the Switch will": as long as every install up to now was what it
\* had been counted as and nothing else moved, each went where the plan put it, or failed as planned.
\* (A surprise in either direction spoils all that follow: a title partly there leaves room, but one
\* that was to fail and fits after all takes it.)
PlanComesTrue == ~surprised => \A i \in 1..(running - 1) : came[i] = placed[i]

\* An install that was queued and does not fit, or goes elsewhere once there is room.
Unsettled(i) == placed[i] = Nowhere \/ (Target = "sd" /\ Demands[i].target = "auto" /\ placed[i] = "nand")

\* What the page says is short is enough: with that much freed and no more the whole batch fits -
\* unless an install queued before it would then take the room.
ShortIsEnough ==
    Target # "auto" /\ Reported[Target] # NoCard /\ (\A i \in 1..Pending : ~Unsettled(i)) =>
        \A i \in (Pending + 1)..(trying - 1) : tried[i] = Target
================================================================================
