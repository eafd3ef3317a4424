------------------------------ MODULE EventLog ------------------------------
(***************************************************************************)
(* The server's in-memory event log (class DeviceEventLog), as a value     *)
(* with the operations the rest of the server applies to it.               *)
(*                                                                         *)
(* A log is a record: `head` is the last id handed out (#nextId - 1),      *)
(* `first` the oldest id still retained and `at` the retained entries, a   *)
(* function on first..head.  Each entry names its device, or AllDevices    *)
(* where the source stores a null deviceId (a catalog change).             *)
(***************************************************************************)
EXTENDS Integers, Sequences

CONSTANTS
    Devices,      \* the paired consoles
    AllDevices,   \* the addressee of an event meant for every console
    MaxEvents     \* how many entries the log retains (2000 in the source)

ASSUME AllDevicesAssumption == AllDevices \notin Devices
ASSUME MaxEventsAssumption == MaxEvents \in Nat \ {0}

-----------------------------------------------------------------------------

(* A server that has just started. *)
EmptyLog == [first |-> 1, head |-> 0, at |-> <<>>]

(* Faulty variant of Appended: the trim drops one entry too many. *)
OvertrimmedLog(log, batch) ==
    LET h == log.head + Len(batch)
        f == IF h - log.first + 1 >= MaxEvents
             THEN h - MaxEvents + 2
             ELSE log.first
    IN  [first |-> f, head |-> h,
         at |-> [i \in f..h |->
                   IF i <= log.head THEN log.at[i] ELSE batch[i - log.head]]]

(* append() for each element of the sequence `batch`, in order: consecutive
   ids, and the oldest entries dropped beyond MaxEvents. *)
Appended(log, batch) ==
    LET h == log.head + Len(batch)
        f == IF h - log.first + 1 > MaxEvents
             THEN h - MaxEvents + 1
             ELSE log.first
    IN  [first |-> f, head |-> h,
         at |-> [i \in f..h |->
                   IF i <= log.head THEN log.at[i] ELSE batch[i - log.head]]]

VisibleTo(entry, d) == entry.dev \in {d, AllDevices}

(* since(d, cursor): the ids of the retained entries addressed to d after the
   cursor.  Ids order the entries, so the set stands for the list. *)
Since(log, d, cursor) ==
    {i \in log.first..log.head : i > cursor /\ VisibleTo(log.at[i], d)}

(* Faulty variant of MustResync: the gap test is off by one. *)
ResyncOffByOne(log, d, cursor) ==
    LET shown == Since(log, d, -1) IN
    \/ cursor > log.head
    \/ shown # {} /\ cursor # 0 /\ \A i \in shown : cursor < i - 2

(* pollEvents' test that the log no longer covers a cursor: the cursor is
   ahead of the log, or older than the oldest entry this device can see. *)
MustResync(log, d, cursor) ==
    LET shown == Since(log, d, -1) IN
    \/ cursor > log.head
    \/ shown # {} /\ cursor # 0 /\ \A i \in shown : cursor < i - 1

(* toResponse's cursor: the last id returned, or the caller's own cursor. *)
NextCursor(ids, cursor) ==
    IF ids = {} THEN cursor
    ELSE CHOOSE i \in ids : \A k \in ids : k <= i

(* The shape every log keeps: consecutive ids up to the head, of which exactly
   the newest MaxEvents (or all, while they are fewer) are retained. *)
LogOK(log) ==
    /\ log.head \in Nat
    /\ log.first = (IF log.head > MaxEvents THEN log.head - MaxEvents + 1 ELSE 1)
    /\ DOMAIN log.at = log.first..log.head
    /\ \A i \in DOMAIN log.at : log.at[i].dev \in Devices \cup {AllDevices}

=============================================================================
