---------------------------- MODULE DeviceEvents ----------------------------
(***************************************************************************)
(* Consoles following the server's event log: DeviceEventLog together with *)
(* pollEvents, seen from both ends.                                        *)
(*                                                                         *)
(* A console keeps a cursor and sends it with every poll.  The server      *)
(* answers with the events after the cursor, or with a resync (the jobs    *)
(* that wait for the console, and a fresh cursor) when the log no longer   *)
(* covers the cursor, or holds the request until an event arrives.  The    *)
(* log is in memory: a server restart starts its ids again from 1 while    *)
(* the consoles keep their cursors.                                        *)
(*                                                                         *)
(* `owed`, `missed` and `skipped` are history variables: which events a    *)
(* console has not been told of, and which an answer jumped over.          *)
(***************************************************************************)
EXTENDS EventLog, FiniteSets

CONSTANTS
    MaxHead,      \* bound: events appended during one run of the server
    MaxRestarts   \* bound: server restarts

ASSUME BoundsAssumption == MaxHead \in Nat /\ MaxRestarts \in Nat

VARIABLES
    log,        \* the server's event log
    waiting,    \* consoles with a long poll held in #waiters
    cursor,     \* each console's cursor, NoCursor before its first answer
    oldRun,     \* the cursor was handed out by an earlier run of the server
    owed,       \* ids of this run's events the console has not been told of
    missed,     \* the console was not told of some event of an earlier run
    skipped,    \* ids of events an answer moved the cursor past untold
    restarts

vars == <<log, waiting, cursor, oldRun, owed, missed, skipped, restarts>>

NoCursor == -1
Ids == 1..MaxHead

-----------------------------------------------------------------------------

Init ==
    /\ log = EmptyLog
    /\ waiting = {}
    /\ cursor = [d \in Devices |-> NoCursor]
    /\ oldRun = [d \in Devices |-> FALSE]
    /\ owed = [d \in Devices |-> {}]
    /\ missed = [d \in Devices |-> FALSE]
    /\ skipped = [d \in Devices |-> {}]
    /\ restarts = 0

(* What console d has left to learn once an answer with the entries `ids` *)
(* moved its cursor to c.                                                  *)
StillOwed(d, ids, c) == {i \in owed[d] \ ids : i > c}
PassedOver(d, ids, c) == {i \in owed[d] \ ids : i <= c}

(* The consoles in `got` receive the entries `ids[d]`. *)
Told(got, ids) ==
    LET c(d) == NextCursor(ids[d], cursor[d]) IN
    /\ cursor' = [d \in Devices |-> IF d \in got THEN c(d) ELSE cursor[d]]
    /\ oldRun' = [d \in Devices |->
                    IF d \in got /\ ids[d] # {} THEN FALSE ELSE oldRun[d]]
    /\ skipped' = [d \in Devices |->
                    IF d \in got THEN skipped[d] \cup PassedOver(d, ids[d], c(d))
                    ELSE skipped[d]]

(* pollEvents answered from the log: cursor known and covered. *)
PlainAnswer(d) ==
    LET ids == Since(log, d, cursor[d]) IN
    /\ d \notin waiting
    /\ cursor[d] # NoCursor
    /\ ~MustResync(log, d, cursor[d])
    /\ ids # {}
    /\ Told({d}, [e \in Devices |-> ids])
    /\ owed' = [owed EXCEPT ![d] = StillOwed(d, ids, NextCursor(ids, cursor[d]))]
    /\ UNCHANGED <<log, waiting, missed, restarts>>

(* pollEvents answered with a resync: the waiting jobs and the log's head. *)
ResyncAnswer(d) ==
    /\ d \notin waiting
    /\ cursor[d] = NoCursor \/ MustResync(log, d, cursor[d])
    /\ cursor' = [cursor EXCEPT ![d] = log.head]
    /\ oldRun' = [oldRun EXCEPT ![d] = FALSE]
    /\ owed' = [owed EXCEPT ![d] = {}]
    /\ missed' = [missed EXCEPT ![d] = FALSE]
    /\ skipped' = [skipped EXCEPT ![d] = {}]
    /\ UNCHANGED <<log, waiting, restarts>>

(* wait() with nothing to report: the request is held. *)
HoldPoll(d) ==
    /\ d \notin waiting
    /\ cursor[d] # NoCursor
    /\ ~MustResync(log, d, cursor[d])
    /\ Since(log, d, cursor[d]) = {}
    /\ waiting' = waiting \cup {d}
    /\ UNCHANGED <<log, cursor, oldRun, owed, missed, skipped, restarts>>

(* The timer of a held poll fires or its request is aborted: the console
   hears of nothing and keeps its cursor. *)
ReleasePoll(d) ==
    /\ d \in waiting
    /\ waiting' = waiting \ {d}
    /\ UNCHANGED <<log, cursor, oldRun, owed, missed, skipped, restarts>>

(* Faulty variant of Concerned: a held poll is matched on the exact device,
   so a catalog change resolves none. *)
ConcernedByName(entry, d) == entry.dev = d

(* append's test that an entry concerns a waiter. *)
Concerned(entry, d) == VisibleTo(entry, d)

(* append(): the entry joins the log and every held poll it concerns is
   answered with that one entry.  Some of those answers are lost on the way
   (`got` are the ones that arrive). *)
AppendEvent(to) ==
    LET id == log.head + 1
        entry == [dev |-> to]
        resolved == {d \in waiting : Concerned(entry, d) /\ id > cursor[d]}
        concerned == {d \in Devices : VisibleTo(entry, d) /\ cursor[d] # NoCursor}
    IN
    /\ log.head < MaxHead
    /\ log' = Appended(log, <<entry>>)
    /\ waiting' = waiting \ resolved
    /\ \E got \in SUBSET resolved :
         /\ Told(got, [d \in Devices |-> {id}])
         /\ owed' = [d \in Devices |->
                       IF d \in got THEN StillOwed(d, {id}, id)
                       ELSE IF d \in concerned THEN owed[d] \cup {id}
                       ELSE owed[d]]
    /\ UNCHANGED <<missed, restarts>>

(* The console starts a new session and forgets its cursor. *)
NewSession(d) ==
    /\ cursor[d] # NoCursor
    /\ waiting' = waiting \ {d}
    /\ cursor' = [cursor EXCEPT ![d] = NoCursor]
    /\ oldRun' = [oldRun EXCEPT ![d] = FALSE]
    /\ owed' = [owed EXCEPT ![d] = {}]
    /\ missed' = [missed EXCEPT ![d] = FALSE]
    /\ skipped' = [skipped EXCEPT ![d] = {}]
    /\ UNCHANGED <<log, restarts>>

(* The server stops and starts: the log and the held polls are gone, the
   consoles' cursors are not. *)
Restart ==
    /\ restarts < MaxRestarts
    /\ restarts' = restarts + 1
    /\ log' = EmptyLog
    /\ waiting' = {}
    /\ oldRun' = [d \in Devices |-> cursor[d] # NoCursor]
    /\ missed' = [d \in Devices |-> missed[d] \/ owed[d] # {}]
    /\ owed' = [d \in Devices |-> {}]
    /\ skipped' = [d \in Devices |-> {}]
    /\ UNCHANGED cursor

Next ==
    \/ Restart
    \/ \E to \in Devices \cup {AllDevices} : AppendEvent(to)
    \/ \E d \in Devices :
         \/ PlainAnswer(d)
         \/ ResyncAnswer(d)
         \/ HoldPoll(d)
         \/ ReleasePoll(d)
         \/ NewSession(d)

Spec == Init /\ [][Next]_vars

-----------------------------------------------------------------------------

(* Types, and the shape of the log: consecutive ids, the newest MaxEvents
   entries retained (DeviceEventLog.append). *)
TypeOK ==
    /\ LogOK(log)
    /\ log.head <= MaxHead
    /\ waiting \subseteq Devices
    /\ cursor \in [Devices -> 0..MaxHead \cup {NoCursor}]
    /\ oldRun \in [Devices -> BOOLEAN]
    /\ owed \in [Devices -> SUBSET Ids]
    /\ missed \in [Devices -> BOOLEAN]
    /\ skipped \in [Devices -> SUBSET Ids]
    /\ restarts \in 0..MaxRestarts

(* The cases in which pollEvents cannot see that the log has moved past a
   cursor: a cursor of 0 is never taken for a stale one, a device that sees no
   retained entry has no oldest entry to compare with, and a cursor of an
   earlier run is only noticed while it is ahead of the log. *)
Blind(d) == cursor[d] = 0 \/ oldRun[d] \/ Since(log, d, -1) = {}

(* Nothing a console has not been told of is out of its reach: the next poll
   either returns it or resyncs, unless the cursor is one of the blind ones.
   (DeviceEventLog.append's trim against pollEvents' gap test.) *)
OwedIsDeliverable ==
    \A d \in Devices :
        \/ cursor[d] = NoCursor
        \/ owed[d] \subseteq Since(log, d, cursor[d])
        \/ MustResync(log, d, cursor[d])
        \/ Blind(d)

(* An answer moves a console's cursor past an event it does not carry only
   from a blind cursor: with any other one trimming the log never makes a
   console lose an event, whatever the order of its polls, held polls and
   lost answers.  (pollEvents, DeviceEventLog.wait and append together.) *)
SkipsOnlyFromBlindCursor ==
    [][\A d \in Devices : skipped'[d] \subseteq skipped[d] \/ Blind(d)]_vars

(* A poll is held only while there is nothing to tell: once an event for the
   console is in the log no held request of it may sleep on. *)
NoHeldPollMissesEvents ==
    \A d \in waiting : Since(log, d, cursor[d]) = {}

(* What docs/device-api.md says of GET /events: a cursor the log no longer
   covers, "e.g. after a server restart", gets a resync.  A console whose
   cursor predates the restart and that owes anything must therefore be
   resynced by its next poll. *)
RestartForcesResync ==
    \A d \in Devices :
        oldRun[d] /\ (missed[d] \/ ~(owed[d] \subseteq Since(log, d, cursor[d])))
            => MustResync(log, d, cursor[d])

=============================================================================
