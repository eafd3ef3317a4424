--------------------------- MODULE InstallSystem ----------------------------
(***************************************************************************)
(* The install queue end to end: the server's job table and event log      *)
(* (JobTable) and one console running NSLibrary (class Session) over HTTP. *)
(*                                                                         *)
(* The console's work is done on one thread.  While idle it polls the      *)
(* event log; while it installs, a side tick reports progress and then     *)
(* polls on a second connection.  The events of an answer are handled one  *)
(* by one, each with its own request to the server, and anything may       *)
(* happen on the server between two requests.  A request may be lost on    *)
(* its way in (no effect) or its answer on the way back (the effect took   *)
(* place); the console cannot tell which.                                  *)
(*                                                                         *)
(* Left to DeviceApi and DeviceEvents: the gap between a request's         *)
(* authentication and its handler, reorderJobs, the purge of the history   *)
(* and catalog changes.                                                    *)
(***************************************************************************)
EXTENDS JobTable

CONSTANTS
    Console,      \* the device that is modelled on both sides
    MaxBatch,     \* bound: titles of one "Send to Switch"
    MaxResumes,   \* bound: installs resumed from the web
    MaxLosses,    \* bound: requests or answers lost on the network
    MaxCrashes,   \* bound: the app crashes or is closed
    MaxRestarts,  \* bound: restarts of the server
    MaxRevokes,   \* bound: revokes of the console
    MaxSpent      \* bound: resumes and faults taken together

ASSUME ConsoleAssumption == Console \in Devices

VARIABLES
    up,         \* ready_: a session is open and events are scheduled
    cursor,     \* eventCursor_, NoCursor when empty
    current,    \* currentJob_ while installing_, NoJob otherwise
    phase,      \* how far the current install is
    cancel,     \* cancel_
    pending,    \* pending_: claimed jobs waiting for the current one
    unsent,     \* unsentCompletes_
    shown,      \* jobs_ entries the Queue tab offers to start
    page,       \* job events of the last answer still to be handled
    step,       \* what the thread does now
    installed,  \* history: jobs whose content was installed
    spent       \* how many faults and resumes of each kind happened

sessionVars == <<up, cursor>>
installVars == <<current, phase, cancel, pending>>
inboxVars == <<page, step>>
vars == <<tableVars, sessionVars, installVars, inboxVars, unsent, shown,
          installed, spent>>

NoCursor == -1
NoJob == 0
Jobs == 1..MaxJobs

(* idle: nothing is installed.  starting: pump has picked the job and its
   first progress callback is still to come.  busy: the engine runs.
   ok, failed, cancelled: it ended so and the server is not told yet.
   success, failure: the result is on screen. *)
Phases == {"idle", "starting", "busy", "ok", "failed", "cancelled",
           "success", "failure"}
Ended == {"ok", "failed", "cancelled"}

(* rest: between two ticks.  poll: a side tick has reported and asks for
   events.  events, claim: `page` is being handled, after a poll or for a
   choice made in the UI.  flush: unsentCompletes_ is being sent. *)
Steps == {"rest", "poll", "events", "claim", "flush"}

Budget == [loss |-> MaxLosses, crash |-> MaxCrashes, restart |-> MaxRestarts,
           revoke |-> MaxRevokes, resume |-> MaxResumes]

Spend(kind) ==
    /\ spent[kind] < Budget[kind]
    /\ spent.loss + spent.crash + spent.restart + spent.revoke + spent.resume
         < MaxSpent
    /\ spent' = [spent EXCEPT ![kind] = @ + 1]

-----------------------------------------------------------------------------

Authorised == Console \notin revoked
Installing == phase # "idle"
Waiting == {pending[i] : i \in DOMAIN pending}
Holds(j) == (Installing /\ current = j) \/ j \in Waiting
Owes(j) == \E i \in DOMAIN unsent : unsent[i].job = j

Init ==
    /\ TableInit
    /\ up = FALSE
    /\ cursor = NoCursor
    /\ current = NoJob
    /\ phase = "idle"
    /\ cancel = FALSE
    /\ pending = <<>>
    /\ unsent = <<>>
    /\ shown = {}
    /\ page = <<>>
    /\ step = "rest"
    /\ installed = {}
    /\ spent = [kind \in DOMAIN Budget |-> 0]

(* pump: the first job of the queue becomes the current one. *)
PumpFrom(queue) ==
    IF queue = <<>>
    THEN /\ current' = NoJob
         /\ phase' = "idle"
         /\ pending' = <<>>
         /\ UNCHANGED cancel
    ELSE /\ current' = Head(queue)
         /\ phase' = "starting"
         /\ pending' = Tail(queue)
         /\ cancel' = FALSE

(* Faulty variant of EnqueueClaimed: it queues and leaves the start to the
   end of the install before. *)
EnqueueWithoutPump(j) ==
    /\ pending' = Append(pending, j)
    /\ UNCHANGED <<current, phase, cancel>>

EnqueueClaimed(j) ==
    IF Installing
    THEN /\ pending' = Append(pending, j)
         /\ UNCHANGED <<current, phase, cancel>>
    ELSE PumpFrom(Append(pending, j))

(* Faulty variant of AfterEvents: unsent completions are left alone. *)
NothingAfterEvents(owed) == "rest"

(* pollEventsOnce and sideChannelTick end with flushCompletes. *)
AfterEvents(owed) == IF owed # <<>> THEN "flush" ELSE "rest"

(* The next event of the page, or what follows the last one: the requests of
   the UI are not followed by a flush. *)
NextEvent ==
    /\ page' = Tail(page)
    /\ step' = IF page' # <<>> THEN step
               ELSE IF step = "events" THEN AfterEvents(unsent')
               ELSE "rest"

(* A completion reaches the server: accepted, or refused with an ApiError
   that the console logs and drops. *)
CompleteAnswered(j, ok) ==
    /\ IF Authorised /\ j \in JobsOf(Console) /\ HasStatus(j, Reportable)
       THEN Complete(Console, j, ok)
       ELSE UNCHANGED tableVars
    /\ UNCHANGED spent

(* It is lost, or its answer is. *)
CompleteLost(j, ok) ==
    /\ Spend("loss")
    /\ UNCHANGED tableVars \/ (Authorised /\ Complete(Console, j, ok))

-----------------------------------------------------------------------------
(* The session *)

(* start: hello, which sweeps what this console left behind, then events
   from no cursor.  The catalog is refreshed in between. *)
StartSession ==
    /\ ~up
    /\ Authorised
    /\ InterruptStaleJobs({Console}, NewSessionAge)
    /\ \/ up' = TRUE /\ UNCHANGED spent
       \/ up' = FALSE /\ Spend("loss")
    /\ UNCHANGED <<cursor, installVars, inboxVars, unsent, shown, installed>>

(* The members of S in the order `before`. *)
InOrder(S, before) ==
    {list \in [1..Cardinality(S) -> S] :
        \A i, k \in DOMAIN list : i < k => <<list[i], list[k]>> \in before}

(* since(): the events after the cursor, oldest first. *)
LaterEvents ==
    LET ids == Since(log, Console, cursor)
        older == {pair \in ids \X ids : pair[1] < pair[2]}
    IN  {[cursor |-> NextCursor(ids, cursor), ev |-> [i \in DOMAIN list |-> log.at[list[i]]]] :
            list \in InOrder(ids, older)}

(* #resyncEvents: the jobs that wait for the console, in queue order. *)
WaitingJobs ==
    LET waits == {j \in JobsOf(Console) : HasStatus(j, {"queued", "interrupted"})}
        earlier == {pair \in waits \X waits :
                      LET a == pair[1]  b == pair[2] IN
                      \/ jobs[a].position < jobs[b].position
                      \/ jobs[a].position = jobs[b].position /\ a < b}
    IN  {[cursor |-> log.head, ev |-> [i \in DOMAIN list |-> Queued(Console, list[i])]] :
            list \in InOrder(waits, earlier)}

(* Faulty variant of PollAnswers: a resync answers with no waiting jobs. *)
PollsWithoutResync ==
    IF cursor = NoCursor \/ MustResync(log, Console, cursor)
    THEN {[cursor |-> log.head, ev |-> <<>>]}
    ELSE LaterEvents

(* pollEvents(wait = 0) for this console: the answer, as a set of one. *)
PollAnswers ==
    IF cursor = NoCursor \/ MustResync(log, Console, cursor) THEN WaitingJobs ELSE LaterEvents

(* pollEventsOnce, or the second half of a side tick.  A side tick starts
   with its poll while the install has no progress to report. *)
Poll ==
    /\ up
    /\ \/ step = "poll"
       \/ step = "rest" /\ phase \in {"idle", "starting", "success", "failure"}
    /\ Authorised
    /\ \E answer \in PollAnswers : cursor' = answer.cursor /\ page' = answer.ev
    /\ step' = IF page' # <<>> THEN "events" ELSE AfterEvents(unsent)
    /\ UNCHANGED <<tableVars, up, installVars, unsent, shown, installed, spent>>

(* The second half of a side tick fails: the tick is over.  (A poll that
   fails while idle changes nothing.) *)
SidePollFails ==
    /\ step = "poll"
    /\ step' = "rest"
    /\ UNCHANGED <<tableVars, sessionVars, installVars, page, unsent, shown,
                   installed>>

SidePollRefused == ~Authorised /\ SidePollFails /\ UNCHANGED spent
SidePollLost == SidePollFails /\ Spend("loss")

(* An idle poll is refused: forgetDevice, and the session stops. *)
ForgetDevice ==
    /\ up
    /\ step = "rest"
    /\ phase = "idle"
    /\ ~Authorised
    /\ up' = FALSE
    /\ cursor' = NoCursor
    /\ cancel' = TRUE
    /\ UNCHANGED <<tableVars, current, phase, pending, inboxVars, unsent, shown,
                   installed, spent>>

(* The first half of a side tick: progress of the current job.  A report the
   server refuses ends the tick before it polls, and changes nothing. *)
SideReport ==
    /\ step = "rest"
    /\ phase = "busy"
    /\ Authorised
    /\ Progress(Console, current)
    /\ \/ step' = "poll" /\ UNCHANGED spent
       \/ step' = "rest" /\ Spend("loss")
    /\ UNCHANGED <<sessionVars, installVars, page, unsent, shown, installed>>

-----------------------------------------------------------------------------
(* Events *)

(* Faulty variant of ClaimAndInstall's test: only the current job counts. *)
HoldsCurrentOnly(j) == Installing /\ current = j

(* claimAndInstall's test for a job this console already has. *)
AlreadyHeld(j) == Holds(j)

(* claimAndInstall for a job.queued event or a job chosen in the UI. *)
ClaimAndInstall(j) ==
    /\ step \in {"events", "claim"}
    /\ page # <<>>
    /\ Head(page) = Queued(Console, j)
    /\ UNCHANGED unsent
    /\ NextEvent
    /\ \/ \* the console has it: only its entry in the Queue tab changes
          /\ AlreadyHeld(j)
          /\ shown' = shown \cup {j}
          /\ UNCHANGED <<tableVars, installVars, spent>>
       \/ \* claimed
          /\ ~AlreadyHeld(j)
          /\ Authorised
          /\ ClaimJob(Console, j)
          /\ EnqueueClaimed(j)
          /\ shown' = shown \ {j}
          /\ UNCHANGED spent
       \/ \* refused: the event is gone, the entry stays
          /\ ~AlreadyHeld(j)
          /\ ~(Authorised /\ HasStatus(j, {"queued", "interrupted"}))
          /\ shown' = shown \cup {j}
          /\ UNCHANGED <<tableVars, installVars, spent>>
       \/ \* the request or its answer is lost: as for a refusal
          /\ ~AlreadyHeld(j)
          /\ Spend("loss")
          /\ UNCHANGED tableVars \/ (Authorised /\ ClaimJob(Console, j))
          /\ shown' = shown \cup {j}
          /\ UNCHANGED installVars
    /\ UNCHANGED <<sessionVars, installed>>

(* The first entry of j in pending_ is erased. *)
DropWaiting(j) ==
    \E i \in DOMAIN pending :
        /\ pending[i] = j /\ \A k \in 1..(i - 1) : pending[k] # j
        /\ pending' = [k \in 1..(Len(pending) - 1) |-> IF k < i THEN pending[k] ELSE pending[k + 1]]

(* cancelJob for a job.cancel event: the running install is told to stop, a
   waiting one is dropped and reported as cancelled. *)
CancelEvent(j) ==
    /\ step = "events"
    /\ page # <<>>
    /\ Head(page) = Cancelled(Console, j)
    /\ cancel' = (cancel \/ (Installing /\ current = j))
    /\ shown' = shown \ {j}
    /\ \/ /\ j \notin Waiting
          /\ UNCHANGED <<tableVars, pending, unsent, spent>>
       \/ /\ DropWaiting(j)
          /\ CompleteAnswered(j, FALSE)
          /\ UNCHANGED unsent
       \/ /\ DropWaiting(j)
          /\ CompleteLost(j, FALSE)
          /\ unsent' = Append(unsent, [job |-> j, ok |-> FALSE])
    /\ NextEvent
    /\ UNCHANGED <<sessionVars, current, phase, installed>>

(* flushCompletes: one completion; the first that is lost ends the round. *)
Flush ==
    /\ step = "flush"
    /\ \/ /\ CompleteAnswered(Head(unsent).job, Head(unsent).ok)
          /\ unsent' = Tail(unsent)
          /\ step' = IF Len(unsent) > 1 THEN "flush" ELSE "rest"
       \/ /\ CompleteLost(Head(unsent).job, Head(unsent).ok)
          /\ UNCHANGED unsent
          /\ step' = "rest"
    /\ UNCHANGED <<sessionVars, installVars, page, shown, installed>>

-----------------------------------------------------------------------------
(* The install *)

(* The engine's first progress callback. *)
FirstProgress ==
    /\ step = "rest"
    /\ phase = "starting"
    /\ phase' = "busy"
    /\ UNCHANGED <<tableVars, sessionVars, current, cancel, pending, inboxVars,
                   unsent, shown, installed, spent>>

(* Faulty variant of InstallEnds: a cancelled engine returns normally. *)
InstallEndsQuietly ==
    /\ step = "rest"
    /\ phase \in {"starting", "busy"}
    /\ \/ phase' = "ok" /\ installed' = installed \cup {current}
       \/ phase' = "failed" /\ UNCHANGED installed
       \/ cancel /\ phase' = "ok" /\ UNCHANGED installed
    /\ UNCHANGED <<tableVars, sessionVars, current, cancel, pending, inboxVars,
                   unsent, shown, spent>>

(* engine.install returns, or throws.  A cancel that comes after the engine's
   last look at the flag does not stop it. *)
InstallEnds ==
    /\ step = "rest"
    /\ phase \in {"starting", "busy"}
    /\ \/ phase' = "ok" /\ installed' = installed \cup {current}
       \/ phase' = "failed" /\ UNCHANGED installed
       \/ cancel /\ phase' = "cancelled" /\ UNCHANGED installed
    /\ UNCHANGED <<tableVars, sessionVars, current, cancel, pending, inboxVars,
                   unsent, shown, spent>>

(* Faulty variant of SendComplete: an answer that does not arrive is taken
   for a refusal. *)
SendCompleteOnce ==
    /\ step = "rest"
    /\ phase \in Ended
    /\ \/ CompleteAnswered(current, phase = "ok")
       \/ CompleteLost(current, phase = "ok")
    /\ UNCHANGED unsent
    /\ shown' = shown \ {current}
    /\ CASE phase = "ok" -> phase' = "success" /\ UNCHANGED <<current, cancel, pending>>
         [] phase = "failed" -> phase' = "failure" /\ UNCHANGED <<current, cancel, pending>>
         [] OTHER -> PumpFrom(pending)
    /\ UNCHANGED <<sessionVars, inboxVars, installed>>

(* runInstall reports the outcome.  A cancelled install is over at once, the
   others show their result first. *)
SendComplete ==
    /\ step = "rest"
    /\ phase \in Ended
    /\ \/ /\ CompleteAnswered(current, phase = "ok")
          /\ UNCHANGED unsent
       \/ /\ CompleteLost(current, phase = "ok")
          /\ unsent' = Append(unsent, [job |-> current, ok |-> phase = "ok"])
    /\ shown' = shown \ {current}
    /\ CASE phase = "ok" -> phase' = "success" /\ UNCHANGED <<current, cancel, pending>>
         [] phase = "failed" -> phase' = "failure" /\ UNCHANGED <<current, cancel, pending>>
         [] OTHER -> PumpFrom(pending)
    /\ UNCHANGED <<sessionVars, inboxVars, installed>>

(* The result goes: by itself after a success, at a button press after
   either.  The next waiting job starts. *)
ResultGoes(shownResult) ==
    /\ step = "rest"
    /\ phase = shownResult
    /\ PumpFrom(pending)
    /\ UNCHANGED <<tableVars, sessionVars, inboxVars, unsent, shown, installed,
                   spent>>

-----------------------------------------------------------------------------
(* The person at the console *)

(* queueInstall: the job is created, then claimed by the next step. *)
InstallFromConsole ==
    /\ up
    /\ step = "rest"
    /\ phase = "idle"
    /\ Authorised
    /\ CreateJobFromDevice(Console)
    /\ \/ /\ page' = <<Queued(Console, nextId)>>
          /\ step' = "claim"
          /\ UNCHANGED spent
       \/ /\ Spend("loss")
          /\ UNCHANGED inboxVars
    /\ UNCHANGED <<sessionVars, installVars, unsent, shown, installed>>

(* The Queue tab's "start now". *)
StartFromQueueTab(j) ==
    /\ up
    /\ step = "rest"
    /\ phase = "idle"
    /\ j \in shown
    /\ page' = <<Queued(Console, j)>>
    /\ step' = "claim"
    /\ UNCHANGED <<tableVars, sessionVars, installVars, unsent, shown, installed,
                   spent>>

(* B on the progress screen. *)
CancelFromConsole ==
    /\ step = "rest"
    /\ phase \in {"starting", "busy"}
    /\ cancel' = TRUE
    /\ shown' = shown \ {current}
    /\ UNCHANGED <<tableVars, sessionVars, current, phase, pending, inboxVars,
                   unsent, installed, spent>>

(* The app crashes, is closed, or the console is switched off. *)
ConsoleCrash ==
    /\ up
    /\ Spend("crash")
    /\ up' = FALSE
    /\ cursor' = NoCursor
    /\ current' = NoJob
    /\ phase' = "idle"
    /\ cancel' = FALSE
    /\ pending' = <<>>
    /\ unsent' = <<>>
    /\ shown' = {}
    /\ page' = <<>>
    /\ step' = "rest"
    /\ UNCHANGED <<tableVars, installed>>

-----------------------------------------------------------------------------
(* The server *)

consoleVars == <<sessionVars, installVars, inboxVars, unsent, shown, installed>>

WebRequest ==
    /\ UNCHANGED consoleVars
    /\ \/ /\ \/ \E n \in 1..MaxBatch : CreateJobs(Console, n)
             \/ \E j \in Ids : CancelJob(j)
             \/ Pair(Console)
          /\ UNCHANGED spent
       \/ \E j \in Ids : ResumeJob(j) /\ Spend("resume")
       \/ RevokeDevice(Console) /\ Spend("revoke")

ServerRestart == Restart /\ Spend("restart") /\ UNCHANGED consoleVars

(* The server's timer. *)
StaleSweep ==
    /\ InterruptStaleJobs(Devices, StaleAge)
    /\ UNCHANGED <<consoleVars, spent>>

Clock == Tick /\ UNCHANGED <<consoleVars, spent>>

-----------------------------------------------------------------------------

(* What the console does by itself. *)
ConsoleStep ==
    \/ StartSession
    \/ Poll
    \/ SidePollRefused
    \/ SidePollLost
    \/ ForgetDevice
    \/ SideReport
    \/ \E j \in Jobs : ClaimAndInstall(j) \/ CancelEvent(j)
    \/ Flush
    \/ FirstProgress
    \/ InstallEnds
    \/ SendComplete
    \/ ResultGoes("success")

PersonStep ==
    \/ InstallFromConsole
    \/ \E j \in Jobs : StartFromQueueTab(j)
    \/ CancelFromConsole
    \/ ResultGoes("failure")

ServerStep == WebRequest \/ ServerRestart \/ StaleSweep

Next ==
    \/ ConsoleStep
    \/ PersonStep
    \/ ConsoleCrash
    \/ ServerStep
    \/ Clock

Spec == Init /\ [][Next]_vars

(* The handling of an answer goes on to its end, and polls come round again
   and again between the other steps of the thread, hence strong fairness. *)
PollFairness ==
    /\ SF_vars(Poll)
    /\ WF_vars(\E j \in Jobs : ClaimAndInstall(j) \/ CancelEvent(j))

(* What the code keeps going by itself: the session is opened, the engine's
   work goes on between two side ticks until it ends, its outcome is sent,
   unsent ones are flushed, and the server's timer and the clock run.
   Nothing is assumed of people, of the network, of the engine's progress
   reports, or of a result's screen being dismissed. *)
Fairness ==
    /\ PollFairness
    /\ WF_vars(StartSession)
    /\ WF_vars(Flush)
    /\ SF_vars(InstallEnds)
    /\ WF_vars(SendComplete)
    /\ WF_vars(StaleSweep)
    /\ WF_vars(Clock)

FairSpec == Spec /\ Fairness

(* The side ticks of an install that goes on. *)
TickSpec == Spec /\ PollFairness /\ WF_vars(SideReport)

-----------------------------------------------------------------------------

(* Types, and what the phase says of the rest: an idle console has no waiting
   job, a closed session nothing at all to do (Session's members). *)
TypeOK ==
    /\ TableOK
    /\ log.head <= MaxHead
    /\ up \in BOOLEAN /\ cancel \in BOOLEAN
    /\ cursor \in Nat \cup {NoCursor}
    /\ current \in Jobs \cup {NoJob}
    /\ phase \in Phases /\ step \in Steps
    /\ Waiting \subseteq Jobs
    /\ \A i \in DOMAIN unsent : unsent[i] \in [job : Jobs, ok : BOOLEAN]
    /\ \A i \in DOMAIN page : page[i] \in Entries
    /\ shown \subseteq Jobs /\ installed \subseteq Jobs
    /\ spent \in [DOMAIN Budget -> Nat]
    /\ Installing <=> current # NoJob
    /\ ~Installing => pending = <<>>
    /\ ~up => ~Installing /\ step = "rest"
    /\ page # <<>> <=> step \in {"events", "claim"}
    /\ step = "flush" => unsent # <<>>

(* However often an event is delivered, a job resumed or a claim repeated,
   the console never holds a job twice: it would install it twice in a row
   (claimAndInstall, enqueueClaimed, pump). *)
HoldsEachJobOnce ==
    /\ \A i, k \in DOMAIN pending : pending[i] = pending[k] => i = k
    /\ current \notin Waiting

(* While no message is lost and the app does not crash, the server and the
   console agree: a job the server shows as taken is one the console holds,
   or whose outcome it still has to deliver.  Cancels, revokes, sweeps, new
   pairings and server restarts at any moment do not strand a job. *)
TakenJobsAreHeld ==
    (spent.loss = 0 /\ spent.crash = 0) =>
        \A j \in Ids : HasStatus(j, OnConsole) => Holds(j) \/ Owes(j)

(* The history never shows an install as done that did not take place, even
   when completions arrive late, twice or for an earlier attempt. *)
DoneMeansInstalled == \A j \in Ids : HasStatus(j, {"done"}) => j \in installed

(* Network losses and server restarts do not make the console forget that it
   installed a job: until the server knows, the console keeps the outcome.
   (A crash forgets it, an ApiError makes sendComplete drop it: after a
   revoke, or while a resumed job waits in the queue again.) *)
OutcomesAreKept ==
    (spent.crash = 0 /\ spent.revoke = 0 /\ spent.resume = 0) =>
        \A j \in installed : HasStatus(j, Reportable) => Holds(j) \/ Owes(j)

(* A queued job does not wait for ever: it is claimed, or cancelled, unless
   something the code has no answer to came between: a lost claim or a server
   restart consumes its event, a resume while the console still holds the job
   is ignored there, and a revoked console takes nothing.  A crash of the app
   is made good by its next session. *)
QueuedIsTaken ==
    LET disturbed == \/ spent.loss + spent.restart + spent.revoke + spent.resume > 0
                     \/ ~Authorised
    IN  \A j \in Jobs :
          HasStatus(j, {"queued"}) ~> (~HasStatus(j, {"queued"}) \/ disturbed)

(* No job stays claimed or running for ever, whatever is lost, crashes or is
   revoked: it ends, or the server's sweep interrupts it. *)
NothingStaysTaken ==
    \A j \in Jobs : HasStatus(j, OnConsole) ~> ~HasStatus(j, OnConsole)

(* A completion that did not get through is delivered in the end, unless the
   console is revoked (flushCompletes after every poll). *)
OutcomesAreDelivered == unsent # <<>> ~> (unsent = <<>> \/ ~Authorised)

(* docs/switch.md: "While an install runs, the app keeps posting progress to
   the server and checking for events, so the web UI shows progress and Cancel
   reaches the console."  A job cancelled on the web while it installs has the
   console's cancel flag set, or its install is over. *)
CancelReachesInstall ==
    \A j \in Jobs :
        (phase = "busy" /\ current = j /\ HasStatus(j, {"cancelled"}))
            ~> (cancel \/ phase # "busy" \/ current # j)

=============================================================================
