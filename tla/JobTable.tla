------------------------------ MODULE JobTable ------------------------------
(***************************************************************************)
(* The server's install queue: the install_jobs table, the devices'        *)
(* revoked flag and the event log, with one action per job method of       *)
(* DeviceApiService.  Each method runs to its end without awaiting, so it  *)
(* is one step; a method that throws changes nothing, so its guard is the  *)
(* conjunction of the checks it passes.                                    *)
(*                                                                         *)
(* DeviceApi puts these methods behind their HTTP routes; InstallSystem    *)
(* runs them against a console.                                            *)
(***************************************************************************)
EXTENDS EventLog, FiniteSets

CONSTANTS
    MaxJobs,        \* bound: jobs ever created
    MaxPosition,    \* bound: queue positions handed out
    MaxHead,        \* bound: events appended during one run of the server
    MaxAge,         \* ages saturate here
    StaleAge,       \* STALE_JOB_MS, in ticks
    NewSessionAge,  \* NEW_SESSION_STALE_JOB_MS, in ticks
    HistoryAge      \* JOB_HISTORY_RETENTION_MS, in ticks (MaxAge: for ever)

ASSUME TableBoundsAssumption ==
    MaxJobs \in Nat /\ MaxPosition \in Nat /\ MaxHead \in Nat
ASSUME AgesAssumption ==
    /\ MaxAge \in Nat
    /\ StaleAge \in 0..(MaxAge - 1)
    /\ NewSessionAge \in 0..StaleAge
    /\ HistoryAge \in 0..MaxAge

VARIABLES
    jobs,      \* the rows of install_jobs: a function on the ids in use
    nextId,    \* the id AUTOINCREMENT hands out next
    revoked,   \* devices with revokedAt set
    recent,    \* jobs whose #lastProgressAt is less than a second old
    log        \* the DeviceEventLog

tableVars == <<jobs, nextId, revoked, recent, log>>

Active == {"queued", "claimed", "running"}
OnConsole == {"claimed", "running"}
Reportable == {"claimed", "running", "interrupted"}
Finished == {"done", "failed", "cancelled"}
Statuses == Active \cup Finished \cup {"interrupted"}

(* `age` is the time since updatedAt of a claimed or running job, and since
   completedAt of a finished one: the times some test compares. *)
Rows == [dev : Devices, status : Statuses, position : Nat,
         age : 0..MaxAge]

Entries == [t : {"job.queued", "job.cancel"}, dev : Devices, job : 1..MaxJobs]
             \cup [t : {"catalog"}, dev : {AllDevices}]

-----------------------------------------------------------------------------

Ids == DOMAIN jobs
JobsOf(d) == {j \in Ids : jobs[j].dev = d}
HasStatus(j, S) == j \in Ids /\ jobs[j].status \in S
QueuedJobs(d) == {j \in JobsOf(d) : jobs[j].status = "queued"}

Queued(d, j) == [t |-> "job.queued", dev |-> d, job |-> j]
Cancelled(d, j) == [t |-> "job.cancel", dev |-> d, job |-> j]

(* The log receives a batch of events, within the bound on its head. *)
Announce(batch) ==
    /\ log.head + Len(batch) <= MaxHead
    /\ log' = Appended(log, batch)

(* Faulty variant of IsNextPosition: only the jobs still queued count. *)
NextAfterQueued(d, p) ==
    /\ \A j \in QueuedJobs(d) : jobs[j].position < p
    /\ p = 1 \/ \E j \in QueuedJobs(d) : jobs[j].position = p - 1

(* #nextPosition: one more than the largest position of d's active jobs. *)
IsNextPosition(d, p) ==
    LET active == {j \in JobsOf(d) : jobs[j].status \in Active} IN
    /\ \A j \in active : jobs[j].position < p
    /\ p = 1 \/ \E j \in active : jobs[j].position = p - 1

(* Rows j \in S move to status s; updatedAt (and completedAt) become now. *)
Moved(S, s) ==
    [j \in Ids |-> IF j \in S THEN [jobs[j] EXCEPT !.status = s, !.age = 0]
                   ELSE jobs[j]]

-----------------------------------------------------------------------------

TableInit ==
    /\ jobs = <<>>
    /\ nextId = 1
    /\ revoked = {}
    /\ recent = {}
    /\ log = EmptyLog

(* #insertJob for n titles, and the job.queued events of the new rows. *)
InsertJobs(d, n) ==
    LET new == nextId..(nextId + n - 1) IN
    /\ nextId + n - 1 <= MaxJobs
    /\ \E p \in 1..MaxPosition :
         /\ IsNextPosition(d, p)
         /\ p + n - 1 <= MaxPosition
         /\ jobs' = [j \in Ids \cup new |->
                       IF j \in new
                       THEN [dev |-> d, status |-> "queued",
                             position |-> p + (j - nextId), age |-> 0]
                       ELSE jobs[j]]
    /\ nextId' = nextId + n
    /\ Announce([i \in 1..n |-> Queued(d, nextId + i - 1)])
    /\ UNCHANGED <<revoked, recent>>

(* createJobs, from the web UI. *)
CreateJobs(d, n) == d \notin revoked /\ InsertJobs(d, n)

(* createJobFromDevice: the route has authenticated the console. *)
CreateJobFromDevice(d) == InsertJobs(d, 1)

ClaimJob(d, j) ==
    /\ j \in JobsOf(d)
    /\ HasStatus(j, {"queued", "interrupted"})
    /\ jobs' = Moved({j}, "claimed")
    /\ UNCHANGED <<nextId, revoked, recent, log>>

(* progress: a report less than a second after the last one may be dropped
   (it is when its phase is the same), an interrupted job's never is. *)
Progress(d, j) ==
    /\ j \in JobsOf(d)
    /\ HasStatus(j, Reportable)
    /\ \/ /\ jobs' = Moved({j}, "running")
          /\ recent' = recent \cup {j}
       \/ /\ j \in recent
          /\ ~HasStatus(j, {"interrupted"})
          /\ UNCHANGED <<jobs, recent>>
    /\ UNCHANGED <<nextId, revoked, log>>

(* Faulty variant of Complete: an outcome is accepted in any status. *)
CompleteUnchecked(d, j, ok) ==
    /\ j \in JobsOf(d)
    /\ jobs' = Moved({j}, IF ok THEN "done" ELSE "failed")
    /\ recent' = recent \ {j}
    /\ UNCHANGED <<nextId, revoked, log>>

Complete(d, j, ok) ==
    /\ j \in JobsOf(d)
    /\ HasStatus(j, Reportable)
    /\ jobs' = Moved({j}, IF ok THEN "done" ELSE "failed")
    /\ recent' = recent \ {j}
    /\ UNCHANGED <<nextId, revoked, log>>

(* Faulty variant of StaleJobs: a job that has reported once is left alone. *)
StaleClaims(S, maxIdle) ==
    {j \in Ids : /\ jobs[j].dev \in S
                 /\ HasStatus(j, {"claimed"})
                 /\ jobs[j].age > maxIdle}

StaleJobs(S, maxIdle) ==
    {j \in Ids : /\ jobs[j].dev \in S
                 /\ HasStatus(j, OnConsole)
                 /\ jobs[j].age > maxIdle}

(* interruptStaleJobs, for the devices in S. *)
InterruptStaleJobs(S, maxIdle) ==
    /\ jobs' = Moved(StaleJobs(S, maxIdle), "interrupted")
    /\ UNCHANGED <<nextId, revoked, recent, log>>

(* #interruptActiveJobs: the console's USB link went away. *)
InterruptActiveJobs(d) ==
    /\ jobs' = Moved({j \in JobsOf(d) : HasStatus(j, OnConsole)}, "interrupted")
    /\ UNCHANGED <<nextId, revoked, recent, log>>

ResumeJob(j) ==
    /\ HasStatus(j, {"interrupted"})
    /\ jobs[j].dev \notin revoked
    /\ \E p \in 1..MaxPosition :
         /\ IsNextPosition(jobs[j].dev, p)
         /\ jobs' = [jobs EXCEPT ![j].status = "queued", ![j].age = 0,
                                 ![j].position = p]
    /\ Announce(<<Queued(jobs[j].dev, j)>>)
    /\ UNCHANGED <<nextId, revoked, recent>>

(* Faulty variant of CancelJob: no event for a job no console has claimed. *)
CancelSilently(j) ==
    /\ j \in Ids
    /\ ~HasStatus(j, Finished)
    /\ jobs' = Moved({j}, "cancelled")
    /\ IF HasStatus(j, {"queued"})
       THEN UNCHANGED log
       ELSE Announce(<<Cancelled(jobs[j].dev, j)>>)
    /\ UNCHANGED <<nextId, revoked, recent>>

CancelJob(j) ==
    /\ j \in Ids
    /\ ~HasStatus(j, Finished)
    /\ jobs' = Moved({j}, "cancelled")
    /\ Announce(<<Cancelled(jobs[j].dev, j)>>)
    /\ UNCHANGED <<nextId, revoked, recent>>

(* reorderJobs: as many ids as d has queued jobs, each of them queued.  The
   same id may come twice: its last place in the list is the one it keeps. *)
ReorderJobs(d, order) ==
    LET named == {order[i] : i \in DOMAIN order} IN
    /\ d \notin revoked
    /\ named \subseteq QueuedJobs(d)
    /\ \E place \in [named -> DOMAIN order] :
         /\ \A j \in named :
              /\ order[place[j]] = j
              /\ \A i \in DOMAIN order : order[i] = j => i <= place[j]
         /\ jobs' = [j \in Ids |->
                       IF j \in named
                       THEN [jobs[j] EXCEPT !.position = place[j]]
                       ELSE jobs[j]]
    /\ UNCHANGED <<nextId, revoked, recent, log>>

(* Faulty variant of RevokeDevice: its jobs keep their status. *)
RevokeDeviceOnly(d) ==
    /\ d \notin revoked
    /\ revoked' = revoked \cup {d}
    /\ UNCHANGED <<jobs, nextId, recent, log>>

(* revokeDevice. *)
RevokeDevice(d) ==
    /\ d \notin revoked
    /\ revoked' = revoked \cup {d}
    /\ jobs' = Moved({j \in JobsOf(d) : HasStatus(j, OnConsole)}, "interrupted")
    /\ UNCHANGED <<nextId, recent, log>>

(* pair, for a device known by its uuid: the same row, active again. *)
Pair(d) ==
    /\ revoked' = revoked \ {d}
    /\ UNCHANGED <<jobs, nextId, recent, log>>

(* purgeFinishedJobs: AUTOINCREMENT never hands a deleted row's id out again. *)
PurgeFinishedJobs ==
    LET old == {j \in Ids : HasStatus(j, Finished) /\ jobs[j].age > HistoryAge} IN
    /\ jobs' = [j \in Ids \ old |-> jobs[j]]
    /\ UNCHANGED <<nextId, revoked, recent, log>>

(* A catalog change, announced to every console. *)
LibraryChanged ==
    /\ Announce(<<[t |-> "catalog", dev |-> AllDevices]>>)
    /\ UNCHANGED <<jobs, nextId, revoked, recent>>

(* The server process starts again: what it kept in memory is gone. *)
Restart ==
    /\ log' = EmptyLog
    /\ recent' = {}
    /\ UNCHANGED <<jobs, nextId, revoked>>

(* The jobs whose age some later test compares. *)
Ageing == {j \in Ids : /\ jobs[j].age < MaxAge
                       /\ \/ HasStatus(j, OnConsole)
                          \/ HasStatus(j, Finished) /\ HistoryAge < MaxAge}

(* The clock.  A tick is longer than the progress throttle. *)
Tick ==
    /\ recent' = {}
    /\ jobs' = [j \in Ids |->
                  IF j \in Ageing
                  THEN [jobs[j] EXCEPT !.age = @ + 1]
                  ELSE jobs[j]]
    /\ UNCHANGED <<nextId, revoked, log>>

-----------------------------------------------------------------------------

TableOK ==
    /\ nextId \in 1..(MaxJobs + 1)
    /\ Ids \subseteq 1..(nextId - 1)
    /\ \A j \in Ids : jobs[j] \in Rows
    /\ revoked \subseteq Devices
    /\ recent \subseteq 1..(nextId - 1)
    /\ LogOK(log)
    /\ \A i \in DOMAIN log.at : log.at[i] \in Entries

=============================================================================
