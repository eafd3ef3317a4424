----------------------------- MODULE DeviceApi ------------------------------
(***************************************************************************)
(* The install queue behind its routes: consoles on the device API, people *)
(* on the web UI, and the server's own timers, in any order.               *)
(*                                                                         *)
(* The device routes authenticate in an onRequest hook, before the body of *)
(* the request is read: a console can be revoked between the hook and the  *)
(* handler.  `open` holds the consoles with a request past the hook; a     *)
(* handler runs only for those, and leaves the others in flight alone.     *)
(***************************************************************************)
EXTENDS JobTable

CONSTANT MaxBatch   \* bound: titles of one "Send to Switch"

ASSUME MaxBatchAssumption == MaxBatch \in Nat

VARIABLE open

vars == <<jobs, nextId, revoked, recent, log, open>>

-----------------------------------------------------------------------------

Init == TableInit /\ open = {}

(* Faulty variant of Authenticate: the hook resolves the token and never
   looks at revokedAt. *)
AuthenticateAnyone(d) ==
    /\ d \notin open
    /\ open' = open \cup {d}
    /\ UNCHANGED tableVars

(* requireDevice: the token is known and the device is not revoked. *)
Authenticate(d) ==
    /\ d \notin revoked
    /\ d \notin open
    /\ open' = open \cup {d}
    /\ UNCHANGED tableVars

(* A request past the hook ends: answered, or rejected by its handler. *)
EndRequest(d) ==
    /\ d \in open
    /\ open' = open \ {d}
    /\ UNCHANGED tableVars

(* The handlers of the device routes. *)
Handle(d) ==
    /\ d \in open
    /\ UNCHANGED open
    /\ \/ InterruptStaleJobs({d}, NewSessionAge)     \* GET /hello
       \/ CreateJobFromDevice(d)                     \* POST /jobs
       \/ \E j \in JobsOf(d) :
            \/ ClaimJob(d, j)                        \* POST /jobs/:id/claim
            \/ Progress(d, j)                        \* POST /jobs/:id/progress
            \/ \E ok \in BOOLEAN : Complete(d, j, ok)  \* POST /jobs/:id/complete

(* The web UI's routes. *)
WebRequest ==
    /\ UNCHANGED open
    /\ \/ \E d \in Devices :
            \/ \E n \in 1..MaxBatch : CreateJobs(d, n)
            \/ \E order \in [1..Cardinality(QueuedJobs(d)) -> QueuedJobs(d)] :
                 ReorderJobs(d, order)
            \/ RevokeDevice(d)
            \/ Pair(d)
       \/ \E j \in Ids : ResumeJob(j) \/ CancelJob(j)

(* Timers, the USB link and the library scanner. *)
Background ==
    /\ UNCHANGED open
    /\ \/ InterruptStaleJobs(Devices, StaleAge)
       \/ \E d \in Devices : InterruptActiveJobs(d)
       \/ PurgeFinishedJobs
       \/ LibraryChanged
       \/ Tick

(* The server restarts: the requests in flight die with it. *)
ServerRestart == Restart /\ open' = {}

Next ==
    \/ \E d \in Devices : Authenticate(d) \/ EndRequest(d) \/ Handle(d)
    \/ WebRequest
    \/ Background
    \/ ServerRestart

Spec == Init /\ [][Next]_vars

-----------------------------------------------------------------------------

(* Types of the table, the log and the requests in flight, and the log's
   shape (DeviceEventLog.append). *)
TypeOK == TableOK /\ open \subseteq Devices

(* The stage of every id, used, in use or deleted. *)
StageOf(j) ==
    CASE j \in Ids -> jobs[j].status
      [] j \notin Ids /\ j < nextId -> "purged"
      [] OTHER -> "none"

Lifecycle == INSTANCE JobLifecycle
    WITH Jobs <- 1..MaxJobs, stage <- [j \in 1..MaxJobs |-> StageOf(j)]

(* Every job follows JobLifecycle: no late, repeated or reordered report,
   claim, sweep, cancel or restart moves a finished job or finishes one that
   no console has claimed. *)
FollowsLifecycle == Lifecycle!Spec

(* A revoked console is shut out: unless a request of it passed the hook
   before the revoke and is still in flight, no step lets one through, and no
   job of it starts to wait or to run (requireDevice, createJobs, resumeJob). *)
RevokedIsShutOut ==
    [][\A d \in revoked \ open :
         /\ d \notin open'
         /\ \A j \in Ids' :
              jobs'[j].dev = d /\ jobs'[j].status \in Active => HasStatus(j, Active)]_vars

(* A console that follows the log learns of every cancel: after the retained
   job.queued of a job that is now cancelled comes its job.cancel. *)
LogTellsCancels ==
    \A i \in DOMAIN log.at :
        (log.at[i].t = "job.queued" /\ HasStatus(log.at[i].job, {"cancelled"}))
            => \E k \in DOMAIN log.at :
                  k > i /\ log.at[k] = Cancelled(log.at[i].dev, log.at[i].job)

(* A retained job.queued names a job that was created and the console that
   job belongs to: ids are never used again, so a cancel is announced to the
   console that was told of the job (createJobs, cancelJob).  With TypeOK it makes
   LogTellsCancels inductive. *)
QueuedNamesOwner ==
    \A i \in DOMAIN log.at :
        LET e == log.at[i] IN
        e.t = "job.queued" =>
            /\ e.job < nextId
            /\ e.job \in Ids => jobs[e.job].dev = e.dev

(* A job that joins a queue joins its end: behind the waiting jobs of its
   console and behind those the console already holds (#nextPosition). *)
JoinsQueueLast ==
    [][\A j \in Ids' :
         (jobs'[j].status = "queued" /\ ~HasStatus(j, {"queued"})) =>
            \A k \in JobsOf(jobs'[j].dev) :
               HasStatus(k, Active) => jobs[k].position < jobs'[j].position]_vars

=============================================================================
