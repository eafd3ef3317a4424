--------------------------- MODULE DeviceApi_proofs -------------------------
(***************************************************************************)
(* Theorems about DeviceApi, for any number of consoles, jobs, events and  *)
(* requests and any of the time limits: the types, then the safety         *)
(* properties and the life cycle of the jobs.  At the end, those about the *)
(* space plan (SpacePlan), for any queue, batch and report, and about the  *)
(* setup of compressions (CompressSetup), for any folders and requests.    *)
(***************************************************************************)
EXTENDS DeviceApi, SpacePlan, JobTable_proofs, CompressSetup, WellFoundedInduction, TLAPS

USE DEF Ids

-----------------------------------------------------------------------------
(* Type correctness. *)

(* createJobs, and the device's own request for a job. *)
LEMMA CreateKeepsTable ==
    TableOK => \A d \in Devices :
                 /\ \A n \in 1..MaxBatch : CreateJobs(d, n) => TableOK'
                 /\ CreateJobFromDevice(d) => TableOK'
<1>1. 1..MaxBatch \subseteq Nat /\ 1 \in Nat
  BY SMT
<1> QED BY <1>1, InsertKeepsTable DEF CreateJobs, CreateJobFromDevice

LEMMA InitTypeOK == Init => TypeOK
<1> SUFFICES ASSUME Init PROVE TypeOK
  OBVIOUS
<1>1. nextId = 1 /\ 1 \in 1..(MaxJobs + 1)
  BY TableBoundsAssumption, SMT DEF Init, TableInit
<1>2. DOMAIN jobs = {}
  BY SMT DEF Init, TableInit
<1>3. LogOK(log) /\ DOMAIN log.at = {}
  BY EmptyLogOK, SMT DEF Init, TableInit, EmptyLog
<1> QED BY <1>1, <1>2, <1>3 DEF Init, TableInit, TypeOK, TableOK

LEMMA NextTypeOK == TypeOK /\ [Next]_vars => TypeOK'
<1> SUFFICES ASSUME TypeOK, [Next]_vars PROVE TypeOK'
  OBVIOUS
<1>0. TableOK /\ open \subseteq Devices
  BY DEF TypeOK
<1>1. ASSUME NEW d \in Devices, Authenticate(d) \/ EndRequest(d) PROVE TypeOK'
  <2>1. UNCHANGED tableVars /\ open' \subseteq Devices
    BY <1>0, <1>1 DEF Authenticate, EndRequest
  <2> QED BY <1>0, <2>1 DEF tableVars, TypeOK, TableOK
<1>2. ASSUME NEW d \in Devices, Handle(d) PROVE TypeOK'
  <2>1. TableOK'
    BY <1>0, <1>2, CreateKeepsTable, ReportsKeepTable, InterruptsKeepTable DEF Handle
  <2> QED BY <1>0, <1>2, <2>1 DEF Handle, TypeOK
<1>3. ASSUME WebRequest PROVE TypeOK'
  <2>1. ASSUME NEW d \in Devices,
               \/ \E n \in 1..MaxBatch : CreateJobs(d, n)
               \/ \E order \in [1..Cardinality(QueuedJobs(d)) -> QueuedJobs(d)] :
                    ReorderJobs(d, order)
               \/ RevokeDevice(d)
               \/ Pair(d)
        PROVE  TableOK'
    BY <1>0, <2>1, CreateKeepsTable, ReorderKeepsTable, InterruptsKeepTable,
       OthersKeepTable
  <2>2. ASSUME NEW j \in Ids, ResumeJob(j) \/ CancelJob(j) PROVE TableOK'
    BY <1>0, <2>2, ResumeKeepsTable, CancelKeepsTable
  <2>3. TableOK'
    BY <1>3, <2>1, <2>2 DEF WebRequest
  <2> QED BY <1>0, <1>3, <2>3 DEF WebRequest, TypeOK
<1>4. ASSUME Background PROVE TypeOK'
  <2>1. TableOK'
    BY <1>0, <1>4, InterruptsKeepTable, OthersKeepTable, TickKeepsTable DEF Background
  <2> QED BY <1>0, <1>4, <2>1 DEF Background, TypeOK
<1>5. ASSUME ServerRestart PROVE TypeOK'
  BY <1>0, <1>5, OthersKeepTable DEF ServerRestart, TypeOK
<1>6. ASSUME UNCHANGED vars PROVE TypeOK'
  BY <1>0, <1>6 DEF vars, TypeOK, TableOK
<1> QED BY <1>1, <1>2, <1>3, <1>4, <1>5, <1>6 DEF Next

(* In every reachable state the rows, the log and the requests in flight are
   well formed: ids are never reused, the log keeps consecutive ids and just
   the newest MaxEvents of its entries (DeviceApiService, DeviceEventLog). *)
THEOREM TypeCorrect == Spec => []TypeOK
BY InitTypeOK, NextTypeOK, PTL DEF Spec

-----------------------------------------------------------------------------
(* A revoked console is shut out. *)

(* No job of d starts to wait or to run in this step. *)
NothingStarts(d) ==
    \A j \in Ids' :
        jobs'[j].dev = d /\ jobs'[j].status \in Active => HasStatus(j, Active)

(* Moving rows out of the queue and off the console starts nothing; nor does
   moving another console's. *)
LEMMA MovesStartNothing ==
    ASSUME TableOK, NEW d, NEW S, NEW s \in Statuses, jobs' = Moved(S, s),
           s \notin Active \/ \A j \in S \cap Ids : jobs[j].dev # d
    PROVE  NothingStarts(d)
<1> SUFFICES ASSUME NEW j \in Ids', jobs'[j].dev = d, jobs'[j].status \in Active
             PROVE  HasStatus(j, Active)
  BY DEF NothingStarts
<1>1. /\ j \in Ids /\ jobs'[j].dev = jobs[j].dev
      /\ jobs'[j].status = IF j \in S THEN s ELSE jobs[j].status
  BY MovedOK
<1> QED BY <1>1 DEF HasStatus

(* A step after which every job has the console and the status it had. *)
LEMMA SameStatusStartsNothing ==
    ASSUME NEW d, Ids' \subseteq Ids,
           \A j \in Ids' : /\ jobs'[j].dev = jobs[j].dev
                           /\ jobs'[j].status = jobs[j].status
    PROVE  NothingStarts(d)
BY DEF NothingStarts, HasStatus

(* New jobs belong to the console they are created for. *)
LEMMA InsertStartsNothingElse ==
    ASSUME NEW c, NEW n, InsertJobs(c, n), NEW d, d # c
    PROVE  NothingStarts(d)
<1> DEFINE new == nextId..(nextId + n - 1)
<1>1. PICK p \in 1..MaxPosition :
         jobs' = [j \in Ids \cup new |->
                    IF j \in new
                    THEN [dev |-> c, status |-> "queued",
                          position |-> p + (j - nextId), age |-> 0]
                    ELSE jobs[j]]
  BY DEF InsertJobs
<1> SUFFICES ASSUME NEW j \in Ids', jobs'[j].dev = d, jobs'[j].status \in Active
             PROVE  HasStatus(j, Active)
  BY DEF NothingStarts
<1>2. CASE j \in new
  BY <1>1, <1>2
<1>3. CASE j \notin new
  BY <1>1, <1>3 DEF HasStatus
<1> QED BY <1>2, <1>3

(* A console's own request starts only jobs of that console. *)
LEMMA HandleStartsNothingElse ==
    ASSUME TableOK, NEW c \in Devices, Handle(c), NEW d, d # c
    PROVE  NothingStarts(d)
<1>0. {"interrupted", "claimed", "running", "done", "failed"} \subseteq Statuses
  BY DEF Statuses, Active, Finished
<1>1. ASSUME InterruptStaleJobs({c}, NewSessionAge) PROVE NothingStarts(d)
  BY <1>0, <1>1, MovesStartNothing DEF InterruptStaleJobs, Active
<1>2. ASSUME CreateJobFromDevice(c) PROVE NothingStarts(d)
  BY <1>2, InsertStartsNothingElse DEF CreateJobFromDevice
<1>3. ASSUME NEW j \in JobsOf(c), ClaimJob(c, j) PROVE NothingStarts(d)
  BY <1>0, <1>3, MovesStartNothing DEF ClaimJob, JobsOf
<1>4. ASSUME NEW j \in JobsOf(c), Progress(c, j) PROVE NothingStarts(d)
  <2>1. CASE jobs' = Moved({j}, "running")
    BY <1>0, <2>1, MovesStartNothing DEF JobsOf
  <2>2. CASE UNCHANGED jobs
    BY <2>2, SameStatusStartsNothing
  <2> QED BY <1>4, <2>1, <2>2 DEF Progress
<1>5. ASSUME NEW j \in JobsOf(c), NEW ok \in BOOLEAN, Complete(c, j, ok)
      PROVE  NothingStarts(d)
  BY <1>0, <1>5, MovesStartNothing DEF Complete, Active
<1> QED BY <1>1, <1>2, <1>3, <1>4, <1>5 DEF Handle

(* Nothing done on the web starts a job of a revoked console. *)
LEMMA WebStartsNothingRevoked ==
    ASSUME TableOK, WebRequest, NEW d \in revoked
    PROVE  NothingStarts(d)
<1>0. {"interrupted", "cancelled"} \subseteq Statuses
  BY DEF Statuses, Finished
<1>1. ASSUME NEW c \in Devices, NEW n, CreateJobs(c, n) PROVE NothingStarts(d)
  BY <1>1, InsertStartsNothingElse DEF CreateJobs
<1>2. ASSUME NEW c \in Devices,
             NEW order \in [1..Cardinality(QueuedJobs(c)) -> QueuedJobs(c)],
             ReorderJobs(c, order)
      PROVE  NothingStarts(d)
  <2>1. PICK named, place :
           jobs' = [j \in Ids |-> IF j \in named
                                  THEN [jobs[j] EXCEPT !.position = place[j]]
                                  ELSE jobs[j]]
    BY <1>2, ZenonT(40) DEF ReorderJobs
  <2>2. Ids' = Ids
    BY <2>1
  <2>3. \A j \in Ids : jobs'[j].dev = jobs[j].dev /\ jobs'[j].status = jobs[j].status
    BY <2>1 DEF TableOK, Rows
  <2> QED BY <2>2, <2>3, SameStatusStartsNothing
<1>3. ASSUME NEW c \in Devices, RevokeDevice(c) PROVE NothingStarts(d)
  BY <1>0, <1>3, MovesStartNothing DEF RevokeDevice, Active
<1>4. ASSUME NEW c \in Devices, Pair(c) PROVE NothingStarts(d)
  BY <1>4, SameStatusStartsNothing DEF Pair
<1>5. ASSUME NEW j \in Ids, ResumeJob(j) PROVE NothingStarts(d)
  <2>1. jobs[j].dev # d
    BY <1>5 DEF ResumeJob
  <2>2. PICK p \in 1..MaxPosition :
           jobs' = [jobs EXCEPT ![j].status = "queued", ![j].age = 0, ![j].position = p]
    BY <1>5 DEF ResumeJob
  <2>3. jobs'[j].dev = jobs[j].dev
    BY <2>2 DEF TableOK, Rows
  <2>4. Ids' = Ids /\ \A k \in Ids : k # j => jobs'[k] = jobs[k]
    BY <2>2
  <2> QED BY <2>1, <2>3, <2>4 DEF NothingStarts, HasStatus
<1>6. ASSUME NEW j \in Ids, CancelJob(j) PROVE NothingStarts(d)
  BY <1>0, <1>6, MovesStartNothing DEF CancelJob, Active
<1> QED BY <1>1, <1>2, <1>3, <1>4, <1>5, <1>6 DEF WebRequest

LEMMA BackgroundStartsNothing ==
    ASSUME TableOK, Background, NEW d
    PROVE  NothingStarts(d)
<1>0. "interrupted" \in Statuses
  BY DEF Statuses
<1>1. CASE InterruptStaleJobs(Devices, StaleAge)
  BY <1>0, <1>1, MovesStartNothing DEF InterruptStaleJobs, Active
<1>2. ASSUME NEW c \in Devices, InterruptActiveJobs(c) PROVE NothingStarts(d)
  BY <1>0, <1>2, MovesStartNothing DEF InterruptActiveJobs, Active
<1>3. CASE PurgeFinishedJobs
  BY <1>3, SameStatusStartsNothing DEF PurgeFinishedJobs
<1>4. CASE LibraryChanged
  BY <1>4, SameStatusStartsNothing DEF LibraryChanged
<1>5. CASE Tick
  <2>1. Ids' = Ids
    BY <1>5 DEF Tick
  <2>2. \A j \in Ids : jobs'[j].dev = jobs[j].dev /\ jobs'[j].status = jobs[j].status
    BY <1>5 DEF Tick, TableOK, Rows
  <2> QED BY <2>1, <2>2, SameStatusStartsNothing
<1> QED BY <1>1, <1>2, <1>3, <1>4, <1>5 DEF Background

LEMMA StepShutsOut ==
    ASSUME TypeOK, [Next]_vars, NEW d \in revoked \ open
    PROVE  d \notin open' /\ NothingStarts(d)
<1>0. TableOK
  BY DEF TypeOK
<1>1. ASSUME NEW c \in Devices, Authenticate(c) \/ EndRequest(c)
      PROVE  d \notin open' /\ NothingStarts(d)
  <2>1. d \notin open'
    BY <1>1 DEF Authenticate, EndRequest
  <2>2. UNCHANGED jobs
    BY <1>1 DEF Authenticate, EndRequest, tableVars
  <2> QED BY <2>1, <2>2, SameStatusStartsNothing
<1>2. ASSUME NEW c \in Devices, Handle(c) PROVE d \notin open' /\ NothingStarts(d)
  <2>1. c # d /\ d \notin open'
    BY <1>2 DEF Handle
  <2> QED BY <1>0, <1>2, <2>1, HandleStartsNothingElse
<1>3. ASSUME WebRequest PROVE d \notin open' /\ NothingStarts(d)
  BY <1>0, <1>3, WebStartsNothingRevoked DEF WebRequest
<1>4. ASSUME Background PROVE d \notin open' /\ NothingStarts(d)
  BY <1>0, <1>4, BackgroundStartsNothing DEF Background
<1>5. ASSUME ServerRestart PROVE d \notin open' /\ NothingStarts(d)
  BY <1>5, SameStatusStartsNothing DEF ServerRestart, Restart
<1>6. ASSUME UNCHANGED vars PROVE d \notin open' /\ NothingStarts(d)
  BY <1>6, SameStatusStartsNothing DEF vars
<1> QED BY <1>1, <1>2, <1>3, <1>4, <1>5, <1>6 DEF Next

(* A revoked console with no request in flight gets none past the hook, and
   none of its jobs starts to wait or to run, whatever the other consoles, the
   web UI, the timers and a restart do (requireDevice, createJobs, resumeJob). *)
THEOREM RevokedConsolesAreShutOut == Spec => RevokedIsShutOut
<1>1. TypeOK /\ [Next]_vars =>
        [\A d \in revoked \ open :
           /\ d \notin open'
           /\ \A j \in Ids' :
                jobs'[j].dev = d /\ jobs'[j].status \in Active
                  => HasStatus(j, Active)]_vars
  BY StepShutsOut DEF NothingStarts
<1> QED BY <1>1, TypeCorrect, PTL DEF Spec, RevokedIsShutOut

-----------------------------------------------------------------------------
(* What a step does to the jobs, in one form for every action. *)

(* Every step of the system, as a step of the job table. *)
LEMMA StepKinds ==
    ASSUME TypeOK, [Next]_vars
    PROVE  \/ \E d \in Devices, n \in Nat : InsertJobs(d, n)
           \/ \E j \in Ids : ResumeJob(j)
           \/ \E j \in Ids : CancelJob(j)
           \/ PurgeFinishedJobs
           \/ QuietStep
<1>0. TableOK /\ 1..MaxBatch \subseteq Nat /\ 1 \in Nat
  BY DEF TypeOK
<1>1. ASSUME NEW d \in Devices, Authenticate(d) \/ EndRequest(d) PROVE QuietStep
  <2>1. UNCHANGED tableVars
    BY <1>1 DEF Authenticate, EndRequest
  <2> QED BY <2>1 DEF QuietStep, JobStep, NoJobEvent, tableVars
<1>2. ASSUME NEW d \in Devices, Handle(d) PROVE InsertJobs(d, 1) \/ QuietStep
  BY <1>0, <1>2, InterruptsAreQuiet, ReportsAreQuiet DEF Handle, CreateJobFromDevice
<1>3. CASE WebRequest
  BY <1>0, <1>3, InterruptsAreQuiet, OthersAreQuiet DEF WebRequest, CreateJobs
<1>4. CASE Background
  BY <1>0, <1>4, InterruptsAreQuiet, OthersAreQuiet DEF Background
<1>5. CASE ServerRestart
  BY <1>0, <1>5, OthersAreQuiet DEF ServerRestart
<1>6. CASE UNCHANGED vars
  BY <1>6 DEF vars, QuietStep, JobStep, NoJobEvent
<1> QED BY <1>0, <1>1, <1>2, <1>3, <1>4, <1>5, <1>6 DEF Next

-----------------------------------------------------------------------------
(* Queue order *)

(* The jobs that join a queue in this step join its end. *)
JoinLast ==
    \A j \in Ids' :
        (jobs'[j].status = "queued" /\ ~HasStatus(j, {"queued"})) =>
            \A k \in JobsOf(jobs'[j].dev) :
               HasStatus(k, Active) => jobs[k].position < jobs'[j].position

LEMMA InsertJoinsLast ==
    ASSUME TableOK, NEW d \in Devices, NEW n \in Nat, InsertJobs(d, n)
    PROVE  JoinLast
<1> DEFINE new == nextId..(nextId + n - 1)
<1>1. PICK p \in 1..MaxPosition :
         /\ IsNextPosition(d, p)
         /\ jobs' = [j \in Ids \cup new |->
                       IF j \in new
                       THEN [dev |-> d, status |-> "queued",
                             position |-> p + (j - nextId), age |-> 0]
                       ELSE jobs[j]]
  BY DEF InsertJobs
<1> SUFFICES ASSUME NEW j \in Ids', jobs'[j].status = "queued",
                    ~HasStatus(j, {"queued"}),
                    NEW k \in JobsOf(jobs'[j].dev), HasStatus(k, Active)
             PROVE  jobs[k].position < jobs'[j].position
  BY DEF JoinLast
<1>2. j \in new
  BY <1>1 DEF HasStatus
<1>3. jobs'[j].dev = d /\ jobs'[j].position = p + (j - nextId)
  BY <1>1, <1>2
<1>4. jobs[k].position < p
  BY <1>1, <1>3 DEF IsNextPosition, HasStatus
<1>5. p \in Nat /\ nextId \in Nat /\ jobs[k].position \in Nat
  BY TableBoundsAssumption DEF TableOK, Rows, JobsOf
<1> QED BY <1>2, <1>3, <1>4, <1>5, SMT

LEMMA ResumeJoinsLast ==
    ASSUME TableOK, NEW r \in Ids, ResumeJob(r)
    PROVE  JoinLast
<1>1. PICK p \in 1..MaxPosition :
         /\ IsNextPosition(jobs[r].dev, p)
         /\ jobs' = [jobs EXCEPT ![r].status = "queued", ![r].age = 0, ![r].position = p]
  BY DEF ResumeJob
<1> SUFFICES ASSUME NEW j \in Ids', jobs'[j].status = "queued",
                    ~HasStatus(j, {"queued"}),
                    NEW k \in JobsOf(jobs'[j].dev), HasStatus(k, Active)
             PROVE  jobs[k].position < jobs'[j].position
  BY DEF JoinLast
<1>2. j = r
  BY <1>1 DEF HasStatus
<1>3. jobs[r] \in Rows
  BY DEF TableOK
<1>4. jobs'[j].dev = jobs[r].dev /\ jobs'[j].position = p
  BY <1>1, <1>2, <1>3 DEF Rows
<1> QED BY <1>1, <1>4 DEF IsNextPosition, HasStatus

LEMMA StepJoinsLast == TypeOK /\ [Next]_vars => JoinLast
<1> SUFFICES ASSUME TypeOK, [Next]_vars PROVE JoinLast
  OBVIOUS
<1>0. TableOK
  BY DEF TypeOK
<1>1. ASSUME NEW c \in Ids, CancelJob(c) PROVE JoinLast
  <2>1. JobStep(Statuses, {"cancelled"})
    BY <1>0, <1>1, MovedStep DEF CancelJob, Statuses, Finished, TableOK, Rows
  <2> QED BY <2>1 DEF JobStep, JoinLast, HasStatus
<1>2. CASE PurgeFinishedJobs
  BY <1>2 DEF PurgeFinishedJobs, JoinLast, HasStatus
<1>3. CASE QuietStep
  BY <1>3 DEF QuietStep, JobStep, JoinLast, HasStatus
<1> QED BY <1>0, <1>1, <1>2, <1>3, StepKinds, InsertJoinsLast, ResumeJoinsLast

(* A job that is created or resumed gets a place behind every job that waits
   for its console or is on it, for any history of reorders, cancels and
   purges (#nextPosition). *)
THEOREM NewJobsJoinLast == Spec => JoinsQueueLast
<1>1. TypeOK /\ [Next]_vars =>
        [\A j \in Ids' :
           (jobs'[j].status = "queued" /\ ~HasStatus(j, {"queued"})) =>
              \A k \in JobsOf(jobs'[j].dev) :
                 HasStatus(k, Active) => jobs[k].position < jobs'[j].position]_vars
  BY StepJoinsLast DEF JoinLast
<1> QED BY <1>1, TypeCorrect, PTL DEF Spec, JoinsQueueLast

-----------------------------------------------------------------------------
(* DeviceApi implements JobLifecycle. *)

(* The ids in use, and those a step takes or frees. *)
LEMMA StageOfIds ==
    ASSUME TableOK
    PROVE  \A j \in 1..MaxJobs :
             /\ j \in Ids => StageOf(j) = jobs[j].status /\ j < nextId
             /\ j \notin Ids /\ j < nextId => StageOf(j) = "purged"
             /\ j \notin Ids /\ ~(j < nextId) => StageOf(j) = "none"
<1>1. \A j \in Ids : j < nextId
  BY SMT DEF TableOK
<1> QED BY <1>1 DEF StageOf

LEMMA StagesOK == TableOK => \A j \in 1..MaxJobs : StageOf(j) \in Lifecycle!Stages
<1> SUFFICES ASSUME TableOK, NEW j \in 1..MaxJobs PROVE StageOf(j) \in Lifecycle!Stages
  OBVIOUS
<1>1. CASE j \in Ids
  BY <1>1, StageOfIds DEF TableOK, Rows, Statuses, Active, Finished, Lifecycle!Stages
<1>2. CASE j \notin Ids
  BY <1>2, StageOfIds DEF Lifecycle!Stages
<1> QED BY <1>1, <1>2

(* A step that moves jobs from From to To moves their stages so. *)
LEMMA JobStepStages ==
    ASSUME TableOK, TableOK', NEW From, NEW To, JobStep(From, To),
           NEW j \in 1..MaxJobs, StageOf(j)' # StageOf(j)
    PROVE  StageOf(j) \in From /\ StageOf(j)' \in To
<1>1. CASE j \in Ids
  BY <1>1 DEF JobStep, StageOf
<1>2. CASE j \notin Ids
  BY <1>2 DEF JobStep, StageOf
<1> QED BY <1>1, <1>2

LEMMA StepFollows ==
    ASSUME TypeOK, TypeOK', [Next]_vars,
           NEW j \in 1..MaxJobs, StageOf(j)' # StageOf(j)
    PROVE  StageOf(j)' \in Lifecycle!Successors(StageOf(j))
<1>0. TableOK /\ TableOK'
  BY DEF TypeOK
<1>1. ASSUME NEW d \in Devices, NEW n \in Nat, InsertJobs(d, n)
      PROVE  StageOf(j) = "none" /\ StageOf(j)' = "queued"
  <2> DEFINE new == nextId..(nextId + n - 1)
  <2>1. /\ Ids' = Ids \cup new /\ nextId' = nextId + n
        /\ \A k \in new : jobs'[k].status = "queued"
        /\ \A k \in Ids \ new : jobs'[k] = jobs[k]
    BY <1>1 DEF InsertJobs
  <2>2. nextId \in Nat /\ \A k \in Ids : k < nextId
    BY <1>0, SMT DEF TableOK
  <2>3. Ids \cap new = {}
    BY <2>2, SMT
  <2>4. CASE j \in new
    <3>1. j \in Ids' /\ j \notin Ids /\ ~(j < nextId)
      BY <2>1, <2>2, <2>3, <2>4, SMT
    <3> QED BY <3>1, <2>1, <2>4 DEF StageOf
  <2>5. CASE j \notin new
    <3>1. (j < nextId) <=> (j < nextId')
      BY <2>1, <2>2, <2>5, SMT
    <3>2. j \in Ids' <=> j \in Ids
      BY <2>1, <2>5
    <3> QED BY <3>1, <3>2, <2>1, <2>5 DEF StageOf
  <2> QED BY <2>4, <2>5
<1>2. ASSUME NEW r \in Ids, ResumeJob(r)
      PROVE  StageOf(j) = "interrupted" /\ StageOf(j)' = "queued"
  <2>1. PICK p \in 1..MaxPosition :
           jobs' = [jobs EXCEPT ![r].status = "queued", ![r].age = 0, ![r].position = p]
    BY <1>2 DEF ResumeJob
  <2>2. Ids' = Ids /\ nextId' = nextId /\ \A k \in Ids \ {r} : jobs'[k] = jobs[k]
    BY <1>2, <2>1 DEF ResumeJob
  <2>3. jobs'[r].status = "queued" /\ jobs[r].status = "interrupted"
    BY <1>0, <1>2, <2>1 DEF ResumeJob, HasStatus, TableOK, Rows
  <2>4. j = r
    BY <2>2 DEF StageOf
  <2> QED BY <2>2, <2>3, <2>4 DEF StageOf
<1>3. ASSUME NEW c \in Ids, CancelJob(c)
      PROVE  StageOf(j) \in Active \cup {"interrupted"} /\ StageOf(j)' = "cancelled"
  <2>1. JobStep(Active \cup {"interrupted"}, {"cancelled"})
    BY <1>0, <1>3, MovedStep DEF CancelJob, HasStatus, Statuses, Finished, TableOK, Rows
  <2> QED BY <1>0, <2>1, JobStepStages
<1>4. ASSUME PurgeFinishedJobs
      PROVE  StageOf(j) \in Finished /\ StageOf(j)' = "purged"
  <2>1. nextId' = nextId /\ \A k \in Ids' : k \in Ids /\ jobs'[k] = jobs[k]
    BY <1>4 DEF PurgeFinishedJobs
  <2>2. \A k \in Ids \ Ids' : jobs[k].status \in Finished
    BY <1>4 DEF PurgeFinishedJobs, HasStatus
  <2>3. j \in Ids \ Ids'
    BY <2>1 DEF StageOf
  <2>4. j < nextId
    BY <1>0, <2>3, StageOfIds
  <2> QED BY <2>1, <2>2, <2>3, <2>4 DEF StageOf
<1>5. ASSUME QuietStep
      PROVE  \/ StageOf(j) \in {"queued", "interrupted"} /\ StageOf(j)' = "claimed"
             \/ StageOf(j) \in Reportable /\ StageOf(j)' \in {"running", "done", "failed"}
             \/ StageOf(j) \in OnConsole /\ StageOf(j)' = "interrupted"
  BY <1>0, <1>5, JobStepStages DEF QuietStep
<1> QED
  BY <1>1, <1>2, <1>3, <1>4, <1>5, StepKinds
  DEF Lifecycle!Successors, Active, Reportable, OnConsole, Finished

(* Whatever consoles, people, timers and restarts do, and in whatever order
   requests are handled, every job goes through the stages of JobLifecycle and
   an outcome is final. *)
THEOREM ImplementsLifecycle == Spec => FollowsLifecycle
<1>1. Init => Lifecycle!Init
  <2> SUFFICES ASSUME Init PROVE Lifecycle!Init
    OBVIOUS
  <2>1. Ids = {} /\ nextId = 1
    BY SMT DEF Init, TableInit
  <2>2. \A j \in 1..MaxJobs : StageOf(j) = "none"
    BY <2>1, TableBoundsAssumption, SMT DEF StageOf
  <2> QED BY <2>2 DEF Lifecycle!Init
<1>2. TypeOK /\ TypeOK' /\ [Next]_vars
        => [Lifecycle!Move]_([j \in 1..MaxJobs |-> StageOf(j)])
  <2> SUFFICES ASSUME TypeOK, TypeOK', [Next]_vars PROVE Lifecycle!Move
    OBVIOUS
  <2>1. (\A j \in 1..MaxJobs : StageOf(j) \in Lifecycle!Stages)'
    <3>1. TableOK'
      BY DEF TypeOK
    <3> QED BY <3>1, StagesOK, PTL
  <2> QED BY <2>1, StepFollows DEF Lifecycle!Move
<1> QED BY <1>1, <1>2, TypeCorrect, PTL DEF Spec, FollowsLifecycle, Lifecycle!Spec

-----------------------------------------------------------------------------
(* The log tells of every cancel. *)

(* What the log retains after a step, besides entries of New, it retained
   before; and of what it retained it only forgets the oldest. *)
LogGains(New) ==
    /\ \A i \in DOMAIN log'.at :
         \/ i \in DOMAIN log.at /\ log'.at[i] = log.at[i]
         \/ log'.at[i] \in New
    /\ \A i \in DOMAIN log'.at, k \in DOMAIN log.at :
         k > i => k \in DOMAIN log'.at /\ log'.at[k] = log.at[k]

LEMMA LogIds ==
    ASSUME NEW l, LogOK(l)
    PROVE  /\ l.head \in Nat
           /\ \A i \in DOMAIN l.at : i \in Nat /\ i >= 1 /\ i <= l.head
BY MaxEventsAssumption, SMT DEF LogOK

LEMMA AnnounceGains ==
    ASSUME TableOK, NEW batch \in Seq(Entries), Announce(batch)
    PROVE  /\ LogGains({batch[i] : i \in DOMAIN batch})
           /\ \A i \in DOMAIN log'.at : \A k \in Nat :
                i <= k /\ k <= log.head + Len(batch) => k \in DOMAIN log'.at
           /\ \A k \in DOMAIN log'.at :
                k > log.head => log'.at[k] = batch[k - log.head]
<1>1. LogOK(log) /\ log' = Appended(log, batch)
  BY DEF TableOK, Announce
<1>2. /\ LogOK(log') /\ log'.head = log.head + Len(batch)
      /\ \A i \in DOMAIN log'.at :
           IF i <= log.head
           THEN i \in DOMAIN log.at /\ log'.at[i] = log.at[i]
           ELSE i - log.head \in DOMAIN batch /\ log'.at[i] = batch[i - log.head]
      /\ \A i, k \in Nat :
           i \in DOMAIN log'.at /\ i <= k /\ k <= log'.head => k \in DOMAIN log'.at
  BY <1>1, EntryDev, AppendedOK
<1>3. /\ log.head \in Nat /\ Len(batch) \in Nat
      /\ \A i \in DOMAIN log.at : i \in Nat /\ i <= log.head
      /\ \A i \in DOMAIN log'.at : i \in Nat
  BY <1>1, <1>2, LogIds
<1>4. \A i \in DOMAIN log'.at :
         \/ i \in DOMAIN log.at /\ log'.at[i] = log.at[i]
         \/ log'.at[i] \in {batch[n] : n \in DOMAIN batch}
  BY <1>2
<1>5. ASSUME NEW i \in DOMAIN log'.at, NEW k \in DOMAIN log.at, k > i
      PROVE  k \in DOMAIN log'.at /\ log'.at[k] = log.at[k]
  <2>1. i \in Nat /\ k \in Nat /\ k <= log.head
    BY <1>3
  <2>2. i <= k /\ k <= log'.head
    BY <1>2, <1>3, <1>5, <2>1, SMT
  <2>3. k \in DOMAIN log'.at
    BY <1>2, <2>1, <2>2
  <2> QED BY <1>2, <2>1, <2>3
<1>6. \A k \in DOMAIN log'.at : k > log.head => log'.at[k] = batch[k - log.head]
  <2> SUFFICES ASSUME NEW k \in DOMAIN log'.at, k > log.head
               PROVE  log'.at[k] = batch[k - log.head]
    OBVIOUS
  <2>1. ~(k <= log.head)
    BY <1>3, SMT
  <2> QED BY <1>2, <2>1
<1> QED BY <1>2, <1>3, <1>4, <1>5, <1>6 DEF LogGains

LEMMA QuietGains ==
    ASSUME TableOK, NoJobEvent
    PROVE  LogGains({[t |-> "catalog", dev |-> AllDevices]})
<1>1. CASE log' = log
  BY <1>1 DEF LogGains
<1>2. CASE log' = EmptyLog
  <2>1. DOMAIN log'.at = {}
    BY <1>2, SMT DEF EmptyLog
  <2> QED BY <2>1 DEF LogGains
<1>3. CASE LibraryChanged
  <2> DEFINE batch == <<[t |-> "catalog", dev |-> AllDevices]>>
  <2>1. batch \in Seq(Entries)
    BY DEF Entries
  <2>2. LogGains({batch[i] : i \in DOMAIN batch})
    BY <1>3, <2>1, AnnounceGains DEF LibraryChanged
  <2>3. {batch[i] : i \in DOMAIN batch} = {[t |-> "catalog", dev |-> AllDevices]}
    OBVIOUS
  <2> QED BY <2>2, <2>3
<1> QED BY <1>1, <1>2, <1>3 DEF NoJobEvent

(* The inductive invariant. *)
LogInv == TableOK /\ QueuedNamesOwner /\ LogTellsCancels

(* After the retained job.queued of j comes its job.cancel. *)
ToldOfCancel(j) ==
    \A i \in DOMAIN log.at :
        log.at[i].t = "job.queued" /\ log.at[i].job = j
            => \E k \in DOMAIN log.at : k > i /\ log.at[k] = Cancelled(log.at[i].dev, j)

LEMMA LogInvKept ==
    ASSUME LogInv, NEW New, LogGains(New), nextId' \in Nat, nextId <= nextId',
           \A j \in Ids' : IF j \in Ids THEN jobs'[j].dev = jobs[j].dev
                           ELSE ~(j < nextId),
           \A e \in New : e.t = "job.queued" =>
                            /\ e.job \in Ids' /\ e.job < nextId'
                            /\ jobs'[e.job].dev = e.dev
                            /\ jobs'[e.job].status # "cancelled",
           \A j \in Ids' : jobs'[j].status = "cancelled" =>
                             HasStatus(j, {"cancelled"}) \/ ToldOfCancel(j)'
    PROVE  QueuedNamesOwner' /\ LogTellsCancels'
<1>0. nextId \in Nat /\ TableOK
  BY TableBoundsAssumption, SMT DEF LogInv, TableOK
<1>1. \A i \in DOMAIN log.at : log.at[i].t = "job.queued" => log.at[i].job \in Nat
  <2>1. \A e \in Entries : e.t = "job.queued" => e.job \in Nat
    BY DEF Entries
  <2> QED BY <1>0, <2>1 DEF TableOK
<1>2. QueuedNamesOwner'
  <2> SUFFICES ASSUME NEW i \in DOMAIN log'.at, log'.at[i].t = "job.queued"
               PROVE  /\ log'.at[i].job < nextId'
                      /\ log'.at[i].job \in Ids' => jobs'[log'.at[i].job].dev = log'.at[i].dev
    BY DEF QueuedNamesOwner
  <2>1. CASE log'.at[i] \in New
    BY <2>1
  <2>2. CASE i \in DOMAIN log.at /\ log'.at[i] = log.at[i]
    <3>1. /\ log.at[i].job \in Nat /\ log.at[i].job < nextId
          /\ log.at[i].job \in Ids => jobs[log.at[i].job].dev = log.at[i].dev
      BY <1>1, <2>2 DEF LogInv, QueuedNamesOwner
    <3>2. log.at[i].job < nextId'
      BY <1>0, <3>1, SMT
    <3> QED BY <2>2, <3>1, <3>2
  <2> QED BY <2>1, <2>2 DEF LogGains
<1>3. LogTellsCancels'
  <2> SUFFICES ASSUME NEW i \in DOMAIN log'.at, log'.at[i].t = "job.queued",
                      log'.at[i].job \in Ids',
                      jobs'[log'.at[i].job].status = "cancelled"
               PROVE  \E k \in DOMAIN log'.at :
                        /\ k > i
                        /\ log'.at[k] = Cancelled(log'.at[i].dev, log'.at[i].job)
    BY DEF LogTellsCancels, HasStatus
  <2>1. i \in DOMAIN log.at /\ log'.at[i] = log.at[i]
    BY DEF LogGains
  <2>2. PICK j : j = log'.at[i].job
    OBVIOUS
  <2>3. CASE ToldOfCancel(j)'
    BY <2>2, <2>3 DEF ToldOfCancel
  <2>4. CASE HasStatus(j, {"cancelled"})
    <3>1. PICK k \in DOMAIN log.at :
             k > i /\ log.at[k] = Cancelled(log.at[i].dev, log.at[i].job)
      BY <2>1, <2>2, <2>4 DEF LogInv, LogTellsCancels
    <3>2. k \in DOMAIN log'.at /\ log'.at[k] = log.at[k]
      BY <3>1 DEF LogGains
    <3> QED BY <2>1, <3>1, <3>2
  <2> QED BY <2>2, <2>3, <2>4
<1> QED BY <1>2, <1>3

(* A cancelled job's event joins the log after every other. *)
LEMMA CancelIsTold ==
    ASSUME LogInv, NEW c \in Ids, CancelJob(c)
    PROVE  ToldOfCancel(c)'
<1> DEFINE batch == <<Cancelled(jobs[c].dev, c)>>
<1>0. TableOK /\ QueuedNamesOwner
  BY DEF LogInv
<1>1. batch \in Seq(Entries) /\ Announce(batch)
  BY <1>0, JobEvents DEF CancelJob
<1>2. /\ Len(batch) = 1 /\ batch[1] = Cancelled(jobs[c].dev, c)
      /\ \A n \in DOMAIN batch : batch[n] = Cancelled(jobs[c].dev, c)
  OBVIOUS
<1>3. log.head \in Nat /\ \A i \in DOMAIN log.at : i \in Nat /\ i <= log.head
  BY <1>0, LogIds DEF TableOK
<1> SUFFICES ASSUME NEW i \in DOMAIN log'.at,
                    log'.at[i].t = "job.queued", log'.at[i].job = c
             PROVE  \E k \in DOMAIN log'.at :
                       k > i /\ log'.at[k] = Cancelled(log'.at[i].dev, c)
  BY DEF ToldOfCancel
<1>4. i \in DOMAIN log.at /\ log'.at[i] = log.at[i]
  <2>1. LogGains({batch[n] : n \in DOMAIN batch})
    BY <1>0, <1>1, AnnounceGains
  <2>2. log'.at[i] # Cancelled(jobs[c].dev, c)
    BY DEF Cancelled
  <2> QED BY <1>2, <2>1, <2>2 DEF LogGains
<1>5. log.at[i].dev = jobs[c].dev
  BY <1>0, <1>4 DEF QueuedNamesOwner
<1>6. PICK k : k = log.head + 1
  OBVIOUS
<1>7. k \in Nat /\ i < k /\ i <= k /\ k <= log.head + Len(batch) /\ k > log.head
      /\ k - log.head = 1
  BY <1>2, <1>3, <1>4, <1>6, SMT
<1>8. k \in DOMAIN log'.at /\ log'.at[k] = Cancelled(jobs[c].dev, c)
  BY <1>0, <1>1, <1>2, <1>7, AnnounceGains
<1> QED BY <1>3, <1>4, <1>5, <1>7, <1>8, SMT

LEMMA InsertKeepsLogInv ==
    ASSUME LogInv, NEW d \in Devices, NEW n \in Nat, InsertJobs(d, n)
    PROVE  QueuedNamesOwner' /\ LogTellsCancels'
<1> DEFINE new == nextId..(nextId + n - 1)
           batch == [i \in 1..n |-> Queued(d, nextId + i - 1)]
<1>0. TableOK
  BY DEF LogInv
<1>1. /\ nextId \in Nat /\ nextId >= 1 /\ MaxJobs \in Nat
      /\ nextId + n - 1 <= MaxJobs /\ nextId' = nextId + n
  BY <1>0, TableBoundsAssumption DEF TableOK, InsertJobs
<1>2. /\ Ids' = Ids \cup new
      /\ \A j \in new : jobs'[j].dev = d /\ jobs'[j].status = "queued"
      /\ \A j \in Ids \ new : jobs'[j] = jobs[j]
  BY DEF InsertJobs
<1>3. \A j \in Ids : j < nextId
  BY <1>0, SMT DEF TableOK
<1>4. Ids \cap new = {}
  BY <1>1, <1>3, SMT
<1>5. LogGains({batch[i] : i \in DOMAIN batch})
  <2>1. \A i \in 1..n : Queued(d, nextId + i - 1) \in Entries
    <3> SUFFICES ASSUME NEW i \in 1..n PROVE Queued(d, nextId + i - 1) \in Entries
      OBVIOUS
    <3>1. nextId + i - 1 \in 1..MaxJobs
      BY <1>1, SMT
    <3> QED BY <3>1 DEF Queued, Entries
  <2>2. batch \in Seq(Entries)
    BY <2>1, SMT
  <2> QED BY <1>0, <2>2, AnnounceGains DEF InsertJobs
<1>6. \A e \in {batch[i] : i \in DOMAIN batch} :
         e.job \in new /\ e.job < nextId' /\ e.dev = d
  <2> SUFFICES ASSUME NEW i \in 1..n
               PROVE  /\ batch[i].job \in new /\ batch[i].job < nextId'
                      /\ batch[i].dev = d
    OBVIOUS
  <2>1. nextId + i - 1 \in new /\ nextId + i - 1 < nextId'
    BY <1>1, SMT
  <2> QED BY <2>1 DEF Queued
<1>7. \A e \in {batch[i] : i \in DOMAIN batch} :
         /\ e.job \in Ids' /\ e.job < nextId'
         /\ jobs'[e.job].dev = e.dev /\ jobs'[e.job].status # "cancelled"
  BY <1>2, <1>6
<1>8. nextId' \in Nat /\ nextId <= nextId' /\ \A j \in new : ~(j < nextId)
  BY <1>1, SMT
<1>9. \A j \in Ids' : IF j \in Ids THEN jobs'[j].dev = jobs[j].dev ELSE ~(j < nextId)
  BY <1>2, <1>4, <1>8
<1>10. \A j \in Ids' : jobs'[j].status = "cancelled" => HasStatus(j, {"cancelled"})
  BY <1>2, <1>4 DEF HasStatus
<1> HIDE DEF batch, new
<1> QED BY <1>5, <1>7, <1>8, <1>9, <1>10, LogInvKept

LEMMA ResumeKeepsLogInv ==
    ASSUME LogInv, NEW r \in Ids, ResumeJob(r)
    PROVE  QueuedNamesOwner' /\ LogTellsCancels'
<1> DEFINE batch == <<Queued(jobs[r].dev, r)>>
<1>0. TableOK /\ r < nextId /\ nextId \in Nat
  BY TableBoundsAssumption, SMT DEF LogInv, TableOK
<1>1. PICK p \in 1..MaxPosition :
         jobs' = [jobs EXCEPT ![r].status = "queued", ![r].age = 0, ![r].position = p]
  BY DEF ResumeJob
<1>2. /\ Ids' = Ids /\ nextId' = nextId
      /\ jobs'[r].dev = jobs[r].dev /\ jobs'[r].status = "queued"
      /\ \A k \in Ids \ {r} : jobs'[k] = jobs[k]
  BY <1>0, <1>1 DEF ResumeJob, TableOK, Rows
<1>3. LogGains({batch[i] : i \in DOMAIN batch})
  BY <1>0, JobEvents, AnnounceGains DEF ResumeJob
<1>4. \A e \in {batch[i] : i \in DOMAIN batch} :
         /\ e.job \in Ids' /\ e.job < nextId'
         /\ jobs'[e.job].dev = e.dev /\ jobs'[e.job].status # "cancelled"
  <2>1. \A i \in DOMAIN batch : batch[i].job = r /\ batch[i].dev = jobs[r].dev
    BY DEF Queued
  <2> QED BY <1>0, <1>2, <2>1
<1>5. \A j \in Ids' : IF j \in Ids THEN jobs'[j].dev = jobs[j].dev ELSE ~(j < nextId)
  BY <1>2
<1>6. \A j \in Ids' : jobs'[j].status = "cancelled" => HasStatus(j, {"cancelled"})
  BY <1>2 DEF HasStatus
<1>7. nextId' \in Nat /\ nextId <= nextId'
  BY <1>0, <1>2, SMT
<1> HIDE DEF batch
<1> QED BY <1>3, <1>4, <1>5, <1>6, <1>7, LogInvKept

LEMMA CancelKeepsLogInv ==
    ASSUME LogInv, NEW c \in Ids, CancelJob(c)
    PROVE  QueuedNamesOwner' /\ LogTellsCancels'
<1> DEFINE batch == <<Cancelled(jobs[c].dev, c)>>
<1>0. TableOK /\ nextId \in Nat
  BY TableBoundsAssumption DEF LogInv, TableOK
<1>1. \A j \in Ids' : /\ j \in Ids /\ jobs'[j].dev = jobs[j].dev
                      /\ j # c => jobs'[j].status = jobs[j].status
  BY <1>0, MovedOK DEF CancelJob, Statuses, Finished
<1>2. LogGains({batch[i] : i \in DOMAIN batch})
  BY <1>0, JobEvents, AnnounceGains DEF CancelJob
<1>3. \A e \in {batch[i] : i \in DOMAIN batch} : e.t # "job.queued"
  BY DEF Cancelled
<1>4. nextId' \in Nat /\ nextId <= nextId'
  BY <1>0, SMT DEF CancelJob
<1>5. \A j \in Ids' : jobs'[j].status = "cancelled" =>
                        HasStatus(j, {"cancelled"}) \/ ToldOfCancel(j)'
  BY <1>1, CancelIsTold DEF HasStatus
<1> HIDE DEF batch
<1> QED BY <1>1, <1>2, <1>3, <1>4, <1>5, LogInvKept

LEMMA OthersKeepLogInv ==
    ASSUME LogInv, PurgeFinishedJobs \/ QuietStep
    PROVE  QueuedNamesOwner' /\ LogTellsCancels'
<1> DEFINE new == {[t |-> "catalog", dev |-> AllDevices]}
<1>0. TableOK /\ nextId \in Nat
  BY TableBoundsAssumption DEF LogInv, TableOK
<1>1. /\ nextId' = nextId /\ Ids' \subseteq Ids
      /\ \A j \in Ids' : /\ jobs'[j].dev = jobs[j].dev
                         /\ \/ jobs'[j].status = jobs[j].status
                            \/ jobs'[j].status # "cancelled"
  <2>1. CASE PurgeFinishedJobs
    BY <2>1 DEF PurgeFinishedJobs
  <2>2. CASE QuietStep
    BY <2>2 DEF QuietStep, JobStep
  <2> QED BY <2>1, <2>2
<1>2. LogGains(new)
  <2>1. NoJobEvent
    BY DEF PurgeFinishedJobs, QuietStep, NoJobEvent
  <2> QED BY <1>0, <2>1, QuietGains
<1>3. \A e \in new : e.t # "job.queued"
  OBVIOUS
<1>4. nextId' \in Nat /\ nextId <= nextId'
  BY <1>0, <1>1, SMT
<1>5. \A j \in Ids' : jobs'[j].status = "cancelled" => HasStatus(j, {"cancelled"})
  BY <1>1 DEF HasStatus
<1> HIDE DEF new
<1> QED BY <1>1, <1>2, <1>3, <1>4, <1>5, LogInvKept

(* A console that reads the log in order never keeps a job it was told of and
   that has been cancelled since: the cancel stands behind the job.queued for
   as long as that is retained, for any size of the log (cancelJob,
   DeviceEventLog.append). *)
THEOREM CancelsAreTold == Spec => [](QueuedNamesOwner /\ LogTellsCancels)
<1>1. Init => QueuedNamesOwner /\ LogTellsCancels
  <2> SUFFICES ASSUME Init PROVE QueuedNamesOwner /\ LogTellsCancels
    OBVIOUS
  <2>1. DOMAIN log.at = {}
    BY SMT DEF Init, TableInit, EmptyLog
  <2> QED BY <2>1 DEF QueuedNamesOwner, LogTellsCancels
<1>2. TypeOK /\ QueuedNamesOwner /\ LogTellsCancels /\ [Next]_vars
        => QueuedNamesOwner' /\ LogTellsCancels'
  BY StepKinds, InsertKeepsLogInv, ResumeKeepsLogInv, CancelKeepsLogInv,
     OthersKeepLogInv DEF LogInv, TypeOK
<1> QED BY <1>1, <1>2, TypeCorrect, PTL DEF Spec

-----------------------------------------------------------------------------
(* SpacePlan: its inductive invariant, part by part. *)

\* What the plan has left after the first i demands.
LeftAfter(i) == [s \in Storages |-> IF Reported[s] = NoCard THEN NoCard ELSE Reported[s] - used[i][s]]

\* Every demand so far was placed in what the ones before it had left.
PlanInv ==
    /\ used[0] = [s \in Storages |-> 0]
    /\ left = LeftAfter(placing - 1)
    /\ \A i \in 1..(placing - 1) :
          /\ placed[i] = Place(LeftAfter(i - 1), Demands[i].target, Bytes(i))
          /\ used[i] = [s \in Storages |-> used[i - 1][s] + (IF s = placed[i] THEN Bytes(i) ELSE 0)]
    /\ \A i \in 0..(placing - 1), s \in Storages :
          /\ Reported[s] = NoCard => used[i][s] = 0
          /\ Reported[s] # NoCard => used[i][s] <= Reported[s]

\* The sums only grow, and are what the batch takes from its target if all of it fits there.
SumInv ==
    /\ sums[0] = 0 /\ (adding > 1 => Planned)
    /\ \A j \in 1..(adding - 1) : sums[j] = sums[j - 1] + Bytes(Pending + j)
    /\ \A i, j \in 0..(adding - 1) : i <= j => sums[i] <= sums[j]
    /\ \A j \in 0..(adding - 1) :
          Target # "auto" /\ (\A k \in 1..j : placed[Pending + k] = Target) =>
              used[Pending + j][Target] = used[Pending][Target] + sums[j]

\* Nothing was a surprise: the console has what the plan had left.
ConsoleInv ==
    /\ running <= placing
    /\ ~surprised => free = LeftAfter(running - 1) /\ PlanComesTrue

Settled == Target # "auto" /\ Reported[Target] # NoCard /\ \A i \in 1..Pending : ~Unsettled(i)

\* The trial has what the plan had left and what was short besides; in the batch, room for the rest.
TrialInv ==
    /\ trying > 1 => Summed
    /\ trying > 1 /\ Settled =>
          /\ trying <= Pending + 1 =>
                \A s \in Storages : room[s] = IF Reported[s] = NoCard THEN NoCard
                                              ELSE Freed[s] - used[trying - 1][s]
          /\ trying > Pending =>
                room[Target] = Freed[Target] - used[Pending][Target] - sums[trying - 1 - Pending]
          /\ ShortIsEnough

SpaceInv == SpaceTypeOK /\ PlanInv /\ SumInv /\ ConsoleInv /\ TrialInv

--------------------------------------------------------------------------------
LEMMA SpaceSizes ==
    SpaceSized =>
        /\ Pending \in Nat /\ Batch \in Nat /\ All \in Nat /\ All = Pending + Batch /\ NoCard \notin Nat
        /\ \A i \in 1..All : Bytes(i) \in Nat /\ Demands[i].target \in Targets
        /\ \A i \in (Pending + 1)..All : Demands[i].target = Target
        /\ \A s \in Storages : Reported[s] \in Nat \cup {NoCard}
        /\ Reported = [s \in Storages |-> Reported[s]]
        /\ Target \in {"auto"} \cup Storages
BY DEF SpaceSized, All, Bytes, Targets, Storages

\* place puts a demand where it may go and where there is room for it.
LEMMA PlacedWithRoom ==
    ASSUME NEW space, NEW target \in Targets, NEW bytes
    PROVE  /\ Place(space, target, bytes) \in Spots
           /\ Place(space, target, bytes) # Nowhere =>
                 /\ HasRoom(space, Place(space, target, bytes), bytes)
                 /\ Place(space, target, bytes) \in Storages
                 /\ target # "auto" => Place(space, target, bytes) = target
           /\ target # "auto" /\ HasRoom(space, target, bytes) => Place(space, target, bytes) = target
BY DEF Place, HasRoom, Spots, Storages, Targets, Nowhere

LEMMA SpaceStarts == SpaceSized /\ SpaceInit => SpaceInv
<1> SUFFICES ASSUME SpaceSized, SpaceInit PROVE SpaceInv  OBVIOUS
<1> USE SpaceSizes
<1>1. SpaceTypeOK
  BY DEF SpaceInit, SpaceTypeOK, SpaceSized, Spots, Storages, Nowhere
<1>2. PlanInv
  <2>1. used[0] = [s \in Storages |-> 0] /\ placing = 1 /\ left = Reported
    BY DEF SpaceInit
  <2>2. \A s \in Storages : used[0][s] = 0
    BY <2>1
  <2>3. LeftAfter(0) = Reported
    BY <2>2 DEF LeftAfter
  <2> QED BY <2>1, <2>2, <2>3 DEF PlanInv
<1>3. SumInv
  <2>1. adding = 1 /\ sums[0] = 0 /\ used[Pending] = [s \in Storages |-> 0]
    BY DEF SpaceInit
  <2>2. Target \in Storages => used[Pending + 0][Target] = used[Pending][Target] + 0
    BY <2>1
  <2> QED BY <2>1, <2>2 DEF SumInv
<1>4. ConsoleInv
  <2>1. running = 1 /\ placing = 1 /\ surprised = (free # Reported) /\ used[0] = [s \in Storages |-> 0]
    BY DEF SpaceInit
  <2>2. LeftAfter(0) = Reported
    <3>1. \A s \in Storages : used[0][s] = 0
      BY <2>1
    <3> QED BY <3>1 DEF LeftAfter
  <2>3. PlanComesTrue
    BY <2>1 DEF PlanComesTrue
  <2>4. running - 1 = 0
    BY <2>1
  <2>5. ~surprised => free = LeftAfter(running - 1)
    BY <2>1, <2>2, <2>4, Zenon
  <2> QED BY <2>1, <2>3, <2>5 DEF ConsoleInv
<1>5. TrialInv
  BY DEF SpaceInit, TrialInv
<1> QED BY <1>1, <1>2, <1>3, <1>4, <1>5 DEF SpaceInv

\* A step of the plan.
LEMMA PlanStep ==
    ASSUME SpaceSized, SpaceInv, PlaceNext
    PROVE  SpaceInv'
<1> USE SpaceSizes
<1> DEFINE b == Bytes(placing)
           s == Place(left, Demands[placing].target, b)
<1>0. /\ placing \in 1..All /\ placing' = placing + 1 /\ b \in Nat
      /\ placed' = [placed EXCEPT ![placing] = s]
      /\ left' = Taken(left, s, b)
      /\ used' = [used EXCEPT ![placing] = [t \in Storages |-> used[placing - 1][t] + (IF t = s THEN b ELSE 0)]]
      /\ UNCHANGED <<sumVars, consoleVars, trialVars>>
  BY DEF PlaceNext, SpaceInv, SpaceTypeOK
<1>1. /\ s \in Spots
      /\ s # Nowhere => s \in Storages /\ left[s] # NoCard /\ b <= left[s]
  <2>1. Demands[placing].target \in Targets
    BY <1>0
  <2>2. /\ Place(left, Demands[placing].target, b) \in Spots
        /\ Place(left, Demands[placing].target, b) # Nowhere =>
              /\ HasRoom(left, Place(left, Demands[placing].target, b), b)
              /\ Place(left, Demands[placing].target, b) \in Storages
    BY <2>1, PlacedWithRoom
  <2> QED BY <2>2 DEF HasRoom
<1>2. \A i \in 0..All, t \in Storages : used[i][t] \in Nat
  BY DEF SpaceInv, SpaceTypeOK
<1>3. /\ \A i \in 0..All : i # placing => used'[i] = used[i]
      /\ used'[placing] = [t \in Storages |-> used[placing - 1][t] + (IF t = s THEN b ELSE 0)]
      /\ used' \in [0..All -> [Storages -> Nat]]
  <2>1. used \in [0..All -> [Storages -> Nat]] /\ placing \in 0..All /\ placing - 1 \in 0..All
    BY <1>0 DEF SpaceInv, SpaceTypeOK
  <2>2. [t \in Storages |-> used[placing - 1][t] + (IF t = s THEN b ELSE 0)] \in [Storages -> Nat]
    BY <1>0, <1>2, <2>1
  <2> QED BY <1>0, <2>1, <2>2
<1>4. /\ \A i \in 1..All : i # placing => placed'[i] = placed[i]
      /\ placed'[placing] = s /\ placed' \in [1..All -> Spots]
  BY <1>0, <1>1 DEF SpaceInv, SpaceTypeOK
<1>5. \A i \in 0..(placing - 1) : LeftAfter(i)' = LeftAfter(i)
  BY <1>0, <1>3 DEF LeftAfter
<1>6. left = LeftAfter(placing - 1)
  BY DEF SpaceInv, PlanInv
<1>7. /\ \A t \in Storages : left[t] = IF Reported[t] = NoCard THEN NoCard ELSE Reported[t] - used[placing - 1][t]
      /\ \A t \in Storages : Reported[t] = NoCard => used[placing - 1][t] = 0
      /\ \A t \in Storages : Reported[t] # NoCard => used[placing - 1][t] <= Reported[t]
  <2>1. placing - 1 \in 0..(placing - 1)
    BY <1>0
  <2> QED BY <1>6, <2>1 DEF SpaceInv, PlanInv, LeftAfter
<1>8. \A t \in Storages :
         /\ Reported[t] = NoCard => used'[placing][t] = 0 /\ t # s
         /\ Reported[t] # NoCard => used'[placing][t] <= Reported[t]
  <2> SUFFICES ASSUME NEW t \in Storages
               PROVE  /\ Reported[t] = NoCard => used'[placing][t] = 0 /\ t # s
                      /\ Reported[t] # NoCard => used'[placing][t] <= Reported[t]
    OBVIOUS
  <2>1. used'[placing][t] = used[placing - 1][t] + (IF t = s THEN b ELSE 0)
    BY <1>3
  <2>2. used[placing - 1][t] \in Nat
    BY <1>0, <1>2
  <2>3. t = s => s # Nowhere
    BY DEF Storages, Nowhere
  <2> QED BY <1>0, <1>1, <1>7, <2>1, <2>2, <2>3
<1>9. left' = [t \in Storages |-> IF Reported[t] = NoCard THEN NoCard ELSE Reported[t] - used'[placing][t]]
  <2>1. left' = [t \in Storages |-> IF t = s THEN left[t] - b ELSE left[t]]
    BY <1>0 DEF Taken
  <2>2. \A t \in Storages : (IF t = s THEN left[t] - b ELSE left[t])
                             = IF Reported[t] = NoCard THEN NoCard ELSE Reported[t] - used'[placing][t]
    <3> SUFFICES ASSUME NEW t \in Storages
                 PROVE  (IF t = s THEN left[t] - b ELSE left[t])
                        = IF Reported[t] = NoCard THEN NoCard ELSE Reported[t] - used'[placing][t]
      OBVIOUS
    <3>1. used'[placing][t] = used[placing - 1][t] + (IF t = s THEN b ELSE 0) /\ used[placing - 1][t] \in Nat
      BY <1>0, <1>2, <1>3
    <3>2. t = s => s # Nowhere
      BY DEF Storages, Nowhere
    <3> QED BY <1>0, <1>1, <1>7, <1>8, <3>1, <3>2
  <2> QED BY <2>1, <2>2
<1>10. placing' - 1 = placing /\ 1..(placing' - 1) = 1..(placing - 1) \cup {placing}
       /\ 0..(placing' - 1) = 0..(placing - 1) \cup {placing}
  BY <1>0
<1>11. PlanInv'
  <2>1. used'[0] = [t \in Storages |-> 0]
    <3>1. 0 \in 0..All /\ 0 # placing
      BY <1>0
    <3> QED BY <1>3, <3>1 DEF SpaceInv, PlanInv
  <2>2. (left = LeftAfter(placing - 1))'
    BY <1>9, <1>10 DEF LeftAfter
  <2>3. \A i \in 1..(placing - 1) :
           /\ placed'[i] = Place(LeftAfter(i - 1), Demands[i].target, Bytes(i))'
           /\ used'[i] = [t \in Storages |-> used'[i - 1][t] + (IF t = placed'[i] THEN Bytes(i) ELSE 0)]
    <3> TAKE i \in 1..(placing - 1)
    <3>1. i \in 1..All /\ i \in 0..All /\ i - 1 \in 0..All /\ i # placing /\ i - 1 # placing /\ i - 1 \in 0..(placing - 1)
      BY <1>0
    <3>2. used'[i] = used[i] /\ used'[i - 1] = used[i - 1] /\ placed'[i] = placed[i]
      BY <1>3, <1>4, <3>1
    <3>3. LeftAfter(i - 1)' = LeftAfter(i - 1)
      BY <3>2 DEF LeftAfter
    <3>4. Place(LeftAfter(i - 1), Demands[i].target, Bytes(i))' = Place(LeftAfter(i - 1), Demands[i].target, Bytes(i))
      BY <3>3 DEF Place, HasRoom, Bytes
    <3> QED BY <3>2, <3>4 DEF SpaceInv, PlanInv
  <2>4. placed'[placing] = Place(LeftAfter(placing - 1), Demands[placing].target, Bytes(placing))
    BY <1>4, <1>6
  <2>5. \A i \in 1..(placing' - 1) :
           /\ placed'[i] = Place(LeftAfter(i - 1), Demands[i].target, Bytes(i))'
           /\ used'[i] = [t \in Storages |-> used'[i - 1][t] + (IF t = placed'[i] THEN Bytes(i) ELSE 0)]
    <3> SUFFICES ASSUME NEW i \in 1..(placing' - 1), i = placing
                 PROVE  /\ placed'[i] = Place(LeftAfter(i - 1), Demands[i].target, Bytes(i))'
                        /\ used'[i] = [t \in Storages |-> used'[i - 1][t] + (IF t = placed'[i] THEN Bytes(i) ELSE 0)]
      BY <1>10, <2>3
    <3>1. i - 1 \in 0..All /\ i - 1 # placing
      BY <1>0
    <3>2. used'[i - 1] = used[i - 1]
      BY <1>3, <3>1
    <3>3. LeftAfter(i - 1)' = LeftAfter(i - 1)
      BY <3>2 DEF LeftAfter
    <3>4. Place(LeftAfter(i - 1), Demands[i].target, Bytes(i))' = Place(LeftAfter(i - 1), Demands[i].target, Bytes(i))
      BY <3>3 DEF Place, HasRoom, Bytes
    <3>5. placed'[i] = s /\ used'[i] = [t \in Storages |-> used[i - 1][t] + (IF t = s THEN b ELSE 0)]
      BY <1>3, <1>4
    <3> QED BY <2>4, <3>2, <3>4, <3>5
  <2>6. \A i \in 0..(placing' - 1), t \in Storages :
           /\ Reported[t] = NoCard => used'[i][t] = 0
           /\ Reported[t] # NoCard => used'[i][t] <= Reported[t]
    <3>1. \A i \in 0..(placing - 1), t \in Storages : used'[i][t] = used[i][t]
      BY <1>0, <1>3
    <3> QED BY <1>8, <1>10, <3>1 DEF SpaceInv, PlanInv
  <2> QED BY <2>1, <2>2, <2>5, <2>6 DEF PlanInv
<1>12. adding = 1 /\ adding' = 1 /\ sums' = sums /\ trying = 1 /\ trying' = 1
  <2>1. adding \in 1..(Batch + 1) /\ trying \in 1..(All + 1) /\ placing # All + 1
    BY <1>0 DEF SpaceInv, SpaceTypeOK
  <2>2. adding = 1
    BY <2>1 DEF SpaceInv, SumInv, Planned
  <2>3. trying = 1
    BY <2>1 DEF SpaceInv, TrialInv, Summed, Planned
  <2>4. adding' = adding /\ sums' = sums /\ trying' = trying
    BY <1>0 DEF sumVars, trialVars
  <2> QED BY <2>2, <2>3, <2>4
<1>13. SumInv'
  <2>1. \A x : x \in Nat => x = x + 0
    OBVIOUS
  <2>2. sums'[0] = 0
    BY <1>12 DEF SpaceInv, SumInv
  <2>3. Target # "auto" => Target \in Storages /\ used'[Pending][Target] \in Nat
    BY <1>3
  <2>4. Pending + 0 = Pending /\ 0..(1 - 1) = {0} /\ 1..(1 - 1) = {}
    OBVIOUS
  <2> QED BY <1>12, <2>1, <2>2, <2>3, <2>4 DEF SumInv
<1>14. ConsoleInv'
  <2>1. running \in 1..placing /\ UNCHANGED <<running, free, came, surprised>>
    BY <1>0 DEF SpaceInv, SpaceTypeOK, ConsoleInv, consoleVars
  <2>2. LeftAfter(running - 1)' = LeftAfter(running - 1)
    <3>1. running - 1 \in 0..All /\ running - 1 # placing
      BY <1>0, <2>1
    <3>2. used'[running - 1] = used[running - 1]
      BY <1>3, <3>1
    <3> QED BY <2>1, <3>2 DEF LeftAfter
  <2>3. PlanComesTrue => PlanComesTrue'
    <3>1. \A i \in 1..(running - 1) : placed'[i] = placed[i]
      BY <1>0, <1>4, <2>1
    <3> QED BY <2>1, <3>1 DEF PlanComesTrue
  <2> QED BY <1>0, <2>1, <2>2, <2>3 DEF SpaceInv, ConsoleInv
<1>15. TrialInv'
  BY <1>12 DEF TrialInv
<1>16. SpaceTypeOK'
  <2>1. left' \in [Storages -> Nat \cup {NoCard}]
    <3>1. \A t \in Storages : Reported[t] # NoCard => Reported[t] - used'[placing][t] \in Nat
      BY <1>0, <1>3, <1>8
    <3> QED BY <1>9, <3>1
  <2>2. placing' \in 1..(All + 1)
    BY <1>0
  <2> QED BY <1>0, <1>3, <1>4, <2>1, <2>2 DEF SpaceInv, SpaceTypeOK, sumVars, consoleVars, trialVars
<1> QED BY <1>11, <1>13, <1>14, <1>15, <1>16 DEF SpaceInv

\* The page adds up one more of the batch.
LEMMA SumStep ==
    ASSUME SpaceSized, SpaceInv, AddNext
    PROVE  SpaceInv'
<1> USE SpaceSizes
<1> DEFINE b == Bytes(Pending + adding)
<1>0. /\ Planned /\ adding \in 1..Batch /\ adding' = adding + 1
      /\ sums' = [sums EXCEPT ![adding] = sums[adding - 1] + b]
      /\ UNCHANGED <<planVars, consoleVars, trialVars>>
  BY DEF AddNext, SpaceInv, SpaceTypeOK
<1>1. b \in Nat /\ Pending + adding \in 1..All /\ adding - 1 \in 0..Batch /\ adding \in 0..Batch
      /\ placing = All + 1
  BY <1>0 DEF Planned
<1>2. sums \in [0..Batch -> Nat]
  BY DEF SpaceInv, SpaceTypeOK
<1>3. /\ \A j \in 0..Batch : j # adding => sums'[j] = sums[j]
      /\ sums'[adding] = sums[adding - 1] + b /\ sums' \in [0..Batch -> Nat]
  <2>1. sums[adding - 1] + b \in Nat
    BY <1>1, <1>2
  <2> QED BY <1>0, <1>1, <1>2, <2>1, SMTT(30)
<1>4. /\ placing' = placing /\ left' = left /\ placed' = placed /\ used' = used
      /\ running' = running /\ free' = free /\ came' = came /\ surprised' = surprised
      /\ trying' = trying /\ room' = room /\ tried' = tried
  BY <1>0 DEF planVars, consoleVars, trialVars
<1>5. trying = 1
  <2>1. adding # Batch + 1 /\ trying \in 1..(All + 1)
    BY <1>0 DEF SpaceInv, SpaceTypeOK
  <2> QED BY <2>1 DEF SpaceInv, TrialInv, Summed
<1>6. TrialInv'
  BY <1>4, <1>5 DEF TrialInv
<1>7. PlanInv'
  <2>1. \A i \in 0..All : LeftAfter(i)' = LeftAfter(i)
    BY <1>4 DEF LeftAfter
  <2> QED BY <1>1, <1>4 DEF SpaceInv, PlanInv, LeftAfter, Place, HasRoom, Bytes
<1>8. ConsoleInv'
  BY <1>4 DEF SpaceInv, ConsoleInv, PlanComesTrue, LeftAfter
<1>9. SpaceTypeOK'
  <2>1. adding' \in 1..(Batch + 1)
    BY <1>0
  <2> QED BY <1>3, <1>4, <2>1 DEF SpaceInv, SpaceTypeOK
<1>10. SumInv'
  <2>1. sums'[0] = 0 /\ Planned'
    BY <1>0, <1>1, <1>3, <1>4 DEF SpaceInv, SumInv, Planned
  <2>2. \A j \in 1..(adding' - 1) : sums'[j] = sums'[j - 1] + Bytes(Pending + j)
    <3> TAKE j \in 1..(adding' - 1)
    <3>1. CASE j = adding
      BY <1>0, <1>1, <1>3, <3>1
    <3>2. CASE j # adding
      <4>1. j \in 1..(adding - 1) /\ j \in 0..Batch /\ j - 1 \in 0..Batch /\ j - 1 # adding
        BY <1>0, <3>2
      <4>2. sums[j] = sums[j - 1] + Bytes(Pending + j)
        BY <4>1 DEF SpaceInv, SumInv
      <4> QED BY <1>3, <3>2, <4>1, <4>2
    <3> QED BY <3>1, <3>2
  <2>3. \A i, j \in 0..(adding' - 1) : i <= j => sums'[i] <= sums'[j]
    <3> SUFFICES ASSUME NEW i \in 0..(adding' - 1), NEW j \in 0..(adding' - 1), i <= j
                 PROVE  sums'[i] <= sums'[j]
      OBVIOUS
    <3>1. \A k, l \in 0..(adding - 1) : k <= l => sums[k] <= sums[l]
      BY DEF SpaceInv, SumInv
    <3>2. CASE i = adding
      <4>1. j = i
        BY <1>0, <3>2
      <4>2. sums'[i] \in Nat
        BY <1>1, <1>3, <3>2
      <4> QED BY <4>1, <4>2
    <3>3. CASE i # adding /\ j = adding
      <4>1. i \in 0..(adding - 1) /\ adding - 1 \in 0..(adding - 1) /\ i \in 0..Batch
        BY <1>0, <3>3
      <4>2. sums[i] <= sums[adding - 1]
        BY <1>0, <3>1, <4>1
      <4>3. sums[i] \in Nat /\ sums[adding - 1] \in Nat
        BY <1>1, <1>2, <4>1
      <4>4. sums'[i] = sums[i] /\ sums'[j] = sums[adding - 1] + b
        BY <1>3, <3>3, <4>1
      <4> QED BY <1>1, <4>2, <4>3, <4>4
    <3>4. CASE i # adding /\ j # adding
      <4>1. i \in 0..(adding - 1) /\ j \in 0..(adding - 1) /\ i \in 0..Batch /\ j \in 0..Batch
        BY <1>0, <3>4
      <4> QED BY <1>3, <3>1, <3>4, <4>1
    <3> QED BY <3>2, <3>3, <3>4
  <2>4. ASSUME NEW j \in 0..(adding' - 1), Target # "auto", \A k \in 1..j : placed'[Pending + k] = Target
        PROVE  used'[Pending + j][Target] = used'[Pending][Target] + sums'[j]
    <3>1. CASE j # adding
      <4>1. j \in 0..(adding - 1) /\ j \in 0..Batch
        BY <1>0, <3>1
      <4> QED BY <1>3, <1>4, <2>4, <3>1, <4>1 DEF SpaceInv, SumInv
    <3>2. CASE j = adding
      <4>1. adding - 1 \in 0..(adding - 1) /\ \A k \in 1..(adding - 1) : placed[Pending + k] = Target
        BY <1>0, <1>4, <2>4, <3>2
      <4>2. used[Pending + (adding - 1)][Target] = used[Pending][Target] + sums[adding - 1]
        BY <2>4, <4>1 DEF SpaceInv, SumInv
      <4>3. placed[Pending + adding] = Target
        BY <1>0, <1>4, <2>4, <3>2
      <4>4. Pending + adding \in 1..(placing - 1) /\ (Pending + adding) - 1 = Pending + (adding - 1)
        BY <1>0, <1>1
      <4>5. used[Pending + adding] = [s \in Storages |-> used[Pending + (adding - 1)][s] + (IF s = placed[Pending + adding] THEN b ELSE 0)]
        BY <4>4 DEF SpaceInv, PlanInv
      <4>6. used[Pending + adding][Target] = used[Pending + (adding - 1)][Target] + b
        BY <2>4, <4>3, <4>5
      <4>7. used[Pending][Target] \in Nat /\ sums[adding - 1] \in Nat
        <5>1. Target \in Storages /\ Pending \in 0..All
          BY <2>4
        <5>2. used \in [0..All -> [Storages -> Nat]]
          BY DEF SpaceInv, SpaceTypeOK
        <5> QED BY <1>1, <1>2, <5>1, <5>2
      <4>8. used'[Pending + j][Target] = (used[Pending][Target] + sums[adding - 1]) + b
        BY <1>4, <3>2, <4>2, <4>6
      <4>9. sums'[j] = sums[adding - 1] + b /\ used'[Pending][Target] = used[Pending][Target]
        BY <1>3, <1>4, <3>2
      <4> QED BY <1>1, <4>7, <4>8, <4>9
    <3> QED BY <3>1, <3>2
  <2> QED BY <2>1, <2>2, <2>3, <2>4 DEF SumInv
<1> QED BY <1>6, <1>7, <1>8, <1>9, <1>10 DEF SpaceInv

\* An auto install without a storage that has room for it all fails just where the plan said so.
LEMMA PickedAsPlaced ==
    ASSUME SpaceSized, SpaceTypeOK, NEW target \in Targets, NEW b \in Nat
    PROVE  LET s == Picks(target, b)
           IN  (IF s # Nowhere /\ HasRoom(free, s, b) THEN s ELSE Nowhere) = Place(free, target, b)
BY DEF Picks, Place, HasRoom, Nowhere, Targets

\* The console runs an install, or something else moves.
LEMMA ConsoleStep ==
    ASSUME SpaceSized, SpaceInv,
           \/ \E need, missing \in Nat : ConsoleInstalls(need, missing)
           \/ \E s \in Storages, now \in Nat \cup {NoCard} : SpaceMoves(s, now)
    PROVE  SpaceInv'
<1> USE SpaceSizes
<1>0. UNCHANGED <<planVars, sumVars, trialVars>>
  BY DEF ConsoleInstalls, SpaceMoves
<1>1. /\ placing' = placing /\ left' = left /\ placed' = placed /\ used' = used
      /\ adding' = adding /\ sums' = sums /\ trying' = trying /\ room' = room /\ tried' = tried
  BY <1>0 DEF planVars, sumVars, trialVars
<1>2. PlanInv'
  BY <1>1 DEF SpaceInv, PlanInv, LeftAfter, Place, HasRoom, Bytes
<1>3. SumInv'
  BY <1>1 DEF SpaceInv, SumInv, Planned
<1>4. TrialInv'
  BY <1>1 DEF SpaceInv, TrialInv, Summed, Planned, Settled, Unsettled, ShortIsEnough, Freed, ShortOn, QueuedUse,
              AllFit, ItemFits, Known
<1>5. SpaceTypeOK' /\ ConsoleInv'
  <2>1. CASE \E s \in Storages, now \in Nat \cup {NoCard} : SpaceMoves(s, now)
    <3>1. running' = running /\ came' = came /\ surprised' = TRUE /\ free' \in [Storages -> Nat \cup {NoCard}]
          /\ free'["nand"] # NoCard
      BY <2>1 DEF SpaceMoves, SpaceInv, SpaceTypeOK, Storages
    <3> QED BY <1>1, <3>1 DEF SpaceInv, SpaceTypeOK, ConsoleInv
  <2>2. CASE \E need, missing \in Nat : ConsoleInstalls(need, missing)
    <3> PICK need \in Nat, missing \in Nat : ConsoleInstalls(need, missing)
      BY <2>2
    <3> DEFINE s == Picks(Demands[running].target, need)
               fits == s # Nowhere /\ HasRoom(free, s, missing)
               went == IF fits THEN s ELSE Nowhere
    <3>1. /\ running < placing /\ running' = running + 1
          /\ came' = [came EXCEPT ![running] = went]
          /\ free' = IF fits THEN Taken(free, s, missing) ELSE free
          /\ surprised' = (surprised \/ need # Bytes(running) \/ missing # Bytes(running))
      BY DEF ConsoleInstalls
    <3>2. running \in 1..All /\ Demands[running].target \in Targets /\ running - 1 \in 0..(placing - 1)
          /\ running \in 1..(placing - 1) /\ running \in 0..All
      <4>1. running \in 1..(All + 1) /\ placing \in 1..(All + 1)
        BY DEF SpaceInv, SpaceTypeOK
      <4>2. running \in 1..All /\ running - 1 \in 0..(placing - 1) /\ running \in 1..(placing - 1) /\ running \in 0..All
        BY <3>1, <4>1
      <4> QED BY <4>2
    <3>3. free \in [Storages -> Nat \cup {NoCard}] /\ free["nand"] # NoCard /\ came \in [1..All -> Spots]
          /\ surprised \in BOOLEAN
      BY DEF SpaceInv, SpaceTypeOK
    <3>4. s \in Spots
      BY <3>2 DEF Picks, Spots, Storages, Targets
    <3>5. fits => s \in Storages /\ free[s] # NoCard /\ missing <= free[s]
      BY <3>4 DEF Spots, HasRoom
    <3>6. came' \in [1..All -> Spots] /\ came'[running] = went /\ \A i \in 1..All : i # running => came'[i] = came[i]
      BY <3>1, <3>2, <3>3, <3>4 DEF Spots
    <3>7. free' \in [Storages -> Nat \cup {NoCard}] /\ free'["nand"] # NoCard
      <4>1. CASE ~fits
        BY <3>1, <3>3, <4>1
      <4>2. CASE fits
        <5>1. free' = [t \in Storages |-> IF t = s THEN free[t] - missing ELSE free[t]]
          BY <3>1, <4>2 DEF Taken
        <5>2. free[s] \in Nat /\ free[s] - missing \in Nat
          BY <3>3, <3>5, <4>2
        <5> QED BY <3>3, <5>1, <5>2 DEF Storages
      <4> QED BY <4>1, <4>2
    <3>8. SpaceTypeOK'
      <4>1. running' \in 1..(All + 1) /\ surprised' \in BOOLEAN
        BY <3>1, <3>2, <3>3, SMTT(30)
      <4> QED BY <1>1, <3>6, <3>7, <4>1 DEF SpaceInv, SpaceTypeOK
    <3>9. running' <= placing'
      <4>1. placing \in Nat
        BY DEF SpaceInv, SpaceTypeOK
      <4> QED BY <1>1, <3>1, <3>2, <4>1
    <3>10. ASSUME ~surprised' PROVE free' = LeftAfter(running) /\ came'[running] = placed[running] /\ ~surprised
      <4>1. ~surprised /\ need = Bytes(running) /\ missing = need
        BY <3>1, <3>10
      <4>2. free = LeftAfter(running - 1)
        BY <4>1 DEF SpaceInv, ConsoleInv
      <4>3. went = Place(free, Demands[running].target, need)
        BY <3>2, <4>1, PickedAsPlaced DEF SpaceInv
      <4>4. /\ placed[running] = Place(LeftAfter(running - 1), Demands[running].target, Bytes(running))
            /\ used[running] = [t \in Storages |-> used[running - 1][t] + (IF t = placed[running] THEN Bytes(running) ELSE 0)]
        BY <3>2 DEF SpaceInv, PlanInv
      <4>5. went = placed[running]
        BY <4>1, <4>2, <4>3, <4>4
      <4>6. \A t \in Storages : used[running - 1][t] \in Nat /\ used[running][t] \in Nat /\ Bytes(running) \in Nat
        <5>1. running - 1 \in 0..All
          BY <3>2
        <5> QED BY <3>2, <5>1 DEF SpaceInv, SpaceTypeOK
      <4>7. free' = [t \in Storages |-> IF t = went THEN free[t] - missing ELSE free[t]]
        <5>1. CASE fits
          BY <3>1, <5>1 DEF Taken
        <5>2. CASE ~fits
          <6>1. \A t \in Storages : t # Nowhere
            BY DEF Storages, Nowhere
          <6> QED BY <3>1, <3>3, <5>2, <6>1
        <5> QED BY <5>1, <5>2
      <4>8. \A t \in Storages : (IF t = went THEN free[t] - missing ELSE free[t])
                                = IF Reported[t] = NoCard THEN NoCard ELSE Reported[t] - used[running][t]
        <5> TAKE t \in Storages
        <5>1. free[t] = IF Reported[t] = NoCard THEN NoCard ELSE Reported[t] - used[running - 1][t]
          BY <4>2 DEF LeftAfter
        <5>2. used[running][t] = used[running - 1][t] + (IF t = went THEN missing ELSE 0)
          BY <4>1, <4>4, <4>5
        <5>3. t = went => fits
          BY DEF Storages, Nowhere
        <5>4. t = went => Reported[t] # NoCard
          BY <3>5, <5>1, <5>3
        <5> QED BY <4>1, <4>6, <5>1, <5>2, <5>4
      <4> QED BY <3>6, <4>1, <4>5, <4>7, <4>8 DEF LeftAfter
    <3>11. ~surprised' => (free = LeftAfter(running - 1))' /\ PlanComesTrue'
      <4> SUFFICES ASSUME ~surprised' PROVE (free = LeftAfter(running - 1))' /\ PlanComesTrue'
        OBVIOUS
      <4>1. running' - 1 = running
        BY <3>1, <3>2
      <4>2. \A i \in 1..(running - 1) : came[i] = placed[i]
        BY <3>10 DEF SpaceInv, ConsoleInv, PlanComesTrue
      <4>3. \A i \in 1..running : came'[i] = placed'[i]
        <5> TAKE i \in 1..running
        <5>1. i \in 1..All /\ (i # running => i \in 1..(running - 1))
          BY <3>2
        <5> QED BY <1>1, <3>6, <3>10, <4>2, <5>1
      <4> QED BY <1>1, <3>10, <4>1, <4>3 DEF LeftAfter, PlanComesTrue
    <3> QED BY <3>8, <3>9, <3>11 DEF ConsoleInv
  <2> QED BY <2>1, <2>2
<1> QED BY <1>2, <1>3, <1>4, <1>5 DEF SpaceInv

\* What the page says is short, had it been freed, is room for the whole batch.
LEMMA EnoughIsFreed ==
    ASSUME SpaceSized, SpaceInv, Summed, Target # "auto", Reported[Target] # NoCard
    PROVE  /\ Freed[Target] \in Nat /\ Freed[Target] >= Reported[Target]
           /\ Freed[Target] >= used[Pending][Target] + sums[Batch]
<1> USE SpaceSizes
<1>0. Target \in Storages /\ Reported[Target] \in Nat /\ Pending \in 0..All /\ Batch \in 0..Batch
      /\ placing = All + 1 /\ adding = Batch + 1
  BY DEF Summed, Planned
<1>1. used[Pending][Target] \in Nat /\ sums[Batch] \in Nat /\ used[All][Target] \in Nat
  BY <1>0 DEF SpaceInv, SpaceTypeOK
<1>2. Freed[Target] = Reported[Target] + ShortOn(Target)
  BY <1>0 DEF Freed
<1> DEFINE missing == (used[Pending][Target] + sums[Batch]) - Reported[Target]
<1>3. ShortOn(Target) = IF AllFit \/ missing < 0 THEN 0 ELSE missing
  <2>1. ShortOn(Target) = IF Reported[Target] = NoCard \/ Target # Target \/ AllFit
                             \/ used[Pending][Target] + sums[Batch] - Reported[Target] < 0
                          THEN 0 ELSE used[Pending][Target] + sums[Batch] - Reported[Target]
    BY DEF ShortOn, QueuedUse
  <2> QED BY <1>0, <1>1, <2>1
<1>4. CASE AllFit
  <2>1. Known
    BY <1>0 DEF Known
  <2>2. \A k \in 1..Batch : placed[Pending + k] = Target
    <3> TAKE k \in 1..Batch
    <3>1. placed[Pending + k] # Nowhere
      BY <1>4, <2>1 DEF AllFit, ItemFits
    <3>2. Pending + k \in 1..(placing - 1) /\ Pending + k \in 1..All /\ Demands[Pending + k].target = Target
      BY <1>0
    <3>3. placed[Pending + k] = Place(LeftAfter((Pending + k) - 1), Target, Bytes(Pending + k))
      BY <3>2 DEF SpaceInv, PlanInv
    <3>4. Target \in Targets
      BY <1>0 DEF Storages, Targets
    <3> QED BY <3>1, <3>3, <3>4, PlacedWithRoom
  <2>3. Batch \in 0..(adding - 1) /\ Pending + Batch = All
    BY <1>0
  <2>4. used[Pending + Batch][Target] = used[Pending][Target] + sums[Batch]
    BY <2>2, <2>3 DEF SpaceInv, SumInv
  <2>5. All \in 0..(placing - 1)
    BY <1>0
  <2>6. used[All][Target] <= Reported[Target]
    BY <1>0, <2>5 DEF SpaceInv, PlanInv
  <2>7. ShortOn(Target) = 0
    BY <1>3, <1>4
  <2>8. used[All][Target] = used[Pending][Target] + sums[Batch]
    BY <2>3, <2>4
  <2> QED BY <1>0, <1>1, <1>2, <2>6, <2>7, <2>8
<1>5. CASE ~AllFit
  <2>1. ShortOn(Target) = IF missing < 0 THEN 0 ELSE missing
    BY <1>3, <1>5
  <2> QED BY <1>0, <1>1, <1>2, <2>1
<1> QED BY <1>4, <1>5

\* A step of the trial.
LEMMA TrialStep ==
    ASSUME SpaceSized, SpaceInv, TryNext
    PROVE  SpaceInv'
<1> USE SpaceSizes
<1> DEFINE before == IF trying = 1 THEN Freed ELSE room
           b == Bytes(trying)
           target == Demands[trying].target
           s == Place(before, target, b)
<1>0. /\ Summed /\ trying \in 1..All /\ trying' = trying + 1
      /\ tried' = [tried EXCEPT ![trying] = s]
      /\ room' = Taken(before, s, b)
      /\ UNCHANGED <<planVars, sumVars, consoleVars>>
  BY DEF TryNext, SpaceInv, SpaceTypeOK
<1>1. /\ placing' = placing /\ left' = left /\ placed' = placed /\ used' = used
      /\ adding' = adding /\ sums' = sums
      /\ running' = running /\ free' = free /\ came' = came /\ surprised' = surprised
  BY <1>0 DEF planVars, sumVars, consoleVars
<1>2. PlanInv'
  BY <1>1 DEF SpaceInv, PlanInv, LeftAfter, Place, HasRoom, Bytes
<1>3. SumInv'
  BY <1>1 DEF SpaceInv, SumInv, Planned
<1>4. ConsoleInv'
  BY <1>1 DEF SpaceInv, ConsoleInv, PlanComesTrue, LeftAfter
<1>5. placing = All + 1 /\ adding = Batch + 1 /\ target \in Targets /\ b \in Nat
  BY <1>0 DEF Summed, Planned
<1>6. s \in Spots
  BY <1>5, PlacedWithRoom
<1>7. \A t \in Storages : Freed[t] \in Nat \cup {NoCard} /\ (Freed[t] = NoCard <=> Reported[t] = NoCard)
  <2> TAKE t \in Storages
  <2>1. t # Target \/ Reported[t] = NoCard => Freed[t] = Reported[t]
    BY DEF Freed
  <2>2. t = Target /\ Reported[t] # NoCard => Freed[t] \in Nat
    <3>1. Target \in Storages => Target # "auto"
      BY DEF Storages
    <3> QED BY <1>0, <3>1, EnoughIsFreed
  <2> QED BY <2>1, <2>2
<1>8. before \in [Storages -> Nat \cup {NoCard}]
  <2>1. Freed \in [Storages -> Nat \cup {NoCard}]
    BY <1>7 DEF Freed
  <2> QED BY <2>1 DEF SpaceInv, SpaceTypeOK
<1>9. SpaceTypeOK'
  <2>1. room' = [t \in Storages |-> IF t = s THEN before[t] - b ELSE before[t]]
    BY <1>0 DEF Taken
  <2>2. \A t \in Storages : t = s => before[t] # NoCard /\ b <= before[t]
    <3>1. s # Nowhere => HasRoom(before, s, b)
      BY <1>5, PlacedWithRoom
    <3> QED BY <3>1 DEF HasRoom, Storages, Nowhere
  <2>3. \A t \in Storages : (IF t = s THEN before[t] - b ELSE before[t]) \in Nat \cup {NoCard}
    BY <1>5, <1>8, <2>2
  <2>4. room' \in [Storages -> Nat \cup {NoCard}]
    BY <2>1, <2>3
  <2>5. tried' \in [1..All -> Spots] /\ trying' \in 1..(All + 1)
    BY <1>0, <1>6 DEF SpaceInv, SpaceTypeOK
  <2> QED BY <1>1, <2>4, <2>5 DEF SpaceInv, SpaceTypeOK
<1>10. \A t \in Storages : room'[t] = IF t = s THEN before[t] - b ELSE before[t]
  BY <1>0 DEF Taken
<1>11. tried'[trying] = s /\ \A i \in 1..All : i # trying => tried'[i] = tried[i]
  BY <1>0 DEF SpaceInv, SpaceTypeOK
<1>12. Summed' /\ Settled' = Settled /\ Freed' = Freed
  BY <1>0, <1>1 DEF Summed, Planned, Settled, Unsettled, Freed, ShortOn, QueuedUse, AllFit, ItemFits, Known
<1>13. ASSUME Settled
       PROVE  /\ trying' <= Pending + 1 =>
                    \A t \in Storages : room'[t] = IF Reported[t] = NoCard THEN NoCard ELSE Freed[t] - used[trying' - 1][t]
              /\ trying' > Pending =>
                    room'[Target] = Freed[Target] - used[Pending][Target] - sums[trying' - 1 - Pending]
              /\ trying > Pending => s = Target
  <2>0. Target # "auto" /\ Reported[Target] # NoCard /\ Target \in Storages /\ Reported[Target] \in Nat
        /\ \A i \in 1..Pending : ~Unsettled(i)
    BY <1>13 DEF Settled
  <2>1. /\ Freed[Target] \in Nat /\ Freed[Target] >= Reported[Target]
        /\ Freed[Target] >= used[Pending][Target] + sums[Batch]
    BY <1>0, <2>0, EnoughIsFreed
  <2>2. sums[0] = 0 /\ used[0] = [t \in Storages |-> 0]
    BY DEF SpaceInv, SumInv, PlanInv
  <2>3. trying' - 1 = trying
    BY <1>0
  <2>4. CASE trying <= Pending
    <3>1. \A t \in Storages : before[t] = IF Reported[t] = NoCard THEN NoCard ELSE Freed[t] - used[trying - 1][t]
      <4>1. CASE trying = 1
        <5> SUFFICES ASSUME NEW t \in Storages
                     PROVE  Freed[t] = IF Reported[t] = NoCard THEN NoCard ELSE Freed[t] - used[0][t]
          BY <4>1
        <5>1. used[0][t] = 0
          BY <2>2
        <5> QED BY <1>7, <5>1
      <4>2. CASE trying # 1
        BY <1>0, <1>13, <2>4, <4>2 DEF SpaceInv, TrialInv
      <4> QED BY <4>1, <4>2
    <3>2. trying \in 1..(placing - 1) /\ trying \in 0..All /\ trying - 1 \in 0..All /\ trying \in 1..Pending
      BY <1>0, <1>5, <2>4
    <3>3. /\ placed[trying] = Place(LeftAfter(trying - 1), target, b)
          /\ used[trying] = [t \in Storages |-> used[trying - 1][t] + (IF t = placed[trying] THEN b ELSE 0)]
      BY <3>2 DEF SpaceInv, PlanInv
    <3>4. \A t \in Storages : used[trying - 1][t] \in Nat /\ used[trying][t] \in Nat
      BY <3>2 DEF SpaceInv, SpaceTypeOK
    <3>5. \A t \in Storages : LeftAfter(trying - 1)[t] = IF Reported[t] = NoCard THEN NoCard ELSE Reported[t] - used[trying - 1][t]
      BY DEF LeftAfter
    <3>6. \A t \in Storages : HasRoom(LeftAfter(trying - 1), t, b) => HasRoom(before, t, b)
      <4> SUFFICES ASSUME NEW t \in Storages, LeftAfter(trying - 1)[t] # NoCard, b <= LeftAfter(trying - 1)[t]
                   PROVE  before[t] # NoCard /\ b <= before[t]
        BY DEF HasRoom
      <4>1. Reported[t] # NoCard
        BY <3>5
      <4>2. Freed[t] \in Nat /\ Freed[t] >= Reported[t]
        <5>1. t # Target => Freed[t] = Reported[t]
          BY DEF Freed
        <5> QED BY <1>7, <2>1, <4>1, <5>1
      <4>3. LeftAfter(trying - 1)[t] = Reported[t] - used[trying - 1][t] /\ before[t] = Freed[t] - used[trying - 1][t]
        BY <3>1, <3>5, <4>1
      <4> QED BY <1>5, <3>4, <4>1, <4>2, <4>3
    <3>7. \A t \in Storages : t # Target => HasRoom(before, t, b) = HasRoom(LeftAfter(trying - 1), t, b)
      <4> TAKE t \in Storages
      <4>1. t # Target => Freed[t] = Reported[t]
        BY DEF Freed
      <4>2. t # Target => before[t] = LeftAfter(trying - 1)[t]
        BY <3>1, <3>5, <4>1
      <4> QED BY <4>2 DEF HasRoom
    <3>8. placed[trying] # Nowhere /\ ~(Target = "sd" /\ target = "auto" /\ placed[trying] = "nand")
      BY <2>0, <3>2 DEF Unsettled
    <3>9. s = placed[trying]
      <4>1. CASE target # "auto"
        <5>1. target \in Storages /\ placed[trying] = target /\ HasRoom(LeftAfter(trying - 1), target, b)
          BY <1>5, <3>3, <3>8, <4>1, PlacedWithRoom DEF Storages, Targets
        <5> QED BY <1>5, <3>6, <4>1, <5>1, PlacedWithRoom
      <4>2. CASE target = "auto"
        <5> DEFINE old == LeftAfter(trying - 1)
        <5>1. placed[trying] = IF HasRoom(old, "sd", b) THEN "sd" ELSE IF HasRoom(old, "nand", b) THEN "nand" ELSE Nowhere
          BY <3>3, <4>2 DEF Place
        <5>2. s = IF HasRoom(before, "sd", b) THEN "sd" ELSE IF HasRoom(before, "nand", b) THEN "nand" ELSE Nowhere
          BY <4>2 DEF Place
        <5>3. "sd" \in Storages /\ "nand" \in Storages
          BY DEF Storages
        <5>4. HasRoom(old, "sd", b) => HasRoom(before, "sd", b)
          BY <3>6, <5>3
        <5>5. HasRoom(old, "nand", b) => HasRoom(before, "nand", b)
          BY <3>6, <5>3
        <5>6. Target # "sd" => HasRoom(before, "sd", b) = HasRoom(old, "sd", b)
          BY <3>7, <5>3
        <5> QED BY <3>8, <4>2, <5>1, <5>2, <5>4, <5>5, <5>6
      <4> QED BY <4>1, <4>2
    <3>10. \A t \in Storages : room'[t] = IF Reported[t] = NoCard THEN NoCard ELSE Freed[t] - used[trying][t]
      <4> TAKE t \in Storages
      <4>1. used[trying][t] = used[trying - 1][t] + (IF t = s THEN b ELSE 0)
        BY <3>3, <3>9
      <4>2. t = s => Reported[t] # NoCard
        <5>1. s # Nowhere => HasRoom(before, s, b)
          BY <1>5, PlacedWithRoom
        <5>2. t # Nowhere
          BY DEF Storages, Nowhere
        <5> QED BY <3>1, <5>1, <5>2 DEF HasRoom
      <4>3. room'[t] = IF t = s THEN before[t] - b ELSE before[t]
        BY <1>10
      <4>4. Reported[t] # NoCard => Freed[t] \in Nat
        BY <1>7
      <4> QED BY <1>5, <3>1, <3>4, <4>1, <4>2, <4>3, <4>4
    <3>11. ASSUME trying' > Pending
           PROVE  room'[Target] = Freed[Target] - used[Pending][Target] - sums[trying' - 1 - Pending]
      <4>1. trying = Pending /\ trying' - 1 - Pending = 0
        BY <1>0, <2>4, <3>11
      <4>2. room'[Target] = Freed[Target] - used[Pending][Target]
        BY <2>0, <3>10, <4>1
      <4>3. Freed[Target] - used[Pending][Target] \in Int
        BY <2>0, <2>1, <3>4, <4>1
      <4> QED BY <2>2, <4>1, <4>2, <4>3
    <3> QED BY <1>0, <2>3, <2>4, <3>10, <3>11
  <2>5. CASE trying > Pending
    <3> DEFINE j == trying - Pending
    <3>1. j \in 1..Batch /\ j - 1 \in 0..Batch /\ j \in 0..Batch /\ Pending \in 0..All /\ trying = Pending + j
      BY <1>0, <2>5
    <3>2. sums[j - 1] \in Nat /\ sums[j] \in Nat /\ sums[Batch] \in Nat /\ used[Pending][Target] \in Nat
      <4>1. sums \in [0..Batch -> Nat] /\ used \in [0..All -> [Storages -> Nat]]
        BY DEF SpaceInv, SpaceTypeOK
      <4> QED BY <2>0, <3>1, <4>1
    <3>3. before[Target] = Freed[Target] - used[Pending][Target] - sums[j - 1]
      <4>1. CASE trying = 1
        <5>1. Pending = 0 /\ j - 1 = 0
          BY <2>5, <4>1
        <5>2. used[Pending][Target] = 0 /\ sums[j - 1] = 0
          BY <2>0, <2>2, <5>1
        <5> QED BY <2>1, <4>1, <5>2
      <4>2. CASE trying # 1
        <5>1. j - 1 = trying - 1 - Pending
          BY <3>1
        <5> QED BY <1>0, <1>13, <2>5, <4>2, <5>1 DEF SpaceInv, TrialInv
      <4> QED BY <4>1, <4>2
    <3>4. target = Target
      BY <1>0, <2>5
    <3>5. sums[j] = sums[j - 1] + b /\ sums[j] <= sums[Batch]
      <4>1. j \in 1..(adding - 1) /\ j \in 0..(adding - 1) /\ Batch \in 0..(adding - 1) /\ j <= Batch
        BY <1>5, <3>1
      <4> QED BY <3>1, <4>1 DEF SpaceInv, SumInv
    <3>6. HasRoom(before, Target, b)
      <4>1. b <= before[Target] /\ before[Target] \in Nat
        BY <1>5, <2>1, <3>2, <3>3, <3>5
      <4> QED BY <4>1 DEF HasRoom
    <3>7. s = Target
      BY <1>5, <2>0, <3>4, <3>6, PlacedWithRoom
    <3>8. room'[Target] = before[Target] - b
      BY <1>10, <2>0, <3>7
    <3>9. trying' - 1 - Pending = j
      BY <1>0, <3>1
    <3>10. room'[Target] = Freed[Target] - used[Pending][Target] - sums[j]
      BY <1>5, <2>1, <3>2, <3>3, <3>5, <3>8
    <3>11. ~(trying' <= Pending + 1)
      BY <1>0, <2>5
    <3> QED BY <3>7, <3>9, <3>10, <3>11
  <2> QED BY <1>0, <2>4, <2>5
<1>14. ASSUME Settled PROVE ShortIsEnough'
  <2>1. Target # "auto" /\ Reported[Target] # NoCard /\ \A i \in 1..Pending : ~Unsettled(i)
    BY <1>14 DEF Settled
  <2>2. \A i \in (Pending + 1)..(trying - 1) : tried[i] = Target
    <3>1. CASE trying = 1
      BY <3>1
    <3>2. CASE trying # 1
      BY <1>0, <1>14, <2>1, <3>2 DEF SpaceInv, TrialInv, ShortIsEnough
    <3> QED BY <3>1, <3>2
  <2>3. \A i \in (Pending + 1)..(trying' - 1) : tried'[i] = Target
    <3> TAKE i \in (Pending + 1)..(trying' - 1)
    <3>1. CASE i = trying
      BY <1>0, <1>11, <1>13, <1>14, <3>1
    <3>2. CASE i # trying
      <4>1. i \in (Pending + 1)..(trying - 1) /\ i \in 1..All
        BY <1>0, <3>2
      <4> QED BY <1>11, <2>2, <3>2, <4>1
    <3> QED BY <3>1, <3>2
  <2> QED BY <2>3 DEF ShortIsEnough
<1>15. TrialInv'
  BY <1>1, <1>12, <1>13, <1>14 DEF TrialInv
<1> QED BY <1>2, <1>3, <1>4, <1>9, <1>15 DEF SpaceInv

\* ShortIsEnough, whatever the trial has come to.
LEMMA SettledIsEnough == SpaceSized /\ SpaceInv => ShortIsEnough
<1> SUFFICES ASSUME SpaceSized, SpaceInv, Settled PROVE \A i \in (Pending + 1)..(trying - 1) : tried[i] = Target
  BY DEF ShortIsEnough, Settled
<1>1. CASE trying > 1
  BY <1>1 DEF SpaceInv, TrialInv, ShortIsEnough, Settled
<1>2. CASE trying = 1
  BY <1>2, SpaceSizes
<1> QED BY <1>1, <1>2 DEF SpaceInv, SpaceTypeOK

THEOREM SpaceIsPlanned == SpaceSized => (SpaceSpec => []SpaceInv)
<1> SUFFICES ASSUME SpaceSized PROVE SpaceSpec => []SpaceInv
  OBVIOUS
<1>1. SpaceInit => SpaceInv
  BY SpaceStarts
<1>2. SpaceInv /\ [SpaceNext]_spaceVars => SpaceInv'
  <2> SUFFICES ASSUME SpaceInv, [SpaceNext]_spaceVars PROVE SpaceInv'
    OBVIOUS
  <2>1. CASE UNCHANGED spaceVars
    <3>1. /\ placing' = placing /\ left' = left /\ placed' = placed /\ used' = used
          /\ adding' = adding /\ sums' = sums /\ trying' = trying /\ room' = room /\ tried' = tried
          /\ running' = running /\ free' = free /\ came' = came /\ surprised' = surprised
      BY <2>1 DEF spaceVars
    <3>2. SpaceTypeOK' /\ PlanInv' /\ SumInv'
      <4>1. SpaceTypeOK'
        BY <3>1 DEF SpaceInv, SpaceTypeOK
      <4>2. PlanInv'
        BY <3>1 DEF SpaceInv, PlanInv, LeftAfter, Place, HasRoom, Bytes
      <4>3. SumInv'
        BY <3>1 DEF SpaceInv, SumInv, Planned
      <4> QED BY <4>1, <4>2, <4>3
    <3>3. ConsoleInv'
      BY <3>1 DEF SpaceInv, ConsoleInv, PlanComesTrue, LeftAfter
    <3>4. TrialInv'
      BY <3>1 DEF SpaceInv, TrialInv, Summed, Planned, Settled, Unsettled, ShortIsEnough, Freed, ShortOn, QueuedUse,
                  AllFit, ItemFits, Known
    <3> QED BY <3>2, <3>3, <3>4 DEF SpaceInv
  <2>2. CASE PlaceNext
    BY <2>2, PlanStep
  <2>3. CASE AddNext
    BY <2>3, SumStep
  <2>4. CASE TryNext
    BY <2>4, TrialStep
  <2>5. CASE \/ \E need, missing \in Nat : ConsoleInstalls(need, missing)
             \/ \E s \in Storages, now \in Nat \cup {NoCard} : SpaceMoves(s, now)
    BY <2>5, ConsoleStep
  <2> QED BY <2>1, <2>2, <2>3, <2>4, <2>5 DEF SpaceNext
<1> QED BY <1>1, <1>2, PTL DEF SpaceSpec

\* The plan, the sums of the page and the installs of the console keep their types.
THEOREM SpaceIsTyped == SpaceSized => (SpaceSpec => []SpaceTypeOK)
<1>1. SpaceInv => SpaceTypeOK
  BY DEF SpaceInv
<1> QED BY <1>1, SpaceIsPlanned, PTL

\* For every queue, batch and report: no storage is planned to take more than it was reported to have.
THEOREM NoSpaceIsTakenTwice == SpaceSized => (SpaceSpec => []NothingIsTakenTwice)
<1> SUFFICES ASSUME SpaceSized PROVE SpaceSpec => []NothingIsTakenTwice
  OBVIOUS
<1>1. SpaceInv => NothingIsTakenTwice
  <2> SUFFICES ASSUME SpaceInv, NEW s \in Storages
               PROVE  /\ Reported[s] = NoCard => used[placing - 1][s] = 0
                      /\ Reported[s] # NoCard => used[placing - 1][s] <= Reported[s] /\ left[s] = Reported[s] - used[placing - 1][s]
    BY DEF NothingIsTakenTwice
  <2>1. placing - 1 \in 0..(placing - 1)
    BY SpaceSizes DEF SpaceInv, SpaceTypeOK
  <2> QED BY <2>1 DEF SpaceInv, PlanInv, LeftAfter
<1> QED BY <1>1, SpaceIsPlanned, PTL

\* Without a surprise every install goes where the plan put it, and fails where the plan has no room.
THEOREM ThePlanComesTrue == SpaceSized => (SpaceSpec => []PlanComesTrue)
<1>1. SpaceInv => PlanComesTrue
  BY DEF SpaceInv, ConsoleInv, PlanComesTrue
<1> QED BY <1>1, SpaceIsPlanned, PTL

\* With what the page says is short freed, and no more, the whole batch fits.
THEOREM WhatIsShortIsEnough == SpaceSized => (SpaceSpec => []ShortIsEnough)
<1> SUFFICES ASSUME SpaceSized PROVE SpaceSpec => []ShortIsEnough
  OBVIOUS
<1>1. SpaceInv => ShortIsEnough
  BY SettledIsEnough
<1> QED BY <1>1, SpaceIsPlanned, PTL

--------------------------------------------------------------------------------
(* CompressSetup: where NSZ files are saved, and the page that sets it.       *)

LEMMA ReadIsTyped ==
    ASSUME SetupSized, SetupTypeOK PROVE Read \in Answers /\ Read.problem = "unknown"
BY DEF SetupSized, SetupTypeOK, Read, Answers, Settings

LEMMA FoldersAreTyped ==
    ASSUME SetupSized, SetupTypeOK PROVE FolderOptions \in SUBSET Options
<1>1. ASSUME NEW r \in enabled
      PROVE  /\ [path |-> NszIn[r], root |-> r, exists |-> Exists(NszIn[r]),
                 writable |-> CanWrite(IF Exists(NszIn[r]) THEN NszIn[r] ELSE r)] \in Options
             /\ [path |-> r, root |-> r, exists |-> TRUE, writable |-> CanWrite(r)] \in Options
  BY <1>1 DEF SetupSized, SetupTypeOK, Options, Exists, CanWrite
<1> QED BY <1>1 DEF FolderOptions

LEMMA ProblemIsTyped == ASSUME NEW a PROVE Problem(a) \in Problems
BY DEF Problem, Problems, CheckOutputDir

LEMMA RequestsAreThere ==
    ASSUME SetupSized, SetupTypeOK, NEW s \in Slots, requests[s] # None
    PROVE  RequestOK(requests[s]) /\ requests[s] \in Requests /\ DOMAIN requests = Slots
BY DEF SetupTypeOK, RequestOK

LEMMA GoesIs ==
    ASSUME NEW s \in Slots, NEW at \in Stages, SetupSized, SetupTypeOK, requests[s] # None, Goes(s, at)
    PROVE  /\ DOMAIN requests' = Slots /\ \A t \in Slots : t # s => requests'[t] = requests[t]
           /\ requests'[s] \in Requests
           /\ requests'[s].at = at /\ requests'[s].kind = requests[s].kind
           /\ requests'[s].patch = requests[s].patch /\ requests'[s].settings = requests[s].settings
           /\ requests'[s].folders = requests[s].folders
<1>1. requests[s] \in Requests /\ DOMAIN requests = Slots BY RequestsAreThere
<1>2. requests' = [requests EXCEPT ![s].at = at] BY DEF Goes
<1>3. requests'[s] = [requests[s] EXCEPT !.at = at] /\ DOMAIN requests' = Slots
      /\ \A t \in Slots : t # s => requests'[t] = requests[t] BY <1>1, <1>2
<1> QED BY <1>1, <1>3 DEF Requests

LEMMA FolderPatches ==
    ASSUME NEW d \in Texts \cup {None}, NEW c \in BOOLEAN
    PROVE  /\ FolderPatch(d, c) \in Patches
           /\ FolderPatch(d, c).dir = d /\ FolderPatch(d, c).create = c
BY DEF FolderPatch, Patches

LEMMA TunePatches ==
    ASSUME NEW l \in Levels \cup {None}, NEW b \in BOOLEAN \cup {None}
    PROVE  /\ TunePatch(l, b) \in Patches
           /\ TunePatch(l, b).dir = None /\ TunePatch(l, b).create = FALSE
BY DEF TunePatch, Patches

LEMMA SentIs ==
    ASSUME NEW s \in Slots, NEW kind \in {"get", "put", "folders"}, NEW patch \in Patches,
           NEW at \in {"making", "reading"}, at = "making" <=> kind = "put",
           SetupSized, SetupTypeOK, Sent(s, kind, patch, at)
    PROVE  /\ requests[s] = None /\ RequestOK(requests'[s]) /\ DOMAIN requests' = Slots
           /\ requests'[s] # None
           /\ requests'[s].kind = kind /\ requests'[s].patch = patch /\ requests'[s].at = at
           /\ requests'[s].settings = None /\ requests'[s].folders = None
           /\ \A t \in Slots : t # s => requests'[t] = requests[t]
           /\ overlapped' \in BOOLEAN
<1>1. requests' = [requests EXCEPT ![s] = Request(kind, patch, at)] BY DEF Sent
<1>2. Request(kind, patch, at) = [kind |-> kind, patch |-> patch, at |-> at, settings |-> None, folders |-> None]
  BY DEF Request
<1>3. DOMAIN requests' = Slots /\ requests'[s] = Request(kind, patch, at)
      /\ \A t \in Slots : t # s => requests'[t] = requests[t] BY <1>1 DEF SetupTypeOK
<1>4. Request(kind, patch, at) \in Requests BY <1>2 DEF Requests, Stages
<1>5. RequestOK(Request(kind, patch, at)) BY <1>2, <1>4 DEF RequestOK
<1>6. overlapped' \in BOOLEAN BY DEF Sent, SetupTypeOK
<1>7. Request(kind, patch, at) # None BY <1>4 DEF SetupSized
<1> QED BY <1>2, <1>3, <1>5, <1>6, <1>7 DEF Sent

LEMMA FormsAreTyped == ASSUME SetupSized PROVE Fresh \in Forms /\ Fresh # None
<1>1. Fresh \in Forms BY DEF Fresh, Forms
<1> QED BY <1>1 DEF SetupSized

\* Among things that have numbers one has the least.
LEMMA HasLeast ==
    ASSUME NEW S, S # {}, NEW f, \A x \in S : f[x] \in Nat
    PROVE  \E x \in S : \A y \in S : f[x] <= f[y]
<1> DEFINE T == {f[x] : x \in S}
           R == {ss \in Nat \X Nat : ss[1] < ss[2]}
<1>1. T \subseteq Nat /\ T # {}
  OBVIOUS
<1>2. IsWellFoundedOn(R, Nat)
  BY NatLessThanWellFounded DEF OpToRel
<1>3. PICK k \in T : \A n \in T : ~ (<<n, k>> \in R)
  <2> HIDE DEF T
  <2> QED BY <1>1, <1>2, WFMin
<1>4. PICK x \in S : k = f[x]
  OBVIOUS
<1>5. \A y \in S : f[x] <= f[y]
  <2> SUFFICES ASSUME NEW y \in S, f[y] < f[x] PROVE FALSE
    OBVIOUS
  <2>1. <<f[y], f[x]>> \in R
    BY <1>1
  <2> QED BY <1>3, <1>4, <2>1
<1> QED BY <1>5

\* Among folders with distinct places one comes first.
DistinctOptions(opts) ==
    \A o \in opts : /\ o.path \in {o.root, NszIn[o.root]}
                    /\ \A q \in opts : o.path = q.path => o = q

LEMMA FirstExists ==
    ASSUME SetupSized, NEW opts \in SUBSET Options, DistinctOptions(opts), \E o \in opts : o.writable
    PROVE  \E o \in opts : /\ o.writable /\ FirstWritable(opts) = o.path
                           /\ \A q \in opts : q.writable => q = o \/ Precedes(o, q)
<1> DEFINE W == {q \in opts : q.writable}
           f == [q \in W |-> Rank[q.root]]
<1>1. \A q \in W : q.root \in Roots /\ Rank[q.root] \in Nat /\ f[q] = Rank[q.root] BY DEF SetupSized, Options
<1>2. PICK o \in W : \A q \in W : f[o] <= f[q]
  <2>1. W # {} /\ \A q \in W : f[q] \in Nat BY <1>1
  <2> HIDE DEF W, f
  <2> QED BY <2>1, HasLeast
<1>5. \A q \in W : q.root # o.root => Rank[o.root] < Rank[q.root]
  <2> SUFFICES ASSUME NEW q \in W, q.root # o.root PROVE Rank[o.root] < Rank[q.root] OBVIOUS
  <2>1. o.root \in Roots /\ q.root \in Roots BY <1>1
  <2>2. Rank[o.root] # Rank[q.root] /\ Rank[o.root] \in Nat /\ Rank[q.root] \in Nat BY <2>1 DEF SetupSized
  <2>3. Rank[o.root] <= Rank[q.root] BY <1>1, <1>2
  <2> QED BY <2>2, <2>3
<1> HIDE DEF f
<1>6. \E u \in W : \A q \in W : q = u \/ Precedes(u, q)
  <2>1. CASE \E u \in W : u.root = o.root /\ u.path # u.root
    <3>1. PICK u \in W : u.root = o.root /\ u.path # u.root BY <2>1
    <3>2. ASSUME NEW q \in W PROVE q = u \/ Precedes(u, q)
      <4>1. CASE q.root = o.root
        <5>1. q.path \in {u.root, u.path} BY <3>1, <4>1 DEF DistinctOptions
        <5>2. q.path = u.path => q = u BY DEF DistinctOptions
        <5> QED BY <5>1, <5>2, <3>1, <4>1 DEF Precedes
      <4>2. CASE q.root # o.root BY <4>2, <1>5, <3>1 DEF Precedes
      <4> QED BY <4>1, <4>2
    <3> QED BY <3>2
  <2>2. CASE ~\E u \in W : u.root = o.root /\ u.path # u.root
    <3>1. ASSUME NEW q \in W PROVE q = o \/ Precedes(o, q)
      <4>1. CASE q.root = o.root
        <5>1. q.path = o.path BY <2>2, <4>1
        <5> QED BY <5>1 DEF DistinctOptions
      <4>2. CASE q.root # o.root BY <4>2, <1>5 DEF Precedes
      <4> QED BY <4>1, <4>2
    <3> QED BY <3>1
  <2> QED BY <2>1, <2>2
<1> DEFINE First(p) == \E u \in opts : /\ u.path = p /\ u.writable
                                       /\ \A q \in opts : q.writable => q = u \/ Precedes(u, q)
<1>7. \E p \in {u.path : u \in {q \in opts : q.writable}} : First(p) BY <1>6
<1>8. First(FirstWritable(opts)) BY <1>7 DEF FirstWritable
<1> QED BY <1>8

LEMMA TargetIsTyped ==
    ASSUME SetupSized, SetupTypeOK, Choosing, shown # None
    PROVE  OtherPath \in Texts /\ Create \in BOOLEAN
           /\ (options # None /\ DistinctOptions(options) => Selected \in Texts \cup {Other} /\ ChosenFolder \in Texts)
<1>1. form \in Forms BY DEF SetupTypeOK, Choosing
<1>2. options \in SUBSET Options BY DEF SetupTypeOK, Choosing
<1>3. shown.dir \in Absolute \cup {None} /\ Absolute \subseteq Texts /\ Blank \in Texts
  BY DEF Answers, SetupSized, SetupTypeOK
<1>4. OtherPath \in Texts BY <1>1, <1>3 DEF OtherPath, Forms
<1>5. ASSUME DistinctOptions(options), \E o \in options : o.writable PROVE FirstWritable(options) \in Texts
  BY <1>2, <1>3, <1>5, FirstExists DEF Options
<1>6. ASSUME DistinctOptions(options) PROVE Selected \in Texts \cup {Other}
  BY <1>1, <1>3, <1>5, <1>6 DEF Selected, Forms
<1>7. Create \in BOOLEAN BY DEF Create
<1> QED BY <1>4, <1>6, <1>7 DEF ChosenFolder

--------------------------------------------------------------------------------

Others(s) == DOMAIN requests' = Slots /\ \A t \in Slots : t # s => requests'[t] = requests[t]

LEMMA ReadAnswerIs ==
    ASSUME NEW s \in Slots, SetupSized, SetupTypeOK, ReadAnswer(s)
    PROVE  /\ Others(s) /\ requests[s] # None /\ RequestOK(requests'[s]) /\ requests'[s] # None
           /\ requests'[s].kind = requests[s].kind /\ requests'[s].patch = requests[s].patch
           /\ IF requests[s].kind = "folders"
              THEN requests'[s].at = "answered" /\ requests'[s].folders = FolderOptions /\ requests'[s].settings = None
              ELSE requests'[s].at = "judging" /\ requests'[s].settings = Read /\ requests'[s].folders = None
<1>1. requests[s] # None /\ requests[s].at = "reading" BY DEF ReadAnswer, Step
<1>2. RequestOK(requests[s]) /\ requests[s] \in Requests /\ DOMAIN requests = Slots BY <1>1, RequestsAreThere
<1>3. requests[s].settings = None /\ requests[s].folders = None BY <1>1, <1>2 DEF RequestOK
<1>4. CASE requests[s].kind = "folders"
  <2>1. requests' = [requests EXCEPT ![s].at = "answered", ![s].folders = FolderOptions] BY <1>4 DEF ReadAnswer
  <2>2. requests'[s] = [requests[s] EXCEPT !.at = "answered", !.folders = FolderOptions] /\ Others(s)
    BY <2>1, <1>2 DEF Others
  <2>3. FolderOptions \in SUBSET Options /\ FolderOptions # None BY FoldersAreTyped DEF SetupSized
  <2>4. requests'[s] \in Requests BY <2>2, <2>3, <1>2 DEF Requests, Stages
  <2>5. /\ requests'[s].kind = requests[s].kind /\ requests'[s].patch = requests[s].patch
        /\ requests'[s].at = "answered" /\ requests'[s].folders = FolderOptions /\ requests'[s].settings = None
    BY <2>2, <1>2, <1>3 DEF Requests
  <2>6. requests'[s] # None BY <2>4 DEF SetupSized
  <2> QED BY <2>2, <2>3, <2>4, <2>5, <2>6, <1>1, <1>4 DEF RequestOK
<1>5. CASE requests[s].kind # "folders"
  <2>1. requests' = [requests EXCEPT ![s].at = "judging", ![s].settings = Read] BY <1>5 DEF ReadAnswer
  <2>2. requests'[s] = [requests[s] EXCEPT !.at = "judging", !.settings = Read] /\ Others(s)
    BY <2>1, <1>2 DEF Others
  <2>3. Read \in Answers /\ Read # None BY ReadIsTyped DEF SetupSized
  <2>4. requests'[s] \in Requests BY <2>2, <2>3, <1>2 DEF Requests, Stages
  <2>5. /\ requests'[s].kind = requests[s].kind /\ requests'[s].patch = requests[s].patch
        /\ requests'[s].at = "judging" /\ requests'[s].settings = Read /\ requests'[s].folders = None
    BY <2>2, <1>2, <1>3 DEF Requests
  <2>6. requests'[s] # None BY <2>4 DEF SetupSized
  <2> QED BY <2>2, <2>3, <2>4, <2>5, <2>6, <1>1, <1>5 DEF RequestOK
<1> QED BY <1>4, <1>5

LEMMA JudgeIs ==
    ASSUME NEW s \in Slots, SetupSized, SetupTypeOK, Judge(s)
    PROVE  /\ Others(s) /\ requests[s] # None /\ RequestOK(requests'[s]) /\ requests'[s] # None
           /\ requests[s].at = "judging" /\ requests[s].kind # "folders" /\ requests[s].settings \in Answers
           /\ requests'[s].kind = requests[s].kind /\ requests'[s].patch = requests[s].patch
           /\ requests'[s].at = "answered" /\ requests'[s].folders = None
           /\ requests'[s].settings = [requests[s].settings EXCEPT !.problem = Problem(requests[s].settings)]
<1>1. requests[s] # None /\ requests[s].at = "judging" BY DEF Judge, Step
<1>2. RequestOK(requests[s]) /\ requests[s] \in Requests /\ DOMAIN requests = Slots BY <1>1, RequestsAreThere
<1>3. requests[s].kind # "folders" BY <1>1, <1>2 DEF RequestOK
<1>4. requests[s].settings # None /\ requests[s].folders = None BY <1>1, <1>2, <1>3 DEF RequestOK
<1>5. requests[s].settings \in Answers BY <1>2, <1>4 DEF Requests
<1> DEFINE a == [requests[s].settings EXCEPT !.problem = Problem(requests[s].settings)]
<1>6. a \in Answers
  <2> HIDE DEF a
  <2>1. Problem(requests[s].settings) \in Problems BY ProblemIsTyped
  <2> USE DEF a
  <2> QED BY <2>1, <1>5 DEF Answers
<1>7. requests' = [requests EXCEPT ![s].at = "answered",
                                   ![s].settings.problem = Problem(requests[s].settings)] BY DEF Judge
<1>8. requests'[s] = [requests[s] EXCEPT !.at = "answered", !.settings = a] /\ Others(s)
  BY <1>7, <1>2 DEF Others, Requests
<1>9. a # None BY <1>6 DEF SetupSized
<1> HIDE DEF a
<1>10. requests'[s] \in Requests BY <1>8, <1>6, <1>2 DEF Requests, Stages
<1>11. /\ requests'[s].kind = requests[s].kind /\ requests'[s].patch = requests[s].patch
       /\ requests'[s].at = "answered" /\ requests'[s].settings = a /\ requests'[s].folders = None
  BY <1>8, <1>2, <1>4 DEF Requests
<1>12. requests'[s] # None BY <1>10 DEF SetupSized
<1>13. RequestOK(requests'[s]) BY <1>3, <1>9, <1>10, <1>11 DEF RequestOK
<1> QED BY <1>1, <1>3, <1>5, <1>8, <1>11, <1>12, <1>13 DEF a

LEMMA OverIs ==
    ASSUME NEW s \in Slots, SetupTypeOK, Over(s) PROVE Others(s) /\ requests'[s] = None
BY DEF SetupTypeOK, Over, Others

\* What both halves of updateSettings do to their request.
LEMMA PutSteps ==
    ASSUME NEW s \in Slots, SetupSized, SetupTypeOK, MakeFolder(s) \/ Store(s)
    PROVE  /\ Others(s) /\ requests[s] # None /\ RequestOK(requests'[s]) /\ requests'[s] # None
           /\ requests[s].kind = "put" /\ requests[s].settings = None /\ requests[s].folders = None
           /\ requests'[s].kind = "put" /\ requests'[s].patch = requests[s].patch
           /\ requests'[s].at \in {"checking", "reading", "refused"}
           /\ requests'[s].settings = None /\ requests'[s].folders = None
<1>1. requests[s] # None /\ requests[s].at \in {"making", "checking"} BY DEF MakeFolder, Store, Step
<1>2. RequestOK(requests[s]) BY <1>1, RequestsAreThere
<1>3. requests[s].kind = "put" /\ requests[s].settings = None /\ requests[s].folders = None
  BY <1>1, <1>2 DEF RequestOK
<1>4. \E at \in {"checking", "reading", "refused"} : Goes(s, at) BY DEF MakeFolder, Store, Refused
<1>5. PICK at \in {"checking", "reading", "refused"} : Goes(s, at) BY <1>4
<1>6. /\ Others(s) /\ requests'[s] \in Requests
      /\ requests'[s].at = at /\ requests'[s].kind = requests[s].kind
      /\ requests'[s].patch = requests[s].patch /\ requests'[s].settings = requests[s].settings
      /\ requests'[s].folders = requests[s].folders
  BY <1>1, <1>5, GoesIs DEF Stages, Others
<1>7. requests'[s] # None BY <1>6 DEF SetupSized
<1>8. RequestOK(requests'[s]) BY <1>3, <1>6 DEF RequestOK
<1> QED BY <1>1, <1>3, <1>6, <1>7, <1>8

\* What is asked for is a request like others.
LEMMA AskingIs ==
    ASSUME NEW s \in Slots, SetupSized, SetupTypeOK, options # None => DistinctOptions(options),
           shown = None => form = None,
           FetchSettings(s) \/ FetchFolders(s) \/ Submit(s) \/ SetLevel(s) \/ SetRemove(s)
    PROVE  /\ requests[s] = None /\ Others(s) /\ RequestOK(requests'[s]) /\ requests'[s] # None
           /\ requests'[s].settings = None /\ requests'[s].folders = None /\ overlapped' \in BOOLEAN
           /\ FetchSettings(s) => requests'[s].kind = "get" /\ requests'[s].patch = NoPatch
           /\ FetchFolders(s) => requests'[s].kind = "folders" /\ requests'[s].patch = NoPatch
           /\ FetchSettings(s) \/ FetchFolders(s) => requests'[s].at = "reading"
           /\ Submit(s) => requests'[s].patch = FolderPatch(ChosenFolder, Create)
           /\ Submit(s) \/ SetLevel(s) \/ SetRemove(s) => requests'[s].kind = "put" /\ requests'[s].at = "making"
           /\ SetLevel(s) \/ SetRemove(s) => requests'[s].patch.dir = None /\ requests'[s].patch.create = FALSE
<1> DEFINE P(kind, patch, at) ==
           /\ requests[s] = None /\ Others(s) /\ RequestOK(requests'[s]) /\ requests'[s] # None
           /\ requests'[s].settings = None /\ requests'[s].folders = None /\ overlapped' \in BOOLEAN
           /\ requests'[s].kind = kind /\ requests'[s].patch = patch /\ requests'[s].at = at
<1>0. NoPatch \in Patches /\ NoPatch.dir = None /\ NoPatch.create = FALSE BY TunePatches DEF NoPatch
<1>a. ASSUME NEW kind \in {"get", "put", "folders"}, NEW patch \in Patches, NEW at \in {"making", "reading"},
             at = "making" <=> kind = "put", Sent(s, kind, patch, at)
      PROVE  P(kind, patch, at)
  BY <1>a, SentIs DEF Others
<1>1. FetchSettings(s) => P("get", NoPatch, "reading") BY <1>0, <1>a DEF FetchSettings
<1>2. FetchFolders(s) => P("folders", NoPatch, "reading") BY <1>0, <1>a DEF FetchFolders
<1>3. ASSUME Submit(s) PROVE P("put", FolderPatch(ChosenFolder, Create), "making")
  <2>1. Choosing /\ Sent(s, "put", FolderPatch(ChosenFolder, Create), "making") BY <1>3 DEF Submit
  <2>2. shown # None /\ options # None BY <2>1 DEF Choosing
  <2>3. FolderPatch(ChosenFolder, Create) \in Patches BY <2>1, <2>2, TargetIsTyped, FolderPatches
  <2> QED BY <2>1, <2>3, <1>a
<1>4. ASSUME NEW patch, patch \in Patches, Tune(s, patch) PROVE P("put", patch, "making")
  BY <1>4, <1>a DEF Tune
<1>5. ASSUME SetLevel(s)
      PROVE  \E patch : P("put", patch, "making") /\ patch.dir = None /\ patch.create = FALSE
  <2>1. PICK l \in Offered : Tune(s, TunePatch(l, None)) BY <1>5 DEF SetLevel
  <2>2. l \in Levels BY DEF SetupSized
  <2>3. /\ TunePatch(l, None) \in Patches
        /\ TunePatch(l, None).dir = None /\ TunePatch(l, None).create = FALSE BY <2>2, TunePatches
  <2>4. P("put", TunePatch(l, None), "making") BY <2>1, <2>3, <1>4
  <2> HIDE DEF P
  <2> QED BY <2>3, <2>4
<1>6. ASSUME SetRemove(s)
      PROVE  \E patch : P("put", patch, "making") /\ patch.dir = None /\ patch.create = FALSE
  <2>1. PICK b \in BOOLEAN : Tune(s, TunePatch(None, b)) BY <1>6 DEF SetRemove
  <2>3. /\ TunePatch(None, b) \in Patches
        /\ TunePatch(None, b).dir = None /\ TunePatch(None, b).create = FALSE BY TunePatches
  <2>4. P("put", TunePatch(None, b), "making") BY <2>1, <2>3, <1>4
  <2> HIDE DEF P
  <2> QED BY <2>3, <2>4
<1> QED BY <1>1, <1>2, <1>3, <1>5, <1>6

--------------------------------------------------------------------------------

Asks(s) == FetchSettings(s) \/ FetchFolders(s) \/ Submit(s) \/ SetLevel(s) \/ SetRemove(s)

OptionsRight(opts) ==
    DistinctOptions(opts) /\ \A o \in opts : ~o.exists => o.path \in {NszIn[r] : r \in Roots}

\* A button that waits has a request of its own under way, and parts that are gone wait for none.
NothingWaitsInVain ==
    /\ form # None /\ form.put # None =>
           requests[form.put] # None /\ requests[form.put].patch.dir # None
    /\ tuning # None => requests[tuning] # None /\ requests[tuning].patch.dir = None
    /\ form # None <=> (View = "steps" \/ editing)
    /\ editing \/ tuning # None => View = "summary"

WaitsInv ==
    /\ NothingWaitsInVain
    /\ form # None /\ form.put # None => requests[form.put].kind = "put"
    /\ tuning # None => requests[tuning].kind = "put"

FoldersInv ==
    /\ \A s \in Slots : requests[s] # None =>
           /\ requests[s].folders # None => OptionsRight(requests[s].folders)
           /\ requests[s].patch.create => requests[s].patch.dir \in suggested
    /\ options # None => OptionsRight(options) /\ \A o \in options : ~o.exists => o.path \in suggested
    /\ OnlySuggestedAreMade /\ PickedCanBeWritten

RealDir(a) == a.dir # None => Real[a.dir] = a.dir
AnswersInv ==
    /\ SavedFolderIsReal
    /\ \A s \in Slots : requests[s] # None /\ requests[s].settings # None =>
           RealDir(requests[s].settings) /\ (requests[s].at = "answered" => Agrees(requests[s].settings))
    /\ shown # None => RealDir(shown) /\ Agrees(shown)

LEMMA ViewIs ==
    /\ View \in {"nothing", "summary", "steps"} /\ (View = "nothing" <=> shown = None)
    /\ View = "summary" <=> shown # None /\ shown.problem = "fine"
BY DEF View, Ready

\* What the form still knows after its request was answered or refused.
Heard(s, g) ==
    /\ g = None \/ g \in Forms
    /\ g = None <=> form = None
    /\ form # None => /\ g.choice = form.choice /\ g.typed = form.typed /\ g.reread = form.reread
                      /\ g.browsed = form.browsed
                      /\ g.put = (IF form.put = s THEN None ELSE form.put)
                      /\ g.failed = form.failed \/ (form.put = s /\ g.failed = requests[s].patch.dir)

LEMMA AnsweredForms ==
    ASSUME SetupSized, SetupTypeOK, NEW s \in Slots PROVE Heard(s, AnsweredIn(s, form))
<1>1. CASE form = None BY <1>1 DEF AnsweredIn, Heard
<1>2. CASE form # None
  <2>1. form \in Forms BY <1>2 DEF SetupTypeOK
  <2>2. AnsweredIn(s, form) \in Forms BY <1>2, <2>1 DEF AnsweredIn, Forms
  <2>3. AnsweredIn(s, form) # None BY <2>2 DEF SetupSized
  <2> QED BY <1>2, <2>1, <2>2, <2>3 DEF AnsweredIn, Heard, Forms
<1> QED BY <1>1, <1>2

LEMMA RefusedForms ==
    ASSUME SetupSized, SetupTypeOK, NEW s \in Slots, requests[s] # None PROVE Heard(s, RefusedIn(s, form))
<1>1. CASE form = None BY <1>1 DEF RefusedIn, Heard
<1>2. CASE form # None
  <2>1. form \in Forms BY <1>2 DEF SetupTypeOK
  <2>2. requests[s].patch.dir \in Texts \cup {None} BY RequestsAreThere DEF Requests, Patches
  <2>3. RefusedIn(s, form) \in Forms BY <1>2, <2>1, <2>2 DEF RefusedIn, Forms
  <2>4. RefusedIn(s, form) # None BY <2>3 DEF SetupSized
  <2> QED BY <1>2, <2>1, <2>3, <2>4 DEF RefusedIn, Heard, Forms
<1> QED BY <1>1, <1>2

\* What is done to a form by hand, short of submitting it.
Picking == \E c \in Texts \cup {Other} : Pick(c)
Typing == \E t \in Texts : Type(t)
Browsing == Browse \/ \E p \in Absolute \cup {None} : BrowseEnds(p)
Filling == Picking \/ Typing \/ Browsing

LEMMA FormsReset ==
    ASSUME NEW f \in Forms
    PROVE  /\ ResetPut(f) \in Forms /\ ResetPut(f).put = None /\ ResetPut(f).failed = None
           /\ ResetPut(f).browsed = FALSE /\ ResetPut(f).choice = f.choice /\ ResetPut(f).typed = f.typed
           /\ ResetPut(f).reread = f.reread
BY DEF ResetPut, Forms

LEMMA PicksIs ==
    ASSUME SetupSized, SetupTypeOK, Picking
    PROVE  /\ form # None /\ form' \in Forms /\ form'.put = None /\ form'.failed = None
           /\ form'.choice = Other \/ \E o \in options : o.path = form'.choice /\ o.writable
<1>1. PICK c \in Texts \cup {Other} : Pick(c) BY DEF Picking
<1>2. form # None /\ form \in Forms /\ form' = [ResetPut(form) EXCEPT !.choice = c, !.reread = FALSE]
  BY <1>1 DEF Pick, Choosing, SetupTypeOK
<1>3. form' \in Forms /\ form'.put = None /\ form'.failed = None /\ form'.choice = c
  BY <1>2, FormsReset DEF Forms
<1>4. c = Other \/ \E o \in options : o.path = c /\ o.writable BY <1>1 DEF Pick
<1> QED BY <1>2, <1>3, <1>4

LEMMA TypesIs ==
    ASSUME SetupSized, SetupTypeOK, Typing
    PROVE  /\ form # None /\ form' \in Forms /\ form'.put = None /\ form'.failed = None
           /\ form'.choice = form.choice /\ form'.reread = form.reread
<1>1. PICK t \in Texts : Type(t) BY DEF Typing
<1>2. form # None /\ form \in Forms /\ form' = [ResetPut(form) EXCEPT !.typed = t]
  BY <1>1 DEF Type, Choosing, SetupTypeOK
<1> QED BY <1>2, FormsReset DEF Forms

LEMMA BrowsesIs ==
    ASSUME SetupSized, SetupTypeOK, Browsing
    PROVE  /\ form # None /\ form' \in Forms /\ form'.put = form.put /\ form'.failed = form.failed
           /\ form'.choice = form.choice /\ form'.reread = form.reread
           /\ (form'.typed = form.typed /\ form'.browsed = form.browsed) \/ form'.browsed
<1>1. CASE Browse
  <2>1. form # None /\ form \in Forms /\ form' = [form EXCEPT !.browsing = TRUE]
    BY <1>1 DEF Browse, Choosing, SetupTypeOK
  <2> QED BY <2>1 DEF Forms
<1>2. ASSUME NEW p \in Absolute \cup {None}, BrowseEnds(p)
      PROVE  /\ form # None /\ form' \in Forms /\ form'.put = form.put /\ form'.failed = form.failed
             /\ form'.choice = form.choice /\ form'.reread = form.reread
             /\ (form'.typed = form.typed /\ form'.browsed = form.browsed) \/ form'.browsed
  <2>1. form # None /\ form \in Forms BY <1>2, Zenon DEF BrowseEnds, SetupTypeOK
  <2>2. \E more \in BOOLEAN : form' = [Browsed(p) EXCEPT !.browsing = more] BY <1>2, Zenon DEF BrowseEnds
  <2>3. PICK more \in BOOLEAN : form' = [Browsed(p) EXCEPT !.browsing = more] BY <2>2, Zenon
  <2>4. /\ Browsed(p) \in Forms /\ Browsed(p).put = form.put /\ Browsed(p).failed = form.failed
        /\ Browsed(p).choice = form.choice /\ Browsed(p).reread = form.reread
        /\ (Browsed(p).typed = form.typed /\ Browsed(p).browsed = form.browsed) \/ Browsed(p).browsed
    <3>1. CASE p = None BY <2>1, <3>1 DEF Browsed
    <3>2. CASE p # None
      <4>1. p \in Texts BY <3>2 DEF SetupSized
      <4>2. Browsed(p) = [form EXCEPT !.typed = p, !.browsed = TRUE] BY <3>2 DEF Browsed
      <4> QED BY <2>1, <4>1, <4>2 DEF Forms
    <3> QED BY <3>1, <3>2
  <2> HIDE DEF Browsed
  <2> QED BY <2>1, <2>3, <2>4 DEF Forms
<1> QED BY <1>1, <1>2 DEF Browsing

LEMMA FillsIs ==
    ASSUME SetupSized, SetupTypeOK, Filling
    PROVE  /\ form # None /\ form' \in Forms /\ form' # None /\ form'.put \in {form.put, None}
           /\ \/ form'.choice = form.choice /\ form'.reread = form.reread
              \/ form'.choice = Other \/ \E o \in options : o.path = form'.choice /\ o.writable
           /\ world' = world /\ setting' = setting /\ requests' = requests /\ shown' = shown
           /\ options' = options /\ editing' = editing /\ tuning' = tuning /\ suggested' = suggested
           /\ setupHistory' = setupHistory
<1> DEFINE Elsewhere ==
           /\ world' = world /\ setting' = setting /\ requests' = requests /\ shown' = shown
           /\ options' = options /\ editing' = editing /\ tuning' = tuning /\ suggested' = suggested
           /\ setupHistory' = setupHistory
<1>1. Elsewhere
  <2>1. Picking => Elsewhere BY DEF Picking, Pick
  <2>2. Typing => Elsewhere BY DEF Typing, Type
  <2>3. Browse => Elsewhere BY DEF Browse
  <2>4. ASSUME NEW p \in Absolute \cup {None}, BrowseEnds(p) PROVE Elsewhere BY <2>4, Zenon DEF BrowseEnds
  <2> HIDE DEF Elsewhere
  <2> QED BY <2>1, <2>2, <2>3, <2>4 DEF Filling, Browsing
<1>2. form' \in Forms BY PicksIs, TypesIs, BrowsesIs DEF Filling
<1>3. form' # None BY <1>2 DEF SetupSized
<1> QED BY <1>1, <1>2, <1>3, PicksIs, TypesIs, BrowsesIs DEF Filling

\* The request becomes the form's, and what it said of earlier ones is gone.
LEMMA SubmitIs ==
    ASSUME SetupSized, SetupTypeOK, NEW s \in Slots, Submit(s)
    PROVE  /\ form # None /\ form' \in Forms /\ form' # None /\ form'.put = s /\ form'.failed = None
           /\ form'.choice = form.choice /\ form'.typed = form.typed /\ form'.reread = form.reread
<1>1. form # None /\ form \in Forms /\ form' = [ResetPut(form) EXCEPT !.put = s]
  BY DEF Submit, Choosing, SetupTypeOK
<1>2. form' \in Forms BY <1>1, FormsReset DEF Forms
<1>3. form' # None BY <1>2 DEF SetupSized
<1> QED BY <1>1, <1>2, <1>3, FormsReset DEF Forms

\* The parts of the types that a step changes.
World == disk \in [Absolute -> Kinds] /\ canWrite \subseteq Absolute /\ enabled \subseteq Roots
         /\ keysReady \in BOOLEAN /\ setting \in Settings
Page == /\ shown = None \/ shown \in Answers
        /\ options = None \/ options \in SUBSET Options
        /\ form = None \/ form \in Forms
        /\ editing \in BOOLEAN /\ tuning \in Slots \cup {None}
        /\ suggested \subseteq Absolute
Past == made \subseteq Absolute /\ overlapped \in BOOLEAN /\ elsewhere \in BOOLEAN
Wire == DOMAIN requests = Slots /\ \A s \in Slots : requests[s] = None \/ RequestOK(requests[s])

LEMMA TypesAre == SetupTypeOK <=> World /\ Wire /\ Page /\ Past
BY DEF SetupTypeOK, World, Wire, Page, Past

LEMMA TypesAreKept ==
    ASSUME SetupSized, SetupTypeOK, WaitsInv, FoldersInv, SetupNext
    PROVE  SetupTypeOK'
<1>0. World /\ Wire /\ Page /\ Past BY TypesAre
<1>1. ASSUME NEW s \in Slots, Asks(s) PROVE SetupTypeOK'
  <2>1. options # None => DistinctOptions(options) BY DEF FoldersInv, OptionsRight
  <2>2. shown = None => form = None BY ViewIs DEF WaitsInv, NothingWaitsInVain
  <2>3. Others(s) /\ RequestOK(requests'[s]) /\ overlapped' \in BOOLEAN BY <1>1, <2>1, <2>2, AskingIs DEF Asks
  <2>4. Wire' BY <1>0, <2>3 DEF Wire, Others
  <2>5. World' BY <1>0, <1>1 DEF Asks, FetchSettings, FetchFolders, Submit, SetLevel, SetRemove, Tune, World, world
  <2>6. Past' BY <1>0, <1>1, <2>3 DEF Asks, FetchSettings, FetchFolders, Submit, SetLevel, SetRemove, Tune, Past
  <2>7. Page'
    <3>1. CASE FetchSettings(s) \/ FetchFolders(s) BY <1>0, <3>1 DEF FetchSettings, FetchFolders, Page, page
    <3>2. CASE SetLevel(s) \/ SetRemove(s) BY <1>0, <3>2 DEF SetLevel, SetRemove, Tune, Page
    <3>3. CASE Submit(s)
      <4>1. form' \in Forms BY <3>3, SubmitIs
      <4> QED BY <1>0, <3>3, <4>1 DEF Submit, Page
    <3> QED BY <1>1, <3>1, <3>2, <3>3 DEF Asks
  <2> QED BY <2>4, <2>5, <2>6, <2>7 DEF SetupTypeOK, World, Wire, Page, Past
<1>2. ASSUME NEW s \in Slots, MakeFolder(s) \/ Store(s) PROVE SetupTypeOK'
  <2>1. Others(s) /\ RequestOK(requests'[s]) BY <1>2, PutSteps
  <2>2. Wire' BY <1>0, <2>1 DEF Wire, Others
  <2>3. Page' BY <1>0, <1>2 DEF MakeFolder, Store, Page, page
  <2>4. requests[s] # None /\ requests[s] \in Requests BY <1>2, RequestsAreThere DEF MakeFolder, Store, Step
  <2>5. CASE MakeFolder(s)
    <3>1. enabled' = enabled /\ keysReady' = keysReady /\ setting' = setting /\ overlapped' = overlapped /\ elsewhere' = elsewhere
      BY <2>5 DEF MakeFolder
    <3>2. \/ disk' = disk /\ canWrite' = canWrite /\ made' = made
          \/ /\ requests[s].patch.dir \in Absolute
             /\ disk' = [disk EXCEPT ![Real[requests[s].patch.dir]] = "folder"]
             /\ canWrite' = canWrite \cup {Real[requests[s].patch.dir]}
             /\ made' = made \cup {requests[s].patch.dir}
      BY <2>5 DEF MakeFolder
    <3>3. World' BY <1>0, <3>1, <3>2 DEF World, SetupSized, Kinds
    <3>4. Past' BY <1>0, <3>1, <3>2 DEF Past
    <3> QED BY <2>2, <2>3, <3>3, <3>4 DEF SetupTypeOK, World, Wire, Page, Past
  <2>6. CASE Store(s)
    <3>1. requests[s].patch \in Patches BY <2>4 DEF Requests
    <3>2. setting' \in Settings
      <4>1. CASE requests[s].patch.dir # None /\ CheckOutputDir(requests[s].patch.dir) # "fine"
        BY <1>0, <2>6, <4>1 DEF Store, World
      <4>2. CASE ~(requests[s].patch.dir # None /\ CheckOutputDir(requests[s].patch.dir) # "fine")
        <5> DEFINE p == requests[s].patch
        <5>1. setting' = [dir |-> IF p.dir = None THEN setting.dir ELSE Real[p.dir],
                          level |-> IF p.level = None THEN setting.level ELSE p.level,
                          remove |-> IF p.remove = None THEN setting.remove ELSE p.remove]
          BY <2>6, <4>2 DEF Store
        <5>2. p.dir # None => p.dir \in Absolute BY <4>2 DEF CheckOutputDir
        <5>3. p.dir # None => Real[p.dir] \in Absolute BY <5>2 DEF SetupSized
        <5>4. setting \in Settings BY <1>0 DEF World
        <5>5. p.level \in Levels \cup {None} /\ p.remove \in BOOLEAN \cup {None} BY <3>1 DEF Patches
        <5> HIDE DEF p
        <5> QED BY <5>1, <5>3, <5>4, <5>5 DEF Settings
      <4> QED BY <4>1, <4>2
    <3>3. World' BY <1>0, <2>6, <3>2 DEF Store, World, world
    <3>4. Past' BY <1>0, <2>6 DEF Store, Past, setupHistory
    <3> QED BY <2>2, <2>3, <3>3, <3>4 DEF SetupTypeOK, World, Wire, Page, Past
  <2> QED BY <1>2, <2>5, <2>6
<1>3. ASSUME NEW s \in Slots, ReadAnswer(s) \/ Judge(s) PROVE SetupTypeOK'
  <2>1. Others(s) /\ RequestOK(requests'[s]) BY <1>3, ReadAnswerIs, JudgeIs
  <2>2. Wire' BY <1>0, <2>1 DEF Wire, Others
  <2>3. World' /\ Page' /\ Past' BY <1>0, <1>3 DEF ReadAnswer, Judge, World, Page, Past, world, page, setupHistory
  <2> QED BY <2>2, <2>3 DEF SetupTypeOK, World, Wire, Page, Past
<1>4. ASSUME NEW s \in Slots, SettingsLand(s) \/ FoldersLand(s) \/ RefusalLands(s) PROVE SetupTypeOK'
  <2>1. Others(s) /\ requests'[s] = None BY <1>4, OverIs DEF SettingsLand, FoldersLand, RefusalLands
  <2>2. Wire' BY <1>0, <2>1 DEF Wire, Others
  <2>3. World' /\ Past' BY <1>0, <1>4 DEF SettingsLand, FoldersLand, RefusalLands, World, Past, world, setupHistory
  <2>4. requests[s] # None /\ RequestOK(requests[s]) /\ requests[s] \in Requests
    BY <1>4, RequestsAreThere DEF SettingsLand, FoldersLand, RefusalLands, Step
  <2>5. CASE SettingsLand(s)
    <3>1. requests[s].settings \in Answers BY <2>4, <2>5 DEF SettingsLand, Step, RequestOK, Requests
    <3>2. shown' \in Answers BY <2>5, <3>1 DEF SettingsLand
    <3>3. form' = None \/ form' \in Forms BY <2>5, AnsweredForms, FormsAreTyped DEF SettingsLand, Heard
    <3>4. editing' \in BOOLEAN /\ tuning' \in Slots \cup {None} /\ options' = options /\ suggested' = suggested
      BY <1>0, <2>5 DEF SettingsLand, Page
    <3>5. Page' BY <1>0, <3>2, <3>3, <3>4 DEF Page
    <3> QED BY <2>2, <2>3, <3>5 DEF SetupTypeOK, World, Wire, Page, Past
  <2>6. CASE FoldersLand(s)
    <3>1. requests[s].folders \in SUBSET Options BY <2>4, <2>6 DEF FoldersLand, Step, RequestOK, Requests
    <3>2. options' \in SUBSET Options BY <2>6, <3>1 DEF FoldersLand
    <3>3. form' = None \/ form' \in Forms BY <1>0, <2>6 DEF FoldersLand, Page, Forms
    <3>4. suggested' \subseteq Absolute
      <4>1. suggested' = suggested \cup {o.path : o \in {p \in requests[s].folders : ~p.exists}} BY <2>6 DEF FoldersLand
      <4> QED BY <1>0, <3>1, <4>1 DEF Page, Options
    <3>5. shown' = shown /\ editing' = editing /\ tuning' = tuning BY <2>6 DEF FoldersLand
    <3>6. Page' BY <1>0, <3>2, <3>3, <3>4, <3>5 DEF Page
    <3> QED BY <2>2, <2>3, <3>6 DEF SetupTypeOK, World, Wire, Page, Past
  <2>7. CASE RefusalLands(s)
    <3>1. form' = None \/ form' \in Forms BY <2>4, <2>7, RefusedForms DEF RefusalLands, Heard
    <3>2. Page' BY <1>0, <2>7, <3>1 DEF RefusalLands, Page
    <3> QED BY <2>2, <2>3, <3>2 DEF SetupTypeOK, World, Wire, Page, Past
  <2> QED BY <1>4, <2>5, <2>6, <2>7
<1>5. ASSUME Filling PROVE SetupTypeOK' BY <1>5, FillsIs DEF SetupTypeOK, world, setupHistory
<1>7. CASE Edit BY <1>7, FormsAreTyped DEF Edit, SetupTypeOK, world, setupHistory
<1>8. CASE DiskChanges BY <1>8 DEF DiskChanges, SetupTypeOK, page, setupHistory
<1>9. CASE LibraryChanges BY <1>9 DEF LibraryChanges, SetupTypeOK, page, setupHistory
<1>10. CASE OthersStore BY <1>10 DEF OthersStore, SetupTypeOK, world, page, Settings
<1> QED BY <1>1, <1>2, <1>3, <1>4, <1>5, <1>7, <1>8, <1>9, <1>10 DEF SetupNext, Asks, Filling, Picking, Typing, Browsing

\* A request keeps its kind and what it asks for until its answer lands.
Lands(s) == SettingsLand(s) \/ FoldersLand(s) \/ RefusalLands(s)
Serves(s) == MakeFolder(s) \/ Store(s) \/ ReadAnswer(s) \/ Judge(s)
Rest == DiskChanges \/ LibraryChanges \/ OthersStore

LEMMA StepsAre ==
    SetupNext <=> \/ \E s \in Slots : Asks(s) \/ Serves(s) \/ Lands(s)
                  \/ Filling \/ Edit \/ Rest
BY DEF SetupNext, Asks, Serves, Lands, Filling, Picking, Typing, Browsing, Rest

LEMMA ServesIs ==
    ASSUME NEW s \in Slots, SetupSized, SetupTypeOK, Serves(s)
    PROVE  /\ Others(s) /\ requests[s] # None /\ requests'[s] # None /\ RequestOK(requests'[s])
           /\ requests'[s].kind = requests[s].kind /\ requests'[s].patch = requests[s].patch
           /\ page' = page /\ overlapped' = overlapped /\ elsewhere' = elsewhere
<1>1. page' = page /\ overlapped' = overlapped /\ elsewhere' = elsewhere
  BY DEF Serves, MakeFolder, Store, ReadAnswer, Judge, setupHistory
<1>2. CASE MakeFolder(s) \/ Store(s) BY <1>1, <1>2, PutSteps
<1>3. CASE ReadAnswer(s) BY <1>1, <1>3, ReadAnswerIs
<1>4. CASE Judge(s) BY <1>1, <1>4, JudgeIs
<1> QED BY <1>2, <1>3, <1>4 DEF Serves

LEMMA LandsIs ==
    ASSUME NEW s \in Slots, SetupSized, SetupTypeOK, Lands(s)
    PROVE  /\ Others(s) /\ requests[s] # None /\ RequestOK(requests[s]) /\ requests'[s] = None
           /\ world' = world /\ setting' = setting /\ setupHistory' = setupHistory
BY OverIs, RequestsAreThere DEF Lands, SettingsLand, FoldersLand, RefusalLands, Step

LEMMA RestIs ==
    ASSUME Rest
    PROVE  requests' = requests /\ page' = page /\ made' = made /\ overlapped' = overlapped
BY DEF Rest, DiskChanges, LibraryChanges, OthersStore, setupHistory

LEMMA FreshIs == Fresh.put = None /\ Fresh.choice = None /\ Fresh.typed = None /\ Fresh.failed = None
BY DEF Fresh

LEMMA WaitsAreKept ==
    ASSUME SetupSized, SetupTypeOK, WaitsInv, FoldersInv, SetupNext
    PROVE  WaitsInv'
<1> USE DEF WaitsInv, NothingWaitsInVain
<1>1. ASSUME NEW s \in Slots, Asks(s) PROVE WaitsInv'
  <2>1. options # None => DistinctOptions(options) BY DEF FoldersInv, OptionsRight
  <2>2. shown = None => form = None BY ViewIs
  <2>3. Others(s) /\ requests[s] = None /\ requests'[s] # None BY <1>1, <2>1, <2>2, AskingIs DEF Asks
  <2>4. shown' = shown /\ editing' = editing
    BY <1>1 DEF Asks, FetchSettings, FetchFolders, Submit, SetLevel, SetRemove, Tune, page
  <2>5. View' = View BY <2>4 DEF View, Ready
  <2>6. form = None \/ form \in Forms BY DEF SetupTypeOK
  <2>7. tuning \in Slots \cup {None} BY DEF SetupTypeOK
  <2>8. CASE FetchSettings(s) \/ FetchFolders(s)
    <3>1. form' = form /\ tuning' = tuning BY <2>8 DEF FetchSettings, FetchFolders, page
    <3> QED BY <2>3, <2>4, <2>5, <2>6, <2>7, <3>1 DEF Others, Forms
  <2>9. CASE SetLevel(s) \/ SetRemove(s)
    <3>1. form' = form /\ tuning' = s /\ View = "summary" BY <2>9 DEF SetLevel, SetRemove, Tune
    <3>2. requests'[s].kind = "put" /\ requests'[s].patch.dir = None BY <1>1, <2>1, <2>2, <2>9, AskingIs DEF Asks
    <3> QED BY <2>3, <2>4, <2>5, <2>6, <2>7, <3>1, <3>2 DEF Others, Forms
  <2>10. CASE Submit(s)
    <3>1. tuning' = tuning /\ Choosing BY <2>10 DEF Submit
    <3>2. form # None /\ form' # None /\ form'.put = s BY <2>10, SubmitIs
    <3>4. requests'[s].kind = "put" /\ requests'[s].patch = FolderPatch(ChosenFolder, Create)
      BY <1>1, <2>1, <2>2, <2>10, AskingIs DEF Asks
    <3>5. ChosenFolder \in Texts /\ Create \in BOOLEAN BY <2>1, <2>2, <3>1, TargetIsTyped DEF Choosing
    <3>6. FolderPatch(ChosenFolder, Create).dir # None BY <3>5, FolderPatches DEF SetupSized
    <3> QED BY <2>3, <2>4, <2>5, <2>7, <3>1, <3>2, <3>4, <3>6 DEF Others
  <2> QED BY <1>1, <2>8, <2>9, <2>10 DEF Asks
<1>2. ASSUME NEW s \in Slots, Serves(s) PROVE WaitsInv'
  <2>1. Others(s) /\ requests'[s] # None /\ requests'[s].kind = requests[s].kind /\ requests'[s].patch = requests[s].patch
        /\ page' = page BY <1>2, ServesIs
  <2>2. shown' = shown /\ form' = form /\ editing' = editing /\ tuning' = tuning BY <2>1 DEF page
  <2>3. View' = View BY <2>2 DEF View, Ready
  <2>4. (form = None \/ form.put \in Slots \cup {None}) /\ tuning \in Slots \cup {None} BY DEF SetupTypeOK, Forms
  <2> QED BY <2>1, <2>2, <2>3, <2>4 DEF Others
<1>3. ASSUME NEW s \in Slots, Lands(s) PROVE WaitsInv'
  <2>1. Others(s) /\ requests[s] # None /\ RequestOK(requests[s]) BY <1>3, LandsIs
  <2>2. (form = None \/ form.put \in Slots \cup {None}) /\ tuning \in Slots \cup {None} BY DEF SetupTypeOK, Forms
  <2> DEFINE T == IF tuning = s THEN None ELSE tuning
  <2>5. ASSUME Heard(s, form'), tuning' = T, editing' = editing, View' = View PROVE WaitsInv'
    BY <2>1, <2>2, <2>5 DEF Others, Heard
  <2>6. CASE SettingsLand(s)
    <3>1. CASE View' = View BY <2>5, <2>6, <3>1, AnsweredForms DEF SettingsLand
    <3>2. CASE View' # View
      <4>1. editing' = FALSE /\ tuning' = None /\ form' = (IF View' = "steps" THEN Fresh ELSE None)
        BY <2>6, <3>2 DEF SettingsLand
      <4>2. Fresh # None BY FormsAreTyped
      <4> QED BY <4>1, <4>2, FreshIs
    <3> QED BY <3>1, <3>2
  <2>7. CASE FoldersLand(s)
    <3>1. shown' = shown /\ editing' = editing /\ tuning' = tuning BY <2>7 DEF FoldersLand
    <3>2. View' = View BY <3>1 DEF View, Ready
    <3>3. form' = IF form = None THEN None ELSE [form EXCEPT !.reread = TRUE] BY <2>7 DEF FoldersLand
    <3>4. requests[s].kind = "folders" BY <2>7 DEF FoldersLand
    <3>5. form # None => form' \in Forms /\ form'.put = form.put BY <3>3 DEF SetupTypeOK, Forms
    <3>6. form = None <=> form' = None BY <3>3, <3>5 DEF SetupSized
    <3> QED BY <2>1, <2>2, <3>1, <3>2, <3>4, <3>5, <3>6 DEF Others
  <2>8. CASE RefusalLands(s)
    <3>1. shown' = shown BY <2>8 DEF RefusalLands
    <3>2. View' = View BY <3>1 DEF View, Ready
    <3> QED BY <2>1, <2>5, <2>8, <3>2, RefusedForms DEF RefusalLands
  <2> QED BY <1>3, <2>6, <2>7, <2>8 DEF Lands
<1>4. ASSUME Filling PROVE WaitsInv'
  <2>1. form # None /\ form' # None /\ form'.put \in {form.put, None}
        /\ shown' = shown /\ editing' = editing /\ tuning' = tuning /\ requests' = requests BY <1>4, FillsIs
  <2>2. View' = View BY <2>1 DEF View, Ready
  <2> QED BY <2>1, <2>2
<1>6. ASSUME Edit PROVE WaitsInv'
  <2>1. shown' = shown /\ tuning' = tuning /\ requests' = requests /\ View = "summary"
        /\ editing' = ~editing /\ form' = IF editing THEN None ELSE Fresh BY <1>6 DEF Edit
  <2>2. View' = View BY <2>1 DEF View, Ready
  <2>3. Fresh # None BY FormsAreTyped
  <2> QED BY <2>1, <2>2, <2>3, FreshIs DEF SetupTypeOK
<1>7. ASSUME Rest PROVE WaitsInv'
  <2>1. requests' = requests /\ shown' = shown /\ form' = form /\ editing' = editing /\ tuning' = tuning
    BY <1>7, RestIs DEF page
  <2>2. View' = View BY <2>1 DEF View, Ready
  <2> QED BY <2>1, <2>2
<1> QED BY <1>1, <1>2, <1>3, <1>4, <1>6, <1>7, StepsAre

LEMMA SuggestedAreRight ==
    ASSUME SetupSized, SetupTypeOK PROVE OptionsRight(FolderOptions)
<1> DEFINE In(r) == [path |-> NszIn[r], root |-> r, exists |-> Exists(NszIn[r]),
                     writable |-> CanWrite(IF Exists(NszIn[r]) THEN NszIn[r] ELSE r)]
           At(r) == [path |-> r, root |-> r, exists |-> TRUE, writable |-> CanWrite(r)]
<1>1. \A o \in FolderOptions : \E r \in Roots : o = In(r) \/ o = At(r) BY DEF FolderOptions, SetupTypeOK
<1>2. ASSUME NEW r \in Roots, NEW t \in Roots PROVE NszIn[r] # t /\ (NszIn[r] = NszIn[t] => r = t) BY DEF SetupSized
<1>3. ASSUME NEW o \in FolderOptions, NEW q \in FolderOptions, o.path = q.path PROVE o = q
  <2>1. PICK r \in Roots : o = In(r) \/ o = At(r) BY <1>1
  <2>2. PICK t \in Roots : q = In(t) \/ q = At(t) BY <1>1
  <2>3. In(r).path = NszIn[r] /\ At(r).path = r /\ In(t).path = NszIn[t] /\ At(t).path = t OBVIOUS
  <2> HIDE DEF In, At
  <2> QED BY <1>2, <1>3, <2>1, <2>2, <2>3
<1>4. ASSUME NEW o \in FolderOptions
      PROVE  o.path \in {o.root, NszIn[o.root]} /\ (~o.exists => o.path \in {NszIn[r] : r \in Roots})
  <2>1. PICK r \in Roots : o = In(r) \/ o = At(r) BY <1>1
  <2> QED BY <2>1
<1> QED BY <1>3, <1>4 DEF OptionsRight, DistinctOptions

LEMMA FoldersAreKept ==
    ASSUME SetupSized, SetupTypeOK, WaitsInv, FoldersInv, SetupNext
    PROVE  FoldersInv'
<1> DEFINE Asked(s) == requests[s] # None =>
               /\ requests[s].folders # None => OptionsRight(requests[s].folders)
               /\ requests[s].patch.create => requests[s].patch.dir \in suggested
           Had == options # None => OptionsRight(options) /\ \A o \in options : ~o.exists => o.path \in suggested
<1>0. (\A s \in Slots : Asked(s)) /\ Had /\ OnlySuggestedAreMade /\ PickedCanBeWritten BY DEF FoldersInv
<1>a. SUFFICES (\A s \in Slots : Asked(s)') /\ Had' /\ OnlySuggestedAreMade' /\ PickedCanBeWritten' BY DEF FoldersInv
<1>1. ASSUME NEW s \in Slots, Asks(s)
      PROVE  (\A t \in Slots : Asked(t)') /\ Had' /\ OnlySuggestedAreMade' /\ PickedCanBeWritten'
  <2>1. options # None => DistinctOptions(options) BY DEF FoldersInv, OptionsRight
  <2>2. shown = None => form = None BY ViewIs DEF WaitsInv, NothingWaitsInVain
  <2>3. Others(s) /\ requests'[s].folders = None BY <1>1, <2>1, <2>2, AskingIs DEF Asks
  <2>4. options' = options /\ suggested' = suggested /\ made' = made /\ shown' = shown
    BY <1>1 DEF Asks, FetchSettings, FetchFolders, Submit, SetLevel, SetRemove, Tune, page
  <2>5. requests'[s].patch.create => requests'[s].patch.dir \in suggested
    <3>1. CASE FetchSettings(s) \/ FetchFolders(s)
      <4>1. NoPatch.create = FALSE BY TunePatches DEF NoPatch
      <4>2. requests'[s].patch = NoPatch BY <2>1, <2>2, <3>1, AskingIs
      <4> QED BY <4>1, <4>2
    <3>2. CASE SetLevel(s) \/ SetRemove(s) BY <2>1, <2>2, <3>2, AskingIs
    <3>3. CASE Submit(s)
      <4>1. requests'[s].patch = FolderPatch(ChosenFolder, Create) /\ Choosing BY <2>1, <2>2, <3>3, AskingIs DEF Submit
      <4>2. ChosenFolder \in Texts /\ Create \in BOOLEAN BY <2>1, <2>2, <4>1, TargetIsTyped DEF Choosing
      <4>3. requests'[s].patch.create = Create /\ requests'[s].patch.dir = ChosenFolder BY <4>1, <4>2, FolderPatches
      <4> QED BY <1>0, <4>1, <4>3 DEF Create, Choosing
    <3> QED BY <1>1, <3>1, <3>2, <3>3 DEF Asks
  <2>6. \A t \in Slots : Asked(t)' BY <1>0, <2>3, <2>4, <2>5 DEF Others
  <2>7. form' = form \/ (form # None /\ form'.choice = form.choice /\ form'.reread = form.reread)
    BY <1>1, SubmitIs DEF Asks, FetchSettings, FetchFolders, SetLevel, SetRemove, Tune, page
  <2>8. PickedCanBeWritten'
    <3>1. CASE form' = form BY <1>0, <2>4, <3>1 DEF PickedCanBeWritten, Choosing
    <3>2. CASE form # None /\ form'.choice = form.choice /\ form'.reread = form.reread
      BY <1>0, <2>4, <3>2 DEF PickedCanBeWritten, Choosing
    <3> QED BY <2>7, <3>1, <3>2
  <2> QED BY <1>0, <2>4, <2>6, <2>8 DEF OnlySuggestedAreMade
<1>2. ASSUME NEW s \in Slots, Serves(s)
      PROVE  (\A t \in Slots : Asked(t)') /\ Had' /\ OnlySuggestedAreMade' /\ PickedCanBeWritten'
  <2>1. /\ Others(s) /\ requests[s] # None /\ requests'[s].patch = requests[s].patch /\ page' = page
    BY <1>2, ServesIs
  <2>2. options' = options /\ suggested' = suggested /\ form' = form BY <2>1 DEF page
  <2>3. requests'[s].folders # None => OptionsRight(requests'[s].folders)
    <3>1. CASE MakeFolder(s) \/ Store(s) BY <3>1, PutSteps
    <3>2. CASE ReadAnswer(s) BY <3>2, ReadAnswerIs, SuggestedAreRight
    <3>3. CASE Judge(s) BY <3>3, JudgeIs
    <3> QED BY <1>2, <3>1, <3>2, <3>3 DEF Serves
  <2>4. \A t \in Slots : Asked(t)' BY <1>0, <2>1, <2>2, <2>3 DEF Others
  <2>5. made' = made \/ (requests[s].patch.create /\ made' = made \cup {requests[s].patch.dir})
    BY <1>2 DEF Serves, MakeFolder, Store, ReadAnswer, Judge, setupHistory
  <2>6. OnlySuggestedAreMade' BY <1>0, <2>1, <2>2, <2>5 DEF OnlySuggestedAreMade
  <2> QED BY <1>0, <2>2, <2>4, <2>6 DEF PickedCanBeWritten, Choosing
<1>3. ASSUME NEW s \in Slots, Lands(s)
      PROVE  (\A t \in Slots : Asked(t)') /\ Had' /\ OnlySuggestedAreMade' /\ PickedCanBeWritten'
  <2>1. Others(s) /\ requests[s] # None /\ RequestOK(requests[s]) /\ requests'[s] = None /\ made' = made
    BY <1>3, LandsIs DEF setupHistory
  <2>4. CASE SettingsLand(s) \/ RefusalLands(s)
    <3>1. options' = options /\ suggested' = suggested BY <2>4 DEF SettingsLand, RefusalLands
    <3>2. Heard(s, form') \/ form' \in {None, Fresh}
      BY <2>1, <2>4, AnsweredForms, RefusedForms DEF SettingsLand, RefusalLands
    <3>3. PickedCanBeWritten' BY <1>0, <3>1, <3>2, FreshIs DEF PickedCanBeWritten, Choosing, Heard
    <3> QED BY <1>0, <2>1, <3>1, <3>3 DEF Others, OnlySuggestedAreMade
  <2>5. CASE FoldersLand(s)
    <3>1. requests[s].folders # None BY <2>1, <2>5 DEF FoldersLand, Step, RequestOK
    <3>2. OptionsRight(requests[s].folders) BY <1>0, <2>1, <3>1
    <3>3. options' = requests[s].folders
          /\ suggested' = suggested \cup {o.path : o \in {p \in requests[s].folders : ~p.exists}}
      BY <2>5 DEF FoldersLand
    <3>4. Had' BY <3>2, <3>3
    <3>5. \A t \in Slots : Asked(t)' BY <1>0, <2>1, <3>3 DEF Others
    <3>6. OnlySuggestedAreMade' BY <1>0, <2>1, <3>2, <3>3 DEF OnlySuggestedAreMade, OptionsRight
    <3>7. form' = IF form = None THEN None ELSE [form EXCEPT !.reread = TRUE] BY <2>5 DEF FoldersLand
    <3>8. form # None => form'.reread = TRUE BY <3>7 DEF SetupTypeOK, Forms
    <3>9. PickedCanBeWritten' BY <3>7, <3>8 DEF PickedCanBeWritten, Choosing
    <3> QED BY <3>4, <3>5, <3>6, <3>9
  <2> QED BY <1>3, <2>4, <2>5 DEF Lands
<1>4. ASSUME Filling
      PROVE  (\A t \in Slots : Asked(t)') /\ Had' /\ OnlySuggestedAreMade' /\ PickedCanBeWritten'
  <2>1. options' = options /\ suggested' = suggested /\ made' = made /\ requests' = requests
    BY <1>4, FillsIs DEF setupHistory
  <2>2. PickedCanBeWritten' BY <1>0, <1>4, <2>1, FillsIs DEF PickedCanBeWritten, Choosing
  <2> QED BY <1>0, <2>1, <2>2 DEF OnlySuggestedAreMade
<1>6. ASSUME Edit
      PROVE  (\A t \in Slots : Asked(t)') /\ Had' /\ OnlySuggestedAreMade' /\ PickedCanBeWritten'
  <2>1. options' = options /\ suggested' = suggested /\ made' = made /\ requests' = requests /\ form' \in {None, Fresh}
    BY <1>6 DEF Edit, setupHistory
  <2>2. PickedCanBeWritten' BY <2>1, FreshIs DEF PickedCanBeWritten, Choosing
  <2> QED BY <1>0, <2>1, <2>2 DEF OnlySuggestedAreMade
<1>7. ASSUME Rest
      PROVE  (\A t \in Slots : Asked(t)') /\ Had' /\ OnlySuggestedAreMade' /\ PickedCanBeWritten'
  <2>1. options' = options /\ suggested' = suggested /\ made' = made /\ requests' = requests /\ form' = form
    BY <1>7, RestIs DEF page
  <2> QED BY <1>0, <2>1 DEF OnlySuggestedAreMade, PickedCanBeWritten, Choosing
<1> HIDE DEF Asked, Had
<1> QED BY <1>1, <1>2, <1>3, <1>4, <1>6, <1>7, StepsAre

LEMMA JudgedAgrees ==
    ASSUME NEW a \in Answers
    PROVE  Agrees([a EXCEPT !.problem = Problem(a)]) /\ [a EXCEPT !.problem = Problem(a)].dir = a.dir
<1> DEFINE b == [a EXCEPT !.problem = Problem(a)]
<1>1. b.problem = Problem(a) /\ b.dir = a.dir BY DEF Answers
<1>1a. b.keys = a.keys BY DEF Answers
<1>2. a.dir # None => a.dir \in Absolute BY DEF Answers
<1> HIDE DEF b
<1>3. ASSUME NEW p \in Absolute PROVE CheckOutputDir(p) \in {"not found", "a file", "read-only", "fine"}
  BY DEF CheckOutputDir
<1>3a. Agrees(b)
  <2>1. CASE ~a.keys
    <3>1. ~b.keys BY <1>1a, <2>1, Zenon
    <3>2. Problem(a) = "no keys" BY <2>1, Zenon DEF Problem
    <3> QED BY <1>1, <3>1, <3>2, Zenon DEF Agrees
  <2>2. CASE a.keys /\ a.dir = None
    <3>1. b.keys BY <1>1a, <2>2, Zenon
    <3>2. Problem(a) = "not chosen" BY <2>2, Zenon DEF Problem
    <3> QED BY <1>1, <2>2, <3>1, <3>2, Zenon DEF Agrees
  <2>3. CASE a.keys /\ a.dir # None
    <3>1. Problem(a) = CheckOutputDir(a.dir) BY <2>3 DEF Problem
    <3>2. b.keys BY <1>1a, <2>3, Zenon
    <3>4. a.dir # None BY <2>3, Zenon
    <3>5. a.dir \in Absolute BY <1>2, <3>4, Zenon
    <3>3. b.problem \in {"not found", "a file", "read-only", "fine"} BY <1>1, <1>3, <3>1, <3>5, Zenon
    <3> QED BY <1>1, <2>3, <3>2, <3>3, Zenon DEF Agrees
  <2> QED BY <2>1, <2>2, <2>3
<1> QED BY <1>1, <1>3a DEF b

LEMMA AnswersAreKept ==
    ASSUME SetupSized, SetupTypeOK, WaitsInv, FoldersInv, AnswersInv, SetupNext
    PROVE  AnswersInv'
<1> DEFINE Said(s) == requests[s] # None /\ requests[s].settings # None =>
               RealDir(requests[s].settings) /\ (requests[s].at = "answered" => Agrees(requests[s].settings))
           Had == shown # None => RealDir(shown) /\ Agrees(shown)
<1>0. SavedFolderIsReal /\ (\A s \in Slots : Said(s)) /\ Had BY DEF AnswersInv
<1>a. SUFFICES SavedFolderIsReal' /\ (\A s \in Slots : Said(s)') /\ Had' BY DEF AnswersInv
<1>1. ASSUME NEW s \in Slots, Asks(s) PROVE SavedFolderIsReal' /\ (\A t \in Slots : Said(t)') /\ Had'
  <2>1. options # None => DistinctOptions(options) BY DEF FoldersInv, OptionsRight
  <2>2. shown = None => form = None BY ViewIs DEF WaitsInv, NothingWaitsInVain
  <2>3. Others(s) /\ requests'[s].settings = None BY <1>1, <2>1, <2>2, AskingIs DEF Asks
  <2>4. shown' = shown /\ setting' = setting
    BY <1>1 DEF Asks, FetchSettings, FetchFolders, Submit, SetLevel, SetRemove, Tune, page
  <2>5. \A t \in Slots : Said(t)' BY <1>0, <2>3 DEF Others
  <2> QED BY <1>0, <2>4, <2>5 DEF SavedFolderIsReal
<1>2. ASSUME NEW s \in Slots, Serves(s) PROVE SavedFolderIsReal' /\ (\A t \in Slots : Said(t)') /\ Had'
  <2>1. Others(s) /\ page' = page /\ requests[s] # None BY <1>2, ServesIs
  <2>2. Had' BY <1>0, <2>1 DEF page
  <2>3. CASE MakeFolder(s)
    <3>1. requests'[s].settings = None /\ setting' = setting BY <2>3, PutSteps DEF MakeFolder
    <3> QED BY <1>0, <2>1, <2>2, <3>1 DEF Others, SavedFolderIsReal
  <2>4. CASE Store(s)
    <3>1. requests'[s].settings = None BY <2>4, PutSteps
    <3> DEFINE p == requests[s].patch
    <3>2. \/ setting' = setting
          \/ setting'.dir = (IF p.dir = None THEN setting.dir ELSE Real[p.dir])
             /\ (p.dir # None => p.dir \in Absolute)
      BY <2>4 DEF Store, CheckOutputDir
    <3>3. SavedFolderIsReal' BY <1>0, <3>2 DEF SavedFolderIsReal, SetupSized
    <3> QED BY <1>0, <2>1, <2>2, <3>1, <3>3 DEF Others
  <2>5. CASE ReadAnswer(s)
    <3>1. requests'[s].settings # None => requests'[s].at = "judging" /\ requests'[s].settings = Read
      BY <2>5, ReadAnswerIs
    <3>2. Read.dir = setting.dir /\ setting' = setting BY <2>5 DEF Read, ReadAnswer
    <3>3. Said(s)' BY <1>0, <3>1, <3>2 DEF RealDir, SavedFolderIsReal
    <3> QED BY <1>0, <2>1, <2>2, <3>2, <3>3 DEF Others, SavedFolderIsReal
  <2>6. CASE Judge(s)
    <3>1. /\ requests[s].settings \in Answers
          /\ requests'[s].settings = [requests[s].settings EXCEPT !.problem = Problem(requests[s].settings)]
      BY <2>6, JudgeIs
    <3>2. Agrees(requests'[s].settings) /\ requests'[s].settings.dir = requests[s].settings.dir BY <3>1, JudgedAgrees
    <3>3. requests[s].settings # None BY <3>1 DEF SetupSized
    <3>4. Said(s)' BY <1>0, <2>1, <3>2, <3>3 DEF RealDir
    <3>5. setting' = setting BY <2>6 DEF Judge
    <3> QED BY <1>0, <2>1, <2>2, <3>4, <3>5 DEF Others, SavedFolderIsReal
  <2> QED BY <1>2, <2>3, <2>4, <2>5, <2>6 DEF Serves
<1>3. ASSUME NEW s \in Slots, Lands(s) PROVE SavedFolderIsReal' /\ (\A t \in Slots : Said(t)') /\ Had'
  <2>1. Others(s) /\ requests[s] # None /\ RequestOK(requests[s]) /\ requests'[s] = None /\ setting' = setting
    BY <1>3, LandsIs
  <2>2. SavedFolderIsReal' BY <1>0, <2>1 DEF SavedFolderIsReal
  <2>3. \A t \in Slots : Said(t)' BY <1>0, <2>1 DEF Others
  <2>4. Had'
    <3>1. CASE FoldersLand(s) \/ RefusalLands(s) BY <1>0, <3>1 DEF FoldersLand, RefusalLands
    <3>2. CASE SettingsLand(s)
      <4>1. requests[s].settings # None /\ requests[s].at = "answered" /\ shown' = requests[s].settings
        BY <2>1, <3>2 DEF SettingsLand, Step, RequestOK
      <4> QED BY <1>0, <2>1, <4>1
    <3> QED BY <1>3, <3>1, <3>2 DEF Lands
  <2> QED BY <2>2, <2>3, <2>4
<1>4. ASSUME Filling \/ Edit \/ DiskChanges \/ LibraryChanges
      PROVE  SavedFolderIsReal' /\ (\A t \in Slots : Said(t)') /\ Had'
  <2>3. ASSUME Edit PROVE setting' = setting /\ requests' = requests /\ shown' = shown BY <2>3 DEF Edit
  <2>4. ASSUME DiskChanges \/ LibraryChanges PROVE setting' = setting /\ requests' = requests /\ shown' = shown
    BY <2>4 DEF DiskChanges, LibraryChanges, page
  <2>5. setting' = setting /\ requests' = requests /\ shown' = shown BY <1>4, <2>3, <2>4, FillsIs
  <2> QED BY <1>0, <2>5 DEF SavedFolderIsReal
<1>5. ASSUME OthersStore PROVE SavedFolderIsReal' /\ (\A t \in Slots : Said(t)') /\ Had'
  <2>1. requests' = requests /\ shown' = shown BY <1>5 DEF OthersStore, page
  <2>2. SavedFolderIsReal' BY <1>0, <1>5 DEF OthersStore, SavedFolderIsReal
  <2> QED BY <1>0, <2>1, <2>2
<1> HIDE DEF Said, Had
<1> QED BY <1>1, <1>2, <1>3, <1>4, <1>5, StepsAre DEF Rest

\* What is said of the settings is what they are, but of a change that is not answered yet.
Same(a) == a.dir = setting.dir /\ a.level = setting.level /\ a.remove = setting.remove
Told(s) == requests[s] # None /\ requests[s].settings # None => Same(requests[s].settings)
Unstored(s) ==
    requests[s] # None /\ requests[s].kind = "put" => requests[s].at \in {"making", "checking", "refused"}
Apart(s, t) ==
    s # t /\ requests[s] # None /\ requests[t] # None /\ requests[s].kind = "put" => requests[t].kind = "folders"

QuietInv ==
    /\ ~overlapped => \A s, t \in Slots : Apart(s, t)
    /\ ~overlapped /\ ~elsewhere => \A s \in Slots : Told(s)
    /\ ~overlapped /\ ~elsewhere /\ shown # None /\ (\A s \in Slots : Unstored(s)) => Same(shown)

LEMMA SentApart ==
    ASSUME NEW s \in Slots, SetupSized, SetupTypeOK, WaitsInv, FoldersInv, QuietInv, Asks(s), ~overlapped'
    PROVE  ~overlapped /\ \A t, u \in Slots : Apart(t, u)'
<1>1. options # None => DistinctOptions(options) BY DEF FoldersInv, OptionsRight
<1>2. shown = None => form = None BY ViewIs DEF WaitsInv, NothingWaitsInVain
<1>3. requests[s] = None /\ Others(s) /\ requests'[s] # None BY <1>1, <1>2, AskingIs DEF Asks
<1>4. \A t \in Slots : requests[t] # None => requests[t].kind \in {"get", "put", "folders"}
  BY RequestsAreThere DEF Requests
<1>5. ~overlapped /\ \A t, u \in Slots : Apart(t, u)
  BY DEF QuietInv, Asks, FetchSettings, FetchFolders, Submit, SetLevel, SetRemove, Tune, Sent
<1>6. CASE FetchSettings(s)
  <2>1. requests'[s].kind = "get" BY <1>1, <1>2, <1>6, AskingIs
  <2>2. Under({"put"}) = {} BY <1>6 DEF FetchSettings, Sent
  <2>3. \A t \in Slots : requests[t] # None => requests[t].kind # "put" BY <2>2 DEF Under
  <2> QED BY <1>3, <1>5, <2>1, <2>3 DEF Apart, Others
<1>7. CASE FetchFolders(s)
  <2>1. requests'[s].kind = "folders" BY <1>1, <1>2, <1>7, AskingIs
  <2> QED BY <1>3, <1>5, <2>1 DEF Apart, Others
<1>8. CASE Submit(s) \/ SetLevel(s) \/ SetRemove(s)
  <2>1. requests'[s].kind = "put" BY <1>1, <1>2, <1>8, AskingIs
  <2>2. Under({"get", "put"}) = {} BY <1>8 DEF Submit, SetLevel, SetRemove, Tune, Sent
  <2>3. \A t \in Slots : requests[t] # None => requests[t].kind \notin {"get", "put"} BY <2>2 DEF Under
  <2>4. \A t \in Slots : requests[t] # None => requests[t].kind = "folders" BY <1>4, <2>3
  <2>5. \A t \in Slots \ {s} : requests'[t] = requests[t] BY <1>3 DEF Others
  <2>6. ASSUME NEW t \in Slots, NEW u \in Slots, t # u, requests'[t] # None, requests'[u] # None, requests'[t].kind = "put"
        PROVE  requests'[u].kind = "folders"
    <3>1. CASE u = s
      <4>1. t # s /\ requests[t] # None /\ requests[t].kind = "put" BY <2>5, <2>6, <3>1
      <4> QED BY <4>1, <2>3
    <3>2. CASE u # s
      <4>1. requests'[u] = requests[u] BY <2>5, <3>2
      <4> QED BY <4>1, <2>4, <2>6
    <3> QED BY <3>1, <3>2
  <2> QED BY <1>5, <2>6 DEF Apart
<1> QED BY <1>5, <1>6, <1>7, <1>8 DEF Asks

LEMMA QuietIsKept ==
    ASSUME SetupSized, SetupTypeOK, WaitsInv, FoldersInv, QuietInv, SetupNext
    PROVE  QuietInv'
<1>1. ASSUME NEW s \in Slots, Asks(s) PROVE QuietInv'
  <2>1. options # None => DistinctOptions(options) BY DEF FoldersInv, OptionsRight
  <2>2. shown = None => form = None BY ViewIs DEF WaitsInv, NothingWaitsInVain
  <2>3. requests[s] = None /\ Others(s) /\ requests'[s].settings = None /\ (requests'[s].kind = "put" => requests'[s].at = "making")
    <3>1. requests[s] = None /\ Others(s) /\ requests'[s].settings = None BY <1>1, <2>1, <2>2, AskingIs DEF Asks
    <3>2. CASE Submit(s) \/ SetLevel(s) \/ SetRemove(s) BY <2>1, <2>2, <3>1, <3>2, AskingIs
    <3>3. CASE FetchSettings(s) BY <2>1, <2>2, <3>1, <3>3, AskingIs
    <3>4. CASE FetchFolders(s) BY <2>1, <2>2, <3>1, <3>4, AskingIs
    <3> QED BY <1>1, <3>2, <3>3, <3>4 DEF Asks
  <2>4. shown' = shown /\ setting' = setting /\ elsewhere' = elsewhere
    BY <1>1 DEF Asks, FetchSettings, FetchFolders, Submit, SetLevel, SetRemove, Tune, page
  <2>5. ~overlapped' => ~overlapped /\ \A t, u \in Slots : Apart(t, u)' BY <1>1, SentApart
  <2>6. ~overlapped' /\ ~elsewhere' => \A t \in Slots : Told(t)'
    BY <2>3, <2>4, <2>5 DEF QuietInv, Others, Told, Same
  <2>7. (\A t \in Slots : Unstored(t)') => (\A t \in Slots : Unstored(t)) BY <2>3 DEF Others, Unstored
  <2>8. ~overlapped' /\ ~elsewhere' /\ shown' # None /\ (\A t \in Slots : Unstored(t)') => Same(shown)'
    BY <2>4, <2>5, <2>7 DEF QuietInv, Same
  <2> QED BY <2>5, <2>6, <2>8 DEF QuietInv
<1>2. ASSUME NEW s \in Slots, Serves(s) PROVE QuietInv'
  <2>1. /\ Others(s) /\ requests[s] # None /\ requests'[s] # None
        /\ requests'[s].kind = requests[s].kind /\ page' = page /\ overlapped' = overlapped /\ elsewhere' = elsewhere
    BY <1>2, ServesIs
  <2>2. shown' = shown BY <2>1 DEF page
  <2>3. ~overlapped' => \A t, u \in Slots : Apart(t, u)' BY <2>1 DEF QuietInv, Apart, Others
  <2>4. CASE setting' = setting
    <3>1. ~overlapped /\ ~elsewhere => Told(s)'
      <4>1. CASE MakeFolder(s) \/ Store(s) BY <4>1, PutSteps DEF Told
      <4>2. CASE ReadAnswer(s)
        <5>1. requests'[s].settings # None => requests'[s].settings = Read BY <4>2, ReadAnswerIs
        <5> QED BY <2>4, <5>1 DEF Told, Same, Read
      <4>3. CASE Judge(s)
        <5>1. /\ requests[s].settings \in Answers
              /\ requests'[s].settings = [requests[s].settings EXCEPT !.problem = Problem(requests[s].settings)]
          BY <4>3, JudgeIs
        <5>2. /\ requests'[s].settings.dir = requests[s].settings.dir
              /\ requests'[s].settings.level = requests[s].settings.level
              /\ requests'[s].settings.remove = requests[s].settings.remove
          BY <5>1 DEF Answers
        <5>3. requests[s].settings # None BY <5>1 DEF SetupSized
        <5> QED BY <2>1, <2>4, <5>2, <5>3 DEF QuietInv, Told, Same
      <4> QED BY <1>2, <4>1, <4>2, <4>3 DEF Serves
    <3>2. ~overlapped' /\ ~elsewhere' => \A t \in Slots : Told(t)'
      BY <2>1, <2>4, <3>1 DEF QuietInv, Others, Told, Same
    <3>3. Unstored(s)' => Unstored(s)
      <4>1. CASE MakeFolder(s) \/ Store(s) BY <4>1 DEF MakeFolder, Store, Step, Unstored
      <4>2. CASE ReadAnswer(s)
        <5>1. requests'[s].at \in {"answered", "judging"} BY <4>2, ReadAnswerIs
        <5> QED BY <2>1, <5>1 DEF Unstored
      <4>3. CASE Judge(s)
        <5>1. requests'[s].at = "answered" BY <4>3, JudgeIs
        <5> QED BY <2>1, <5>1 DEF Unstored
      <4> QED BY <1>2, <4>1, <4>2, <4>3 DEF Serves
    <3>4. (\A t \in Slots : Unstored(t)') => (\A t \in Slots : Unstored(t)) BY <2>1, <3>3 DEF Others, Unstored
    <3>5. ~overlapped' /\ ~elsewhere' /\ shown' # None /\ (\A t \in Slots : Unstored(t)') => Same(shown)'
      BY <2>1, <2>2, <2>4, <3>4 DEF QuietInv, Same
    <3> QED BY <2>3, <3>2, <3>5 DEF QuietInv
  <2>5. CASE setting' # setting
    <3>1. Store(s) BY <1>2, <2>5 DEF Serves, MakeFolder, ReadAnswer, Judge
    <3>2. requests[s].kind = "put" /\ requests'[s].settings = None BY <3>1, PutSteps
    <3>3. Goes(s, "reading") BY <2>5, <3>1 DEF Store
    <3>4. requests'[s].at = "reading" BY <2>1, <3>3, GoesIs DEF Stages
    <3>5. ~Unstored(s)' BY <2>1, <3>2, <3>4 DEF Unstored
    <3>6. ASSUME ~overlapped, NEW t \in Slots, t # s, requests[t] # None PROVE requests[t].settings = None
      <4>1. requests[t].kind = "folders" BY <2>1, <3>2, <3>6 DEF QuietInv, Apart
      <4>2. RequestOK(requests[t]) BY <3>6, RequestsAreThere
      <4> QED BY <4>1, <4>2 DEF RequestOK
    <3>7. ~overlapped' /\ ~elsewhere' => \A t \in Slots : Told(t)' BY <2>1, <3>2, <3>6 DEF Others, Told
    <3> QED BY <2>3, <3>5, <3>7 DEF QuietInv
  <2> QED BY <2>4, <2>5
<1>3. ASSUME NEW s \in Slots, Lands(s) PROVE QuietInv'
  <2>1. /\ Others(s) /\ requests[s] # None /\ RequestOK(requests[s]) /\ requests'[s] = None
        /\ setting' = setting /\ overlapped' = overlapped /\ elsewhere' = elsewhere
    BY <1>3, LandsIs DEF setupHistory
  <2>2. ~overlapped' => \A t, u \in Slots : Apart(t, u)' BY <2>1 DEF QuietInv, Apart, Others
  <2>3. ~overlapped' /\ ~elsewhere' => \A t \in Slots : Told(t)' BY <2>1 DEF QuietInv, Others, Told, Same
  <2>4. CASE SettingsLand(s)
    <3>1. requests[s].settings # None /\ shown' = requests[s].settings
      BY <2>1, <2>4 DEF SettingsLand, Step, RequestOK
    <3>2. ~overlapped' /\ ~elsewhere' => Same(shown)' BY <2>1, <3>1 DEF QuietInv, Told, Same
    <3> QED BY <2>2, <2>3, <3>2 DEF QuietInv
  <2>5. CASE FoldersLand(s) \/ RefusalLands(s)
    <3>1. shown' = shown BY <2>5 DEF FoldersLand, RefusalLands
    <3>2. Unstored(s)
      <4>1. CASE FoldersLand(s) BY <4>1 DEF FoldersLand, Unstored
      <4>2. CASE RefusalLands(s) BY <4>2 DEF RefusalLands, Step, Unstored
      <4> QED BY <2>5, <4>1, <4>2
    <3>3. (\A t \in Slots : Unstored(t)') => (\A t \in Slots : Unstored(t)) BY <2>1, <3>2 DEF Others, Unstored
    <3> QED BY <2>1, <2>2, <2>3, <3>1, <3>3 DEF QuietInv, Same
  <2> QED BY <1>3, <2>4, <2>5 DEF Lands
<1>4. ASSUME requests' = requests, shown' = shown, setting' = setting, overlapped' = overlapped,
             elsewhere' = elsewhere
      PROVE  QuietInv'
  BY <1>4 DEF QuietInv, Apart, Told, Unstored, Same
<1>5. ASSUME Filling PROVE QuietInv' BY <1>4, <1>5, FillsIs DEF setupHistory
<1>7. CASE Edit BY <1>4, <1>7 DEF Edit, setupHistory
<1>8. CASE DiskChanges \/ LibraryChanges BY <1>4, <1>8 DEF DiskChanges, LibraryChanges, page, setupHistory
<1>9. CASE OthersStore
  <2>1. requests' = requests /\ overlapped' = overlapped /\ elsewhere' BY <1>9 DEF OthersStore
  <2> QED BY <2>1 DEF QuietInv, Apart
<1> QED BY <1>1, <1>2, <1>3, <1>5, <1>7, <1>8, <1>9, StepsAre DEF Rest

--------------------------------------------------------------------------------

\* What a form that was marked is about is in the form itself, whatever else the page is told.
Meant == IF form.choice = Other THEN form.typed ELSE form.choice
SpeechInv ==
    form # None /\ Marked =>
        /\ form.put # None => requests[form.put].patch.dir = Meant
        /\ form.failed # None => form.failed = Meant

LEMMA MeantIs == ASSUME Marked PROVE ChosenFolder = Meant
BY DEF Marked, ChosenFolder, Selected, OtherPath, Meant

LEMMA SpeechIsKept ==
    ASSUME SetupSized, SetupTypeOK, WaitsInv, FoldersInv, SpeechInv, SetupNext
    PROVE  SpeechInv'
<1>0. form = None \/ (form \in Forms /\ form.put \in Slots \cup {None}) BY DEF SetupTypeOK, Forms
<1>1. ASSUME NEW s \in Slots, Asks(s) PROVE SpeechInv'
  <2>1. options # None => DistinctOptions(options) BY DEF FoldersInv, OptionsRight
  <2>2. shown = None => form = None BY ViewIs DEF WaitsInv, NothingWaitsInVain
  <2>3. Others(s) /\ requests[s] = None BY <1>1, <2>1, <2>2, AskingIs DEF Asks
  <2>4. CASE form' = form
    <3>1. form # None /\ form.put # None => form.put # s BY <2>3 DEF WaitsInv, NothingWaitsInVain
    <3> QED BY <1>0, <2>3, <2>4, <3>1 DEF SpeechInv, Marked, Meant, Others
  <2>5. CASE Submit(s)
    <3>1. /\ form # None /\ form'.put = s /\ form'.failed = None
          /\ form'.choice = form.choice /\ form'.typed = form.typed
      BY <2>5, SubmitIs
    <3>2. requests'[s].patch = FolderPatch(ChosenFolder, Create) BY <2>1, <2>2, <2>5, AskingIs
    <3>3. FolderPatch(ChosenFolder, Create).dir = ChosenFolder BY DEF FolderPatch
    <3>4. Marked' => Meant' = ChosenFolder
      BY <3>1 DEF Marked, Meant, ChosenFolder, Selected, OtherPath
    <3> QED BY <3>1, <3>2, <3>3, <3>4 DEF SpeechInv
  <2> QED BY <1>1, <2>4, <2>5 DEF Asks, FetchSettings, FetchFolders, SetLevel, SetRemove, Tune, page
<1>2. ASSUME NEW s \in Slots, Serves(s) PROVE SpeechInv'
  <2>1. Others(s) /\ requests'[s].patch = requests[s].patch /\ form' = form BY <1>2, ServesIs DEF page
  <2> QED BY <1>0, <2>1 DEF SpeechInv, Marked, Meant, Others
<1>3. ASSUME NEW s \in Slots, Lands(s) PROVE SpeechInv'
  <2>1. Others(s) /\ requests[s] # None BY <1>3, LandsIs
  <2>2. CASE Heard(s, form')
    <3>1. CASE form = None BY <2>2, <3>1 DEF Heard, SpeechInv
    <3>2. CASE form # None
      <4>1. /\ form'.choice = form.choice /\ form'.typed = form.typed /\ form'.browsed = form.browsed
            /\ form'.put = (IF form.put = s THEN None ELSE form.put)
            /\ form'.failed = form.failed \/ (form.put = s /\ form'.failed = requests[s].patch.dir)
        BY <2>2, <3>2 DEF Heard
      <4>2. Meant' = Meant /\ (Marked' <=> Marked) BY <4>1 DEF Meant, Marked
      <4>3. form'.put # None => form'.put = form.put /\ requests'[form.put] = requests[form.put]
        BY <1>0, <2>1, <3>2, <4>1 DEF Others
      <4>4. s # None BY DEF SetupSized
      <4> QED BY <3>2, <4>1, <4>2, <4>3, <4>4 DEF SpeechInv
    <3> QED BY <3>1, <3>2
  <2>3. CASE form' \in {None, Fresh} BY <2>3, FreshIs DEF SpeechInv
  <2>4. CASE FoldersLand(s)
    <3>1. form' = IF form = None THEN None ELSE [form EXCEPT !.reread = TRUE] BY <2>4 DEF FoldersLand
    <3>2. CASE form = None BY <3>1, <3>2 DEF SpeechInv
    <3>3. CASE form # None
      <4>1. /\ form'.choice = form.choice /\ form'.typed = form.typed /\ form'.browsed = form.browsed
            /\ form'.put = form.put /\ form'.failed = form.failed
        BY <1>0, <3>1, <3>3 DEF Forms
      <4>2. form.put # s
        <5>1. requests[s].kind = "folders" BY <2>4 DEF FoldersLand
        <5>2. s # None BY DEF SetupSized
        <5> QED BY <3>3, <5>1, <5>2 DEF WaitsInv
      <4> QED BY <1>0, <2>1, <3>3, <4>1, <4>2 DEF SpeechInv, Marked, Meant, Others
    <3> QED BY <3>2, <3>3
  <2>5. CASE SettingsLand(s) \/ RefusalLands(s)
    <3>1. Heard(s, form') \/ form' \in {None, Fresh}
      BY <2>1, <2>5, AnsweredForms, RefusedForms DEF SettingsLand, RefusalLands
    <3> QED BY <2>2, <2>3, <3>1
  <2> QED BY <1>3, <2>4, <2>5 DEF Lands
<1>4. ASSUME Filling PROVE SpeechInv'
  <2>1. requests' = requests BY <1>4, FillsIs
  <2>2. CASE Picking \/ Typing BY <2>2, PicksIs, TypesIs DEF SpeechInv
  <2>3. CASE Browsing
    <3>1. /\ form # None /\ form'.put = form.put /\ form'.failed = form.failed /\ form'.choice = form.choice
          /\ (form'.typed = form.typed /\ form'.browsed = form.browsed) \/ form'.browsed
      BY <2>3, BrowsesIs
    <3>2. Marked' => Marked /\ Meant' = Meant BY <3>1 DEF Marked, Meant
    <3> QED BY <2>1, <3>1, <3>2 DEF SpeechInv
  <2> QED BY <1>4, <2>2, <2>3 DEF Filling
<1>5. ASSUME Edit PROVE SpeechInv'
  <2>1. form' \in {None, Fresh} BY <1>5 DEF Edit
  <2> QED BY <2>1, FreshIs DEF SpeechInv
<1>6. ASSUME Rest PROVE SpeechInv'
  <2>1. requests' = requests /\ form' = form BY <1>6, RestIs DEF page
  <2> QED BY <2>1 DEF SpeechInv, Marked, Meant
<1> QED BY <1>1, <1>2, <1>3, <1>4, <1>5, <1>6, StepsAre

SetupInv == SetupTypeOK /\ WaitsInv /\ FoldersInv /\ AnswersInv /\ QuietInv /\ SpeechInv

LEMMA SetupStarts == ASSUME SetupSized, SetupInit PROVE SetupInv
<1> USE DEF SetupInit
<1>1. SetupTypeOK BY DEF SetupTypeOK, Settings, SetupSized
<1>2. WaitsInv BY ViewIs DEF WaitsInv, NothingWaitsInVain
<1>3. FoldersInv BY DEF FoldersInv, OnlySuggestedAreMade, PickedCanBeWritten, Choosing
<1>4. AnswersInv BY DEF AnswersInv, SavedFolderIsReal
<1>5. QuietInv BY DEF QuietInv, Apart, Told
<1>6. SpeechInv BY DEF SpeechInv
<1> QED BY <1>1, <1>2, <1>3, <1>4, <1>5, <1>6 DEF SetupInv

LEMMA SetupStays == ASSUME SetupSized, SetupInv, UNCHANGED setupVars PROVE SetupInv'
<1> USE DEF setupVars
<1>1. SetupTypeOK' BY DEF SetupInv, SetupTypeOK
<1>2. View' = View BY DEF View, Ready
<1>3. WaitsInv' BY <1>2 DEF SetupInv, WaitsInv, NothingWaitsInVain
<1>4. FoldersInv' BY DEF SetupInv, FoldersInv, OnlySuggestedAreMade, PickedCanBeWritten, Choosing
<1>5. AnswersInv' BY DEF SetupInv, AnswersInv, SavedFolderIsReal
<1>6. QuietInv' BY DEF SetupInv, QuietInv, Apart, Told, Unstored, Same
<1>7. SpeechInv' BY DEF SetupInv, SpeechInv, Marked, Meant
<1> QED BY <1>1, <1>3, <1>4, <1>5, <1>6, <1>7 DEF SetupInv

\* The inductive invariant of the setup: types, who waits for what, folders, answers, quiet and speech.
THEOREM SetupInvariant == ASSUME SetupSized PROVE SetupSpec => []SetupInv
<1>1. SetupInit => SetupInv BY SetupStarts
<1>2. SetupInv /\ [SetupNext]_setupVars => SetupInv'
  <2>1. ASSUME SetupInv, SetupNext PROVE SetupInv'
    BY <2>1, TypesAreKept, WaitsAreKept, FoldersAreKept, AnswersAreKept, QuietIsKept, SpeechIsKept
      DEF SetupInv
  <2> QED BY <2>1, SetupStays
<1> QED BY <1>1, <1>2, PTL DEF SetupSpec

\* The folder that is saved is named by its real path.
THEOREM SavedFolderIsAlwaysReal == ASSUME SetupSized PROVE SetupSpec => []SavedFolderIsReal
<1>1. SetupInv => SavedFolderIsReal BY DEF SetupInv, AnswersInv
<1> QED BY <1>1, SetupInvariant, PTL

\* A folder is stored while it can be written to.
THEOREM OnlyFineFoldersAreStored == ASSUME SetupSized PROVE SetupSpec => StoredWasFine
<1> DEFINE A == setting'.dir # setting.dir => setting'.dir = None \/ Writable(setting'.dir)
<1>1. SetupInv /\ [SetupNext]_setupVars => [A]_setupVars
  <2> SUFFICES ASSUME SetupInv, SetupNext PROVE A BY DEF setupVars
  <2>1. ASSUME NEW s \in Slots, Store(s) PROVE A
    <3> DEFINE p == requests[s].patch
    <3>1. CASE setting' = setting BY <3>1
    <3>2. CASE setting' # setting
      <4>1. ~(p.dir # None /\ CheckOutputDir(p.dir) # "fine") BY <2>1, <3>2 DEF Store
      <4>2. setting'.dir = (IF p.dir = None THEN setting.dir ELSE Real[p.dir]) BY <2>1, <4>1 DEF Store
      <4>3. p.dir # None => p.dir \in Absolute /\ Writable(p.dir) BY <4>1 DEF CheckOutputDir
      <4>4. p.dir # None => Writable(Real[p.dir]) BY <4>3 DEF Writable, CanWrite, Exists, SetupSized
      <4> QED BY <4>2, <4>4
    <3> QED BY <3>1, <3>2
  <2>2. CASE OthersStore BY <2>2 DEF OthersStore
  <2>3. ASSUME NEW s \in Slots, Asks(s) \/ Lands(s) \/ MakeFolder(s) \/ ReadAnswer(s) \/ Judge(s) PROVE setting' = setting
    BY <2>3 DEF Asks, FetchSettings, FetchFolders, Submit, SetLevel, SetRemove, Tune, Lands, SettingsLand, FoldersLand,
               RefusalLands, MakeFolder, ReadAnswer, Judge
  <2>4. CASE Filling BY <2>4, FillsIs DEF SetupInv
  <2>6. CASE Edit BY <2>6 DEF Edit
  <2>7. CASE DiskChanges \/ LibraryChanges BY <2>7 DEF DiskChanges, LibraryChanges
  <2> QED BY <2>1, <2>2, <2>3, <2>4, <2>6, <2>7, StepsAre DEF Serves, Rest
<1> QED BY <1>1, SetupInvariant, PTL DEF SetupSpec, StoredWasFine

\* The page says that compression is set up only of keys and of a folder with its real name.
THEOREM SummariesAreOfTheReady == ASSUME SetupSized PROVE SetupSpec => []SummaryMeansReady
<1>1. SetupInv => SummaryMeansReady
  <2> SUFFICES ASSUME SetupInv, shown # None PROVE SummaryMeansReady BY ViewIs DEF SummaryMeansReady
  <2>1. RealDir(shown) /\ Agrees(shown) BY DEF SetupInv, AnswersInv
  <2>2. View = "summary" => shown.problem = "fine" BY ViewIs
  <2>3. shown.problem = "fine" => shown.keys /\ shown.dir # None
    <3> DEFINE q == shown.problem
    <3>1. ~shown.keys => q = "no keys" BY <2>1, Zenon DEF Agrees
    <3>2. shown.keys /\ shown.dir = None => q = "not chosen" BY <2>1, Zenon DEF Agrees
    <3> HIDE DEF q
    <3>3. q = "fine" => q # "no keys" /\ q # "not chosen" OBVIOUS
    <3>4. q = "fine" => shown.keys /\ shown.dir # None BY <3>1, <3>2, <3>3, Zenon
    <3> QED BY <3>4, Zenon DEF q
  <2> QED BY <2>1, <2>2, <2>3 DEF SummaryMeansReady, RealDir, KeysDone
<1> QED BY <1>1, SetupInvariant, PTL

\* The page makes no folder but one it was told is missing, the "NSZ" of a library folder.
THEOREM OnlySuggestionsAreMade == ASSUME SetupSized PROVE SetupSpec => []OnlySuggestedAreMade
<1>1. SetupInv => OnlySuggestedAreMade BY DEF SetupInv, FoldersInv
<1> QED BY <1>1, SetupInvariant, PTL

\* A form that was not touched keeps the folder; one that was can be written to; the first is proposed.
THEOREM TheFormIsTrue ==
    ASSUME SetupSized
    PROVE  SetupSpec => [](UntouchedFormKeepsTheFolder /\ PickedCanBeWritten /\ FirstIsProposed)
<1>1. SetupInv => UntouchedFormKeepsTheFolder
  <2> SUFFICES ASSUME SetupInv, Choosing, form.choice = None, form.typed = None, shown.dir # None
               PROVE ChosenFolder = shown.dir
    BY DEF UntouchedFormKeepsTheFolder
  <2>1. shown # None BY ViewIs DEF SetupInv, WaitsInv, NothingWaitsInVain, Choosing
  <2>2. shown.dir \in Absolute BY <2>1 DEF SetupInv, SetupTypeOK, Answers
  <2>3. shown.dir # Other BY <2>2 DEF SetupSized
  <2>4. Selected = IF KnownFolder THEN shown.dir ELSE Other BY DEF Selected
  <2>5. OtherPath = IF KnownFolder THEN Blank ELSE shown.dir BY DEF OtherPath
  <2> QED BY <2>3, <2>4, <2>5 DEF ChosenFolder
<1>2. SetupInv => PickedCanBeWritten BY DEF SetupInv, FoldersInv
<1>3. SetupInv => FirstIsProposed
  <2> SUFFICES ASSUME SetupInv, Choosing, form.choice = None, shown.dir = None, \E o \in options : o.writable
               PROVE \E o \in options : /\ o.path = Selected /\ o.writable
                                        /\ \A q \in options : q.writable => q = o \/ Precedes(o, q)
    BY DEF FirstIsProposed
  <2>1. options \in SUBSET Options /\ DistinctOptions(options)
    BY DEF SetupInv, SetupTypeOK, FoldersInv, OptionsRight, Choosing
  <2>2. Selected = FirstWritable(options) BY DEF Selected
  <2> QED BY <2>1, <2>2, FirstExists
<1> QED BY <1>1, <1>2, <1>3, SetupInvariant, PTL

\* Where the user marked a folder, "Saving..." and an error are of a save of that folder: however many
\* saves were begun and forgotten since (put.reset()), in whatever order they are answered or refused,
\* and whatever the page is told meanwhile. Only the folder dialog puts another folder under them.
THEOREM TheFormSpeaksOfTheMarked == ASSUME SetupSized PROVE SetupSpec => []FormSpeaksOfTheMarked
<1>1. SetupInv => FormSpeaksOfTheMarked
  BY MeantIs DEF SetupInv, SpeechInv, FormSpeaksOfTheMarked, Choosing
<1> QED BY <1>1, SetupInvariant, PTL

\* With nothing under way the page shows what is stored, unless requests overlapped or another page stored.
THEOREM QuietSetupIsRight == ASSUME SetupSized PROVE SetupSpec => []QuietPageIsRight
<1>1. SetupInv => QuietPageIsRight
  <2> SUFFICES ASSUME SetupInv, shown # None, Under({"get", "put"}) = {}, ~overlapped, ~elsewhere PROVE Same(shown)
    BY DEF QuietPageIsRight, Same
  <2>1. \A s \in Slots : Unstored(s) BY DEF Under, Unstored
  <2> QED BY <2>1 DEF SetupInv, QuietInv
<1> QED BY <1>1, SetupInvariant, PTL

\* Types.
THEOREM SetupIsTyped == ASSUME SetupSized PROVE SetupSpec => []SetupTypeOK
<1>1. SetupInv => SetupTypeOK BY DEF SetupInv
<1> QED BY <1>1, SetupInvariant, PTL
================================================================================
