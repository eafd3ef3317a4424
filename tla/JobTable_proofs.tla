-------------------------- MODULE JobTable_proofs ---------------------------
(***************************************************************************)
(* Lemmas about EventLog and JobTable, for every log, any number of        *)
(* consoles, jobs and events and any of the time limits: the operations of *)
(* the log, what each method does to the types of the table, and what it   *)
(* does to the status of the jobs.  DeviceApi_proofs and                   *)
(* InstallSystem_proofs rest on them.                                      *)
(***************************************************************************)
EXTENDS JobTable, FiniteSetTheorems, TLAPS

-----------------------------------------------------------------------------
(* Facts about the operations of EventLog, for every log and every device. *)

(* A new log has the shape of a log. *)
LEMMA EmptyLogOK == LogOK(EmptyLog)
BY MaxEventsAssumption, SMT DEF LogOK, EmptyLog

(* append's arithmetic: the oldest retained id after h more events. *)
LEMMA TrimOK ==
    ASSUME NEW first \in Int, NEW head \in Nat, NEW n \in Nat,
           first = (IF head > MaxEvents THEN head - MaxEvents + 1 ELSE 1)
    PROVE  LET h == head + n
               f == IF h - first + 1 > MaxEvents THEN h - MaxEvents + 1 ELSE first
           IN  /\ first \in Nat /\ f \in Nat /\ h \in Nat /\ first <= f /\ head <= h
               /\ f = (IF h > MaxEvents THEN h - MaxEvents + 1 ELSE 1)
BY MaxEventsAssumption, SMT

(* append keeps the shape, hands out the next ids, and every retained entry
   is either an old one under its old id or one of the batch; the retained
   ids reach up to the head. *)
LEMMA AppendedOK ==
    ASSUME NEW l, LogOK(l), NEW E, NEW batch \in Seq(E),
           \A e \in E : e.dev \in Devices \cup {AllDevices}
    PROVE  LET a == Appended(l, batch) IN
           /\ LogOK(a)
           /\ a.head = l.head + Len(batch)
           /\ \A i \in DOMAIN a.at :
                IF i <= l.head
                THEN i \in DOMAIN l.at /\ a.at[i] = l.at[i]
                ELSE i - l.head \in DOMAIN batch /\ a.at[i] = batch[i - l.head]
           /\ \A i, k \in Nat : i \in DOMAIN a.at /\ i <= k /\ k <= a.head => k \in DOMAIN a.at
<1> DEFINE a == Appended(l, batch)
<1>1. PICK first, head, n : /\ first = l.first /\ head = l.head /\ n = Len(batch)
  OBVIOUS
<1>2. /\ head \in Nat /\ n \in Nat
      /\ first = (IF head > MaxEvents THEN head - MaxEvents + 1 ELSE 1)
      /\ DOMAIN l.at = first..head /\ DOMAIN batch = 1..n
  BY <1>1 DEF LogOK
<1>3. first \in Int
  BY <1>2, MaxEventsAssumption, SMT
<1>4. PICK h, f :
         /\ h = head + n
         /\ f = IF h - first + 1 > MaxEvents THEN h - MaxEvents + 1 ELSE first
  OBVIOUS
<1>5. /\ f \in Nat /\ h \in Nat /\ first \in Nat /\ first <= f /\ head <= h
      /\ f = (IF h > MaxEvents THEN h - MaxEvents + 1 ELSE 1)
  BY <1>2, <1>3, <1>4, TrimOK, ZenonT(40)
<1>6. /\ a.head = h /\ a.first = f /\ DOMAIN a.at = f..h
      /\ \A i \in f..h : a.at[i] = IF i <= head THEN l.at[i] ELSE batch[i - head]
  BY <1>1, <1>4 DEF Appended
<1>7. \A i \in DOMAIN a.at :
         IF i <= head
         THEN i \in DOMAIN l.at /\ a.at[i] = l.at[i]
         ELSE i - head \in DOMAIN batch /\ a.at[i] = batch[i - head]
  <2> SUFFICES ASSUME NEW i \in DOMAIN a.at
               PROVE  IF i <= head
                      THEN i \in DOMAIN l.at /\ a.at[i] = l.at[i]
                      ELSE i - head \in DOMAIN batch /\ a.at[i] = batch[i - head]
    OBVIOUS
  <2>1. i \in Nat /\ f <= i /\ i <= h
    BY <1>5, <1>6, SMT
  <2>2. a.at[i] = IF i <= head THEN l.at[i] ELSE batch[i - head]
    BY <1>6
  <2>3. CASE i <= head
    <3>1. i \in first..head
      BY <2>1, <2>3, <1>5, <1>2, SMT
    <3> QED BY <3>1, <2>2, <2>3, <1>2
  <2>4. CASE ~(i <= head)
    <3>1. i - head \in 1..n
      BY <2>1, <2>4, <1>4, <1>2, SMT
    <3> QED BY <3>1, <2>2, <2>4, <1>2
  <2> QED BY <2>3, <2>4
<1>8. \A i \in DOMAIN a.at : a.at[i].dev \in Devices \cup {AllDevices}
  <2> SUFFICES ASSUME NEW i \in DOMAIN a.at PROVE a.at[i].dev \in Devices \cup {AllDevices}
    OBVIOUS
  <2>1. CASE i <= head
    BY <2>1, <1>7 DEF LogOK
  <2>2. CASE ~(i <= head)
    <3>1. i - head \in DOMAIN batch /\ a.at[i] = batch[i - head]
      BY <2>2, <1>7
    <3>2. batch[i - head] \in E
      BY <3>1, <1>2
    <3> QED BY <3>1, <3>2
  <2> QED BY <2>1, <2>2
<1>9. LogOK(a)
  BY <1>5, <1>6, <1>8 DEF LogOK
<1>10. \A i, k \in Nat : i \in DOMAIN a.at /\ i <= k /\ k <= a.head => k \in DOMAIN a.at
  BY <1>5, <1>6, SMT
<1> QED BY <1>1, <1>4, <1>6, <1>7, <1>9, <1>10

-----------------------------------------------------------------------------
USE DEF Ids

-----------------------------------------------------------------------------
(* The operators the actions are built from. *)

(* Moved changes the status and the age of the rows it names, nothing else. *)
LEMMA MovedOK ==
    ASSUME TableOK, NEW S, NEW s \in Statuses
    PROVE  LET m == Moved(S, s) IN
           /\ DOMAIN m = Ids
           /\ \A j \in Ids : /\ m[j] \in Rows
                             /\ m[j].dev = jobs[j].dev
                             /\ m[j].position = jobs[j].position
                             /\ m[j].status = IF j \in S THEN s ELSE jobs[j].status
<1>1. 0 \in 0..MaxAge
  BY AgesAssumption, SMT
<1> SUFFICES ASSUME NEW j \in Ids
             PROVE  /\ Moved(S, s)[j] \in Rows
                    /\ Moved(S, s)[j].dev = jobs[j].dev
                    /\ Moved(S, s)[j].position = jobs[j].position
                    /\ Moved(S, s)[j].status = IF j \in S THEN s ELSE jobs[j].status
  BY DEF Moved
<1>2. jobs[j] \in Rows
  BY DEF TableOK
<1>3. CASE j \in S
  BY <1>1, <1>2, <1>3 DEF Moved, Rows
<1>4. CASE j \notin S
  BY <1>2, <1>4 DEF Moved
<1> QED BY <1>3, <1>4

(* An entry is addressed to a console or to all of them. *)
LEMMA EntryDev == \A e \in Entries : e.dev \in Devices \cup {AllDevices}
BY DEF Entries

(* Announcing entries keeps the log's part of the invariant. *)
LEMMA AnnounceOK ==
    ASSUME TableOK, NEW batch \in Seq(Entries), Announce(batch)
    PROVE  /\ LogOK(log')
           /\ \A i \in DOMAIN log'.at : log'.at[i] \in Entries
<1>1. /\ LogOK(log)
      /\ \A i \in DOMAIN log.at : log.at[i] \in Entries
  BY DEF TableOK
<1>2. log' = Appended(log, batch)
  BY DEF Announce
<1>3. /\ LogOK(log')
      /\ \A i \in DOMAIN log'.at :
           IF i <= log.head
           THEN i \in DOMAIN log.at /\ log'.at[i] = log.at[i]
           ELSE i - log.head \in DOMAIN batch /\ log'.at[i] = batch[i - log.head]
  BY <1>1, <1>2, EntryDev, AppendedOK
<1>4. \A k \in DOMAIN batch : batch[k] \in Entries
  OBVIOUS
<1> QED BY <1>1, <1>3, <1>4

-----------------------------------------------------------------------------
(* Type correctness, one lemma for each kind of step. *)

(* A step that only moves rows. *)
LEMMA MovesKeepTable ==
    ASSUME TableOK, NEW S, NEW s \in Statuses, jobs' = Moved(S, s),
           UNCHANGED <<nextId, revoked, log>>, recent' \subseteq 1..(nextId - 1)
    PROVE  TableOK'
<1>1. DOMAIN jobs' = Ids /\ \A j \in Ids : jobs'[j] \in Rows
  BY MovedOK
<1> QED BY <1>1 DEF TableOK

(* Ids in use are job ids. *)
LEMMA IdsAreJobs == TableOK => /\ Ids \subseteq 1..MaxJobs
                               /\ IsFiniteSet(Ids)
                               /\ MaxJobs \in Nat
<1> SUFFICES ASSUME TableOK PROVE Ids \subseteq 1..MaxJobs /\ IsFiniteSet(Ids) /\ MaxJobs \in Nat
  OBVIOUS
<1>1. MaxJobs \in Nat /\ nextId \in 1..(MaxJobs + 1)
  BY TableBoundsAssumption DEF TableOK
<1>2. 1..(nextId - 1) \subseteq 1..MaxJobs
  BY <1>1, SMT
<1>3. Ids \subseteq 1..MaxJobs
  BY <1>2 DEF TableOK
<1>4. IsFiniteSet(1..MaxJobs)
  BY <1>1, FS_Interval
<1> QED BY <1>1, <1>3, <1>4, FS_Subset

LEMMA InsertKeepsTable ==
    ASSUME TableOK, NEW d \in Devices, NEW n \in Nat, InsertJobs(d, n)
    PROVE  TableOK'
<1> DEFINE new == nextId..(nextId + n - 1)
           batch == [i \in 1..n |-> Queued(d, nextId + i - 1)]
<1>1. /\ nextId \in Nat /\ nextId >= 1 /\ MaxJobs \in Nat /\ nextId + n - 1 <= MaxJobs
      /\ nextId' = nextId + n
  BY TableBoundsAssumption DEF TableOK, InsertJobs
<1>2. nextId' \in 1..(MaxJobs + 1)
  BY <1>1, SMT
<1>3. PICK p \in 1..MaxPosition :
         jobs' = [j \in Ids \cup new |->
                    IF j \in new
                    THEN [dev |-> d, status |-> "queued",
                          position |-> p + (j - nextId), age |-> 0]
                    ELSE jobs[j]]
  BY DEF InsertJobs
<1>4. p \in Nat /\ 0 \in 0..MaxAge
  BY AgesAssumption, TableBoundsAssumption, SMT
<1>5. Ids' \subseteq 1..(nextId' - 1)
  <2>1. Ids' = Ids \cup new
    BY <1>3
  <2>2. Ids \subseteq 1..(nextId - 1)
    BY DEF TableOK
  <2> QED BY <1>1, <2>1, <2>2, SMT
<1>6. \A j \in Ids' : jobs'[j] \in Rows
  <2> SUFFICES ASSUME NEW j \in Ids' PROVE jobs'[j] \in Rows
    OBVIOUS
  <2>1. CASE j \in new
    <3>1. p + (j - nextId) \in Nat
      BY <2>1, <1>1, <1>4, SMT
    <3>2. jobs'[j] = [dev |-> d, status |-> "queued",
                      position |-> p + (j - nextId), age |-> 0]
      BY <2>1, <1>3
    <3> QED BY <3>1, <3>2, <1>4 DEF Rows, Statuses, Active
  <2>2. CASE j \notin new
    BY <2>2, <1>3 DEF TableOK
  <2> QED BY <2>1, <2>2
<1>7. batch \in Seq(Entries)
  <2>1. \A i \in 1..n : Queued(d, nextId + i - 1) \in Entries
    <3> SUFFICES ASSUME NEW i \in 1..n PROVE Queued(d, nextId + i - 1) \in Entries
      OBVIOUS
    <3>1. nextId + i - 1 \in 1..MaxJobs
      BY <1>1, SMT
    <3> QED BY <3>1 DEF Queued, Entries
  <2> QED BY <2>1, SMT
<1>8. LogOK(log') /\ \A i \in DOMAIN log'.at : log'.at[i] \in Entries
  BY <1>7, AnnounceOK DEF InsertJobs
<1>9. recent' \subseteq 1..(nextId' - 1) /\ revoked' \subseteq Devices
  <2>1. recent' = recent /\ revoked' = revoked
    BY DEF InsertJobs
  <2>2. recent \subseteq 1..(nextId - 1) /\ revoked \subseteq Devices
    BY DEF TableOK
  <2> QED BY <1>1, <2>1, <2>2, SMT
<1> QED BY <1>2, <1>5, <1>6, <1>8, <1>9 DEF TableOK

(* The requests of a console about one job. *)
LEMMA ReportsKeepTable ==
    ASSUME TableOK, NEW d \in Devices, NEW j \in JobsOf(d)
    PROVE  /\ ClaimJob(d, j) => TableOK'
           /\ Progress(d, j) => TableOK'
           /\ \A ok \in BOOLEAN : Complete(d, j, ok) => TableOK'
<1>1. j \in 1..(nextId - 1) /\ recent \subseteq 1..(nextId - 1)
  BY DEF JobsOf, TableOK
<1>2. ASSUME ClaimJob(d, j) PROVE TableOK'
  BY <1>1, <1>2, MovesKeepTable DEF ClaimJob, Statuses, Active
<1>3. ASSUME Progress(d, j) PROVE TableOK'
  <2>1. CASE jobs' = Moved({j}, "running") /\ recent' = recent \cup {j}
    <3>1. recent' \subseteq 1..(nextId - 1)
      BY <1>1, <2>1
    <3> QED BY <1>3, <2>1, <3>1, MovesKeepTable DEF Progress, Statuses, Active
  <2>2. CASE UNCHANGED <<jobs, recent>>
    BY <1>3, <2>2 DEF Progress, TableOK
  <2> QED BY <1>3, <2>1, <2>2 DEF Progress
<1>4. ASSUME NEW ok \in BOOLEAN, Complete(d, j, ok) PROVE TableOK'
  <2>1. (IF ok THEN "done" ELSE "failed") \in Statuses
    BY DEF Statuses, Finished
  <2>2. recent' \subseteq 1..(nextId - 1)
    BY <1>1, <1>4 DEF Complete
  <2> QED BY <1>4, <2>1, <2>2, MovesKeepTable DEF Complete
<1> QED BY <1>2, <1>3, <1>4

(* Sweeps, the end of a USB link and a revoke interrupt what a console had. *)
LEMMA InterruptsKeepTable ==
    ASSUME TableOK
    PROVE  /\ \A S, t : InterruptStaleJobs(S, t) => TableOK'
           /\ \A d : InterruptActiveJobs(d) => TableOK'
           /\ \A d \in Devices : RevokeDevice(d) => TableOK'
<1>1. recent \subseteq 1..(nextId - 1) /\ "interrupted" \in Statuses
  BY DEF TableOK, Statuses
<1>2. ASSUME NEW S, NEW t, InterruptStaleJobs(S, t) PROVE TableOK'
  BY <1>1, <1>2, MovesKeepTable DEF InterruptStaleJobs
<1>3. ASSUME NEW d, InterruptActiveJobs(d) PROVE TableOK'
  BY <1>1, <1>3, MovesKeepTable DEF InterruptActiveJobs
<1>4. ASSUME NEW d \in Devices, RevokeDevice(d) PROVE TableOK'
  <2>1. DOMAIN jobs' = Ids /\ \A j \in Ids : jobs'[j] \in Rows
    BY <1>1, <1>4, MovedOK DEF RevokeDevice
  <2> QED BY <1>4, <2>1 DEF RevokeDevice, TableOK
<1> QED BY <1>2, <1>3, <1>4

(* One event about one job can be announced. *)
LEMMA JobEvents ==
    ASSUME TableOK, NEW j \in Ids
    PROVE  /\ <<Queued(jobs[j].dev, j)>> \in Seq(Entries)
           /\ <<Cancelled(jobs[j].dev, j)>> \in Seq(Entries)
<1>1. j \in 1..MaxJobs /\ jobs[j].dev \in Devices
  BY IdsAreJobs DEF TableOK, Rows
<1>2. Queued(jobs[j].dev, j) \in Entries /\ Cancelled(jobs[j].dev, j) \in Entries
  BY <1>1 DEF Queued, Cancelled, Entries
<1> QED BY <1>2

LEMMA ResumeKeepsTable ==
    ASSUME TableOK, NEW j \in Ids, ResumeJob(j)
    PROVE  TableOK'
<1>1. PICK p \in 1..MaxPosition :
         jobs' = [jobs EXCEPT ![j].status = "queued", ![j].age = 0, ![j].position = p]
  BY DEF ResumeJob
<1>2. p \in Nat /\ 0 \in 0..MaxAge
  BY AgesAssumption, TableBoundsAssumption, SMT
<1>3. DOMAIN jobs' = Ids /\ \A k \in Ids : jobs'[k] \in Rows
  <2>1. \A k \in Ids : jobs[k] \in Rows
    BY DEF TableOK
  <2>2. \A k \in Ids : k # j => jobs'[k] = jobs[k]
    BY <1>1
  <2>3. jobs'[j] = [jobs[j] EXCEPT !.status = "queued", !.age = 0, !.position = p]
    BY <1>1
  <2>4. jobs'[j] \in Rows
    BY <1>2, <2>1, <2>3 DEF Rows, Statuses, Active
  <2> QED BY <1>1, <2>1, <2>2, <2>4
<1>4. LogOK(log') /\ \A i \in DOMAIN log'.at : log'.at[i] \in Entries
  BY JobEvents, AnnounceOK DEF ResumeJob
<1> QED BY <1>3, <1>4 DEF ResumeJob, TableOK

LEMMA CancelKeepsTable ==
    ASSUME TableOK, NEW j \in Ids, CancelJob(j)
    PROVE  TableOK'
<1>1. DOMAIN jobs' = Ids /\ \A k \in Ids : jobs'[k] \in Rows
  BY MovedOK DEF CancelJob, Statuses, Finished
<1>2. LogOK(log') /\ \A i \in DOMAIN log'.at : log'.at[i] \in Entries
  BY JobEvents, AnnounceOK DEF CancelJob
<1> QED BY <1>1, <1>2 DEF CancelJob, TableOK

(* A place in a reordered queue is a position. *)
LEMMA ReorderKeepsTable ==
    ASSUME TableOK, NEW d,
           NEW order \in [1..Cardinality(QueuedJobs(d)) -> QueuedJobs(d)],
           ReorderJobs(d, order)
    PROVE  TableOK'
<1> DEFINE named == {order[i] : i \in DOMAIN order}
<1>1. Cardinality(QueuedJobs(d)) \in Nat
  <2>1. IsFiniteSet(QueuedJobs(d))
    BY IdsAreJobs, FS_Subset DEF QueuedJobs, JobsOf
  <2> QED BY <2>1, FS_CardinalityType
<1>2. PICK place \in [named -> DOMAIN order] :
         jobs' = [j \in Ids |-> IF j \in named
                                THEN [jobs[j] EXCEPT !.position = place[j]]
                                ELSE jobs[j]]
  BY DEF ReorderJobs
<1>3. \A j \in Ids : jobs'[j] \in Rows
  <2> SUFFICES ASSUME NEW j \in Ids PROVE jobs'[j] \in Rows
    OBVIOUS
  <2>1. jobs[j] \in Rows
    BY DEF TableOK
  <2>2. CASE j \in named
    <3>1. place[j] \in DOMAIN order /\ DOMAIN order = 1..Cardinality(QueuedJobs(d))
      BY <1>2, <2>2
    <3>2. place[j] \in Nat
      BY <1>1, <3>1, SMT
    <3>3. jobs'[j] = [jobs[j] EXCEPT !.position = place[j]]
      BY <1>2, <2>2
    <3> QED BY <2>1, <3>2, <3>3 DEF Rows
  <2>3. CASE j \notin named
    BY <1>2, <2>1, <2>3
  <2> QED BY <2>2, <2>3
<1> QED BY <1>2, <1>3 DEF ReorderJobs, TableOK

LEMMA TickKeepsTable == TableOK /\ Tick => TableOK'
<1> SUFFICES ASSUME TableOK, Tick PROVE TableOK'
  OBVIOUS
<1>1. \A j \in Ids : jobs'[j] \in Rows
  <2> SUFFICES ASSUME NEW j \in Ids PROVE jobs'[j] \in Rows
    OBVIOUS
  <2>1. jobs[j] \in Rows
    BY DEF TableOK
  <2>2. CASE j \in Ageing
    <3>1. jobs[j].age \in 0..MaxAge /\ jobs[j].age < MaxAge
      BY <2>1, <2>2 DEF Rows, Ageing
    <3>2. jobs[j].age + 1 \in 0..MaxAge
      BY <3>1, AgesAssumption, SMT
    <3>3. jobs'[j] = [jobs[j] EXCEPT !.age = jobs[j].age + 1]
      BY <2>2 DEF Tick
    <3> QED BY <2>1, <3>2, <3>3 DEF Rows
  <2>3. CASE j \notin Ageing
    BY <2>1, <2>3 DEF Tick
  <2> QED BY <2>2, <2>3
<1>2. DOMAIN jobs' = Ids
  BY DEF Tick
<1> QED BY <1>1, <1>2 DEF Tick, TableOK

LEMMA OthersKeepTable ==
    ASSUME TableOK
    PROVE  /\ PurgeFinishedJobs => TableOK'
           /\ LibraryChanged => TableOK'
           /\ Restart => TableOK'
           /\ \A d : Pair(d) => TableOK'
<1>1. ASSUME PurgeFinishedJobs PROVE TableOK'
  BY <1>1 DEF PurgeFinishedJobs, TableOK
<1>2. ASSUME LibraryChanged PROVE TableOK'
  <2>1. <<[t |-> "catalog", dev |-> AllDevices]>> \in Seq(Entries)
    BY DEF Entries
  <2>2. LogOK(log') /\ \A i \in DOMAIN log'.at : log'.at[i] \in Entries
    BY <1>2, <2>1, AnnounceOK DEF LibraryChanged
  <2> QED BY <1>2, <2>2 DEF LibraryChanged, TableOK
<1>3. ASSUME Restart PROVE TableOK'
  <2>1. LogOK(log') /\ DOMAIN log'.at = {}
    BY <1>3, EmptyLogOK DEF Restart, EmptyLog
  <2> QED BY <1>3, <2>1 DEF Restart, TableOK
<1>4. ASSUME NEW d, Pair(d) PROVE TableOK'
  BY <1>4 DEF Pair, TableOK
<1> QED BY <1>1, <1>2, <1>3, <1>4

-----------------------------------------------------------------------------
(* What a step does to the jobs, in one form for every action. *)

(* The rows stay, and every job that moves goes from `From` to `To`. *)
JobStep(From, To) ==
    /\ Ids' = Ids /\ nextId' = nextId
    /\ \A j \in Ids :
         /\ jobs'[j].dev = jobs[j].dev
         /\ \/ jobs'[j].status = jobs[j].status
            \/ jobs[j].status \in From /\ jobs'[j].status \in To

(* The log tells the consoles nothing new about a job. *)
NoJobEvent == log' = log \/ log' = EmptyLog \/ LibraryChanged

LEMMA MovedStep ==
    ASSUME TableOK, NEW S, NEW s \in Statuses, jobs' = Moved(S, s),
           nextId' = nextId, NEW From, \A j \in S \cap Ids : jobs[j].status \in From
    PROVE  JobStep(From, {s})
BY MovedOK DEF JobStep

(* The steps that neither create, resume, cancel nor delete a job. *)
QuietStep ==
    /\ NoJobEvent
    /\ \/ JobStep({"queued", "interrupted"}, {"claimed"})
       \/ JobStep(Reportable, {"running", "done", "failed"})
       \/ JobStep(OnConsole, {"interrupted"})
       \/ JobStep({}, {})

LEMMA InterruptsAreQuiet ==
    ASSUME TableOK
    PROVE  /\ \A S, t : InterruptStaleJobs(S, t) => QuietStep
           /\ \A d : InterruptActiveJobs(d) => QuietStep
           /\ \A d : RevokeDevice(d) => QuietStep
<1>0. "interrupted" \in Statuses
  BY DEF Statuses
<1>1. ASSUME NEW S, NEW t, InterruptStaleJobs(S, t) PROVE QuietStep
  <2>1. JobStep(OnConsole, {"interrupted"})
    BY <1>0, <1>1, MovedStep DEF InterruptStaleJobs, StaleJobs, HasStatus
  <2> QED BY <1>1, <2>1 DEF QuietStep, NoJobEvent, InterruptStaleJobs
<1>2. ASSUME NEW d, InterruptActiveJobs(d) PROVE QuietStep
  <2>1. JobStep(OnConsole, {"interrupted"})
    BY <1>0, <1>2, MovedStep DEF InterruptActiveJobs, HasStatus
  <2> QED BY <1>2, <2>1 DEF QuietStep, NoJobEvent, InterruptActiveJobs
<1>3. ASSUME NEW d, RevokeDevice(d) PROVE QuietStep
  <2>1. JobStep(OnConsole, {"interrupted"})
    BY <1>0, <1>3, MovedStep DEF RevokeDevice, HasStatus
  <2> QED BY <1>3, <2>1 DEF QuietStep, NoJobEvent, RevokeDevice
<1> QED BY <1>1, <1>2, <1>3

LEMMA ReportsAreQuiet ==
    ASSUME TableOK, NEW d, NEW j \in JobsOf(d)
    PROVE  /\ ClaimJob(d, j) => QuietStep
           /\ Progress(d, j) => QuietStep
           /\ \A ok \in BOOLEAN : Complete(d, j, ok) => QuietStep
<1>0. {"claimed", "running", "done", "failed"} \subseteq Statuses
  BY DEF Statuses, Active, Finished
<1>1. ASSUME ClaimJob(d, j) PROVE QuietStep
  <2>1. JobStep({"queued", "interrupted"}, {"claimed"})
    BY <1>0, <1>1, MovedStep DEF ClaimJob, HasStatus
  <2> QED BY <1>1, <2>1 DEF QuietStep, NoJobEvent, ClaimJob
<1>2. ASSUME Progress(d, j) PROVE QuietStep
  <2>1. CASE jobs' = Moved({j}, "running")
    <3>1. JobStep(Reportable, {"running"})
      BY <1>0, <1>2, <2>1, MovedStep DEF Progress, HasStatus
    <3> QED BY <1>2, <3>1 DEF QuietStep, JobStep, NoJobEvent, Progress
  <2>2. CASE UNCHANGED jobs
    BY <1>2, <2>2 DEF QuietStep, JobStep, NoJobEvent, Progress
  <2> QED BY <1>2, <2>1, <2>2 DEF Progress
<1>3. ASSUME NEW ok \in BOOLEAN, Complete(d, j, ok) PROVE QuietStep
  <2>1. JobStep(Reportable, {IF ok THEN "done" ELSE "failed"})
    BY <1>0, <1>3, MovedStep DEF Complete, HasStatus
  <2> QED BY <1>3, <2>1 DEF QuietStep, JobStep, NoJobEvent, Complete
<1> QED BY <1>1, <1>2, <1>3

LEMMA OthersAreQuiet ==
    ASSUME TableOK
    PROVE  /\ \A d, order : ReorderJobs(d, order) => QuietStep
           /\ \A d : Pair(d) => QuietStep
           /\ LibraryChanged => QuietStep
           /\ Restart => QuietStep
           /\ Tick => QuietStep
<1>0. \A j \in Ids : jobs[j] \in Rows
  BY DEF TableOK
<1>1. ASSUME NEW d, NEW order, ReorderJobs(d, order) PROVE QuietStep
  <2>1. PICK named, place :
           jobs' = [j \in Ids |-> IF j \in named
                                  THEN [jobs[j] EXCEPT !.position = place[j]]
                                  ELSE jobs[j]]
    BY <1>1, ZenonT(40) DEF ReorderJobs
  <2>2. \A j \in Ids : jobs'[j].dev = jobs[j].dev /\ jobs'[j].status = jobs[j].status
    BY <1>0, <2>1 DEF Rows
  <2> QED BY <1>1, <2>1, <2>2 DEF QuietStep, JobStep, NoJobEvent, ReorderJobs
<1>2. ASSUME NEW d, Pair(d) PROVE QuietStep
  BY <1>2 DEF QuietStep, JobStep, NoJobEvent, Pair
<1>3. ASSUME LibraryChanged PROVE QuietStep
  <2>1. UNCHANGED <<jobs, nextId>>
    BY <1>3 DEF LibraryChanged
  <2> QED BY <1>3, <2>1 DEF QuietStep, JobStep, NoJobEvent
<1>4. ASSUME Restart PROVE QuietStep
  BY <1>4 DEF QuietStep, JobStep, NoJobEvent, Restart
<1>5. ASSUME Tick PROVE QuietStep
  <2>1. \A j \in Ids : jobs'[j].dev = jobs[j].dev /\ jobs'[j].status = jobs[j].status
    BY <1>0, <1>5 DEF Tick, Rows
  <2> QED BY <1>5, <2>1 DEF QuietStep, JobStep, NoJobEvent, Tick
<1> QED BY <1>1, <1>2, <1>3, <1>4, <1>5

=============================================================================
