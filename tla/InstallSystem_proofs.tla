------------------------ MODULE InstallSystem_proofs ------------------------
(***************************************************************************)
(* Theorems about InstallSystem, for any number of jobs, events and faults *)
(* and any of the time limits: the console and the server agree on every   *)
(* job, in the four safety properties the runs check.                      *)
(***************************************************************************)
EXTENDS InstallSystem, JobTable_proofs, WellFoundedInduction

USE DEF Ids

-----------------------------------------------------------------------------
(* The inductive invariant. *)

(* Nothing was lost and the app did not crash. *)
Calm == spent.loss = 0 /\ spent.crash = 0

(* What the console installed is not in doubt: no crash, no revoke, no job resumed. *)
Unbroken == spent.crash = 0 /\ spent.revoke = 0 /\ spent.resume = 0

(* A job the console holds and has not told the outcome of: the server was
   told once the result is on screen. *)
Live(j) == Holds(j) /\ ~(phase \in {"success", "failure"} /\ current = j)

SystemShapes ==
    /\ TableOK /\ log.head <= MaxHead
    /\ \A j \in Ids : jobs[j].dev = Console
    /\ up \in BOOLEAN /\ cancel \in BOOLEAN
    /\ cursor \in Nat \cup {NoCursor}
    /\ current \in Ids \cup {NoJob}
    /\ phase \in Phases /\ step \in Steps
    /\ pending \in Seq(Jobs) /\ Waiting \subseteq Ids
    /\ unsent \in Seq([job : Jobs, ok : BOOLEAN])
    /\ page \in Seq(Entries)
    /\ shown \subseteq Jobs /\ installed \subseteq Ids
    /\ spent \in [DOMAIN Budget -> Nat]

(* Session's members fit together. *)
SystemPhases ==
    /\ Installing <=> current # NoJob
    /\ ~Installing => pending = <<>>
    /\ ~up => ~Installing /\ step = "rest"
    /\ page # <<>> <=> step \in {"events", "claim"}
    /\ step = "flush" => unsent # <<>>

(* Nothing of a revoked console is taken.  While nothing is lost no outcome is owed, and what is
   taken is held and its outcome not yet sent. *)
TakenInv ==
    /\ ~Authorised => \A j \in Ids : jobs[j].status \notin OnConsole
    /\ Calm => unsent = <<>> /\ \A j \in Ids : jobs[j].status \in OnConsole => Live(j)

(* An outcome that says "installed" is true, on its way and in the history. *)
DoneInv ==
    /\ \A j \in Ids : jobs[j].status = "done" => j \in installed
    /\ phase \in {"ok", "success"} => current \in installed
    /\ \A i \in DOMAIN unsent : unsent[i].ok => unsent[i].job \in installed

(* What was installed does not wait in the queue unless it was resumed; as long as the server
   would take its outcome, the console has it to send. *)
KeptInv ==
    /\ spent.revoke = 0 => Authorised
    /\ spent.resume = 0 => \A j \in Ids : Holds(j) \/ j \in installed => jobs[j].status # "queued"
    /\ Unbroken =>
         \A j \in installed : jobs[j].status \in Reportable => Owes(j) \/ Live(j)

SystemInv == SystemShapes /\ SystemPhases /\ HoldsEachJobOnce /\ TakenInv /\ DoneInv /\ KeptInv

-----------------------------------------------------------------------------
(* Sequences, and the queue of waiting jobs. *)

Members(queue) == {queue[i] : i \in DOMAIN queue}
OnceEach(queue) == \A i, k \in DOMAIN queue : queue[i] = queue[k] => i = k

(* A set of integers with a bound has a greatest member. *)
LEMMA BoundedHasGreatest ==
    ASSUME NEW S, S \subseteq Int, S # {}, NEW N \in Int, \A x \in S : x <= N
    PROVE  \E x \in S : \A y \in S : y <= x
<1> DEFINE T == {N - x : x \in S}
           R == {pair \in Nat \X Nat : pair[1] < pair[2]}
<1>1. T \subseteq Nat /\ T # {}
  <2>1. \A x \in S : N - x \in Nat
    OBVIOUS
  <2> QED BY <2>1
<1>2. IsWellFoundedOn(R, Nat)
  BY NatLessThanWellFounded DEF OpToRel
<1> HIDE DEF T
<1>3. PICK m \in T : \A n \in T : ~(<<n, m>> \in R)
  BY <1>1, <1>2, WFMin
<1>4. \A n \in T : ~(n < m)
  BY <1>1, <1>3
<1> USE DEF T
<1>5. PICK x \in S : m = N - x
  OBVIOUS
<1>6. ASSUME NEW y \in S PROVE y <= x
  <2>1. N - y \in T
    OBVIOUS
  <2>2. ~(N - y < N - x)
    BY <1>4, <1>5, <2>1
  <2> HIDE DEF T
  <2> QED BY <2>2
<1> QED BY <1>6

(* The first of a queue and the rest. *)
LEMMA QueueSplits ==
    ASSUME NEW S, NEW queue \in Seq(S), queue # <<>>
    PROVE  /\ Head(queue) \in S /\ Tail(queue) \in Seq(S)
           /\ DOMAIN queue = 1..Len(queue) /\ Len(queue) \in Nat \ {0}
           /\ DOMAIN Tail(queue) = 1..(Len(queue) - 1) /\ Head(queue) = queue[1]
           /\ \A i \in DOMAIN Tail(queue) : i + 1 \in DOMAIN queue /\ Tail(queue)[i] = queue[i + 1]
           /\ \A k : k \in Members(queue) <=> k = Head(queue) \/ k \in Members(Tail(queue))
<1> DEFINE rest == Tail(queue)
<1>1. /\ Head(queue) \in S /\ rest \in Seq(S) /\ DOMAIN queue = 1..Len(queue)
      /\ Len(queue) \in Nat \ {0} /\ Head(queue) = queue[1]
  OBVIOUS
<1>2. DOMAIN rest = 1..(Len(queue) - 1) /\ \A i \in DOMAIN rest : rest[i] = queue[i + 1]
  OBVIOUS
<1> HIDE DEF rest
<1>3. \A i \in DOMAIN rest : i + 1 \in DOMAIN queue
  BY <1>1, <1>2
<1>4. ASSUME NEW i \in DOMAIN queue PROVE i = 1 \/ (i - 1 \in DOMAIN rest /\ rest[i - 1] = queue[i])
  <2>1. i \in Nat /\ 1 <= i /\ i <= Len(queue)
    BY <1>1
  <2>2. i # 1 => i - 1 \in 1..(Len(queue) - 1) /\ (i - 1) + 1 = i
    BY <2>1, <1>1
  <2> QED BY <2>2, <1>2
<1>5. ASSUME NEW k PROVE k \in Members(queue) <=> k = Head(queue) \/ k \in Members(rest)
  <2>1. ASSUME k \in Members(queue) PROVE k = Head(queue) \/ k \in Members(rest)
    <3>1. PICK i \in DOMAIN queue : queue[i] = k
      BY <2>1 DEF Members
    <3> QED BY <3>1, <1>1, <1>4 DEF Members
  <2>2. ASSUME k \in Members(rest) PROVE k \in Members(queue)
    <3>1. PICK i \in DOMAIN rest : rest[i] = k
      BY <2>2 DEF Members
    <3> QED BY <3>1, <1>2, <1>3 DEF Members
  <2>3. 1 \in DOMAIN queue
    BY <1>1
  <2>4. Head(queue) \in Members(queue)
    BY <2>3, <1>1 DEF Members
  <2> QED BY <2>1, <2>2, <2>4
<1> QED BY <1>1, <1>2, <1>3, <1>5 DEF rest

LEMMA RestOnceEach ==
    ASSUME NEW S, NEW queue \in Seq(S), queue # <<>>, OnceEach(queue)
    PROVE  OnceEach(Tail(queue)) /\ Head(queue) \notin Members(Tail(queue))
<1> DEFINE rest == Tail(queue)
<1>1. /\ DOMAIN queue = 1..Len(queue) /\ Len(queue) \in Nat \ {0}
      /\ DOMAIN rest = 1..(Len(queue) - 1) /\ Head(queue) = queue[1]
      /\ \A i \in DOMAIN rest : i + 1 \in DOMAIN queue /\ rest[i] = queue[i + 1]
  BY QueueSplits
<1> HIDE DEF rest
<1>2. ASSUME NEW i \in DOMAIN rest, NEW k \in DOMAIN rest, rest[i] = rest[k] PROVE i = k
  <2>1. i + 1 = k + 1
    BY <1>1, <1>2 DEF OnceEach
  <2> QED BY <2>1, <1>1
<1>3. ASSUME NEW i \in DOMAIN rest, rest[i] = Head(queue) PROVE FALSE
  <2>1. 1 \in DOMAIN queue /\ i \in Nat /\ i >= 1
    BY <1>1
  <2>2. i + 1 = 1
    BY <1>1, <1>3, <2>1 DEF OnceEach
  <2> QED BY <2>1, <2>2
<1> QED BY <1>2, <1>3 DEF OnceEach, Members, rest

(* A job that is new in the queue keeps it free of repetitions. *)
LEMMA QueueGrows ==
    ASSUME NEW S, NEW queue \in Seq(S), NEW j \in S
    PROVE  /\ Append(queue, j) \in Seq(S) /\ Append(queue, j) # <<>>
           /\ \A k : k \in Members(Append(queue, j)) <=> k \in Members(queue) \/ k = j
           /\ OnceEach(queue) /\ j \notin Members(queue) => OnceEach(Append(queue, j))
<1> DEFINE longer == Append(queue, j)
           n == Len(queue)
<1>1. /\ longer \in Seq(S) /\ longer # <<>> /\ n \in Nat /\ DOMAIN queue = 1..n
      /\ DOMAIN longer = 1..(n + 1) /\ longer[n + 1] = j
      /\ \A i \in 1..n : longer[i] = queue[i]
  OBVIOUS
<1> HIDE DEF longer, n
<1>2. \A i \in DOMAIN longer : i \in DOMAIN queue \/ i = n + 1
  BY <1>1
<1>3. n + 1 \in DOMAIN longer /\ DOMAIN queue \subseteq DOMAIN longer
  BY <1>1
<1>4. \A k : k \in Members(longer) <=> k \in Members(queue) \/ k = j
  BY <1>1, <1>2, <1>3 DEF Members
<1>5. ASSUME OnceEach(queue), j \notin Members(queue),
             NEW i \in DOMAIN longer, NEW k \in DOMAIN longer, longer[i] = longer[k]
      PROVE  i = k
  BY <1>1, <1>2, <1>5 DEF OnceEach, Members
<1> QED BY <1>1, <1>4, <1>5 DEF OnceEach, longer

-----------------------------------------------------------------------------
(* The console's queue. *)

LEMMA WaitingIsMembers == Waiting = Members(pending)
BY DEF Waiting, Members

(* pump takes the first job of a queue and keeps the rest waiting. *)
LEMMA PumpTakes ==
    ASSUME NEW S, NEW queue \in Seq(S), OnceEach(queue), cancel \in BOOLEAN,
           NoJob \notin S, PumpFrom(queue)
    PROVE  /\ pending' \in Seq(S) /\ cancel' \in BOOLEAN
           /\ phase' \in {"idle", "starting"}
           /\ current' \in S \cup {NoJob} /\ (phase' # "idle" <=> current' # NoJob)
           /\ queue # <<>> => phase' = "starting"
           /\ phase' = "idle" => pending' = <<>>
           /\ OnceEach(pending') /\ current' \notin Members(pending')
           /\ Members(pending') \subseteq Members(queue)
           /\ phase' # "idle" => current' \in Members(queue)
           /\ \A k : k \in Members(queue) <=> (phase' # "idle" /\ current' = k) \/ k \in Members(pending')
<1>1. CASE queue = <<>>
  <2>1. /\ current' = NoJob /\ phase' = "idle" /\ pending' = <<>> /\ cancel' = cancel
    BY <1>1 DEF PumpFrom
  <2>2. DOMAIN pending' = {} /\ DOMAIN queue = {}
    BY <2>1, <1>1
  <2> QED BY <2>1, <2>2, <1>1 DEF Members, OnceEach
<1>2. CASE queue # <<>>
  <2>1. /\ current' = Head(queue) /\ phase' = "starting" /\ pending' = Tail(queue) /\ cancel' = FALSE
    BY <1>2 DEF PumpFrom
  <2>2. /\ Head(queue) \in S /\ Tail(queue) \in Seq(S)
        /\ \A k : k \in Members(queue) <=> k = Head(queue) \/ k \in Members(Tail(queue))
    BY <1>2, QueueSplits
  <2>3. OnceEach(Tail(queue)) /\ Head(queue) \notin Members(Tail(queue))
    BY <1>2, RestOnceEach
  <2>4. Members(pending') \subseteq Members(queue) /\ current' \in Members(queue)
    BY <2>1, <2>2
  <2> QED BY <2>1, <2>2, <2>3, <2>4
<1> QED BY <1>1, <1>2

(* cancelJob takes one job out of the queue. *)
LEMMA DropTakesOne ==
    ASSUME NEW S, pending \in Seq(S), OnceEach(pending), NEW j, DropWaiting(j)
    PROVE  /\ pending' \in Seq(S) /\ OnceEach(pending') /\ pending # <<>>
           /\ j \in Members(pending)
           /\ \A k : k \in Members(pending') <=> k \in Members(pending) /\ k # j
<1> DEFINE n == Len(pending)
<1>1. n \in Nat /\ DOMAIN pending = 1..n /\ \A i \in 1..n : pending[i] \in S
  OBVIOUS
<1>2. PICK at \in DOMAIN pending :
         /\ pending[at] = j
         /\ pending' = [k \in 1..(n - 1) |-> IF k < at THEN pending[k] ELSE pending[k + 1]]
  BY DEF DropWaiting
<1> HIDE DEF n
<1>3. at \in Nat /\ 1 <= at /\ at <= n
  BY <1>1, <1>2
<1>4. n - 1 \in Nat /\ DOMAIN pending' = 1..(n - 1)
  BY <1>1, <1>2, <1>3
<1>5. ASSUME NEW i \in DOMAIN pending'
      PROVE  /\ i < at => i \in DOMAIN pending /\ pending'[i] = pending[i] /\ i # at
             /\ ~(i < at) => i + 1 \in DOMAIN pending /\ pending'[i] = pending[i + 1] /\ i + 1 # at
  <2>1. i \in Nat /\ 1 <= i /\ i <= n - 1
    BY <1>4
  <2>2. i \in 1..n /\ i + 1 \in 1..n
    BY <2>1, <1>1
  <2>3. pending'[i] = IF i < at THEN pending[i] ELSE pending[i + 1]
    BY <1>2, <1>4
  <2> QED BY <2>1, <2>2, <2>3, <1>1, <1>3
<1>6. \A i \in 1..(n - 1) : pending'[i] \in S
  BY <1>1, <1>4, <1>5
<1>7. pending' \in Seq(S)
  <2>1. pending' = [k \in 1..(n - 1) |-> pending'[k]]
    BY <1>2
  <2> DEFINE q == pending'
  <2>2. q = [k \in 1..(n - 1) |-> q[k]] /\ \A i \in 1..(n - 1) : q[i] \in S
    BY <2>1, <1>6
  <2> HIDE DEF q
  <2>3. q \in [1..(n - 1) -> S]
    BY <2>2
  <2>4. q \in Seq(S)
    BY <2>3, <1>4
  <2> QED BY <2>4 DEF q
<1>8. ASSUME NEW i \in DOMAIN pending', NEW k \in DOMAIN pending', pending'[i] = pending'[k]
      PROVE  i = k
  <2> DEFINE was(x) == IF x < at THEN x ELSE x + 1
  <2>1. i \in Nat /\ k \in Nat
    BY <1>4
  <2>2. \A x \in {i, k} : was(x) \in DOMAIN pending /\ pending[was(x)] = pending'[x]
    BY <1>5
  <2>3. was(i) = was(k)
    BY <2>2, <1>8 DEF OnceEach
  <2> QED BY <2>1, <2>3, <1>3
<1>9. ASSUME NEW x \in DOMAIN pending, x # at PROVE \E i \in DOMAIN pending' : pending'[i] = pending[x]
  <2>1. x \in Nat /\ 1 <= x /\ x <= n
    BY <1>1
  <2>2. CASE x < at
    <3>1. x \in 1..(n - 1)
      BY <2>1, <2>2, <1>1, <1>3
    <3> QED BY <3>1, <2>2, <1>4, <1>5
  <2>3. CASE ~(x < at)
    <3>1. x - 1 \in 1..(n - 1) /\ ~(x - 1 < at) /\ (x - 1) + 1 = x
      BY <2>1, <2>3, <1>1, <1>3, <1>9
    <3> QED BY <3>1, <1>4, <1>5
  <2> QED BY <2>2, <2>3
<1>10. ASSUME NEW k PROVE k \in Members(pending') <=> k \in Members(pending) /\ k # j
  <2>1. ASSUME k \in Members(pending') PROVE k \in Members(pending) /\ k # j
    <3>1. PICK i \in DOMAIN pending' : pending'[i] = k
      BY <2>1 DEF Members
    <3>2. PICK x \in DOMAIN pending : pending[x] = k /\ x # at
      BY <3>1, <1>5
    <3> QED BY <3>2, <1>2 DEF OnceEach, Members
  <2>2. ASSUME k \in Members(pending), k # j PROVE k \in Members(pending')
    <3>1. PICK x \in DOMAIN pending : pending[x] = k
      BY <2>2 DEF Members
    <3>2. x # at
      BY <3>1, <2>2, <1>2
    <3> QED BY <3>1, <3>2, <1>9 DEF Members
  <2> QED BY <2>1, <2>2
<1>11. j \in Members(pending) /\ pending # <<>>
  BY <1>1, <1>2, <1>3 DEF Members
<1> QED BY <1>7, <1>8, <1>10, <1>11 DEF OnceEach

-----------------------------------------------------------------------------
(* Faults and resumes are counted, never taken back. *)

SpentMore ==
    /\ spent' \in [DOMAIN Budget -> Nat]
    /\ spent'.loss = 0 => spent.loss = 0
    /\ spent'.crash = 0 => spent.crash = 0
    /\ spent'.revoke = 0 => spent.revoke = 0
    /\ spent'.resume = 0 => spent.resume = 0

LEMMA SpendingGrows ==
    ASSUME SystemShapes
    PROVE  /\ spent' = spent => SpentMore
           /\ \A kind \in DOMAIN Budget : Spend(kind) => SpentMore /\ spent'[kind] # 0
<1> USE DEF Budget
<1>1. spent \in [DOMAIN Budget -> Nat]
  BY DEF SystemShapes
<1>2. /\ spent.loss = spent["loss"] /\ spent.crash = spent["crash"]
      /\ spent.revoke = spent["revoke"] /\ spent.resume = spent["resume"]
  OBVIOUS
<1>3. ASSUME NEW kind \in DOMAIN Budget, Spend(kind) PROVE SpentMore /\ spent'[kind] # 0
  <2>1. spent' = [spent EXCEPT ![kind] = @ + 1]
    BY <1>3 DEF Spend
  <2>2. /\ spent' \in [DOMAIN Budget -> Nat]
        /\ \A k \in DOMAIN Budget : spent'[k] = IF k = kind THEN spent[k] + 1 ELSE spent[k]
    BY <1>1, <2>1
  <2>3. \A k \in DOMAIN Budget : spent[k] \in Nat
    BY <1>1
  <2>4. \A k \in DOMAIN Budget : spent'[k] = 0 => spent[k] = 0
    BY <2>2, <2>3
  <2>5. spent'[kind] # 0
    BY <2>2, <2>3
  <2> QED BY <2>2, <2>4, <2>5 DEF SpentMore
<1> QED BY <1>1, <1>3 DEF SpentMore

LEMMA CalmBefore == SpentMore => (Calm' => Calm) /\ (Unbroken' => Unbroken)
BY DEF SpentMore, Calm, Unbroken

-----------------------------------------------------------------------------
(* The two kinds of steps.  In the first the server's table moves and the
   console's jobs stay; only jobs the console is at work on are reported
   running, and a claim the console does not know of is a loss. *)

TableFacts ==
    /\ Ids \subseteq Ids'
    /\ \A j \in Ids' \ Ids : jobs'[j].status = "queued"
    /\ \A j \in Ids :
         \/ jobs'[j].status = jobs[j].status
         \/ jobs[j].status \in OnConsole /\ jobs'[j].status = "interrupted"
         \/ jobs'[j].status = "cancelled"
         \/ jobs'[j].status = "queued" /\ spent'.resume # 0
         \/ /\ jobs[j].status \in Reportable /\ jobs'[j].status = "running"
            /\ Authorised' /\ Live(j)
         \/ /\ jobs[j].status \in {"queued", "interrupted"} /\ jobs'[j].status = "claimed"
            /\ Authorised' /\ spent'.loss # 0
    /\ ~Authorised' =>
         ~Authorised \/ (spent'.revoke # 0 /\ \A j \in Ids' : jobs'[j].status \notin OnConsole)

LEMMA TableStepKeeps ==
    ASSUME SystemInv, SpentMore, TableFacts,
           UNCHANGED <<current, phase, pending, unsent, installed>>
    PROVE  HoldsEachJobOnce' /\ TakenInv' /\ DoneInv' /\ KeptInv'
<1>1. \A j : /\ Holds(j)' <=> Holds(j)
             /\ Live(j)' <=> Live(j)
             /\ Owes(j)' <=> Owes(j)
  BY DEF Live, Holds, Owes, Waiting, Installing
<1>2. (Calm' => Calm) /\ (Unbroken' => Unbroken)
  BY CalmBefore
<1>3. \A j : Holds(j) \/ j \in installed => j \in Ids
  BY DEF SystemInv, SystemShapes, SystemPhases, Holds
<1>4. HoldsEachJobOnce'
  BY DEF SystemInv, HoldsEachJobOnce, Waiting
<1>5. ASSUME ~Authorised', NEW j \in Ids' PROVE jobs'[j].status \notin OnConsole
  <2>1. CASE ~Authorised
    <3>1. \A k \in Ids : jobs[k].status \notin OnConsole
      BY <2>1 DEF SystemInv, TakenInv
    <3>2. CASE j \in Ids
      BY <1>5, <3>1, <3>2 DEF TableFacts, OnConsole
    <3>3. CASE j \notin Ids
      BY <1>5, <3>3 DEF TableFacts, OnConsole
    <3> QED BY <3>2, <3>3
  <2> QED BY <1>5, <2>1 DEF TableFacts
<1>6. ASSUME Calm' PROVE unsent' = <<>> /\ \A j \in Ids' : jobs'[j].status \in OnConsole => Live(j)'
  <2>1. Calm /\ unsent = <<>> /\ \A j \in Ids : jobs[j].status \in OnConsole => Live(j)
    BY <1>2, <1>6 DEF SystemInv, TakenInv
  <2>2. spent'.loss = 0
    BY <1>6 DEF Calm
  <2>3. ASSUME NEW j \in Ids', jobs'[j].status \in OnConsole PROVE Live(j)
    <3>1. j \in Ids
      BY <2>3 DEF TableFacts, OnConsole
    <3> QED BY <3>1, <2>1, <2>2, <2>3 DEF TableFacts, OnConsole
  <2> QED BY <2>1, <2>3, <1>1
<1>7. TakenInv'
  BY <1>5, <1>6 DEF TakenInv
<1>8. DoneInv'
  <2>1. ASSUME NEW j \in Ids', jobs'[j].status = "done" PROVE j \in installed'
    <3>1. j \in Ids /\ jobs[j].status = "done"
      BY <2>1 DEF TableFacts, OnConsole
    <3> QED BY <3>1 DEF SystemInv, DoneInv
  <2>2. /\ phase' \in {"ok", "success"} => current' \in installed'
        /\ \A i \in DOMAIN unsent' : unsent'[i].ok => unsent'[i].job \in installed'
    BY DEF SystemInv, DoneInv
  <2> QED BY <2>1, <2>2 DEF DoneInv
<1>9. spent'.revoke = 0 => Authorised'
  BY DEF SystemInv, KeptInv, TableFacts, SpentMore
<1>10. ASSUME spent'.resume = 0, NEW j \in Ids', Holds(j)' \/ j \in installed'
       PROVE  jobs'[j].status # "queued"
  <2>1. j \in Ids /\ (Holds(j) \/ j \in installed) /\ spent.resume = 0
    BY <1>1, <1>3, <1>10 DEF SpentMore
  <2>2. jobs[j].status # "queued"
    BY <2>1 DEF SystemInv, KeptInv
  <2> QED BY <2>1, <2>2, <1>10 DEF TableFacts
<1>11. ASSUME Unbroken', NEW j \in installed', jobs'[j].status \in Reportable
       PROVE  Owes(j)' \/ Live(j)'
  <2>1. Unbroken /\ j \in installed /\ j \in Ids /\ spent'.resume = 0 /\ spent.resume = 0
    BY <1>2, <1>3, <1>11 DEF Unbroken
  <2>2. jobs[j].status # "queued"
    BY <2>1 DEF SystemInv, KeptInv
  <2>3. jobs[j].status \in Reportable
    BY <2>1, <2>2, <1>11 DEF TableFacts, Reportable, OnConsole
  <2> QED BY <2>1, <2>3, <1>1 DEF SystemInv, KeptInv
<1> QED BY <1>4, <1>7, <1>8, <1>9, <1>10, <1>11 DEF KeptInv

(* In the second the console moves; the only thing it does to the table is
   to tell the outcome of a job. *)
ConsoleFacts ==
    /\ Ids' = Ids /\ revoked' = revoked
    /\ installed \subseteq installed'
    /\ \A j \in Ids :
         /\ \/ jobs'[j].status = jobs[j].status
            \/ jobs[j].status \in Reportable /\ jobs'[j].status = "failed"
            \/ jobs[j].status \in Reportable /\ jobs'[j].status = "done" /\ j \in installed'
         /\ Holds(j)' => Holds(j)
         /\ j \in installed' => j \in installed \/ (Holds(j) /\ Live(j)')
         /\ Calm' /\ jobs'[j].status \in OnConsole /\ Live(j) => Live(j)'
         /\ Unbroken' /\ jobs'[j].status \in Reportable /\ (Owes(j) \/ Live(j)) =>
              Owes(j)' \/ Live(j)'
    /\ Calm' => unsent' = <<>>
    /\ phase' \in {"ok", "success"} => current' \in installed'
    /\ \A i \in DOMAIN unsent' : unsent'[i].ok => unsent'[i].job \in installed'

LEMMA ConsoleStepKeeps ==
    ASSUME SystemInv, SpentMore, ConsoleFacts, installed' \subseteq Ids
    PROVE  TakenInv' /\ DoneInv' /\ KeptInv'
<1>1. (Calm' => Calm) /\ (Unbroken' => Unbroken)
  BY CalmBefore
<1>2. Authorised' <=> Authorised
  BY DEF ConsoleFacts, Authorised
<1>3. TakenInv'
  <2>1. ASSUME ~Authorised', NEW j \in Ids' PROVE jobs'[j].status \notin OnConsole
    <3>1. j \in Ids /\ jobs[j].status \notin OnConsole
      BY <1>2, <2>1 DEF SystemInv, TakenInv, ConsoleFacts
    <3> QED BY <3>1 DEF ConsoleFacts, OnConsole
  <2>2. ASSUME Calm', NEW j \in Ids', jobs'[j].status \in OnConsole PROVE Live(j)'
    <3>1. j \in Ids /\ jobs[j].status \in OnConsole
      BY <2>2 DEF ConsoleFacts, OnConsole
    <3>2. Live(j)
      BY <3>1, <2>2, <1>1 DEF SystemInv, TakenInv
    <3> QED BY <3>1, <3>2, <2>2 DEF ConsoleFacts
  <2> QED BY <2>1, <2>2 DEF TakenInv, ConsoleFacts
<1>4. DoneInv'
  <2>1. ASSUME NEW j \in Ids', jobs'[j].status = "done" PROVE j \in installed'
    <3>1. j \in Ids
      BY DEF ConsoleFacts
    <3>2. jobs[j].status = "done" => j \in installed
      BY <3>1 DEF SystemInv, DoneInv
    <3> QED BY <3>1, <3>2, <2>1 DEF ConsoleFacts
  <2> QED BY <2>1 DEF DoneInv, ConsoleFacts
<1>5. KeptInv'
  <2>1. spent'.revoke = 0 => Authorised'
    BY <1>2 DEF SystemInv, KeptInv, SpentMore
  <2>2. ASSUME spent'.resume = 0, NEW j \in Ids', Holds(j)' \/ j \in installed'
        PROVE  jobs'[j].status # "queued"
    <3>1. j \in Ids /\ spent.resume = 0
      BY <2>2 DEF ConsoleFacts, SpentMore
    <3>2. Holds(j) \/ j \in installed
      BY <3>1, <2>2 DEF ConsoleFacts
    <3>3. jobs[j].status # "queued"
      BY <3>1, <3>2 DEF SystemInv, KeptInv
    <3> QED BY <3>1, <3>3 DEF ConsoleFacts
  <2>3. ASSUME Unbroken', NEW j \in installed', jobs'[j].status \in Reportable
        PROVE  Owes(j)' \/ Live(j)'
    <3>1. j \in Ids
      OBVIOUS
    <3>2. CASE j \in installed
      <4>1. jobs[j].status \in Reportable
        BY <3>1, <2>3 DEF ConsoleFacts, Reportable
      <4>2. Owes(j) \/ Live(j)
        BY <3>2, <4>1, <2>3, <1>1 DEF SystemInv, KeptInv
      <4> QED BY <3>1, <4>2, <2>3 DEF ConsoleFacts
    <3>3. CASE j \notin installed
      BY <3>1, <3>3 DEF ConsoleFacts
    <3> QED BY <3>2, <3>3
  <2> QED BY <2>1, <2>2, <2>3 DEF KeptInv
<1> QED BY <1>3, <1>4, <1>5

-----------------------------------------------------------------------------
(* What each method does to the table. *)

TableShapes == /\ TableOK /\ log.head <= MaxHead
               /\ \A j \in Ids : jobs[j].dev = Console

(* Rows S go to status s, whatever else. *)
StatusMoves(S, s) ==
    /\ Ids' = Ids
    /\ \A j \in Ids : jobs'[j].status = IF j \in S THEN s ELSE jobs[j].status

LEMMA StatusNames ==
    /\ \A s \in OnConsole \cup Reportable \cup Finished \cup Active : s \in Statuses
    /\ "interrupted" \in Statuses /\ "claimed" \in Statuses /\ "running" \in Statuses
    /\ "done" \in Statuses /\ "failed" \in Statuses /\ "cancelled" \in Statuses
BY DEF Statuses, OnConsole, Reportable, Finished, Active

LEMMA MovedShapes ==
    ASSUME TableShapes, NEW S, NEW s \in Statuses, jobs' = Moved(S, s)
    PROVE  StatusMoves(S, s) /\ \A j \in Ids' : jobs'[j].dev = Console
BY MovedOK DEF TableShapes, StatusMoves

LEMMA ClaimMoves ==
    ASSUME TableShapes, NEW j, ClaimJob(Console, j)
    PROVE  /\ TableShapes' /\ j \in Ids /\ revoked' = revoked
           /\ jobs[j].status \in {"queued", "interrupted"} /\ StatusMoves({j}, "claimed")
<1>1. /\ j \in JobsOf(Console) /\ j \in Ids /\ jobs[j].status \in {"queued", "interrupted"}
      /\ jobs' = Moved({j}, "claimed") /\ log' = log /\ revoked' = revoked
  BY DEF ClaimJob, JobsOf, HasStatus
<1>2. TableOK'
  BY <1>1, ReportsKeepTable, ConsoleAssumption DEF TableShapes
<1> QED BY <1>1, <1>2, MovedShapes, StatusNames DEF TableShapes

LEMMA ProgressMoves ==
    ASSUME TableShapes, NEW j, Progress(Console, j)
    PROVE  /\ TableShapes' /\ j \in Ids /\ revoked' = revoked
           /\ jobs[j].status \in Reportable
           /\ StatusMoves({j}, "running") \/ StatusMoves({}, "running")
<1>1. /\ j \in JobsOf(Console) /\ j \in Ids /\ jobs[j].status \in Reportable
      /\ jobs' = Moved({j}, "running") \/ jobs' = jobs
      /\ log' = log /\ revoked' = revoked
  BY DEF Progress, JobsOf, HasStatus
<1>2. TableOK'
  BY <1>1, ReportsKeepTable, ConsoleAssumption DEF TableShapes
<1>3. CASE jobs' = Moved({j}, "running")
  BY <1>1, <1>2, <1>3, MovedShapes, StatusNames DEF TableShapes
<1>4. CASE jobs' = jobs
  BY <1>1, <1>2, <1>4 DEF TableShapes, StatusMoves
<1> QED BY <1>1, <1>3, <1>4

LEMMA CompleteMoves ==
    ASSUME TableShapes, NEW j, NEW ok \in BOOLEAN, Complete(Console, j, ok)
    PROVE  /\ TableShapes' /\ j \in Ids /\ revoked' = revoked
           /\ jobs[j].status \in Reportable
           /\ StatusMoves({j}, IF ok THEN "done" ELSE "failed")
<1>1. /\ j \in JobsOf(Console) /\ j \in Ids /\ jobs[j].status \in Reportable
      /\ jobs' = Moved({j}, IF ok THEN "done" ELSE "failed")
      /\ log' = log /\ revoked' = revoked
  BY DEF Complete, JobsOf, HasStatus
<1>2. TableOK'
  BY <1>1, ReportsKeepTable, ConsoleAssumption DEF TableShapes
<1>3. (IF ok THEN "done" ELSE "failed") \in Statuses
  BY StatusNames
<1>4. StatusMoves({j}, IF ok THEN "done" ELSE "failed") /\ \A k \in Ids' : jobs'[k].dev = Console
  BY <1>1, <1>3, MovedShapes
<1> QED BY <1>1, <1>2, <1>4 DEF TableShapes

LEMMA SweepMoves ==
    ASSUME TableShapes, NEW S, NEW t, InterruptStaleJobs(S, t)
    PROVE  /\ TableShapes' /\ revoked' = revoked
           /\ StatusMoves(StaleJobs(S, t), "interrupted")
           /\ \A j \in StaleJobs(S, t) : jobs[j].status \in OnConsole
<1>1. jobs' = Moved(StaleJobs(S, t), "interrupted") /\ log' = log /\ revoked' = revoked
  BY DEF InterruptStaleJobs
<1>2. TableOK'
  BY InterruptsKeepTable DEF TableShapes
<1>3. \A j \in StaleJobs(S, t) : jobs[j].status \in OnConsole
  BY DEF StaleJobs, HasStatus
<1> QED BY <1>1, <1>2, <1>3, MovedShapes, StatusNames DEF TableShapes

(* One event about the job j, within the bound on the log. *)
LEMMA AnnouncedHead ==
    ASSUME TableOK, NEW batch \in Seq(Entries), Announce(batch)
    PROVE  log'.head <= MaxHead
<1>1. log' = Appended(log, batch) /\ log.head + Len(batch) <= MaxHead
  BY DEF Announce
<1> QED BY <1>1 DEF Appended

LEMMA CancelMoves ==
    ASSUME TableShapes, NEW j \in Ids, CancelJob(j)
    PROVE  /\ TableShapes' /\ revoked' = revoked
           /\ StatusMoves({j}, "cancelled")
<1>1. jobs' = Moved({j}, "cancelled") /\ revoked' = revoked
      /\ Announce(<<Cancelled(jobs[j].dev, j)>>)
  BY DEF CancelJob
<1>2. TableOK' /\ TableOK
  BY CancelKeepsTable DEF TableShapes
<1>3. log'.head <= MaxHead
  BY <1>1, <1>2, JobEvents, AnnouncedHead
<1> QED BY <1>1, <1>2, <1>3, MovedShapes, StatusNames DEF TableShapes

LEMMA ResumeMoves ==
    ASSUME TableShapes, NEW j \in Ids, ResumeJob(j)
    PROVE  /\ TableShapes' /\ revoked' = revoked
           /\ StatusMoves({j}, "queued")
<1>1. /\ Announce(<<Queued(jobs[j].dev, j)>>) /\ revoked' = revoked
  BY DEF ResumeJob
<1>2. TableOK' /\ TableOK
  BY ResumeKeepsTable DEF TableShapes
<1>3. log'.head <= MaxHead
  BY <1>1, <1>2, JobEvents, AnnouncedHead
<1>4. PICK p \in 1..MaxPosition :
         jobs' = [jobs EXCEPT ![j].status = "queued", ![j].age = 0, ![j].position = p]
  BY Zenon DEF ResumeJob
<1>5. \A k \in Ids : jobs[k] \in Rows
  BY <1>2 DEF TableOK
<1>6. jobs'[j] = [jobs[j] EXCEPT !.status = "queued", !.age = 0, !.position = p]
  BY <1>4
<1>7. jobs'[j].status = "queued" /\ jobs'[j].dev = jobs[j].dev
  BY <1>5, <1>6 DEF Rows
<1>8. Ids' = Ids /\ \A k \in Ids : k # j => jobs'[k] = jobs[k]
  BY <1>4
<1>9. StatusMoves({j}, "queued")
  BY <1>7, <1>8 DEF StatusMoves
<1>10. \A k \in Ids' : jobs'[k].dev = Console
  BY <1>7, <1>8 DEF TableShapes
<1> QED BY <1>1, <1>2, <1>3, <1>9, <1>10 DEF TableShapes

LEMMA InsertMoves ==
    ASSUME TableShapes, NEW n \in Nat, InsertJobs(Console, n)
    PROVE  /\ TableShapes' /\ revoked' = revoked
           /\ Ids \subseteq Ids' /\ \A j \in Ids' \ Ids : jobs'[j].status = "queued"
           /\ \A j \in Ids : jobs'[j].status = jobs[j].status
           /\ nextId \in Jobs \/ n = 0
<1> DEFINE new == nextId..(nextId + n - 1)
           batch == [i \in 1..n |-> Queued(Console, nextId + i - 1)]
<1>1. TableOK' /\ TableOK
  BY InsertKeepsTable, ConsoleAssumption DEF TableShapes
<1>2. nextId \in Nat /\ nextId >= 1 /\ nextId + n - 1 <= MaxJobs /\ MaxJobs \in Nat
  BY <1>1, TableBoundsAssumption DEF TableOK, InsertJobs
<1>3. PICK p \in 1..MaxPosition :
         jobs' = [j \in Ids \cup new |->
                    IF j \in new
                    THEN [dev |-> Console, status |-> "queued",
                          position |-> p + (j - nextId), age |-> 0]
                    ELSE jobs[j]]
  BY DEF InsertJobs
<1>4. \A j \in Ids : j \notin new
  <2>1. Ids \subseteq 1..(nextId - 1)
    BY <1>1 DEF TableOK
  <2> QED BY <2>1, <1>2
<1> HIDE DEF new
<1>5. /\ Ids' = Ids \cup new
      /\ \A j \in new : jobs'[j].status = "queued" /\ jobs'[j].dev = Console
      /\ \A j \in Ids : jobs'[j] = jobs[j]
  BY <1>3, <1>4
<1>6. batch \in Seq(Entries)
  <2>1. \A i \in 1..n : Queued(Console, nextId + i - 1) \in Entries
    <3> SUFFICES ASSUME NEW i \in 1..n PROVE Queued(Console, nextId + i - 1) \in Entries
      OBVIOUS
    <3>1. nextId + i - 1 \in 1..MaxJobs
      BY <1>2
    <3> QED BY <3>1, ConsoleAssumption DEF Queued, Entries
  <2> QED BY <2>1
<1>7. Announce(batch) /\ revoked' = revoked
  BY DEF InsertJobs
<1> HIDE DEF batch
<1>8. log'.head <= MaxHead
  BY <1>1, <1>6, <1>7, AnnouncedHead
<1>9. nextId \in Jobs \/ n = 0
  BY <1>2 DEF Jobs
<1>10. \A j \in Ids' : jobs'[j].dev = Console
  BY <1>5 DEF TableShapes
<1> QED BY <1>1, <1>5, <1>7, <1>8, <1>9, <1>10 DEF TableShapes

LEMMA RevokeMoves ==
    ASSUME TableShapes, RevokeDevice(Console)
    PROVE  /\ TableShapes' /\ revoked' = revoked \cup {Console}
           /\ StatusMoves({j \in Ids : jobs[j].status \in OnConsole}, "interrupted")
<1>1. /\ jobs' = Moved({j \in JobsOf(Console) : HasStatus(j, OnConsole)}, "interrupted")
      /\ log' = log /\ revoked' = revoked \cup {Console}
  BY DEF RevokeDevice
<1>2. TableOK'
  BY InterruptsKeepTable, ConsoleAssumption DEF TableShapes
<1>3. {j \in JobsOf(Console) : HasStatus(j, OnConsole)} = {j \in Ids : jobs[j].status \in OnConsole}
  BY DEF TableShapes, JobsOf, HasStatus
<1> QED BY <1>1, <1>2, <1>3, MovedShapes, StatusNames DEF TableShapes

LEMMA QuietMoves ==
    ASSUME TableShapes
    PROVE  /\ Pair(Console) => TableShapes' /\ jobs' = jobs /\ revoked' \subseteq revoked
           /\ Restart => TableShapes' /\ jobs' = jobs /\ revoked' = revoked
           /\ Tick => /\ TableShapes' /\ revoked' = revoked /\ StatusMoves({}, "queued")
<1>1. ASSUME Pair(Console) PROVE TableShapes' /\ jobs' = jobs /\ revoked' \subseteq revoked
  BY <1>1, OthersKeepTable DEF Pair, TableShapes
<1>2. ASSUME Restart PROVE TableShapes' /\ jobs' = jobs /\ revoked' = revoked
  <2>1. log'.head = 0 /\ jobs' = jobs /\ revoked' = revoked
    BY <1>2 DEF Restart, EmptyLog
  <2> QED BY <1>2, <2>1, OthersKeepTable, TableBoundsAssumption DEF TableShapes
<1>3. ASSUME Tick PROVE TableShapes' /\ revoked' = revoked /\ StatusMoves({}, "queued")
  <2>1. \A j \in Ids : jobs[j] \in Rows
    BY DEF TableShapes, TableOK
  <2>2. \A j \in Ids : jobs'[j].dev = jobs[j].dev /\ jobs'[j].status = jobs[j].status
    BY <1>3, <2>1 DEF Tick, Rows
  <2>3. Ids' = Ids /\ log' = log /\ revoked' = revoked
    BY <1>3 DEF Tick
  <2> QED BY <1>3, <2>2, <2>3, TickKeepsTable DEF TableShapes, StatusMoves
<1> QED BY <1>1, <1>2, <1>3

-----------------------------------------------------------------------------
(* What the steps have in common. *)

SameWork == UNCHANGED <<current, phase, pending, unsent, installed>>

(* Session's members but its jobs. *)
SessionShapes ==
    /\ up \in BOOLEAN /\ cancel \in BOOLEAN
    /\ cursor \in Nat \cup {NoCursor}
    /\ page \in Seq(Entries) /\ step \in Steps
    /\ shown \subseteq Jobs

LEMMA InvShapes ==
    ASSUME SystemInv
    PROVE  /\ TableShapes /\ SessionShapes /\ SystemShapes /\ SystemPhases
           /\ current \in Ids \cup {NoJob} /\ phase \in Phases
           /\ pending \in Seq(Jobs) /\ Members(pending) \subseteq Ids
           /\ OnceEach(pending) /\ current \notin Members(pending)
           /\ Ids \subseteq Jobs /\ NoJob \notin Jobs /\ \A j \in Ids : j \in JobsOf(Console)
           /\ \A j : Holds(j) => j \in Ids
           /\ spent.revoke = 0 => Authorised
<1>1. /\ TableShapes /\ SessionShapes /\ SystemShapes /\ SystemPhases
      /\ current \in Ids \cup {NoJob} /\ phase \in Phases
      /\ pending \in Seq(Jobs) /\ Members(pending) \subseteq Ids
      /\ OnceEach(pending) /\ current \notin Members(pending)
      /\ \A j \in Ids : j \in JobsOf(Console)
      /\ \A j : Holds(j) => j \in Ids
      /\ spent.revoke = 0 => Authorised
  BY WaitingIsMembers
     DEF SystemInv, SystemShapes, SystemPhases, TableShapes, SessionShapes, HoldsEachJobOnce,
         OnceEach, JobsOf, Holds, Installing, KeptInv
<1>2. Ids \subseteq Jobs
  BY <1>1, IdsAreJobs DEF TableShapes, Jobs
<1>3. NoJob \notin Jobs
  BY DEF NoJob, Jobs
<1> QED BY <1>1, <1>2, <1>3

LEMMA ShapesAgain ==
    ASSUME SystemInv, SpentMore, TableShapes', SessionShapes', Ids \subseteq Ids', SameWork
    PROVE  SystemShapes'
BY DEF SystemInv, SystemShapes, SpentMore, TableShapes, SessionShapes, SameWork, Waiting

(* A step of the server. *)
LEMMA ServerStepKeeps ==
    ASSUME SystemInv, SpentMore, TableFacts, TableShapes', UNCHANGED consoleVars
    PROVE  SystemInv'
<1>1. /\ SameWork /\ UNCHANGED <<up, cancel, cursor, page, step, shown>>
  BY DEF consoleVars, sessionVars, installVars, inboxVars, SameWork
<1>2. SessionShapes'
  BY <1>1, InvShapes DEF SessionShapes
<1>3. SystemShapes'
  BY <1>1, <1>2, ShapesAgain DEF TableFacts
<1>4. SystemPhases'
  BY <1>1 DEF SystemInv, SystemPhases, Installing, SameWork
<1>5. HoldsEachJobOnce' /\ TakenInv' /\ DoneInv' /\ KeptInv'
  BY <1>1, TableStepKeeps DEF SameWork
<1> QED BY <1>3, <1>4, <1>5 DEF SystemInv

(* Statuses that move as TableFacts allows. *)
LEMMA MovesAreFacts ==
    ASSUME revoked' \subseteq revoked \/ revoked' = revoked, NEW S, NEW s, StatusMoves(S, s),
           \A j \in S \cap Ids :
              \/ jobs[j].status = s
              \/ jobs[j].status \in OnConsole /\ s = "interrupted"
              \/ s = "cancelled"
              \/ s = "queued" /\ spent'.resume # 0
              \/ jobs[j].status \in Reportable /\ s = "running" /\ Authorised' /\ Live(j)
              \/ /\ jobs[j].status \in {"queued", "interrupted"} /\ s = "claimed"
                 /\ Authorised' /\ spent'.loss # 0
    PROVE  TableFacts
<1>1. ~Authorised' => ~Authorised
  BY DEF Authorised
<1>2. Ids' = Ids
  BY DEF StatusMoves
<1>3. ASSUME NEW j \in Ids
      PROVE  \/ jobs'[j].status = jobs[j].status
             \/ jobs[j].status \in OnConsole /\ jobs'[j].status = "interrupted"
             \/ jobs'[j].status = "cancelled"
             \/ jobs'[j].status = "queued" /\ spent'.resume # 0
             \/ /\ jobs[j].status \in Reportable /\ jobs'[j].status = "running"
                /\ Authorised' /\ Live(j)
             \/ /\ jobs[j].status \in {"queued", "interrupted"} /\ jobs'[j].status = "claimed"
                /\ Authorised' /\ spent'.loss # 0
  <2>1. CASE j \in S
    <3>1. jobs'[j].status = s
      BY <2>1 DEF StatusMoves
    <3> QED BY <2>1, <3>1
  <2>2. CASE j \notin S
    BY <2>2 DEF StatusMoves
  <2> QED BY <2>1, <2>2
<1> QED BY <1>1, <1>2, <1>3 DEF TableFacts

LEMMA SameTableFacts ==
    ASSUME jobs' = jobs, revoked' \subseteq revoked \/ revoked' = revoked
    PROVE  TableFacts
BY DEF TableFacts, Authorised

-----------------------------------------------------------------------------
(* The server's steps. *)

LEMMA WebRequestKeeps == ASSUME SystemInv, WebRequest PROVE SystemInv'
<1>0. TableShapes /\ SystemShapes
  BY InvShapes
<1>1. UNCHANGED consoleVars
  BY DEF WebRequest
<1>2. ASSUME NEW n \in 1..MaxBatch, CreateJobs(Console, n), spent' = spent PROVE SystemInv'
  <2>1. n \in Nat /\ InsertJobs(Console, n)
    BY <1>2 DEF CreateJobs
  <2>2. TableShapes' /\ revoked' = revoked /\ TableFacts
    BY <1>0, <2>1, InsertMoves DEF TableFacts, Authorised
  <2> QED BY <1>0, <1>1, <1>2, <2>2, SpendingGrows, ServerStepKeeps
<1>3. ASSUME NEW j \in Ids, CancelJob(j), spent' = spent PROVE SystemInv'
  <2>1. TableShapes' /\ revoked' = revoked /\ StatusMoves({j}, "cancelled")
    BY <1>0, <1>3, CancelMoves
  <2>2. TableFacts
    BY <2>1, MovesAreFacts
  <2> QED BY <1>0, <1>1, <1>3, <2>1, <2>2, SpendingGrows, ServerStepKeeps
<1>4. ASSUME Pair(Console), spent' = spent PROVE SystemInv'
  <2>1. TableShapes' /\ TableFacts
    BY <1>0, <1>4, QuietMoves, SameTableFacts
  <2> QED BY <1>0, <1>1, <1>4, <2>1, SpendingGrows, ServerStepKeeps
<1>5. ASSUME NEW j \in Ids, ResumeJob(j), Spend("resume") PROVE SystemInv'
  <2>1. TableShapes' /\ revoked' = revoked /\ StatusMoves({j}, "queued")
    BY <1>0, <1>5, ResumeMoves
  <2>2. SpentMore /\ spent'["resume"] # 0
    BY <1>0, <1>5, SpendingGrows DEF Budget
  <2>3. spent'.resume # 0
    BY <2>2
  <2>4. TableFacts
    BY <2>1, <2>3, MovesAreFacts
  <2> QED BY <1>1, <2>1, <2>2, <2>4, ServerStepKeeps
<1>6. ASSUME RevokeDevice(Console), Spend("revoke") PROVE SystemInv'
  <2>1. /\ TableShapes' /\ revoked' = revoked \cup {Console}
        /\ StatusMoves({j \in Ids : jobs[j].status \in OnConsole}, "interrupted")
    BY <1>0, <1>6, RevokeMoves
  <2>2. SpentMore /\ spent'["revoke"] # 0
    BY <1>0, <1>6, SpendingGrows DEF Budget
  <2>3. Ids' = Ids /\ \A j \in Ids : /\ jobs'[j].status \notin OnConsole
                                     /\ \/ jobs'[j].status = jobs[j].status
                                        \/ jobs[j].status \in OnConsole /\ jobs'[j].status = "interrupted"
    BY <2>1 DEF StatusMoves, OnConsole
  <2>4. spent'.revoke # 0
    BY <2>2
  <2>5. TableFacts
    BY <2>3, <2>4 DEF TableFacts
  <2> QED BY <1>1, <2>1, <2>2, <2>5, ServerStepKeeps
<1> QED BY <1>2, <1>3, <1>4, <1>5, <1>6 DEF WebRequest

LEMMA ServerKeeps ==
    ASSUME SystemInv, ServerRestart \/ StaleSweep \/ Clock
    PROVE  SystemInv'
<1>0. TableShapes /\ SystemShapes
  BY InvShapes
<1>1. CASE ServerRestart
  <2>1. Restart /\ Spend("restart") /\ UNCHANGED consoleVars
    BY <1>1 DEF ServerRestart
  <2>2. TableShapes' /\ TableFacts
    BY <1>0, <2>1, QuietMoves, SameTableFacts
  <2>3. SpentMore
    BY <1>0, <2>1, SpendingGrows DEF Budget
  <2> QED BY <2>1, <2>2, <2>3, ServerStepKeeps
<1>2. CASE StaleSweep
  <2>1. InterruptStaleJobs(Devices, StaleAge) /\ spent' = spent /\ UNCHANGED consoleVars
    BY <1>2 DEF StaleSweep
  <2>2. /\ TableShapes' /\ revoked' = revoked /\ StatusMoves(StaleJobs(Devices, StaleAge), "interrupted")
        /\ \A j \in StaleJobs(Devices, StaleAge) : jobs[j].status \in OnConsole
    BY <1>0, <2>1, SweepMoves
  <2>3. TableFacts
    BY <2>2, MovesAreFacts
  <2> QED BY <1>0, <2>1, <2>2, <2>3, SpendingGrows, ServerStepKeeps
<1>3. CASE Clock
  <2>1. Tick /\ spent' = spent /\ UNCHANGED consoleVars
    BY <1>3 DEF Clock
  <2>2. TableShapes' /\ revoked' = revoked /\ StatusMoves({}, "queued")
    BY <1>0, <2>1, QuietMoves
  <2>3. TableFacts
    BY <2>2, MovesAreFacts
  <2> QED BY <1>0, <2>1, <2>2, <2>3, SpendingGrows, ServerStepKeeps
<1> QED BY <1>1, <1>2, <1>3

-----------------------------------------------------------------------------
(* The steps that leave the console's jobs as they are. *)

LEMMA SameWorkKeeps ==
    ASSUME SystemInv, SpentMore, TableFacts, TableShapes', SessionShapes', SystemPhases', SameWork
    PROVE  SystemInv'
<1>1. SystemShapes'
  BY ShapesAgain DEF TableFacts
<1>2. HoldsEachJobOnce' /\ TakenInv' /\ DoneInv' /\ KeptInv'
  BY TableStepKeeps DEF SameWork
<1> QED BY <1>1, <1>2 DEF SystemInv

LEMMA TableUnchanged ==
    ASSUME SystemInv, UNCHANGED tableVars
    PROVE  TableFacts /\ TableShapes' /\ TableShapes
<1>1. TableShapes
  BY InvShapes
<1>2. UNCHANGED <<jobs, nextId, revoked, recent, log>>
  BY DEF tableVars
<1>3. TableShapes'
  BY <1>1, <1>2 DEF TableShapes, TableOK
<1> QED BY <1>1, <1>2, <1>3, SameTableFacts

LEMMA StartSessionKeeps == ASSUME SystemInv, StartSession PROVE SystemInv'
<1>1. /\ InterruptStaleJobs({Console}, NewSessionAge) /\ ~up
      /\ up' \in BOOLEAN /\ SameWork
      /\ UNCHANGED <<cursor, cancel, page, step, shown>>
      /\ spent' = spent \/ Spend("loss")
  BY DEF StartSession, installVars, inboxVars, SameWork
<1>2. /\ TableShapes' /\ revoked' = revoked
      /\ StatusMoves(StaleJobs({Console}, NewSessionAge), "interrupted")
      /\ \A j \in StaleJobs({Console}, NewSessionAge) : jobs[j].status \in OnConsole
  BY <1>1, InvShapes, SweepMoves
<1>3. TableFacts
  BY <1>2, MovesAreFacts
<1>4. SpentMore
  BY <1>1, InvShapes, SpendingGrows DEF Budget
<1>5. SessionShapes' /\ SystemPhases'
  BY <1>1, InvShapes DEF SessionShapes, SystemPhases, Installing, SameWork
<1> QED BY <1>1, <1>2, <1>3, <1>4, <1>5, SameWorkKeeps

(* An answer to a poll is a cursor and events of the log, or of the queue. *)
LEMMA AnswersAreEvents ==
    ASSUME SystemInv, NEW answer \in PollAnswers
    PROVE  answer.cursor \in Nat \cup {NoCursor} /\ answer.ev \in Seq(Entries)
<1>1. /\ TableShapes /\ TableOK /\ LogOK(log) /\ log.head \in Nat
      /\ cursor \in Nat \cup {NoCursor} /\ \A i \in DOMAIN log.at : log.at[i] \in Entries
  BY InvShapes DEF SessionShapes, TableShapes, TableOK, LogOK
<1>2. DOMAIN log.at = log.first..log.head /\ log.first \in Nat
  BY <1>1, MaxEventsAssumption DEF LogOK
<1>3. CASE answer \in WaitingJobs
  <2> DEFINE waits == {j \in JobsOf(Console) : HasStatus(j, {"queued", "interrupted"})}
  <2>1. PICK list \in [1..Cardinality(waits) -> waits] :
           answer = [cursor |-> log.head, ev |-> [i \in DOMAIN list |-> Queued(Console, list[i])]]
    BY <1>3 DEF WaitingJobs, InOrder
  <2>2. waits \subseteq Ids
    BY DEF JobsOf
  <2> HIDE DEF waits
  <2>3. Cardinality(waits) \in Nat /\ waits \subseteq 1..MaxJobs
    BY <1>1, <2>2, IdsAreJobs, FS_Subset, FS_CardinalityType
  <2>4. \A i \in 1..Cardinality(waits) : Queued(Console, list[i]) \in Entries
    BY <2>3, ConsoleAssumption DEF Queued, Entries
  <2>5. answer.ev = [i \in 1..Cardinality(waits) |-> Queued(Console, list[i])]
    BY <2>1
  <2>6. answer.ev \in Seq(Entries)
    BY <2>3, <2>4, <2>5
  <2> QED BY <2>1, <2>6, <1>1
<1>4. CASE answer \in LaterEvents
  <2> DEFINE ids == Since(log, Console, cursor)
  <2>1. PICK list \in [1..Cardinality(ids) -> ids] :
           answer = [cursor |-> NextCursor(ids, cursor), ev |-> [i \in DOMAIN list |-> log.at[list[i]]]]
    BY <1>4 DEF LaterEvents, InOrder
  <2>2. ids \subseteq log.first..log.head
    BY DEF Since
  <2> HIDE DEF ids
  <2>3. Cardinality(ids) \in Nat
    <3>1. log.first \in Int /\ log.head \in Int
      BY <1>1, <1>2
    <3>2. IsFiniteSet(log.first..log.head)
      BY <3>1, FS_Interval
    <3>3. IsFiniteSet(ids)
      BY <2>2, <3>2, FS_Subset
    <3> QED BY <3>3, FS_CardinalityType
  <2>4. \A i \in 1..Cardinality(ids) : log.at[list[i]] \in Entries
    BY <1>1, <1>2, <2>2
  <2>5. answer.ev = [i \in 1..Cardinality(ids) |-> log.at[list[i]]]
    BY <2>1
  <2>6. answer.ev \in Seq(Entries)
    BY <2>3, <2>4, <2>5
  <2>7. ids # {} => NextCursor(ids, cursor) \in ids
    <3> SUFFICES ASSUME ids # {} PROVE NextCursor(ids, cursor) \in ids
      OBVIOUS
    <3>1. log.head \in Int /\ ids \subseteq Int
      BY <1>1, <2>2
    <3>2. \A x \in ids : x <= log.head
      BY <1>1, <1>2, <2>2
    <3>3. \E x \in ids : \A y \in ids : y <= x
      BY <3>1, <3>2, BoundedHasGreatest
    <3> QED BY <3>3 DEF NextCursor
  <2>8. NextCursor(ids, cursor) \in Nat \cup {NoCursor}
    <3>1. CASE ids = {}
      BY <3>1, <1>1 DEF NextCursor
    <3>2. CASE ids # {}
      <4>1. ids \subseteq Nat
        BY <1>1, <1>2, <2>2
      <4> QED BY <4>1, <3>2, <2>7
    <3> QED BY <3>1, <3>2
  <2> QED BY <2>1, <2>6, <2>8
<1> QED BY <1>3, <1>4 DEF PollAnswers

LEMMA AfterEventsIsStep ==
    \A owed : /\ AfterEvents(owed) \in {"flush", "rest"}
              /\ AfterEvents(owed) = "flush" => owed # <<>>
BY DEF AfterEvents

LEMMA PollKeeps == ASSUME SystemInv, Poll PROVE SystemInv'
<1>1. /\ up /\ SameWork /\ UNCHANGED tableVars /\ UNCHANGED <<up, cancel, shown, spent>>
      /\ \E answer \in PollAnswers : cursor' = answer.cursor /\ page' = answer.ev
      /\ step' = IF page' # <<>> THEN "events" ELSE AfterEvents(unsent)
  BY DEF Poll, installVars, SameWork
<1>2. cursor' \in Nat \cup {NoCursor} /\ page' \in Seq(Entries)
  BY <1>1, AnswersAreEvents
<1>3. /\ step' \in Steps /\ (page' # <<>> <=> step' \in {"events", "claim"})
      /\ step' = "flush" => unsent # <<>>
  BY <1>1, AfterEventsIsStep DEF Steps
<1>4. SessionShapes'
  BY <1>1, <1>2, <1>3, InvShapes DEF SessionShapes
<1>5. SystemPhases'
  BY <1>1, <1>3, InvShapes DEF SystemPhases, Installing, SameWork
<1>6. SpentMore /\ TableFacts /\ TableShapes'
  BY <1>1, InvShapes, SpendingGrows, TableUnchanged
<1> QED BY <1>1, <1>4, <1>5, <1>6, SameWorkKeeps

LEMMA SidePollKeeps ==
    ASSUME SystemInv, SidePollRefused \/ SidePollLost
    PROVE  SystemInv'
<1>1. /\ step = "poll" /\ step' = "rest" /\ SameWork /\ UNCHANGED tableVars
      /\ UNCHANGED <<up, cancel, cursor, page, shown>>
      /\ spent' = spent \/ Spend("loss")
  BY DEF SidePollRefused, SidePollLost, SidePollFails, installVars, sessionVars, SameWork
<1>2. SessionShapes' /\ SystemPhases'
  BY <1>1, InvShapes DEF SessionShapes, SystemPhases, Installing, SameWork, Steps
<1>3. SpentMore /\ TableFacts /\ TableShapes'
  BY <1>1, InvShapes, SpendingGrows, TableUnchanged DEF Budget
<1> QED BY <1>1, <1>2, <1>3, SameWorkKeeps

LEMMA ForgetDeviceKeeps == ASSUME SystemInv, ForgetDevice PROVE SystemInv'
<1>1. /\ step = "rest" /\ phase = "idle" /\ up' = FALSE /\ cursor' = NoCursor /\ cancel' = TRUE
      /\ SameWork /\ UNCHANGED tableVars /\ UNCHANGED <<page, step, shown, spent>>
  BY DEF ForgetDevice, inboxVars, SameWork
<1>2. SessionShapes' /\ SystemPhases'
  BY <1>1, InvShapes DEF SessionShapes, SystemPhases, Installing, SameWork
<1>3. SpentMore /\ TableFacts /\ TableShapes'
  BY <1>1, InvShapes, SpendingGrows, TableUnchanged
<1> QED BY <1>1, <1>2, <1>3, SameWorkKeeps

(* Progress is reported of the job the engine works on. *)
LEMMA SideReportKeeps == ASSUME SystemInv, SideReport PROVE SystemInv'
<1>1. /\ step = "rest" /\ phase = "busy" /\ Authorised /\ Progress(Console, current)
      /\ step' \in {"poll", "rest"} /\ SameWork
      /\ UNCHANGED <<up, cancel, cursor, page, shown>>
      /\ spent' = spent \/ Spend("loss")
  BY DEF SideReport, installVars, sessionVars, SameWork
<1>2. /\ TableShapes' /\ revoked' = revoked /\ jobs[current].status \in Reportable
      /\ StatusMoves({current}, "running") \/ StatusMoves({}, "running")
  BY <1>1, InvShapes, ProgressMoves
<1>3. Live(current) /\ Authorised'
  BY <1>1, <1>2 DEF Live, Holds, Installing, Authorised
<1>4. TableFacts
  BY <1>2, <1>3, MovesAreFacts
<1>5. SessionShapes' /\ SystemPhases'
  BY <1>1, InvShapes DEF SessionShapes, SystemPhases, Installing, SameWork, Steps
<1>6. SpentMore
  BY <1>1, InvShapes, SpendingGrows DEF Budget
<1> QED BY <1>1, <1>2, <1>4, <1>5, <1>6, SameWorkKeeps

LEMMA PersonKeeps ==
    ASSUME SystemInv, CancelFromConsole \/ \E j \in Jobs : StartFromQueueTab(j)
    PROVE  SystemInv'
<1>1. CASE CancelFromConsole
  <2>1. /\ cancel' = TRUE /\ shown' \subseteq shown
        /\ SameWork /\ UNCHANGED tableVars /\ UNCHANGED <<up, cursor, page, step, spent>>
    BY <1>1 DEF CancelFromConsole, inboxVars, sessionVars, SameWork
  <2>2. SessionShapes' /\ SystemPhases'
    BY <2>1, InvShapes DEF SessionShapes, SystemPhases, Installing, SameWork
  <2>3. SpentMore /\ TableFacts /\ TableShapes'
    BY <2>1, InvShapes, SpendingGrows, TableUnchanged
  <2> QED BY <2>1, <2>2, <2>3, SameWorkKeeps
<1>2. CASE \E j \in Jobs : StartFromQueueTab(j)
  <2>1. PICK j \in Jobs : StartFromQueueTab(j)
    BY <1>2
  <2>2. /\ up /\ page' = <<Queued(Console, j)>> /\ step' = "claim"
        /\ SameWork /\ UNCHANGED tableVars /\ UNCHANGED <<up, cancel, cursor, shown, spent>>
    BY <2>1 DEF StartFromQueueTab, installVars, sessionVars, SameWork
  <2>3. page' \in Seq(Entries) /\ page' # <<>>
    BY <2>2, ConsoleAssumption DEF Queued, Entries, Jobs
  <2>4. SessionShapes' /\ SystemPhases'
    BY <2>2, <2>3, InvShapes DEF SessionShapes, SystemPhases, Installing, SameWork, Steps
  <2>5. SpentMore /\ TableFacts /\ TableShapes'
    BY <2>2, InvShapes, SpendingGrows, TableUnchanged
  <2> QED BY <2>2, <2>4, <2>5, SameWorkKeeps
<1> QED BY <1>1, <1>2

LEMMA InstallFromConsoleKeeps == ASSUME SystemInv, InstallFromConsole PROVE SystemInv'
<1>1. /\ up /\ InsertJobs(Console, 1) /\ SameWork /\ UNCHANGED <<up, cancel, cursor, shown>>
      /\ \/ page' = <<Queued(Console, nextId)>> /\ step' = "claim" /\ spent' = spent
         \/ UNCHANGED <<page, step>> /\ Spend("loss")
  BY DEF InstallFromConsole, CreateJobFromDevice, installVars, sessionVars, inboxVars, SameWork
<1>2. 1 \in Nat /\ 1 # 0
  OBVIOUS
<1>3. /\ TableShapes' /\ revoked' = revoked /\ TableFacts /\ nextId \in Jobs
  BY <1>1, <1>2, InvShapes, InsertMoves DEF TableFacts, Authorised
<1>4. <<Queued(Console, nextId)>> \in Seq(Entries) /\ <<Queued(Console, nextId)>> # <<>>
  BY <1>3, ConsoleAssumption DEF Queued, Entries, Jobs
<1>5. SessionShapes'
  BY <1>1, <1>4, InvShapes DEF SessionShapes, Steps
<1>6. SystemPhases'
  BY <1>1, <1>4, InvShapes DEF SystemPhases, Installing, SameWork
<1>7. SpentMore
  BY <1>1, InvShapes, SpendingGrows DEF Budget
<1> QED BY <1>1, <1>3, <1>5, <1>6, <1>7, SameWorkKeeps

-----------------------------------------------------------------------------
(* Outcomes, sent and unsent. *)

Outcomes == [job : Jobs, ok : BOOLEAN]

LEMMA OutcomeSent ==
    ASSUME unsent \in Seq(Outcomes), unsent # <<>>, unsent' = Tail(unsent)
    PROVE  /\ unsent' \in Seq(Outcomes) /\ (Len(unsent) > 1 => unsent' # <<>>)
           /\ \A k : Owes(k) => Owes(k)' \/ k = Head(unsent).job
           /\ \A i \in DOMAIN unsent' : \E n \in DOMAIN unsent : unsent'[i] = unsent[n]
           /\ 1 \in DOMAIN unsent /\ Head(unsent) = unsent[1]
<1>1. /\ unsent' \in Seq(Outcomes) /\ DOMAIN unsent = 1..Len(unsent) /\ Len(unsent) \in Nat \ {0}
      /\ DOMAIN unsent' = 1..(Len(unsent) - 1) /\ Head(unsent) = unsent[1]
      /\ \A i \in DOMAIN unsent' : i + 1 \in DOMAIN unsent /\ unsent'[i] = unsent[i + 1]
  BY QueueSplits
<1>2. ASSUME NEW k, Owes(k), k # Head(unsent).job PROVE Owes(k)'
  <2>1. PICK i \in DOMAIN unsent : unsent[i].job = k
    BY <1>2 DEF Owes
  <2>2. i # 1 /\ i \in Nat /\ 1 <= i /\ i <= Len(unsent)
    BY <1>1, <1>2, <2>1
  <2>3. i - 1 \in DOMAIN unsent' /\ (i - 1) + 1 = i
    BY <1>1, <2>2
  <2>4. unsent'[i - 1] = unsent[i]
    BY <1>1, <2>3
  <2> QED BY <2>1, <2>3, <2>4 DEF Owes
<1>3. Len(unsent) > 1 => unsent' # <<>>
  <2> SUFFICES ASSUME Len(unsent) > 1, unsent' = <<>> PROVE FALSE
    OBVIOUS
  <2>1. 1 \in DOMAIN unsent'
    BY <1>1
  <2>2. 1 \notin DOMAIN <<>>
    OBVIOUS
  <2> QED BY <2>1, <2>2
<1>4. 1 \in DOMAIN unsent
  BY <1>1
<1> QED BY <1>1, <1>2, <1>3, <1>4

LEMMA OutcomeKept ==
    ASSUME unsent \in Seq(Outcomes), NEW j \in Jobs, NEW ok \in BOOLEAN,
           unsent' = Append(unsent, [job |-> j, ok |-> ok])
    PROVE  /\ unsent' \in Seq(Outcomes)
           /\ \A k : Owes(k)' <=> Owes(k) \/ k = j
           /\ \A i \in DOMAIN unsent' :
                (\E n \in DOMAIN unsent : unsent'[i] = unsent[n]) \/ unsent'[i] = [job |-> j, ok |-> ok]
<1> DEFINE e == [job |-> j, ok |-> ok]
<1>1. e \in Outcomes /\ e.job = j
  BY DEF Outcomes
<1> HIDE DEF e
<1>2. unsent' = Append(unsent, e)
  BY DEF e
<1>3. unsent' \in Seq(Outcomes) /\ \A x : x \in Members(unsent') <=> x \in Members(unsent) \/ x = e
  BY <1>1, <1>2, QueueGrows
<1>4. \A k : Owes(k)' <=> \E x \in Members(unsent') : x.job = k
  BY DEF Owes, Members
<1>5. \A k : Owes(k) <=> \E x \in Members(unsent) : x.job = k
  BY DEF Owes, Members
<1>6. \A k : Owes(k)' <=> Owes(k) \/ k = j
  BY <1>1, <1>3, <1>4, <1>5
<1>7. \A i \in DOMAIN unsent' : (\E n \in DOMAIN unsent : unsent'[i] = unsent[n]) \/ unsent'[i] = e
  BY <1>3 DEF Members
<1> QED BY <1>3, <1>6, <1>7 DEF e

(* The outcome of the job j is told: at most its status moves. *)
Told(j, ok) ==
    /\ TableShapes' /\ Ids' = Ids /\ revoked' = revoked /\ SpentMore
    /\ \A k \in Ids :
         \/ jobs'[k].status = jobs[k].status
         \/ k = j /\ jobs[k].status \in Reportable /\ jobs'[k].status = (IF ok THEN "done" ELSE "failed")

(* The server has answered: whatever it answered, the job is no longer taken,
   and unless the console was revoked no outcome of it is wanted. *)
LEMMA AnsweredTells ==
    ASSUME SystemInv, NEW j, NEW ok \in BOOLEAN, CompleteAnswered(j, ok)
    PROVE  /\ Told(j, ok)
           /\ j \in Ids => /\ jobs'[j].status \notin OnConsole
                           /\ spent'.revoke = 0 => jobs'[j].status \notin Reportable
<1>0. /\ TableShapes /\ SystemShapes /\ \A k \in Ids : k \in JobsOf(Console)
      /\ spent.revoke = 0 => Authorised
  BY InvShapes
<1>1. spent' = spent /\ SpentMore
  BY <1>0, SpendingGrows DEF CompleteAnswered
<1>2. CASE Authorised /\ j \in JobsOf(Console) /\ HasStatus(j, Reportable)
  <2>1. Complete(Console, j, ok)
    BY <1>2 DEF CompleteAnswered
  <2>2. /\ TableShapes' /\ j \in Ids /\ revoked' = revoked /\ jobs[j].status \in Reportable
        /\ StatusMoves({j}, IF ok THEN "done" ELSE "failed")
    BY <1>0, <2>1, CompleteMoves
  <2>3. Told(j, ok)
    BY <1>1, <2>2 DEF Told, StatusMoves
  <2>4. jobs'[j].status = (IF ok THEN "done" ELSE "failed")
    BY <2>2 DEF StatusMoves
  <2> QED BY <2>3, <2>4 DEF OnConsole, Reportable
<1>3. CASE ~(Authorised /\ j \in JobsOf(Console) /\ HasStatus(j, Reportable))
  <2>1. UNCHANGED tableVars
    BY <1>3 DEF CompleteAnswered
  <2>2. TableShapes' /\ jobs' = jobs /\ revoked' = revoked
    BY <2>1, TableUnchanged DEF tableVars
  <2>3. Told(j, ok)
    BY <1>1, <2>2 DEF Told
  <2>4. j \in Ids /\ Authorised => jobs[j].status \notin Reportable
    BY <1>0, <1>3 DEF HasStatus
  <2>5. j \in Ids /\ ~Authorised => jobs[j].status \notin OnConsole
    BY DEF SystemInv, TakenInv
  <2>6. j \in Ids => jobs[j].status \notin OnConsole
    BY <2>4, <2>5 DEF OnConsole, Reportable
  <2> QED BY <1>0, <1>1, <2>2, <2>3, <2>4, <2>6
<1> QED BY <1>2, <1>3

LEMMA LostTells ==
    ASSUME SystemInv, NEW j, NEW ok \in BOOLEAN, CompleteLost(j, ok)
    PROVE  Told(j, ok) /\ spent'.loss # 0
<1>0. TableShapes /\ SystemShapes
  BY InvShapes
<1>1. SpentMore /\ spent'.loss # 0
  <2>1. SpentMore /\ spent'["loss"] # 0
    BY <1>0, SpendingGrows DEF CompleteLost, Budget
  <2> QED BY <2>1
<1>2. CASE UNCHANGED tableVars
  <2>1. TableShapes' /\ jobs' = jobs /\ revoked' = revoked
    BY <1>2, TableUnchanged DEF tableVars
  <2> QED BY <1>1, <2>1 DEF Told
<1>3. CASE Complete(Console, j, ok)
  <2>1. /\ TableShapes' /\ j \in Ids /\ revoked' = revoked /\ jobs[j].status \in Reportable
        /\ StatusMoves({j}, IF ok THEN "done" ELSE "failed")
    BY <1>0, <1>3, CompleteMoves
  <2> QED BY <1>1, <2>1 DEF Told, StatusMoves
<1> QED BY <1>2, <1>3 DEF CompleteLost

-----------------------------------------------------------------------------
(* The steps of an install. *)

(* What is left to show of a step of the console: its jobs have their shape. *)
LEMMA ConsoleKeeps ==
    ASSUME SystemInv, SpentMore, TableShapes', SessionShapes', SystemPhases',
           ConsoleFacts, installed' \subseteq Ids,
           current' \in Ids \cup {NoJob}, phase' \in Phases,
           pending' \in Seq(Jobs), Members(pending') \subseteq Ids, unsent' \in Seq(Outcomes),
           OnceEach(pending'), current' \notin Members(pending')
    PROVE  SystemInv'
<1>1. Waiting' = Members(pending')
  BY DEF Waiting, Members
<1>2. Ids' = Ids
  BY DEF ConsoleFacts
<1>3. SystemShapes'
  BY <1>1, <1>2 DEF SystemShapes, SpentMore, TableShapes, SessionShapes, Outcomes
<1>4. HoldsEachJobOnce'
  BY <1>1 DEF HoldsEachJobOnce, OnceEach
<1>5. TakenInv' /\ DoneInv' /\ KeptInv'
  BY ConsoleStepKeeps
<1> QED BY <1>3, <1>4, <1>5 DEF SystemInv

LEMMA EngineKeeps ==
    ASSUME SystemInv, FirstProgress \/ InstallEnds
    PROVE  SystemInv'
<1>1. /\ phase \in {"starting", "busy"} /\ phase' \in {"busy", "ok", "failed", "cancelled"}
      /\ installed' \in {installed, installed \cup {current}}
      /\ phase' = "ok" => installed' = installed \cup {current}
      /\ UNCHANGED tableVars
      /\ UNCHANGED <<up, cursor, current, cancel, pending, page, step, unsent, shown, spent>>
  BY DEF FirstProgress, InstallEnds, sessionVars, inboxVars
<1>2. SpentMore /\ TableShapes' /\ jobs' = jobs /\ revoked' = revoked
  BY <1>1, InvShapes, SpendingGrows, TableUnchanged DEF tableVars
<1>3. SessionShapes' /\ SystemPhases'
  BY <1>1, InvShapes DEF SessionShapes, SystemPhases, Installing
<1>4. /\ current \in Ids /\ current' = current /\ pending' = pending
      /\ phase' \in Phases /\ installed' \subseteq Ids
      /\ pending \in Seq(Jobs) /\ Members(pending) \subseteq Ids
      /\ OnceEach(pending) /\ current \notin Members(pending)
      /\ unsent' \in Seq(Outcomes)
  BY <1>1, InvShapes DEF SystemPhases, Installing, SystemShapes, Outcomes, Phases
<1>5. \A k : /\ Holds(k)' <=> Holds(k)
             /\ Live(k)' <=> Live(k)
             /\ Owes(k)' <=> Owes(k)
  BY <1>1 DEF Live, Holds, Owes, Waiting, Installing
<1>6. Holds(current) /\ Live(current)
  BY <1>1 DEF Live, Holds, Installing
<1>7. Calm' => unsent' = <<>>
  BY <1>1 DEF SystemInv, TakenInv, Calm
<1>8. \A i \in DOMAIN unsent' : unsent'[i].ok => unsent'[i].job \in installed'
  BY <1>1 DEF SystemInv, DoneInv
<1>9. ConsoleFacts
  BY <1>1, <1>2, <1>5, <1>6, <1>7, <1>8 DEF ConsoleFacts
<1> QED BY <1>2, <1>3, <1>4, <1>9, ConsoleKeeps

(* The next waiting job starts. *)
LEMMA PumpPending ==
    ASSUME SystemInv, PumpFrom(pending)
    PROVE  /\ pending' \in Seq(Jobs) /\ cancel' \in BOOLEAN /\ phase' \in {"idle", "starting"}
           /\ phase' \in Phases /\ current' \in Ids \cup {NoJob}
           /\ phase' # "idle" <=> current' # NoJob
           /\ phase' = "idle" => pending' = <<>>
           /\ OnceEach(pending') /\ current' \notin Members(pending')
           /\ Members(pending') \subseteq Ids
           /\ \A k : Holds(k)' <=> k \in Members(pending)
           /\ \A k : Live(k)' <=> k \in Members(pending)
<1>1. /\ pending \in Seq(Jobs) /\ OnceEach(pending) /\ cancel \in BOOLEAN /\ NoJob \notin Jobs
      /\ Members(pending) \subseteq Ids
  BY InvShapes DEF SessionShapes
<1>2. /\ pending' \in Seq(Jobs) /\ cancel' \in BOOLEAN
      /\ phase' \in {"idle", "starting"}
      /\ current' \in Jobs \cup {NoJob} /\ (phase' # "idle" <=> current' # NoJob)
      /\ phase' = "idle" => pending' = <<>>
      /\ OnceEach(pending') /\ current' \notin Members(pending')
      /\ Members(pending') \subseteq Members(pending)
      /\ phase' # "idle" => current' \in Members(pending)
      /\ \A k : k \in Members(pending) <=> (phase' # "idle" /\ current' = k) \/ k \in Members(pending')
  BY <1>1, PumpTakes
<1>3. Waiting' = Members(pending')
  BY DEF Waiting, Members
<1>4. \A k : Holds(k)' <=> k \in Members(pending)
  BY <1>2, <1>3 DEF Holds, Installing
<1>5. \A k : Live(k)' <=> k \in Members(pending)
  BY <1>2, <1>4 DEF Live
<1>6. current' \in Ids \cup {NoJob} /\ Members(pending') \subseteq Ids
  BY <1>1, <1>2
<1>7. phase' \in Phases
  BY <1>2 DEF Phases
<1> QED BY <1>2, <1>4, <1>5, <1>6, <1>7

LEMMA HoldsCurrentOrWaiting ==
    ASSUME SystemInv
    PROVE  \A k : Holds(k) <=> (phase # "idle" /\ current = k) \/ k \in Members(pending)
BY WaitingIsMembers DEF Holds, Installing

LEMMA ResultGoesKeeps ==
    ASSUME SystemInv, NEW r \in {"success", "failure"}, ResultGoes(r)
    PROVE  SystemInv'
<1>1. /\ step = "rest" /\ phase \in {"success", "failure"} /\ PumpFrom(pending)
      /\ UNCHANGED tableVars
      /\ UNCHANGED <<up, cursor, page, step, unsent, shown, installed, spent>>
  BY DEF ResultGoes, sessionVars, inboxVars
<1>2. SpentMore /\ TableShapes' /\ jobs' = jobs /\ revoked' = revoked
  BY <1>1, InvShapes, SpendingGrows, TableUnchanged DEF tableVars
<1>3. SessionShapes'
  BY <1>1, PumpPending, InvShapes DEF SessionShapes
<1>4. SystemPhases'
  BY <1>1, PumpPending, InvShapes DEF SystemPhases, Installing
<1>5. installed' \subseteq Ids /\ unsent' \in Seq(Outcomes)
  BY <1>1 DEF SystemInv, SystemShapes, Outcomes
<1>6. \A k : Owes(k)' <=> Owes(k)
  BY <1>1 DEF Owes
<1>7. \A k : (Holds(k)' => Holds(k)) /\ (Live(k) => Live(k)')
  <2>1. \A k : Holds(k)' => Holds(k)
    BY <1>1, PumpPending, HoldsCurrentOrWaiting
  <2>2. \A k : Live(k) => k \in Members(pending)
    BY <1>1, HoldsCurrentOrWaiting DEF Live
  <2> QED BY <1>1, <2>1, <2>2, PumpPending
<1>8. Calm' => unsent' = <<>>
  BY <1>1 DEF SystemInv, TakenInv, Calm
<1>9. /\ \A i \in DOMAIN unsent' : unsent'[i].ok => unsent'[i].job \in installed'
      /\ phase' \notin {"ok", "success"}
  BY <1>1, PumpPending DEF SystemInv, DoneInv
<1>10. ConsoleFacts
  BY <1>1, <1>2, <1>6, <1>7, <1>8, <1>9 DEF ConsoleFacts
<1> QED BY <1>1, <1>2, <1>3, <1>4, <1>5, <1>10, PumpPending, ConsoleKeeps

(* The outcome of the current job is sent, or kept for later. *)
LEMMA SendCompleteKeeps == ASSUME SystemInv, SendComplete PROVE SystemInv'
<1> DEFINE ok == phase = "ok"
<1>1. /\ step = "rest" /\ phase \in {"ok", "failed", "cancelled"}
      /\ \/ CompleteAnswered(current, ok) /\ unsent' = unsent
         \/ CompleteLost(current, ok) /\ unsent' = Append(unsent, [job |-> current, ok |-> ok])
      /\ shown' \subseteq shown
      /\ UNCHANGED <<up, cursor, page, step, installed>>
  BY DEF SendComplete, Ended, sessionVars, inboxVars
<1>2. \/ phase = "ok" /\ phase' = "success" /\ UNCHANGED <<current, cancel, pending>>
      \/ phase = "failed" /\ phase' = "failure" /\ UNCHANGED <<current, cancel, pending>>
      \/ phase = "cancelled" /\ PumpFrom(pending)
  BY <1>1 DEF SendComplete
<1>3. ok \in BOOLEAN /\ (ok => current \in installed)
  BY DEF SystemInv, DoneInv
<1> HIDE DEF ok
<1>4. /\ current \in Ids /\ current \in Jobs /\ Installing /\ unsent \in Seq(Outcomes)
      /\ installed \subseteq Ids /\ pending \in Seq(Jobs) /\ Members(pending) \subseteq Ids
      /\ OnceEach(pending) /\ current \notin Members(pending) /\ installed' \subseteq Ids
  BY <1>1, InvShapes DEF SystemPhases, Installing, SystemShapes, Outcomes
<1>5. /\ Told(current, ok) /\ unsent' \in Seq(Outcomes)
      /\ \A k : Owes(k) => Owes(k)'
      /\ \A i \in DOMAIN unsent' : unsent'[i].ok => unsent'[i].job \in installed
      /\ Calm' => unsent' = <<>>
      /\ Calm' => jobs'[current].status \notin OnConsole
      /\ Unbroken' => (\A k : k = current => Owes(k)') \/ jobs'[current].status \notin Reportable
  <2>1. CASE CompleteAnswered(current, ok) /\ unsent' = unsent
    <3>1. /\ Told(current, ok) /\ jobs'[current].status \notin OnConsole
          /\ spent'.revoke = 0 => jobs'[current].status \notin Reportable
      BY <1>3, <1>4, <2>1, AnsweredTells
    <3>2. \A k : Owes(k) => Owes(k)'
      BY <2>1 DEF Owes
    <3>3. Calm' => Calm
      BY <3>1, CalmBefore DEF Told
    <3>4. Calm' => unsent' = <<>>
      BY <3>3, <2>1 DEF SystemInv, TakenInv
    <3>5. \A i \in DOMAIN unsent' : unsent'[i].ok => unsent'[i].job \in installed
      BY <2>1 DEF SystemInv, DoneInv
    <3> QED BY <1>4, <2>1, <3>1, <3>2, <3>4, <3>5 DEF Unbroken
  <2>2. CASE CompleteLost(current, ok) /\ unsent' = Append(unsent, [job |-> current, ok |-> ok])
    <3>1. Told(current, ok) /\ spent'.loss # 0
      BY <1>3, <2>2, LostTells
    <3>2. /\ unsent' \in Seq(Outcomes)
          /\ \A k : Owes(k)' <=> Owes(k) \/ k = current
          /\ \A i \in DOMAIN unsent' :
               (\E n \in DOMAIN unsent : unsent'[i] = unsent[n]) \/ unsent'[i] = [job |-> current, ok |-> ok]
      BY <1>3, <1>4, <2>2, OutcomeKept
    <3>3. \A n \in DOMAIN unsent : unsent[n].ok => unsent[n].job \in installed
      BY DEF SystemInv, DoneInv
    <3>4. ASSUME NEW i \in DOMAIN unsent', unsent'[i].ok PROVE unsent'[i].job \in installed
      <4>1. CASE unsent'[i] = [job |-> current, ok |-> ok]
        BY <4>1, <3>4, <1>3
      <4>2. CASE \E n \in DOMAIN unsent : unsent'[i] = unsent[n]
        BY <4>2, <3>3, <3>4
      <4> QED BY <4>1, <4>2, <3>2
    <3> QED BY <3>1, <3>2, <3>4 DEF Calm
  <2> QED BY <1>1, <2>1, <2>2
<1>6. TableShapes' /\ SpentMore /\ Ids' = Ids /\ revoked' = revoked
  BY <1>5 DEF Told
<1>7. \A k : Holds(k) <=> k = current \/ k \in Members(pending)
  BY <1>1, HoldsCurrentOrWaiting
<1>8. /\ cancel' \in BOOLEAN /\ current' \in Ids \cup {NoJob} /\ phase' \in Phases
      /\ phase' # "idle" <=> current' # NoJob
      /\ phase' = "idle" => pending' = <<>>
      /\ pending' \in Seq(Jobs) /\ Members(pending') \subseteq Ids
      /\ OnceEach(pending') /\ current' \notin Members(pending')
      /\ \A k : Holds(k)' => Holds(k)
      /\ \A k : k \in Members(pending) => Live(k)'
      /\ phase' \notin {"ok"} /\ (phase' = "success" => ok /\ current' = current)
  <2>1. CASE phase = "cancelled" /\ PumpFrom(pending)
    <3>1. \A k : Holds(k)' => Holds(k)
      BY <2>1, <1>7, PumpPending
    <3> QED BY <2>1, <3>1, PumpPending
  <2>2. CASE /\ phase \in {"ok", "failed"} /\ phase' \in {"success", "failure"}
             /\ phase' = "success" => phase = "ok"
             /\ UNCHANGED <<current, cancel, pending>>
    <3>1. \A k : Holds(k)' <=> Holds(k)
      BY <2>2 DEF Holds, Waiting, Installing
    <3>2. \A k : k \in Members(pending) => Live(k)'
      BY <2>2, <3>1, <1>4, <1>7 DEF Live
    <3>3. cancel \in BOOLEAN /\ current # NoJob
      BY <1>4, InvShapes DEF SessionShapes
    <3> QED BY <2>2, <3>1, <3>2, <3>3, <1>4 DEF Phases, ok
  <2> QED BY <1>2, <2>1, <2>2
<1>9. SessionShapes'
  BY <1>1, <1>8, InvShapes DEF SessionShapes
<1>10. SystemPhases'
  <2>1. step' = "rest" /\ page' = page /\ up' = up
    BY <1>1
  <2>2. page = <<>> /\ up
    BY <1>1, <1>4, InvShapes DEF SystemPhases
  <2> QED BY <2>1, <2>2, <1>8 DEF SystemPhases, Installing
<1>11. ConsoleFacts
  <2>1. ASSUME NEW k \in Ids
        PROVE  /\ \/ jobs'[k].status = jobs[k].status
                  \/ jobs[k].status \in Reportable /\ jobs'[k].status = "failed"
                  \/ jobs[k].status \in Reportable /\ jobs'[k].status = "done" /\ k \in installed'
               /\ Holds(k)' => Holds(k)
               /\ k \in installed' => k \in installed
               /\ Calm' /\ jobs'[k].status \in OnConsole /\ Live(k) => Live(k)'
               /\ Unbroken' /\ jobs'[k].status \in Reportable /\ (Owes(k) \/ Live(k)) =>
                    Owes(k)' \/ Live(k)'
    <3>1. \/ jobs'[k].status = jobs[k].status
          \/ jobs[k].status \in Reportable /\ jobs'[k].status = "failed"
          \/ jobs[k].status \in Reportable /\ jobs'[k].status = "done" /\ k \in installed'
      BY <1>1, <1>3, <1>5 DEF Told
    <3>2. Live(k) => k = current \/ Live(k)'
      BY <1>7, <1>8 DEF Live
    <3> QED BY <3>1, <3>2, <1>1, <1>5, <1>8
  <2>2. phase' \in {"ok", "success"} => current' \in installed'
    BY <1>1, <1>3, <1>8
  <2> QED BY <1>1, <1>5, <1>6, <2>1, <2>2 DEF ConsoleFacts
<1> QED BY <1>1, <1>4, <1>5, <1>6, <1>8, <1>9, <1>10, <1>11, ConsoleKeeps

(* An outcome that waited is sent. *)
LEMMA FlushKeeps == ASSUME SystemInv, Flush PROVE SystemInv'
<1> DEFINE first == Head(unsent)
<1>1. /\ step = "flush" /\ UNCHANGED <<up, cursor, current, phase, cancel, pending, page, shown, installed>>
      /\ \/ /\ CompleteAnswered(first.job, first.ok) /\ unsent' = Tail(unsent)
            /\ step' = IF Len(unsent) > 1 THEN "flush" ELSE "rest"
         \/ /\ CompleteLost(first.job, first.ok) /\ unsent' = unsent /\ step' = "rest"
  BY DEF Flush, sessionVars, installVars
<1>2. unsent \in Seq(Outcomes) /\ unsent # <<>> /\ ~Calm
  BY <1>1 DEF SystemInv, SystemShapes, SystemPhases, TakenInv, Outcomes
<1>3. 1 \in DOMAIN unsent /\ first = unsent[1] /\ first \in Outcomes
  BY <1>2, QueueSplits
<1>4. first.job \in Jobs /\ first.ok \in BOOLEAN /\ (first.ok => first.job \in installed)
  BY <1>3 DEF Outcomes, SystemInv, DoneInv
<1> HIDE DEF first
<1>5. /\ Told(first.job, first.ok) /\ unsent' \in Seq(Outcomes)
      /\ \A k : Owes(k) => Owes(k)' \/ k = first.job
      /\ \A i \in DOMAIN unsent' : \E n \in DOMAIN unsent : unsent'[i] = unsent[n]
      /\ step' \in {"flush", "rest"} /\ (step' = "flush" => unsent' # <<>>)
      /\ \/ \A k : Owes(k) => Owes(k)'
         \/ first.job \in Ids /\ spent'.revoke = 0 => jobs'[first.job].status \notin Reportable
  <2>1. CASE /\ CompleteAnswered(first.job, first.ok) /\ unsent' = Tail(unsent)
             /\ step' = IF Len(unsent) > 1 THEN "flush" ELSE "rest"
    <3>1. /\ Told(first.job, first.ok)
          /\ first.job \in Ids /\ spent'.revoke = 0 => jobs'[first.job].status \notin Reportable
      BY <2>1, <1>4, AnsweredTells
    <3>2. /\ unsent' \in Seq(Outcomes) /\ (Len(unsent) > 1 => unsent' # <<>>)
          /\ \A k : Owes(k) => Owes(k)' \/ k = first.job
          /\ \A i \in DOMAIN unsent' : \E n \in DOMAIN unsent : unsent'[i] = unsent[n]
      BY <2>1, <1>2, OutcomeSent DEF first
    <3> QED BY <2>1, <3>1, <3>2
  <2>2. CASE CompleteLost(first.job, first.ok) /\ unsent' = unsent /\ step' = "rest"
    <3>1. Told(first.job, first.ok)
      BY <2>2, <1>4, LostTells
    <3>2. \A k : Owes(k) => Owes(k)'
      BY <2>2 DEF Owes
    <3> QED BY <2>2, <3>1, <3>2, <1>2
  <2> QED BY <1>1, <2>1, <2>2
<1>6. TableShapes' /\ SpentMore /\ Ids' = Ids /\ revoked' = revoked /\ ~Calm'
  BY <1>2, <1>5, CalmBefore DEF Told
<1>7. \A k : (Holds(k)' <=> Holds(k)) /\ (Live(k)' <=> Live(k))
  BY <1>1 DEF Live, Holds, Waiting, Installing
<1>8. SessionShapes'
  BY <1>1, <1>5, InvShapes DEF SessionShapes, Steps
<1>9. SystemPhases'
  <2>1. page = <<>> /\ up
    BY <1>1, InvShapes DEF SystemPhases
  <2> QED BY <2>1, <1>1, <1>5, InvShapes DEF SystemPhases, Installing
<1>10. /\ installed' \subseteq Ids /\ current' \in Ids \cup {NoJob} /\ phase' \in Phases
       /\ pending' \in Seq(Jobs) /\ Members(pending') \subseteq Ids
       /\ OnceEach(pending') /\ current' \notin Members(pending')
  BY <1>1, InvShapes DEF SystemShapes
<1>11. ConsoleFacts
  <2>1. ASSUME NEW k \in Ids
        PROVE  /\ \/ jobs'[k].status = jobs[k].status
                  \/ jobs[k].status \in Reportable /\ jobs'[k].status = "failed"
                  \/ jobs[k].status \in Reportable /\ jobs'[k].status = "done" /\ k \in installed'
               /\ Unbroken' /\ jobs'[k].status \in Reportable /\ (Owes(k) \/ Live(k)) =>
                    Owes(k)' \/ Live(k)'
    <3>1. \/ jobs'[k].status = jobs[k].status
          \/ jobs[k].status \in Reportable /\ jobs'[k].status = "failed"
          \/ jobs[k].status \in Reportable /\ jobs'[k].status = "done" /\ k \in installed'
      BY <1>1, <1>4, <1>5 DEF Told
    <3>2. ASSUME Unbroken', jobs'[k].status \in Reportable, Owes(k) PROVE Owes(k)'
      BY <3>2, <1>5 DEF Unbroken
    <3> QED BY <3>1, <3>2, <1>7
  <2>2. \A i \in DOMAIN unsent' : unsent'[i].ok => unsent'[i].job \in installed'
    BY <1>1, <1>5 DEF SystemInv, DoneInv
  <2>3. phase' \in {"ok", "success"} => current' \in installed'
    BY <1>1 DEF SystemInv, DoneInv
  <2> QED BY <1>1, <1>6, <1>7, <2>1, <2>2, <2>3 DEF ConsoleFacts
<1> QED BY <1>5, <1>6, <1>8, <1>9, <1>10, <1>11, ConsoleKeeps

-----------------------------------------------------------------------------
(* The events of an answer. *)

(* The page goes on, or ends in a flush or at rest. *)
LEMMA NextEventShapes ==
    ASSUME SystemInv, step \in {"events", "claim"}, page # <<>>, NextEvent, UNCHANGED <<up, cursor>>,
           cancel' \in BOOLEAN, shown' \subseteq Jobs
    PROVE  /\ SessionShapes' /\ up /\ up'
           /\ page' # <<>> <=> step' \in {"events", "claim"}
           /\ step' = "flush" => unsent' # <<>>
<1>1. /\ page \in Seq(Entries) /\ page' = Tail(page) /\ up /\ step \in Steps
      /\ up \in BOOLEAN /\ cursor \in Nat \cup {NoCursor}
  BY InvShapes DEF SessionShapes, SystemPhases, NextEvent
<1>2. page' \in Seq(Entries)
  BY <1>1, QueueSplits
<1>3. step' = IF page' # <<>> THEN step
              ELSE IF step = "events" THEN AfterEvents(unsent')
              ELSE "rest"
  BY DEF NextEvent
<1>4. /\ step' \in Steps /\ (page' # <<>> <=> step' \in {"events", "claim"})
      /\ step' = "flush" => unsent' # <<>>
  <2>1. CASE page' # <<>>
    BY <1>1, <1>3, <2>1
  <2>2. CASE page' = <<>>
    BY <1>3, <2>2, AfterEventsIsStep DEF Steps
  <2> QED BY <2>1, <2>2
<1> QED BY <1>1, <1>2, <1>4 DEF SessionShapes

(* A waiting job is dropped, and told as cancelled. *)
LEMMA CancelEventKeeps == ASSUME SystemInv, NEW j \in Jobs, CancelEvent(j) PROVE SystemInv'
<1>1. /\ step = "events" /\ page # <<>> /\ NextEvent /\ UNCHANGED <<up, cursor, current, phase, installed>>
      /\ cancel' = (cancel \/ (Installing /\ current = j)) /\ shown' \subseteq shown
      /\ \/ UNCHANGED <<tableVars, pending, unsent, spent>>
         \/ /\ DropWaiting(j) /\ CompleteAnswered(j, FALSE) /\ UNCHANGED unsent
         \/ /\ DropWaiting(j) /\ CompleteLost(j, FALSE)
            /\ unsent' = Append(unsent, [job |-> j, ok |-> FALSE])
  BY DEF CancelEvent, sessionVars
<1>2. cancel' \in BOOLEAN /\ shown' \subseteq Jobs
  BY <1>1, InvShapes DEF SessionShapes
<1>3. /\ SessionShapes' /\ up /\ up'
      /\ page' # <<>> <=> step' \in {"events", "claim"}
      /\ step' = "flush" => unsent' # <<>>
  BY <1>1, <1>2, NextEventShapes
<1>4. CASE UNCHANGED <<tableVars, pending, unsent, spent>>
  <2>1. SameWork /\ UNCHANGED tableVars /\ spent' = spent
    BY <1>1, <1>4 DEF SameWork
  <2>2. SpentMore /\ TableFacts /\ TableShapes'
    BY <2>1, InvShapes, SpendingGrows, TableUnchanged
  <2>3. SystemPhases'
    BY <2>1, <1>3, InvShapes DEF SystemPhases, Installing, SameWork
  <2> QED BY <2>1, <2>2, <2>3, <1>3, SameWorkKeeps
<1>5. CASE /\ DropWaiting(j)
           /\ \/ CompleteAnswered(j, FALSE) /\ UNCHANGED unsent
              \/ CompleteLost(j, FALSE) /\ unsent' = Append(unsent, [job |-> j, ok |-> FALSE])
  <2>1. /\ pending \in Seq(Jobs) /\ OnceEach(pending) /\ current \notin Members(pending)
        /\ Members(pending) \subseteq Ids /\ unsent \in Seq(Outcomes) /\ installed \subseteq Ids
        /\ current \in Ids \cup {NoJob} /\ phase \in Phases /\ FALSE \in BOOLEAN
    BY InvShapes DEF SystemShapes, Outcomes
  <2>2. /\ pending' \in Seq(Jobs) /\ OnceEach(pending') /\ pending # <<>>
        /\ j \in Members(pending)
        /\ \A k : k \in Members(pending') <=> k \in Members(pending) /\ k # j
    BY <1>5, <2>1, DropTakesOne
  <2>3. /\ Told(j, FALSE) /\ unsent' \in Seq(Outcomes)
        /\ \A k : Owes(k) => Owes(k)'
        /\ \A i \in DOMAIN unsent' : unsent'[i].ok => unsent'[i].job \in installed
        /\ Calm' => unsent' = <<>>
        /\ Calm' => jobs'[j].status \notin OnConsole
        /\ Unbroken' => Owes(j)' \/ jobs'[j].status \notin Reportable
    <3>1. CASE CompleteAnswered(j, FALSE) /\ UNCHANGED unsent
      <4>1. /\ Told(j, FALSE) /\ jobs'[j].status \notin OnConsole
            /\ spent'.revoke = 0 => jobs'[j].status \notin Reportable
        BY <2>1, <2>2, <3>1, AnsweredTells
      <4>2. \A k : Owes(k) => Owes(k)'
        BY <3>1 DEF Owes
      <4>3. Calm' => Calm
        BY <4>1, CalmBefore DEF Told
      <4>4. Calm' => unsent' = <<>>
        BY <4>3, <3>1 DEF SystemInv, TakenInv
      <4>5. \A i \in DOMAIN unsent' : unsent'[i].ok => unsent'[i].job \in installed
        BY <3>1 DEF SystemInv, DoneInv
      <4> QED BY <2>1, <3>1, <4>1, <4>2, <4>4, <4>5 DEF Unbroken
    <3>2. CASE CompleteLost(j, FALSE) /\ unsent' = Append(unsent, [job |-> j, ok |-> FALSE])
      <4>1. Told(j, FALSE) /\ spent'.loss # 0
        BY <2>1, <3>2, LostTells
      <4>2. /\ unsent' \in Seq(Outcomes)
            /\ \A k : Owes(k)' <=> Owes(k) \/ k = j
            /\ \A i \in DOMAIN unsent' :
                 (\E n \in DOMAIN unsent : unsent'[i] = unsent[n]) \/ unsent'[i] = [job |-> j, ok |-> FALSE]
        BY <2>1, <3>2, OutcomeKept
      <4>3. \A n \in DOMAIN unsent : unsent[n].ok => unsent[n].job \in installed
        BY DEF SystemInv, DoneInv
      <4>4. ASSUME NEW i \in DOMAIN unsent', unsent'[i].ok PROVE unsent'[i].job \in installed
        BY <4>2, <4>3, <4>4
      <4> QED BY <4>1, <4>2, <4>4 DEF Calm
    <3> QED BY <1>5, <3>1, <3>2
  <2>4. TableShapes' /\ SpentMore /\ Ids' = Ids /\ revoked' = revoked
    BY <2>3 DEF Told
  <2>5. phase # "idle" /\ current # NoJob
    BY <2>2, InvShapes DEF SystemPhases, Installing
  <2>6. SystemPhases'
    BY <1>1, <1>3, <2>5 DEF SystemPhases, Installing
  <2>7. \A k : /\ Holds(k)' <=> Holds(k) /\ k # j
               /\ Live(k)' <=> Live(k) /\ k # j
    <3>1. Waiting' = Members(pending') /\ Waiting = Members(pending)
      BY DEF Waiting, Members
    <3>2. current # j
      BY <2>1, <2>2
    <3>3. \A k : Holds(k)' <=> Holds(k) /\ k # j
      BY <1>1, <2>2, <3>1, <3>2 DEF Holds, Installing
    <3> QED BY <1>1, <3>3 DEF Live
  <2>8. /\ installed' \subseteq Ids /\ current' \in Ids \cup {NoJob} /\ phase' \in Phases
        /\ Members(pending') \subseteq Ids /\ current' \notin Members(pending')
    BY <1>1, <2>1, <2>2
  <2>9. ConsoleFacts
    <3>1. ASSUME NEW k \in Ids
          PROVE  /\ \/ jobs'[k].status = jobs[k].status
                    \/ jobs[k].status \in Reportable /\ jobs'[k].status = "failed"
                 /\ Holds(k)' => Holds(k)
                 /\ Calm' /\ jobs'[k].status \in OnConsole /\ Live(k) => Live(k)'
                 /\ Unbroken' /\ jobs'[k].status \in Reportable /\ (Owes(k) \/ Live(k)) =>
                      Owes(k)' \/ Live(k)'
      <4>1. \/ jobs'[k].status = jobs[k].status
            \/ jobs[k].status \in Reportable /\ jobs'[k].status = "failed"
        BY <2>3 DEF Told
      <4> QED BY <4>1, <2>3, <2>7
    <3>2. phase' \in {"ok", "success"} => current' \in installed'
      BY <1>1 DEF SystemInv, DoneInv
    <3> QED BY <1>1, <2>3, <2>4, <3>1, <3>2 DEF ConsoleFacts
  <2> QED BY <1>3, <2>2, <2>3, <2>4, <2>6, <2>8, <2>9, ConsoleKeeps
<1> QED BY <1>1, <1>4, <1>5

(* The app is gone, and with it what it had to tell. *)
LEMMA ConsoleCrashKeeps == ASSUME SystemInv, ConsoleCrash PROVE SystemInv'
<1>1. /\ Spend("crash") /\ up' = FALSE /\ cursor' = NoCursor /\ current' = NoJob
      /\ phase' = "idle" /\ cancel' = FALSE /\ pending' = <<>> /\ unsent' = <<>>
      /\ shown' = {} /\ page' = <<>> /\ step' = "rest" /\ UNCHANGED tableVars
      /\ installed' = installed
  BY DEF ConsoleCrash
<1>2. SpentMore /\ spent'.crash # 0
  <2>1. SpentMore /\ spent'["crash"] # 0
    BY <1>1, InvShapes, SpendingGrows DEF Budget
  <2> QED BY <2>1
<1>3. TableShapes' /\ jobs' = jobs /\ revoked' = revoked
  BY <1>1, TableUnchanged DEF tableVars
<1>4. SessionShapes' /\ SystemPhases'
  <2>1. <<>> \in Seq(Entries)
    OBVIOUS
  <2>2. SessionShapes'
    BY <1>1, <2>1 DEF SessionShapes, Steps
  <2>3. SystemPhases'
    BY <1>1 DEF SystemPhases, Installing
  <2> QED BY <2>2, <2>3
<1>5. Members(pending') = {} /\ OnceEach(pending')
  <2>1. DOMAIN pending' = {}
    BY <1>1
  <2> QED BY <2>1 DEF Members, OnceEach
<1>6. /\ installed' \subseteq Ids /\ current' \in Ids \cup {NoJob} /\ phase' \in Phases
      /\ pending' \in Seq(Jobs) /\ unsent' \in Seq(Outcomes)
  BY <1>1 DEF SystemInv, SystemShapes, Phases
<1>7. \A k : ~Holds(k)'
  BY <1>1, <1>5 DEF Holds, Installing, Waiting, Members
<1>8. ~Calm' /\ ~Unbroken'
  BY <1>2 DEF Calm, Unbroken
<1>9. DOMAIN unsent' = {}
  BY <1>1
<1>10. ConsoleFacts
  BY <1>1, <1>3, <1>7, <1>8, <1>9 DEF ConsoleFacts
<1> QED BY <1>2, <1>3, <1>4, <1>5, <1>6, <1>10, ConsoleKeeps

(* A job that was claimed and queued at the console: the console has it. *)
LEMMA ClaimedKeeps ==
    ASSUME SystemInv, NEW j \in Jobs, step \in {"events", "claim"}, page # <<>>, NextEvent,
           UNCHANGED <<up, cursor, unsent, installed, spent>>, shown' \subseteq shown,
           ~Holds(j), Authorised, ClaimJob(Console, j), EnqueueClaimed(j)
    PROVE  SystemInv'
<1>1. /\ pending \in Seq(Jobs) /\ OnceEach(pending) /\ current \notin Members(pending)
      /\ Members(pending) \subseteq Ids /\ unsent \in Seq(Outcomes) /\ installed \subseteq Ids
      /\ current \in Ids \cup {NoJob} /\ phase \in Phases /\ cancel \in BOOLEAN /\ shown \subseteq Jobs
      /\ NoJob \notin Jobs
  BY InvShapes DEF SystemShapes, SessionShapes, Outcomes
<1>2. /\ TableShapes' /\ j \in Ids /\ revoked' = revoked
      /\ jobs[j].status \in {"queued", "interrupted"} /\ StatusMoves({j}, "claimed")
  BY InvShapes, ClaimMoves
<1>3. /\ Ids' = Ids /\ jobs'[j].status = "claimed"
      /\ \A k \in Ids : k # j => jobs'[k].status = jobs[k].status
  BY <1>2 DEF StatusMoves
<1>4. j \notin Members(pending)
  BY WaitingIsMembers DEF Holds
<1>5. /\ Append(pending, j) \in Seq(Jobs) /\ Append(pending, j) # <<>> /\ OnceEach(Append(pending, j))
      /\ \A k : k \in Members(Append(pending, j)) <=> k \in Members(pending) \/ k = j
  BY <1>1, <1>4, QueueGrows
<1>6. /\ pending' \in Seq(Jobs) /\ OnceEach(pending') /\ current' \notin Members(pending')
      /\ Members(pending') \subseteq Ids /\ current' \in Ids \cup {NoJob}
      /\ phase' \in Phases /\ phase' # "idle" /\ current' # NoJob /\ cancel' \in BOOLEAN
      /\ phase' \in {"ok", "success"} => phase' = phase /\ current' = current
      /\ \A k : Holds(k)' <=> Holds(k) \/ k = j
      /\ \A k : Live(k) \/ k = j => Live(k)'
  <2>1. CASE Installing
    <3>1. pending' = Append(pending, j) /\ current' = current /\ phase' = phase /\ cancel' = cancel
      BY <2>1 DEF EnqueueClaimed
    <3>2. current # j /\ phase # "idle" /\ current # NoJob
      BY <2>1, InvShapes DEF Holds, Installing, SystemPhases
    <3>3. Waiting' = Members(pending') /\ Waiting = Members(pending)
      BY DEF Waiting, Members
    <3>4. \A k : Holds(k)' <=> Holds(k) \/ k = j
      BY <1>5, <3>1, <3>3 DEF Holds, Installing
    <3>5. \A k : Live(k) \/ k = j => Live(k)'
      BY <3>1, <3>2, <3>4 DEF Live
    <3>6. Members(pending') \subseteq Ids /\ current' \notin Members(pending')
      BY <1>1, <1>2, <1>5, <3>1, <3>2
    <3> QED BY <1>1, <1>5, <3>1, <3>2, <3>4, <3>5, <3>6
  <2>2. CASE ~Installing
    <3>1. pending = <<>> /\ PumpFrom(Append(pending, j))
      BY <2>2, InvShapes DEF EnqueueClaimed, SystemPhases
    <3>2. DOMAIN pending = {}
      BY <3>1
    <3>3. \A k : ~Holds(k)
      BY <2>2, <3>2 DEF Holds, Waiting
    <3>4. \A k : k \in Members(Append(pending, j)) <=> k = j
      BY <1>5, <3>2 DEF Members
    <3> DEFINE queue == Append(pending, j)
    <3>5. /\ queue \in Seq(Jobs) /\ queue # <<>> /\ OnceEach(queue) /\ PumpFrom(queue)
          /\ \A k : k \in Members(queue) <=> k = j
      BY <1>5, <3>1, <3>4
    <3> HIDE DEF queue
    <3>6. /\ pending' \in Seq(Jobs) /\ cancel' \in BOOLEAN /\ phase' = "starting"
          /\ current' \in Jobs \cup {NoJob} /\ current' # NoJob
          /\ OnceEach(pending') /\ current' \notin Members(pending')
          /\ Members(pending') \subseteq Members(queue) /\ current' \in Members(queue)
          /\ \A k : k \in Members(queue) <=> (phase' # "idle" /\ current' = k) \/ k \in Members(pending')
      BY <1>1, <3>5, PumpTakes
    <3>7. Waiting' = Members(pending')
      BY DEF Waiting, Members
    <3>8. \A k : Holds(k)' <=> k = j
      BY <3>5, <3>6, <3>7 DEF Holds, Installing
    <3>9. \A k : Live(k) \/ k = j => Live(k)'
      BY <3>3, <3>6, <3>8 DEF Live
    <3>10. Members(pending') \subseteq Ids /\ current' \in Ids
      BY <1>2, <3>5, <3>6
    <3>11. phase' \in Phases
      BY <3>6 DEF Phases
    <3> QED BY <3>3, <3>6, <3>8, <3>9, <3>10, <3>11
  <2> QED BY <2>1, <2>2
<1>7. /\ SessionShapes' /\ up /\ up'
      /\ page' # <<>> <=> step' \in {"events", "claim"}
      /\ step' = "flush" => unsent' # <<>>
  BY <1>1, <1>6, NextEventShapes
<1>8. SystemPhases'
  BY <1>6, <1>7 DEF SystemPhases, Installing
<1>9. SpentMore /\ (Calm' <=> Calm) /\ (Unbroken' <=> Unbroken) /\ (Authorised' <=> Authorised)
  BY <1>2, InvShapes, SpendingGrows DEF Calm, Unbroken, Authorised
<1>10. SystemShapes'
  <2>1. Waiting' = Members(pending')
    BY DEF Waiting, Members
  <2> QED BY <1>1, <1>2, <1>3, <1>6, <1>7, <1>9, <2>1
          DEF SystemShapes, SpentMore, TableShapes, SessionShapes, Outcomes
<1>11. HoldsEachJobOnce'
  <2>1. Waiting' = Members(pending')
    BY DEF Waiting, Members
  <2> QED BY <1>6, <2>1 DEF HoldsEachJobOnce, OnceEach
<1>12. TakenInv'
  <2>1. ASSUME Calm', NEW k \in Ids', jobs'[k].status \in OnConsole PROVE Live(k)'
    <3>1. k = j \/ Live(k)
      BY <1>3, <1>9, <2>1 DEF SystemInv, TakenInv
    <3> QED BY <3>1, <1>6
  <2>2. Calm' => unsent' = <<>>
    BY <1>9 DEF SystemInv, TakenInv
  <2> QED BY <1>9, <2>1, <2>2 DEF TakenInv
<1>13. DoneInv'
  <2>1. ASSUME NEW k \in Ids', jobs'[k].status = "done" PROVE k \in installed'
    <3>1. k # j /\ jobs[k].status = "done"
      BY <1>3, <2>1
    <3> QED BY <1>3, <3>1 DEF SystemInv, DoneInv
  <2>2. phase' \in {"ok", "success"} => current' \in installed'
    BY <1>6 DEF SystemInv, DoneInv
  <2>3. \A i \in DOMAIN unsent' : unsent'[i].ok => unsent'[i].job \in installed'
    BY DEF SystemInv, DoneInv
  <2> QED BY <2>1, <2>2, <2>3 DEF DoneInv
<1>14. KeptInv'
  <2>1. \A k : Owes(k)' <=> Owes(k)
    BY DEF Owes
  <2>2. ASSUME spent'.resume = 0, NEW k \in Ids', Holds(k)' \/ k \in installed'
        PROVE  jobs'[k].status # "queued"
    <3>1. CASE k = j
      BY <1>3, <3>1
    <3>2. CASE k # j
      <4>1. Holds(k) \/ k \in installed
        BY <2>2, <3>2, <1>6
      <4>2. jobs[k].status # "queued"
        BY <1>3, <2>2, <4>1 DEF SystemInv, KeptInv
      <4> QED BY <1>3, <3>2, <4>2
    <3> QED BY <3>1, <3>2
  <2>3. ASSUME Unbroken', NEW k \in installed', jobs'[k].status \in Reportable
        PROVE  Owes(k)' \/ Live(k)'
    <3>1. CASE k = j
      BY <3>1, <1>6
    <3>2. CASE k # j
      <4>1. k \in installed /\ k \in Ids
        BY <1>1
      <4>2. jobs[k].status \in Reportable
        BY <1>3, <2>3, <3>2, <4>1
      <4>3. Owes(k) \/ Live(k)
        BY <1>9, <2>3, <4>1, <4>2 DEF SystemInv, KeptInv
      <4> QED BY <4>3, <2>1, <1>6
    <3> QED BY <3>1, <3>2
  <2> QED BY <1>9, <2>2, <2>3 DEF KeptInv, SystemInv
<1> QED BY <1>8, <1>10, <1>11, <1>12, <1>13, <1>14 DEF SystemInv

LEMMA ClaimAndInstallKeeps ==
    ASSUME SystemInv, NEW j \in Jobs, ClaimAndInstall(j)
    PROVE  SystemInv'
<1>1. /\ step \in {"events", "claim"} /\ page # <<>> /\ NextEvent
      /\ UNCHANGED <<up, cursor, unsent, installed>>
      /\ \/ shown' = shown \cup {j} /\ UNCHANGED <<tableVars, installVars, spent>>
         \/ /\ ~Holds(j) /\ Authorised /\ ClaimJob(Console, j) /\ EnqueueClaimed(j)
            /\ shown' = shown \ {j} /\ UNCHANGED spent
         \/ /\ Spend("loss") /\ (UNCHANGED tableVars \/ (Authorised /\ ClaimJob(Console, j)))
            /\ shown' = shown \cup {j} /\ UNCHANGED installVars
  BY DEF ClaimAndInstall, AlreadyHeld, sessionVars
<1>2. shown \subseteq Jobs /\ cancel \in BOOLEAN
  BY InvShapes DEF SessionShapes
<1>3. CASE shown' = shown \cup {j} /\ UNCHANGED <<tableVars, installVars, spent>>
  <2>1. SameWork /\ UNCHANGED tableVars /\ UNCHANGED <<spent, cancel>> /\ shown' \subseteq Jobs
    BY <1>1, <1>2, <1>3 DEF SameWork, installVars
  <2>2. /\ SessionShapes' /\ up /\ up'
        /\ page' # <<>> <=> step' \in {"events", "claim"}
        /\ step' = "flush" => unsent' # <<>>
    BY <1>1, <1>2, <2>1, NextEventShapes
  <2>3. SpentMore /\ TableFacts /\ TableShapes'
    BY <2>1, InvShapes, SpendingGrows, TableUnchanged
  <2>4. SystemPhases'
    BY <2>1, <2>2, InvShapes DEF SystemPhases, Installing, SameWork
  <2> QED BY <2>1, <2>2, <2>3, <2>4, SameWorkKeeps
<1>4. CASE /\ ~Holds(j) /\ Authorised /\ ClaimJob(Console, j) /\ EnqueueClaimed(j)
           /\ shown' = shown \ {j} /\ UNCHANGED spent
  <2>1. shown' \subseteq shown /\ UNCHANGED <<up, cursor, unsent, installed, spent>>
    BY <1>1, <1>4
  <2> QED BY <1>1, <1>4, <2>1, ClaimedKeeps
<1>5. CASE /\ Spend("loss") /\ (UNCHANGED tableVars \/ (Authorised /\ ClaimJob(Console, j)))
           /\ shown' = shown \cup {j} /\ UNCHANGED installVars
  <2>1. SameWork /\ cancel' = cancel /\ shown' \subseteq Jobs
    BY <1>1, <1>2, <1>5 DEF SameWork, installVars
  <2>2. /\ SessionShapes' /\ up /\ up'
        /\ page' # <<>> <=> step' \in {"events", "claim"}
        /\ step' = "flush" => unsent' # <<>>
    BY <1>1, <1>2, <2>1, NextEventShapes
  <2>3. SpentMore /\ spent'["loss"] # 0
    <3>1. Spend("loss") /\ "loss" \in DOMAIN Budget /\ SystemShapes
      BY <1>5, InvShapes DEF Budget
    <3> QED BY <3>1, SpendingGrows
  <2>4. spent'.loss # 0
    BY <2>3
  <2>5. TableFacts /\ TableShapes'
    <3>1. CASE UNCHANGED tableVars
      BY <3>1, TableUnchanged
    <3>2. CASE Authorised /\ ClaimJob(Console, j)
      <4>1. /\ TableShapes' /\ j \in Ids /\ revoked' = revoked
            /\ jobs[j].status \in {"queued", "interrupted"} /\ StatusMoves({j}, "claimed")
        BY <3>2, InvShapes, ClaimMoves
      <4>2. Authorised'
        BY <3>2, <4>1 DEF Authorised
      <4> QED BY <2>4, <4>1, <4>2, MovesAreFacts
    <3> QED BY <1>5, <3>1, <3>2
  <2>6. SystemPhases'
    BY <2>1, <2>2, InvShapes DEF SystemPhases, Installing, SameWork
  <2> QED BY <2>1, <2>2, <2>3, <2>5, <2>6, SameWorkKeeps
<1> QED BY <1>1, <1>3, <1>4, <1>5

-----------------------------------------------------------------------------
(* The invariant. *)

LEMMA InitSystemInv == Init => SystemInv
<1> SUFFICES ASSUME Init PROVE SystemInv
  OBVIOUS
<1>1. /\ jobs = <<>> /\ nextId = 1 /\ revoked = {} /\ recent = {} /\ log = EmptyLog
      /\ up = FALSE /\ cursor = NoCursor /\ current = NoJob /\ phase = "idle" /\ cancel = FALSE
      /\ pending = <<>> /\ unsent = <<>> /\ shown = {} /\ page = <<>> /\ step = "rest"
      /\ installed = {} /\ spent = [kind \in DOMAIN Budget |-> 0]
  BY DEF Init, TableInit
<1>2. Ids = {} /\ DOMAIN pending = {} /\ DOMAIN unsent = {}
  BY <1>1
<1>3. TableOK /\ log.head <= MaxHead
  <2>1. nextId \in 1..(MaxJobs + 1)
    BY <1>1, TableBoundsAssumption
  <2>2. LogOK(log) /\ DOMAIN log.at = {} /\ log.head = 0
    BY <1>1, EmptyLogOK DEF EmptyLog
  <2> QED BY <1>1, <1>2, <2>1, <2>2, TableBoundsAssumption DEF TableOK
<1>4. Waiting = {} /\ \A k : ~Holds(k)
  BY <1>1, <1>2 DEF Waiting, Holds, Installing
<1>5. pending \in Seq(Jobs) /\ unsent \in Seq([job : Jobs, ok : BOOLEAN]) /\ page \in Seq(Entries)
  BY <1>1
<1>6. spent \in [DOMAIN Budget -> Nat]
  BY <1>1
<1>7. SystemShapes
  BY <1>1, <1>2, <1>3, <1>4, <1>5, <1>6 DEF SystemShapes, Phases, Steps
<1>8. SystemPhases /\ HoldsEachJobOnce
  BY <1>1, <1>2, <1>4 DEF SystemPhases, Installing, HoldsEachJobOnce
<1>9. TakenInv /\ DoneInv /\ KeptInv
  BY <1>1, <1>2 DEF TakenInv, DoneInv, KeptInv, Authorised
<1> QED BY <1>7, <1>8, <1>9 DEF SystemInv

LEMMA NextKeepsInv == SystemInv /\ [Next]_vars => SystemInv'
<1> SUFFICES ASSUME SystemInv, [Next]_vars PROVE SystemInv'
  OBVIOUS
<1>1. CASE ConsoleStep
  <2>1. CASE \E j \in Jobs : ClaimAndInstall(j) \/ CancelEvent(j)
    BY <2>1, ClaimAndInstallKeeps, CancelEventKeeps
  <2>2. CASE ResultGoes("success")
    BY <2>2, ResultGoesKeeps
  <2> QED BY <1>1, <2>1, <2>2, StartSessionKeeps, PollKeeps, SidePollKeeps, ForgetDeviceKeeps,
             SideReportKeeps, FlushKeeps, EngineKeeps, SendCompleteKeeps DEF ConsoleStep
<1>2. CASE PersonStep
  <2>1. CASE ResultGoes("failure")
    BY <2>1, ResultGoesKeeps
  <2> QED BY <1>2, <2>1, InstallFromConsoleKeeps, PersonKeeps DEF PersonStep
<1>3. CASE ConsoleCrash
  BY <1>3, ConsoleCrashKeeps
<1>4. CASE ServerStep \/ Clock
  BY <1>4, WebRequestKeeps, ServerKeeps DEF ServerStep
<1>5. CASE UNCHANGED vars
  <2>1. SameWork /\ UNCHANGED tableVars /\ UNCHANGED <<up, cancel, cursor, page, step, shown, spent>>
    BY <1>5 DEF vars, sessionVars, installVars, inboxVars, SameWork
  <2>2. SpentMore /\ TableFacts /\ TableShapes'
    BY <2>1, InvShapes, SpendingGrows, TableUnchanged
  <2>3. SessionShapes' /\ SystemPhases'
    BY <2>1, InvShapes DEF SessionShapes, SystemPhases, Installing, SameWork
  <2> QED BY <2>1, <2>2, <2>3, SameWorkKeeps
<1> QED BY <1>1, <1>2, <1>3, <1>4, <1>5 DEF Next

(* The invariant holds in every state of the system. *)
THEOREM SystemInductive == Spec => []SystemInv
<1>1. Init => SystemInv
  BY InitSystemInv
<1>2. SystemInv /\ [Next]_vars => SystemInv'
  BY NextKeepsInv
<1> QED BY <1>1, <1>2, PTL DEF Spec

-----------------------------------------------------------------------------
(* The properties the runs check. *)

(* The members of the console's session keep their types and fit together
   (Session's members and install_jobs). *)
THEOREM SystemIsTyped == Spec => []TypeOK
<1>1. SystemInv => TypeOK
  <2> SUFFICES ASSUME SystemInv PROVE TypeOK
    OBVIOUS
  <2>1. Ids \subseteq Jobs
    BY InvShapes
  <2>2. \A i \in DOMAIN unsent : unsent[i] \in [job : Jobs, ok : BOOLEAN]
    <3>1. unsent \in Seq(Outcomes)
      BY DEF SystemInv, SystemShapes, Outcomes
    <3>2. \A i \in DOMAIN unsent : unsent[i] \in Outcomes
      BY <3>1
    <3> QED BY <3>2 DEF Outcomes
  <2>3. \A i \in DOMAIN page : page[i] \in Entries
    <3>1. page \in Seq(Entries)
      BY InvShapes DEF SessionShapes
    <3> QED BY <3>1
  <2>4. /\ Installing <=> current # NoJob
        /\ ~Installing => pending = <<>>
        /\ ~up => ~Installing /\ step = "rest"
        /\ page # <<>> <=> step \in {"events", "claim"}
        /\ step = "flush" => unsent # <<>>
    BY DEF SystemInv, SystemPhases
  <2>5. /\ TableOK /\ log.head <= MaxHead /\ up \in BOOLEAN /\ cancel \in BOOLEAN
        /\ cursor \in Nat \cup {NoCursor} /\ current \in Jobs \cup {NoJob}
        /\ phase \in Phases /\ step \in Steps /\ Waiting \subseteq Jobs
        /\ shown \subseteq Jobs /\ installed \subseteq Jobs
        /\ spent \in [DOMAIN Budget -> Nat]
    BY <2>1 DEF SystemInv, SystemShapes
  <2> QED BY <2>2, <2>3, <2>4, <2>5 DEF TypeOK
<1> QED BY <1>1, SystemInductive, PTL

(* However often a job is offered, the console never has it twice
   (claimAndInstall, enqueueClaimed, pump). *)
THEOREM JobsAreHeldOnce == Spec => []HoldsEachJobOnce
<1>1. SystemInv => HoldsEachJobOnce
  BY DEF SystemInv
<1> QED BY <1>1, SystemInductive, PTL

(* While nothing is lost and the app does not crash, a job the server shows
   as taken is one the console holds or whose outcome it still has to send. *)
THEOREM TakenJobsAreNotStranded == Spec => []TakenJobsAreHeld
<1>1. SystemInv => TakenJobsAreHeld
  BY DEF SystemInv, TakenInv, TakenJobsAreHeld, Calm, HasStatus, Live
<1> QED BY <1>1, SystemInductive, PTL

(* The history shows an install as done only if it took place, whatever is
   lost, late, repeated or resumed. *)
THEOREM TheHistoryIsTrue == Spec => []DoneMeansInstalled
<1>1. SystemInv => DoneMeansInstalled
  BY DEF SystemInv, DoneInv, DoneMeansInstalled, HasStatus
<1> QED BY <1>1, SystemInductive, PTL

(* Lost messages and restarts of the server do not make the console forget
   what it installed: it keeps the outcome until the server has it. *)
THEOREM OutcomesAreNotForgotten == Spec => []OutcomesAreKept
<1>1. SystemInv => OutcomesAreKept
  BY DEF SystemInv, KeptInv, OutcomesAreKept, Unbroken, HasStatus, Live
<1> QED BY <1>1, SystemInductive, PTL
=============================================================================
