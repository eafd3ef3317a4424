-------------------------- MODULE Compression_proofs --------------------------
(***************************************************************************)
(* Theorems about Compression, for any versions, any number of tasks,      *)
(* rows, changes and restarts, about the encoder it packs with             *)
(* (NczEncoder), for any number of blocks and workers, and about the       *)
(* library whose files it packs (Library), for any paths, stamps, batches  *)
(* and numbers of key uploads and changes, and what is shown and offered   *)
(* of it (Titles), for any files, metas and titledb, in any order of rows. *)
(***************************************************************************)
EXTENDS Compression, NczEncoder, Library, Titles, SequenceTheorems, FiniteSetTheorems, WellFoundedInduction, TLAPS

-----------------------------------------------------------------------------
(* The inductive invariant. *)

Writing == {"packing", "naming", "renaming"}
NotYetPlaced == {"preparing", "locating", "opening"} \cup Writing

(* The run's task is under way, and its partial file holds what it read. *)
RunInv ==
    /\ ~At("idle") => tasks[run.task].state \in {"running", "cancelled"}
    /\ run.pc \in Writing => run.read \in Versions /\ partial \in {run.read, Gone}

(* An NSZ nobody has touched is where it was put; one that is about to be put there is alone. *)
KeptInv ==
    /\ \A t \in Tasks : tasks[t].kept => tasks[t].packed \in Versions /\ nsz = tasks[t].packed
    /\ At("renaming") => \A t \in Tasks : ~tasks[t].kept
    /\ At("renaming") /\ ~named => nsz = Gone

(* What a removal found stays so, but for what is known to have happened behind its back. *)
RemovalInv(w) ==
    LET t == removers[w].task
    IN /\ tasks[t].state # "queued"
       /\ run.pc \in NotYetPlaced => t # run.task
       /\ removers[w].pc \in {"looking", "removing"} /\ "install" \notin late[w] => tasks[t].file \notin wanted
       /\ removers[w].pc = "removing" /\ "original" \notin late[w] => nsp \in {tasks[t].located, Gone}

RemoversInv == \A w \in Removers : removers[w].pc # "none" => RemovalInv(w)

IInv == TypeOK /\ RunInv /\ KeptInv /\ RemoversInv

USE DEF At

-----------------------------------------------------------------------------
(* How the list of tasks changes. *)

(* No task is about another file, or about another compression of it. *)
SameWork ==
    \A u \in Tasks :
        /\ tasks'[u].file = tasks[u].file /\ tasks'[u].located = tasks[u].located
        /\ tasks'[u].packed = tasks[u].packed /\ tasks'[u].kept = tasks[u].kept

(* Writing one entry leaves the others and the length of the list. *)
LEMMA SetTask ==
    ASSUME TypeOK, NEW t \in Tasks, NEW e \in TaskSet, tasks' = [tasks EXCEPT ![t] = e]
    PROVE  /\ tasks' \in Seq(TaskSet)
           /\ Tasks' = Tasks
           /\ \A u \in Tasks : tasks'[u] = IF u = t THEN e ELSE tasks[u]
<1>1. tasks \in Seq(TaskSet) /\ t \in 1..Len(tasks)
  BY DEF TypeOK, Tasks
<1> QED BY <1>1, ExceptSeq DEF Tasks

(* What a cancel does to the tasks. *)
LEMMA CancelledOK ==
    ASSUME TypeOK, NEW t \in Tasks,
           tasks' = [tasks EXCEPT ![t] = [@ EXCEPT !.state = "cancelled", !.aborted = TRUE]]
    PROVE  /\ tasks' \in Seq(TaskSet)
           /\ Tasks' = Tasks
           /\ SameWork
           /\ \A u \in Tasks : tasks'[u].state = IF u = t THEN "cancelled" ELSE tasks[u].state
<1> DEFINE e == [tasks[t] EXCEPT !.state = "cancelled", !.aborted = TRUE]
<1>1. tasks[t] \in TaskSet
  BY ElementOfSeq DEF TypeOK, Tasks
<1>2. /\ e \in TaskSet
      /\ e.file = tasks[t].file /\ e.located = tasks[t].located
      /\ e.packed = tasks[t].packed /\ e.kept = tasks[t].kept /\ e.state = "cancelled"
  BY <1>1 DEF TaskSet, States
<1>3. tasks' = [tasks EXCEPT ![t] = e]
  OBVIOUS
<1> HIDE DEF e
<1>4. /\ tasks' \in Seq(TaskSet)
      /\ Tasks' = Tasks
      /\ \A u \in Tasks : tasks'[u] = IF u = t THEN e ELSE tasks[u]
  BY <1>2, <1>3, SetTask, ZenonT(40)
<1> QED BY <1>2, <1>4 DEF SameWork

(* What Told does to the tasks. *)
LEMMA ToldOK ==
    ASSUME TypeOK, NEW t \in Tasks, NEW s \in States, tasks' = Told(t, s)
    PROVE  /\ tasks' \in Seq(TaskSet)
           /\ Tasks' = Tasks
           /\ SameWork
           /\ \A u \in Tasks : tasks'[u].state = IF u = t /\ tasks[u].state # "cancelled" THEN s ELSE tasks[u].state
<1> DEFINE x == IF tasks[t].state = "cancelled" THEN tasks[t].state ELSE s
           e == [tasks[t] EXCEPT !.state = x]
<1>1. tasks[t] \in TaskSet
  BY ElementOfSeq DEF TypeOK, Tasks
<1>2. tasks' = [tasks EXCEPT ![t] = e]
  BY DEF Told
<1>3. x \in States
  BY <1>1 DEF TaskSet
<1> HIDE DEF x
<1>4. /\ e \in TaskSet
      /\ e.file = tasks[t].file /\ e.located = tasks[t].located
      /\ e.packed = tasks[t].packed /\ e.kept = tasks[t].kept /\ e.state = x
  BY <1>1, <1>3 DEF TaskSet
<1> HIDE DEF e
<1>5. /\ tasks' \in Seq(TaskSet)
      /\ Tasks' = Tasks
      /\ \A u \in Tasks : tasks'[u] = IF u = t THEN e ELSE tasks[u]
  BY <1>2, <1>4, SetTask
<1> QED BY <1>4, <1>5 DEF x, SameWork

(* A new task comes after the others. *)
LEMMA StartOK ==
    ASSUME TypeOK, NEW i \in Ids, tasks' = Append(tasks, NewTask(i))
    PROVE  /\ tasks' \in Seq(TaskSet)
           /\ Len(tasks) + 1 \notin Tasks
           /\ Tasks' = Tasks \cup {Len(tasks) + 1}
           /\ \A u \in Tasks : tasks'[u] = tasks[u]
           /\ tasks'[Len(tasks) + 1] = NewTask(i)
<1>1. tasks \in Seq(TaskSet) /\ Len(tasks) \in Nat
  BY LenProperties DEF TypeOK
<1>2. NewTask(i) \in TaskSet
  BY DEF NewTask, TaskSet, States, Found
<1> HIDE DEF NewTask
<1>3. /\ tasks' \in Seq(TaskSet) /\ Len(tasks') = Len(tasks) + 1
      /\ \A u \in 1..Len(tasks) : tasks'[u] = tasks[u]
      /\ tasks'[Len(tasks) + 1] = NewTask(i)
  BY <1>1, <1>2, AppendProperties
<1> QED BY <1>1, <1>3 DEF Tasks

(* The run's NSZ comes into place. *)
LEMMA PlacedOK ==
    ASSUME TypeOK, run.task \in Tasks,
           tasks' = [tasks EXCEPT ![run.task] =
                        [@ EXCEPT !.located = run.located, !.packed = run.read, !.kept = TRUE]]
    PROVE  /\ tasks' \in Seq(TaskSet)
           /\ Tasks' = Tasks
           /\ \A u \in Tasks \ {run.task} : tasks'[u] = tasks[u]
           /\ tasks'[run.task].kept /\ tasks'[run.task].packed = run.read
           /\ tasks'[run.task].located = run.located
           /\ tasks'[run.task].state = tasks[run.task].state
           /\ tasks'[run.task].file = tasks[run.task].file
<1> DEFINE t == run.task
           e == [tasks[t] EXCEPT !.located = run.located, !.packed = run.read, !.kept = TRUE]
<1>1. tasks[t] \in TaskSet
  BY ElementOfSeq DEF TypeOK, Tasks
<1>2. run.located \in Found /\ run.read \in Found
  BY DEF TypeOK
<1>3. /\ e \in TaskSet
      /\ e.kept /\ e.packed = run.read /\ e.located = run.located
      /\ e.state = tasks[t].state /\ e.file = tasks[t].file
  BY <1>1, <1>2 DEF TaskSet
<1>4. tasks' = [tasks EXCEPT ![t] = e]
  OBVIOUS
<1> HIDE DEF e, t
<1>5. t \in Tasks
  BY DEF t
<1>6. /\ tasks' \in Seq(TaskSet)
      /\ Tasks' = Tasks
      /\ \A u \in Tasks : tasks'[u] = IF u = t THEN e ELSE tasks[u]
  BY <1>3, <1>4, <1>5, SetTask
<1> QED BY <1>3, <1>5, <1>6 DEF t

(* The end of a removal, as far as the tasks go. *)
LEMMA LeavesOK ==
    ASSUME TypeOK, NEW t \in Tasks, NEW gone \in BOOLEAN,
           tasks' = [tasks EXCEPT ![t].removed = @ \/ gone]
    PROVE  /\ tasks' \in Seq(TaskSet)
           /\ Tasks' = Tasks
           /\ SameWork
           /\ \A u \in Tasks : tasks'[u].state = tasks[u].state
<1> DEFINE b == tasks[t].removed \/ gone
           e == [tasks[t] EXCEPT !.removed = b]
<1>1. tasks[t] \in TaskSet
  BY ElementOfSeq DEF TypeOK, Tasks
<1>2. b \in BOOLEAN
  OBVIOUS
<1>3. tasks' = [tasks EXCEPT ![t] = e]
  OBVIOUS
<1> HIDE DEF b
<1>4. /\ e \in TaskSet
      /\ e.file = tasks[t].file /\ e.located = tasks[t].located
      /\ e.packed = tasks[t].packed /\ e.kept = tasks[t].kept /\ e.state = tasks[t].state
  BY <1>1, <1>2 DEF TaskSet
<1> HIDE DEF e
<1>5. /\ tasks' \in Seq(TaskSet)
      /\ Tasks' = Tasks
      /\ \A u \in Tasks : tasks'[u] = IF u = t THEN e ELSE tasks[u]
  BY <1>3, <1>4, SetTask, ZenonT(40)
<1> QED BY <1>4, <1>5 DEF SameWork

(* People touched the NSZ. *)
LEMMA TouchedOK ==
    ASSUME TypeOK, tasks' = [t \in Tasks |-> [tasks[t] EXCEPT !.kept = FALSE]]
    PROVE  /\ tasks' \in Seq(TaskSet)
           /\ Tasks' = Tasks
           /\ \A u \in Tasks :
                  /\ tasks'[u].file = tasks[u].file /\ tasks'[u].located = tasks[u].located
                  /\ tasks'[u].packed = tasks[u].packed /\ tasks'[u].state = tasks[u].state
                  /\ ~tasks'[u].kept
<1> DEFINE e(t) == [tasks[t] EXCEPT !.kept = FALSE]
<1>1. \A t \in Tasks : tasks[t] \in TaskSet
  BY ElementOfSeq DEF TypeOK, Tasks
<1>2. \A t \in Tasks :
          /\ e(t) \in TaskSet
          /\ e(t).file = tasks[t].file /\ e(t).located = tasks[t].located
          /\ e(t).packed = tasks[t].packed /\ e(t).state = tasks[t].state /\ ~e(t).kept
  BY <1>1 DEF TaskSet
<1>3. Len(tasks) \in Nat
  BY LenProperties DEF TypeOK
<1>4. tasks' = [t \in 1..Len(tasks) |-> e(t)]
  BY DEF Tasks
<1> HIDE DEF e
<1>5. tasks' \in [1..Len(tasks) -> TaskSet]
  BY <1>2, <1>4 DEF Tasks
<1>6. tasks' \in Seq(TaskSet) /\ Len(tasks') = Len(tasks)
  BY <1>3, <1>5
<1> QED BY <1>2, <1>4, <1>6 DEF Tasks

-----------------------------------------------------------------------------
(* The types. *)

(* A run and a removal that are under way have a task. *)
LEMMA UnderWay ==
    ASSUME TypeOK
    PROVE  /\ None \notin Tasks
           /\ ~At("idle") => run.task \in Tasks
           /\ \A w \in Removers : removers[w].pc # "none" => removers[w].task \in Tasks
           /\ \A t \in Tasks : tasks[t] \in TaskSet
<1>1. Len(tasks) \in Nat
  BY LenProperties DEF TypeOK
<1>2. None \notin Tasks
  BY <1>1, CompressionAssumption DEF Tasks
<1>3. \A t \in Tasks : tasks[t] \in TaskSet
  BY ElementOfSeq DEF TypeOK, Tasks
<1> QED BY <1>2, <1>3 DEF TypeOK

(* The parts of TypeOK. *)
DiskType == nsp \in Found /\ partial \in Found /\ nsz \in Found \cup {Foreign}
RowType ==
    /\ lastId \in Ids /\ wanted \subseteq Ids
    /\ row \subseteq [id : Ids, missing : BOOLEAN, meta : Found] /\ \A r, o \in row : r = o
RunType ==
    /\ run \in [pc : Steps \cup {"idle"}, task : Tasks \cup {None}, expected : Found, located : Found, read : Found]
    /\ At("idle") <=> run.task = None
RemoverType ==
    /\ removers \in [Removers -> [pc : {"none", "looking", "removing", "forgetting"}, task : Tasks \cup {None}]]
    /\ \A w \in Removers : removers[w].pc = "none" <=> removers[w].task = None
    /\ removers["run"].pc # "none" <=> At("removing")
OneRuns == \A t \in Tasks : tasks[t].state = "running" => run.task = t
PartialHasOwner == partial # Gone => run.pc \in Writing \/ ~swept
HistoryType ==
    /\ late \in [Removers -> SUBSET {"install", "original"}]
    /\ swept \in BOOLEAN /\ named \in BOOLEAN /\ edits \in 0..MaxEdits /\ restarts \in 0..MaxRestarts

(* TypeOK, cut into the parts the lemmas below establish one by one. *)
LEMMA TypeParts ==
    TypeOK <=> /\ DiskType /\ RowType /\ tasks \in Seq(TaskSet) /\ RunType /\ RemoverType
               /\ OneRuns /\ PartialHasOwner /\ HistoryType
BY DEF TypeOK, DiskType, RowType, RunType, RemoverType, OneRuns, PartialHasOwner, HistoryType, Writing

(* The initial state has the types. *)
LEMMA InitType == Init => TypeOK
<1> SUFFICES ASSUME Init PROVE TypeOK
  OBVIOUS
<1>1. tasks \in Seq(TaskSet) /\ Tasks = {}
  BY DEF Init, Tasks
<1>2. lastId \in Ids /\ wanted \subseteq Ids /\ row \subseteq [id : Ids, missing : BOOLEAN, meta : Found]
  BY CompressionAssumption DEF Init, Ids, Found
<1>3. run \in [pc : Steps \cup {"idle"}, task : Tasks \cup {None}, expected : Found, located : Found, read : Found]
  BY DEF Init, NoRun, Found
<1>4. DiskType /\ RowType
  BY <1>2 DEF Init, DiskType, RowType, Found
<1>5. RunType /\ RemoverType /\ OneRuns /\ PartialHasOwner
  BY <1>1, <1>3 DEF Init, RunType, RemoverType, OneRuns, PartialHasOwner, NoRun, NoRemoval, Removers
<1>6. MaxEdits \in Nat /\ MaxRestarts \in Nat
  BY CompressionAssumption
<1>7. HistoryType
  <2>1. late = [w \in Removers |-> {}] /\ swept = TRUE /\ named = FALSE /\ edits = 0 /\ restarts = 0
    BY DEF Init
  <2>2. late \in [Removers -> SUBSET {"install", "original"}]
    BY <2>1
  <2>3. edits \in 0..MaxEdits /\ restarts \in 0..MaxRestarts
    BY <1>6, <2>1
  <2> QED BY <2>1, <2>2, <2>3 DEF HistoryType
<1> QED BY <1>1, <1>4, <1>5, <1>7, TypeParts

(* Which actions change what. *)
LEMMA WhoChanges ==
    ASSUME [Next]_vars
    PROVE  /\ UNCHANGED nsp \/ Unlink \/ ChangeNsp
           /\ UNCHANGED nsz \/ PutInPlace \/ ChangeNsz
           /\ UNCHANGED partial \/ Open \/ PackFails \/ CheckName \/ PutInPlace \/ RemoveLeftovers
           /\ UNCHANGED row \/ Forget \/ Scanner \/ LosesRow
           /\ UNCHANGED lastId \/ Scanner
           /\ UNCHANGED wanted \/ QueueInstall \/ InstallEnds
           /\ UNCHANGED tasks \/ Start \/ Cancel \/ RunBegins \/ Prepare \/ Locate \/ Open \/
                  PackFails \/ CheckName \/ PutInPlace \/ Finish \/ Look \/ Unlink \/ Forget \/
                  Restart \/ ChangeNsz
           /\ UNCHANGED run \/ RunBegins \/ Prepare \/ Locate \/ Open \/ Pack \/ PackFails \/
                  CheckName \/ PutInPlace \/ Finish \/ RunRemoves \/ Look \/ Unlink \/ Forget \/
                  Restart
           /\ UNCHANGED removers \/ RunRemoves \/ RequestRemoves \/ Look \/ Unlink \/ Forget \/
                  Restart
           /\ UNCHANGED swept \/ Restart \/ RemoveLeftovers
           /\ UNCHANGED late \/ QueueInstall \/ RunRemoves \/ RequestRemoves \/ Restart \/ ChangeNsp
           /\ UNCHANGED named \/ CheckName \/ ChangeNsz
           /\ UNCHANGED edits \/ LosesRow \/ ChangeNsp \/ ChangeNsz
           /\ UNCHANGED restarts \/ Restart
<1>1. UNCHANGED nsp \/ Unlink \/ ChangeNsp
  BY DEF Next, Requests, Run, Removal, Others, vars, files, database, memory, history, Start,
     Cancel, QueueInstall, InstallEnds, RunBegins, Prepare, Locate, Open, Pack, PackFails,
     CheckName, PutInPlace, Finish, RunRemoves, RequestRemoves, Look, Forget, Scanner, LosesRow,
     Restart, RemoveLeftovers, ChangeNsz
<1>2. UNCHANGED nsz \/ PutInPlace \/ ChangeNsz
  BY DEF Next, Requests, Run, Removal, Others, vars, files, database, memory, history, Start,
     Cancel, QueueInstall, InstallEnds, RunBegins, Prepare, Locate, Open, Pack, PackFails,
     CheckName, Finish, RunRemoves, RequestRemoves, Look, Unlink, Forget, Scanner, LosesRow,
     Restart, RemoveLeftovers, ChangeNsp
<1>3. UNCHANGED partial \/ Open \/ PackFails \/ CheckName \/ PutInPlace \/ RemoveLeftovers
  BY DEF Next, Requests, Run, Removal, Others, vars, files, database, memory, history, Start,
     Cancel, QueueInstall, InstallEnds, RunBegins, Prepare, Locate, Pack, Finish, RunRemoves,
     RequestRemoves, Look, Unlink, Forget, Scanner, LosesRow, Restart, ChangeNsp, ChangeNsz
<1>4. UNCHANGED row \/ Forget \/ Scanner \/ LosesRow
  BY DEF Next, Requests, Run, Removal, Others, vars, files, database, memory, history, Start,
     Cancel, QueueInstall, InstallEnds, RunBegins, Prepare, Locate, Open, Pack, PackFails,
     CheckName, PutInPlace, Finish, RunRemoves, RequestRemoves, Look, Unlink, Restart,
     RemoveLeftovers, ChangeNsp, ChangeNsz
<1>5. UNCHANGED lastId \/ Scanner
  BY DEF Next, Requests, Run, Removal, Others, vars, files, database, memory, history, Start,
     Cancel, QueueInstall, InstallEnds, RunBegins, Prepare, Locate, Open, Pack, PackFails,
     CheckName, PutInPlace, Finish, RunRemoves, RequestRemoves, Look, Unlink, Forget, LosesRow,
     Restart, RemoveLeftovers, ChangeNsp, ChangeNsz
<1>6. UNCHANGED wanted \/ QueueInstall \/ InstallEnds
  BY DEF Next, Requests, Run, Removal, Others, vars, files, database, memory, history, Start,
     Cancel, RunBegins, Prepare, Locate, Open, Pack, PackFails, CheckName, PutInPlace, Finish,
     RunRemoves, RequestRemoves, Look, Unlink, Forget, Scanner, LosesRow, Restart, RemoveLeftovers,
     ChangeNsp, ChangeNsz
<1>7. UNCHANGED tasks \/ Start \/ Cancel \/ RunBegins \/ Prepare \/ Locate \/ Open \/ PackFails \/
       CheckName \/ PutInPlace \/ Finish \/ Look \/ Unlink \/ Forget \/ Restart \/ ChangeNsz
  BY DEF Next, Requests, Run, Removal, Others, vars, files, database, memory, history, QueueInstall,
     InstallEnds, Pack, RunRemoves, RequestRemoves, Scanner, LosesRow, RemoveLeftovers, ChangeNsp
<1>8. UNCHANGED run \/ RunBegins \/ Prepare \/ Locate \/ Open \/ Pack \/ PackFails \/ CheckName \/
       PutInPlace \/ Finish \/ RunRemoves \/ Look \/ Unlink \/ Forget \/ Restart
  BY DEF Next, Requests, Run, Removal, Others, vars, files, database, memory, history, Start,
     Cancel, QueueInstall, InstallEnds, RequestRemoves, Scanner, LosesRow, RemoveLeftovers,
     ChangeNsp, ChangeNsz
<1>9. UNCHANGED removers \/ RunRemoves \/ RequestRemoves \/ Look \/ Unlink \/ Forget \/ Restart
  BY DEF Next, Requests, Run, Removal, Others, vars, files, database, memory, history, Start,
     Cancel, QueueInstall, InstallEnds, RunBegins, Prepare, Locate, Open, Pack, PackFails,
     CheckName, PutInPlace, Finish, Scanner, LosesRow, RemoveLeftovers, ChangeNsp, ChangeNsz
<1>10. UNCHANGED swept \/ Restart \/ RemoveLeftovers
  BY DEF Next, Requests, Run, Removal, Others, vars, files, database, memory, history, Start,
     Cancel, QueueInstall, InstallEnds, RunBegins, Prepare, Locate, Open, Pack, PackFails,
     CheckName, PutInPlace, Finish, RunRemoves, RequestRemoves, Look, Unlink, Forget, Scanner,
     LosesRow, ChangeNsp, ChangeNsz
<1>11. UNCHANGED late \/ QueueInstall \/ RunRemoves \/ RequestRemoves \/ Restart \/ ChangeNsp
  BY DEF Next, Requests, Run, Removal, Others, vars, files, database, memory, history, Start,
     Cancel, InstallEnds, RunBegins, Prepare, Locate, Open, Pack, PackFails, CheckName, PutInPlace,
     Finish, Look, Unlink, Forget, Scanner, LosesRow, RemoveLeftovers, ChangeNsz
<1>12. UNCHANGED named \/ CheckName \/ ChangeNsz
  BY DEF Next, Requests, Run, Removal, Others, vars, files, database, memory, history, Start,
     Cancel, QueueInstall, InstallEnds, RunBegins, Prepare, Locate, Open, Pack, PackFails,
     PutInPlace, Finish, RunRemoves, RequestRemoves, Look, Unlink, Forget, Scanner, LosesRow,
     Restart, RemoveLeftovers, ChangeNsp
<1>13. UNCHANGED edits \/ LosesRow \/ ChangeNsp \/ ChangeNsz
  BY DEF Next, Requests, Run, Removal, Others, vars, files, database, memory, history, Start,
     Cancel, QueueInstall, InstallEnds, RunBegins, Prepare, Locate, Open, Pack, PackFails,
     CheckName, PutInPlace, Finish, RunRemoves, RequestRemoves, Look, Unlink, Forget, Scanner,
     Restart, RemoveLeftovers
<1>14. UNCHANGED restarts \/ Restart
  BY DEF Next, Requests, Run, Removal, Others, vars, files, database, memory, history, Start,
     Cancel, QueueInstall, InstallEnds, RunBegins, Prepare, Locate, Open, Pack, PackFails,
     CheckName, PutInPlace, Finish, RunRemoves, RequestRemoves, Look, Unlink, Forget, Scanner,
     LosesRow, RemoveLeftovers, ChangeNsp, ChangeNsz
<1> QED BY <1>1, <1>2, <1>3, <1>4, <1>5, <1>6, <1>7, <1>8, <1>9, <1>10, <1>11, <1>12, <1>13, <1>14

(* A run that fails is over; its task says so, or goes on saying it was cancelled. *)
LEMMA FailsOK ==
    ASSUME TypeOK, ~At("idle"), Fails
    PROVE  /\ run' = NoRun
           /\ tasks' \in Seq(TaskSet)
           /\ Tasks' = Tasks
           /\ SameWork
           /\ \A u \in Tasks : tasks'[u].state = IF u = run.task /\ tasks[u].state # "cancelled"
                                                 THEN "failed" ELSE tasks[u].state
<1>1. run.task \in Tasks /\ "failed" \in States
  BY UnderWay DEF States
<1> QED BY <1>1, ToldOK DEF Fails

(* The tasks stay well formed, and all but a restart keep them. *)
LEMMA TasksStep ==
    ASSUME TypeOK, [Next]_vars
    PROVE  /\ tasks' \in Seq(TaskSet)
           /\ Tasks \subseteq Tasks' \/ Restart
<1>0. CASE UNCHANGED tasks
  BY <1>0, TypeParts DEF Tasks
<1> SUFFICES ASSUME tasks' # tasks
             PROVE  tasks' \in Seq(TaskSet) /\ (Tasks \subseteq Tasks' \/ Restart)
  BY <1>0
<1> USE UnderWay DEF States
<1>1. CASE Start
  <2>1. PICK r \in row : tasks' = Append(tasks, NewTask(r.id))
    BY <1>1 DEF Start
  <2>2. r.id \in Ids
    BY TypeParts DEF RowType
  <2> QED BY <2>1, <2>2, StartOK
<1>2. CASE Cancel
  <2>1. PICK t \in Tasks : tasks' = [tasks EXCEPT ![t] = [@ EXCEPT !.state = "cancelled", !.aborted = TRUE]]
    BY <1>2 DEF Cancel
  <2> QED BY <2>1, CancelledOK
<1>3. CASE RunBegins
  BY <1>3, ToldOK DEF RunBegins
<1>4. CASE Prepare
  BY <1>4, FailsOK DEF Prepare
<1>5. CASE Locate
  BY <1>5, FailsOK DEF Locate
<1>6. CASE Open
  BY <1>6, FailsOK DEF Open
<1>7. CASE PackFails
  BY <1>7, FailsOK DEF PackFails
<1>8. CASE CheckName
  BY <1>8, FailsOK DEF CheckName
<1>9. CASE PutInPlace
  BY <1>9, FailsOK, PlacedOK DEF PutInPlace
<1>10. CASE Finish
  BY <1>10, ToldOK DEF Finish
<1>11. CASE Look
  <2>1. PICK w \in Removers : removers[w].pc # "none" /\ Leaves(w, FALSE)
    BY <1>11 DEF Look
  <2> QED BY <2>1, LeavesOK DEF Leaves
<1>12. CASE Unlink
  <2>1. PICK w \in Removers : removers[w].pc # "none" /\ Leaves(w, FALSE)
    BY <1>12 DEF Unlink
  <2> QED BY <2>1, LeavesOK DEF Leaves
<1>13. CASE Forget
  BY <1>13, LeavesOK DEF Forget, Leaves
<1>14. CASE Restart
  BY <1>14 DEF Restart
<1>15. CASE ChangeNsz
  BY <1>15, TouchedOK DEF ChangeNsz
<1> QED BY <1>1, <1>2, <1>3, <1>4, <1>5, <1>6, <1>7, <1>8, <1>9, <1>10, <1>11, <1>12, <1>13, <1>14, <1>15,
           WhoChanges

(* No step puts anything else than a version, a foreign file or nothing at one of the three names. *)
LEMMA DiskStep ==
    ASSUME TypeOK, [Next]_vars
    PROVE  DiskType'
<1> USE TypeParts DEF DiskType
<1>1. nsp' \in Found
  BY WhoChanges DEF Unlink, ChangeNsp, Found
<1>2. partial' \in Found
  BY WhoChanges DEF Open, PackFails, CheckName, PutInPlace, RemoveLeftovers, Found
<1>3. nsz' \in Found \cup {Foreign}
  BY WhoChanges DEF PutInPlace, ChangeNsz, Found
<1> QED BY <1>1, <1>2, <1>3

(* The library's rows keep their types: ids stay in Ids and lastId below its bound. *)
LEMMA RowStep ==
    ASSUME TypeOK, [Next]_vars
    PROVE  RowType'
<1> USE TypeParts DEF RowType
<1>1. wanted' \subseteq Ids
  BY WhoChanges DEF QueueInstall, InstallEnds
<1>2. CASE Scanner
  <2>0. MaxIds \in Nat
    BY CompressionAssumption
  <2>1. lastId \in Ids /\ (lastId < MaxIds => lastId + 1 \in Ids)
    BY <2>0 DEF Ids
  <2>2. lastId' \in Ids
    BY <1>2, <2>1 DEF Scanner
  <2>3. row' \subseteq [id : Ids, missing : BOOLEAN, meta : Found]
    <3>1. CASE \E r \in row, gone \in BOOLEAN, v \in Found : row' = {[r EXCEPT !.missing = gone, !.meta = v]}
      <4>1. PICK r \in row, gone \in BOOLEAN, v \in Found : row' = {[r EXCEPT !.missing = gone, !.meta = v]}
        BY <3>1
      <4>2. r \in [id : Ids, missing : BOOLEAN, meta : Found]
        OBVIOUS
      <4>3. [r EXCEPT !.missing = gone, !.meta = v] \in [id : Ids, missing : BOOLEAN, meta : Found]
        BY <4>2
      <4> QED BY <4>1, <4>3
    <3>2. CASE lastId < MaxIds /\ row' = {[id |-> lastId + 1, missing |-> FALSE, meta |-> Gone]}
      BY <2>1, <3>2 DEF Found
    <3> QED BY <1>2, <3>1, <3>2 DEF Scanner
  <2>4. \A r, o \in row' : r = o
    BY <1>2 DEF Scanner
  <2> QED BY <1>1, <2>2, <2>3, <2>4
<1>3. CASE ~Scanner
  BY <1>1, <1>3, WhoChanges DEF Forget, LosesRow
<1> QED BY <1>2, <1>3

(* The history variables and the counters keep their types. *)
LEMMA HistoryStep ==
    ASSUME TypeOK, [Next]_vars
    PROVE  HistoryType'
<1> USE TypeParts DEF HistoryType
<1>1. late' \in [Removers -> SUBSET {"install", "original"}]
  BY WhoChanges DEF QueueInstall, RunRemoves, RequestRemoves, Begin, Restart, ChangeNsp
<1>2. swept' \in BOOLEAN
  BY WhoChanges DEF Restart, RemoveLeftovers
<1>3. named' \in BOOLEAN
  BY WhoChanges DEF CheckName, ChangeNsz
<1>4. edits' \in 0..MaxEdits
  <2>1. UNCHANGED edits \/ Edit
    BY WhoChanges DEF LosesRow, ChangeNsp, ChangeNsz
  <2>2. MaxEdits \in Nat
    BY CompressionAssumption
  <2> QED BY <2>1, <2>2 DEF Edit
<1>5. restarts' \in 0..MaxRestarts
  <2>1. UNCHANGED restarts \/ (restarts < MaxRestarts /\ restarts' = restarts + 1)
    BY WhoChanges DEF Restart
  <2>2. MaxRestarts \in Nat
    BY CompressionAssumption
  <2> QED BY <2>1, <2>2
<1> QED BY <1>1, <1>2, <1>3, <1>4, <1>5

(* The run in progress keeps its type and the task it works for. *)
LEMMA RunStep ==
    ASSUME TypeOK, [Next]_vars
    PROVE  RunType'
<1> DEFINE Runs(T) == [pc : Steps \cup {"idle"}, task : T \cup {None}, expected : Found, located : Found, read : Found]
<1>1. run \in Runs(Tasks) /\ (run.pc = "idle" <=> run.task = None)
  BY TypeParts DEF RunType
<1>2. NoRun \in Runs(Tasks') /\ NoRun.pc = "idle" /\ NoRun.task = None
  BY DEF NoRun, Found
<1>3. CASE run' = NoRun
  BY <1>2, <1>3 DEF RunType
<1>4. CASE run' # NoRun
  <2>1. Tasks \subseteq Tasks'
    BY <1>4, TasksStep DEF Restart
  <2>2. run \in Runs(Tasks') /\ None \notin Tasks /\ nsp \in Found
    BY <1>1, <2>1, UnderWay, TypeParts DEF DiskType
  <2> HIDE <1>1, <1>2
  <2> SUFFICES run' \in Runs(Tasks') /\ (run'.pc = "idle" <=> run'.task = None)
    BY DEF RunType
  <2>3. CASE RunBegins
    <3>1. PICK t \in Tasks : \/ run' = [NoRun EXCEPT !.pc = "preparing", !.task = t]
                             \/ UNCHANGED run
      BY <2>3 DEF RunBegins
    <3>2. CASE run' = [NoRun EXCEPT !.pc = "preparing", !.task = t]
      BY <1>2, <2>1, <2>2, <3>2 DEF Steps
    <3> QED BY <1>1, <2>2, <3>1, <3>2
  <2>4. CASE Prepare
    <3>1. PICK v \in Expected(tasks[run.task].file) : run' = [run EXCEPT !.pc = "locating", !.expected = v]
      BY <1>4, <2>4 DEF Prepare, Fails
    <3>2. v \in Found
      BY TypeParts DEF RowType, Expected
    <3> QED BY <1>1, <2>2, <2>4, <3>1, <3>2 DEF Prepare, Steps
  <2>5. CASE Locate
    BY <1>1, <1>4, <2>2, <2>5 DEF Locate, Fails, Steps
  <2>6. CASE Open
    BY <1>1, <1>4, <2>2, <2>6 DEF Open, Fails, Steps
  <2>7. CASE Pack
    BY <1>1, <2>2, <2>7 DEF Pack, Steps
  <2>8. CASE PackFails
    BY <1>4, <2>8 DEF PackFails, Fails
  <2>9. CASE CheckName
    BY <1>1, <1>4, <2>2, <2>9 DEF CheckName, Fails, Steps
  <2>10. CASE PutInPlace
    BY <1>1, <1>4, <2>2, <2>10 DEF PutInPlace, Fails, Steps
  <2>11. CASE Finish
    BY <1>4, <2>11 DEF Finish
  <2>12. CASE RunRemoves
    BY <1>1, <2>2, <2>12 DEF RunRemoves, Steps
  <2>13. CASE UNCHANGED run
    BY <1>1, <2>2, <2>13
  <2>14. CASE run' = [run EXCEPT !.pc = "finishing"] /\ At("removing")
    BY <1>1, <2>2, <2>14 DEF Steps
  <2>15. ASSUME NEW w \in Removers, NEW gone, Leaves(w, gone), removers[w].pc # "none"
         PROVE  UNCHANGED run \/ (run' = [run EXCEPT !.pc = "finishing"] /\ At("removing"))
    BY <2>15, TypeParts DEF Leaves, RemoverType
  <2>16. CASE Look \/ Unlink \/ Forget
    BY <2>13, <2>14, <2>15, <2>16 DEF Look, Unlink, Forget
  <2> QED BY <1>4, <2>3, <2>4, <2>5, <2>6, <2>7, <2>8, <2>9, <2>10, <2>11, <2>12, <2>13, <2>16, WhoChanges DEF Restart
<1> QED BY <1>3, <1>4

(* The two removers keep their types; the one of the run is at work only in the step "removing". *)
LEMMA RemoverStep ==
    ASSUME TypeOK, [Next]_vars
    PROVE  RemoverType'
<1> DEFINE RemovalOf(T) == [pc : {"none", "looking", "removing", "forgetting"}, task : T \cup {None}]
<1>1. /\ removers \in [Removers -> RemovalOf(Tasks)]
      /\ \A w \in Removers : removers[w].pc = "none" <=> removers[w].task = None
      /\ removers["run"].pc # "none" <=> At("removing")
      /\ "run" \in Removers /\ "request" \in Removers
  BY TypeParts DEF RemoverType, Removers
<1>2. CASE Restart
  BY <1>2 DEF Restart, RemoverType, NoRemoval, NoRun, Removers
<1>3. CASE ~Restart
  <2>1. Tasks \subseteq Tasks'
    BY <1>3, TasksStep
  <2>2. removers \in [Removers -> RemovalOf(Tasks')]
    BY <1>1, <2>1
  <2>3. /\ None \notin Tasks /\ (~At("idle") => run.task \in Tasks)
        /\ run \in [pc : Steps \cup {"idle"}, task : Tasks \cup {None}, expected : Found, located : Found, read : Found]
    BY UnderWay, TypeParts DEF RunType
  <2>4. CASE RunRemoves
    BY <1>1, <2>1, <2>2, <2>3, <2>4 DEF RunRemoves, Begin, RemoverType
  <2>5. CASE RequestRemoves
    BY <1>1, <2>1, <2>2, <2>3, <2>5 DEF RequestRemoves, Begin, RemoverType
  <2>6. ASSUME NEW w \in Removers, NEW gone, Leaves(w, gone), removers[w].pc # "none"
        PROVE  RemoverType'
    BY <1>1, <2>1, <2>2, <2>3, <2>6 DEF Leaves, RemoverType, NoRemoval, Removers
  <2>7. CASE Look
    <3>1. PICK w \in Removers : /\ removers[w].pc = "looking"
                                /\ \/ removers' = [removers EXCEPT ![w].pc = "removing"] /\ UNCHANGED run
                                   \/ Leaves(w, FALSE)
      BY <2>7 DEF Look
    <3>2. CASE removers' = [removers EXCEPT ![w].pc = "removing"] /\ UNCHANGED run
      BY <1>1, <2>1, <2>2, <2>3, <3>1, <3>2 DEF RemoverType
    <3> QED BY <2>6, <3>1, <3>2
  <2>8. CASE Unlink
    <3>1. PICK w \in Removers : /\ removers[w].pc = "removing"
                                /\ \/ removers' = [removers EXCEPT ![w].pc = "forgetting"] /\ UNCHANGED run
                                   \/ Leaves(w, FALSE)
      BY <2>8 DEF Unlink
    <3>2. CASE removers' = [removers EXCEPT ![w].pc = "forgetting"] /\ UNCHANGED run
      BY <1>1, <2>1, <2>2, <2>3, <3>1, <3>2 DEF RemoverType
    <3> QED BY <2>6, <3>1, <3>2
  <2>9. CASE Forget
    BY <2>6, <2>9 DEF Forget
  <2>10. CASE UNCHANGED removers /\ ~(RunRemoves \/ Look \/ Unlink \/ Forget)
    <3>1. CASE RunBegins \/ Prepare \/ Locate \/ Open \/ Pack \/ PackFails \/ CheckName \/ PutInPlace \/ Finish
      <4> SUFFICES run.pc # "removing" /\ run'.pc # "removing"
        BY <1>1, <2>2, <2>10 DEF RemoverType
      <4>1. CASE RunBegins
        BY <2>3, <4>1 DEF RunBegins, NoRun
      <4>2. CASE Prepare
        <5>1. run.pc = "preparing" /\ (run' = NoRun \/ \E v : run' = [run EXCEPT !.pc = "locating", !.expected = v])
          BY <4>2 DEF Prepare, Fails
        <5>2. CASE run' = NoRun
          BY <5>1, <5>2 DEF NoRun
        <5> QED BY <2>3, <5>1, <5>2
      <4>3. CASE Locate
        <5>1. run.pc = "locating" /\ (run' = NoRun \/ run' = [run EXCEPT !.pc = "opening", !.located = nsp])
          BY <4>3 DEF Locate, Fails
        <5>2. CASE run' = NoRun
          BY <5>1, <5>2 DEF NoRun
        <5> QED BY <2>3, <5>1, <5>2
      <4>6. CASE Open
        <5>1. run.pc = "opening" /\ (run' = NoRun \/ run' = [run EXCEPT !.pc = "packing", !.read = nsp])
          BY <4>6 DEF Open, Fails
        <5>2. CASE run' = NoRun
          BY <5>1, <5>2 DEF NoRun
        <5> QED BY <2>3, <5>1, <5>2
      <4>4. CASE Pack \/ PackFails
        BY <2>3, <4>4 DEF Pack, PackFails, Fails, NoRun
      <4>5. CASE CheckName \/ PutInPlace \/ Finish
        BY <2>3, <4>5 DEF CheckName, PutInPlace, Finish, Fails, NoRun
      <4> QED BY <3>1, <4>1, <4>2, <4>3, <4>4, <4>5, <4>6
    <3>2. CASE UNCHANGED run
      BY <1>1, <2>2, <2>10, <3>2 DEF RemoverType
    <3> QED BY <1>3, <2>10, <3>1, <3>2, WhoChanges
  <2> QED BY <1>3, <2>4, <2>5, <2>7, <2>8, <2>9, <2>10, WhoChanges
<1> QED BY <1>2, <1>3

(* At most one task runs, and it is the one the run works for. *)
LEMMA OneRunsStep ==
    ASSUME TypeOK, RunInv, [Next]_vars
    PROVE  OneRuns'
<1>1. OneRuns /\ (~At("idle") => run.task \in Tasks) /\ (At("idle") <=> run.task = None) /\ None \notin Tasks
  BY UnderWay, TypeParts DEF OneRuns, RunType
<1>2. ASSUME Fails, ~At("idle") PROVE OneRuns'
  BY <1>1, <1>2, FailsOK DEF OneRuns, RunInv
<1>3. run \in [pc : Steps \cup {"idle"}, task : Tasks \cup {None}, expected : Found, located : Found, read : Found]
  BY TypeParts DEF RunType
<1>4. CASE Start
  <2>1. PICK r \in row : tasks' = Append(tasks, NewTask(r.id))
    BY <1>4 DEF Start
  <2>2. r.id \in Ids
    BY TypeParts DEF RowType
  <2>3. NewTask(r.id).state = "queued" /\ UNCHANGED run
    BY <1>4 DEF Start, NewTask
  <2> QED BY <1>1, <2>1, <2>2, <2>3, StartOK DEF OneRuns
<1>5. CASE Cancel
  <2>1. PICK t \in Tasks : tasks' = [tasks EXCEPT ![t] = [@ EXCEPT !.state = "cancelled", !.aborted = TRUE]]
    BY <1>5 DEF Cancel
  <2>2. UNCHANGED run
    BY <1>5 DEF Cancel
  <2>3. Tasks' = Tasks /\ \A u \in Tasks : tasks'[u].state = IF u = t THEN "cancelled" ELSE tasks[u].state
    BY <2>1, CancelledOK
  <2> QED BY <1>1, <2>2, <2>3 DEF OneRuns
<1>6. CASE RunBegins
  <2>1. PICK t \in Tasks : \/ run' = [NoRun EXCEPT !.pc = "preparing", !.task = t] /\ tasks' = Told(t, "running")
                           \/ UNCHANGED run /\ tasks' = Told(t, "failed")
    BY <1>6 DEF RunBegins
  <2>2. "running" \in States /\ "failed" \in States /\ At("idle")
    BY <1>6 DEF States, RunBegins
  <2>3. \A u \in Tasks : tasks[u].state # "running"
    BY <1>1, <2>2 DEF OneRuns
  <2>4. CASE run' = [NoRun EXCEPT !.pc = "preparing", !.task = t] /\ tasks' = Told(t, "running")
    <3>1. run'.task = t
      BY <2>4 DEF NoRun
    <3>2. Tasks' = Tasks /\ \A u \in Tasks : tasks'[u].state # "running" \/ u = t
      BY <2>2, <2>3, <2>4, ToldOK
    <3> QED BY <3>1, <3>2 DEF OneRuns
  <2>5. CASE tasks' = Told(t, "failed")
    BY <2>2, <2>3, <2>5, ToldOK DEF OneRuns
  <2> QED BY <2>1, <2>4, <2>5
<1>7. ASSUME UNCHANGED tasks, run'.task = run.task PROVE OneRuns'
  BY <1>1, <1>7 DEF OneRuns, Tasks
<1>8. CASE Prepare
  BY <1>2, <1>3, <1>7, <1>8 DEF Prepare
<1>9. CASE Locate
  BY <1>2, <1>3, <1>7, <1>9 DEF Locate
<1>10. CASE Open
  BY <1>2, <1>3, <1>7, <1>10 DEF Open
<1>11. CASE Pack
  BY <1>3, <1>7, <1>11 DEF Pack
<1>12. CASE PackFails
  BY <1>2, <1>12 DEF PackFails
<1>13. CASE CheckName
  BY <1>2, <1>3, <1>7, <1>13 DEF CheckName
<1>14. CASE PutInPlace
  <2>1. CASE Fails
    BY <1>2, <1>14, <2>1 DEF PutInPlace
  <2>2. CASE ~Fails
    <3>1. /\ run'.task = run.task /\ run.task \in Tasks
          /\ tasks' = [tasks EXCEPT ![run.task] =
                           [@ EXCEPT !.located = run.located, !.packed = run.read, !.kept = TRUE]]
      BY <1>1, <1>3, <1>14, <2>2 DEF PutInPlace
    <3>2. Tasks' = Tasks /\ \A u \in Tasks : tasks'[u].state = tasks[u].state
      BY <3>1, PlacedOK
    <3> QED BY <1>1, <3>1, <3>2 DEF OneRuns
  <2> QED BY <2>1, <2>2
<1>15. CASE Finish
  <2>1. "done" \in States /\ tasks' = Told(run.task, "done") /\ run.task \in Tasks
    BY <1>1, <1>15 DEF States, Finish
  <2>2. Tasks' = Tasks /\ \A u \in Tasks : tasks'[u].state # "running"
    BY <1>1, <2>1, ToldOK DEF OneRuns
  <2> QED BY <2>2 DEF OneRuns
<1>16. CASE RunRemoves
  BY <1>3, <1>7, <1>16 DEF RunRemoves
<1>17. ASSUME NEW w \in Removers, NEW gone \in BOOLEAN, Leaves(w, gone), removers[w].pc # "none" PROVE OneRuns'
  <2>1. run'.task = run.task
    BY <1>3, <1>17 DEF Leaves
  <2>2. Tasks' = Tasks /\ \A u \in Tasks : tasks'[u].state = tasks[u].state
    BY <1>17, UnderWay, LeavesOK DEF Leaves
  <2> QED BY <1>1, <2>1, <2>2 DEF OneRuns
<1>18. CASE Look
  BY <1>7, <1>17, <1>18 DEF Look
<1>19. CASE Unlink
  BY <1>7, <1>17, <1>19 DEF Unlink
<1>20. CASE Forget
  BY <1>17, <1>20 DEF Forget
<1>21. CASE Restart
  BY <1>21 DEF Restart, OneRuns, Tasks
<1>22. CASE ChangeNsz
  <2>1. Tasks' = Tasks /\ UNCHANGED run /\ \A u \in Tasks : tasks'[u].state = tasks[u].state
    BY <1>22, TouchedOK DEF ChangeNsz
  <2> QED BY <1>1, <2>1 DEF OneRuns
<1> QED BY <1>4, <1>5, <1>6, <1>7, <1>8, <1>9, <1>10, <1>11, <1>12, <1>13, <1>14, <1>15, <1>16, <1>18, <1>19,
           <1>20, <1>21, <1>22, WhoChanges

(* A partial file exists only while a run writes it, or after a restart. *)
LEMMA PartialStep ==
    ASSUME TypeOK, [Next]_vars
    PROVE  PartialHasOwner'
<1>1. /\ PartialHasOwner
      /\ run \in [pc : Steps \cup {"idle"}, task : Tasks \cup {None}, expected : Found, located : Found, read : Found]
  BY TypeParts DEF RunType
<1>2. CASE Open
  BY <1>1, <1>2 DEF Open, Fails, NoRun, PartialHasOwner, Writing
<1>3. CASE PackFails \/ RemoveLeftovers \/ PutInPlace
  BY <1>3 DEF PackFails, RemoveLeftovers, PutInPlace, PartialHasOwner
<1>4. CASE CheckName
  BY <1>1, <1>4 DEF CheckName, PartialHasOwner, Writing
<1>5. CASE Restart
  BY <1>5 DEF Restart, PartialHasOwner
<1>6. CASE Pack
  BY <1>1, <1>6 DEF Pack, PartialHasOwner, Writing, database, files
<1>7. ASSUME UNCHANGED <<partial, swept>>, run.pc \notin Writing PROVE PartialHasOwner'
  BY <1>1, <1>7 DEF PartialHasOwner
<1>8. CASE UNCHANGED <<partial, swept, run>>
  BY <1>1, <1>8 DEF PartialHasOwner
<1>9. ASSUME NEW w \in Removers, NEW gone, Leaves(w, gone), removers[w].pc # "none", UNCHANGED <<partial, swept>>
      PROVE  PartialHasOwner'
  <2>1. w = "run" => At("removing")
    BY <1>9, TypeParts DEF RemoverType
  <2> QED BY <1>7, <1>8, <1>9, <2>1 DEF Leaves, Writing
<1>10. CASE Look
  BY <1>8, <1>9, <1>10 DEF Look, files
<1>11. CASE Unlink
  BY <1>8, <1>9, <1>11 DEF Unlink
<1>12. CASE Forget
  BY <1>9, <1>12 DEF Forget, files
<1>13. CASE RunBegins \/ Prepare \/ Locate \/ Finish \/ RunRemoves
  BY <1>7, <1>13 DEF RunBegins, Prepare, Locate, Finish, RunRemoves, files, Writing
<1> QED BY <1>2, <1>3, <1>4, <1>5, <1>6, <1>8, <1>10, <1>11, <1>12, <1>13, WhoChanges

(* No step breaks TypeOK. *)
LEMMA TypeStep == TypeOK /\ RunInv /\ [Next]_vars => TypeOK'
<1> SUFFICES ASSUME TypeOK, RunInv, [Next]_vars PROVE TypeOK'
  OBVIOUS
<1>1. DiskType' /\ RowType' /\ (tasks \in Seq(TaskSet))' /\ RunType' /\ RemoverType' /\ HistoryType'
  BY DiskStep, RowStep, TasksStep, RunStep, RemoverStep, HistoryStep
<1>2. OneRuns' /\ PartialHasOwner'
  BY OneRunsStep, PartialStep
<1> QED
  BY <1>1, <1>2 DEF TypeOK, DiskType, RowType, RunType, RemoverType, OneRuns, PartialHasOwner, HistoryType, Writing

-----------------------------------------------------------------------------
(* The other parts of the invariant. *)

(* The fields of the run. *)
LEMMA RunFields ==
    TypeOK =>
              /\ run \in [pc : Steps \cup {"idle"}, task : Tasks \cup {None}, expected : Found, located : Found, read : Found]
              /\ "failed" \in States /\ "done" \in States /\ "running" \in States
BY TypeParts DEF RunType, States

(* The task of the run is running or cancelled, and the partial file is what the run read. *)
LEMMA RunInvStep ==
    ASSUME TypeOK, RunInv, [Next]_vars
    PROVE  RunInv'
<1> DEFINE Told2 == ~At("idle") => tasks[run.task].state \in {"running", "cancelled"}
           Read == run.pc \in Writing => run.read \in Versions /\ partial \in {run.read, Gone}
<1>0. /\ Told2 /\ Read /\ (~At("idle") => run.task \in Tasks)
      /\ run \in [pc : Steps \cup {"idle"}, task : Tasks \cup {None}, expected : Found, located : Found, read : Found]
  BY UnderWay, RunFields DEF RunInv
<1>1. ASSUME run' = NoRun PROVE RunInv'
  BY <1>1 DEF RunInv, NoRun, Writing
<1>2. ASSUME Fails PROVE RunInv'
  BY <1>1, <1>2 DEF Fails
<1>3. ASSUME UNCHANGED run, UNCHANGED partial \/ partial' = Gone, Tasks \subseteq Tasks',
             \A u \in Tasks : tasks'[u].state \in {tasks[u].state, "cancelled"}
      PROVE  RunInv'
  BY <1>0, <1>3 DEF RunInv
<1>4. ASSUME UNCHANGED tasks, UNCHANGED <<run, partial>> \/ run'.task = run.task, ~At("idle"), run'.pc \notin Writing
      PROVE  RunInv'
  BY <1>0, <1>4 DEF RunInv
<1>5. CASE UNCHANGED tasks /\ UNCHANGED run /\ (UNCHANGED partial \/ partial' = Gone)
  BY <1>0, <1>5 DEF RunInv
<1>6. CASE Start
  <2>1. PICK r \in row : tasks' = Append(tasks, NewTask(r.id))
    BY <1>6 DEF Start
  <2>2. r.id \in Ids
    BY TypeParts DEF RowType
  <2>3. UNCHANGED <<run, partial>>
    BY <1>6 DEF Start, files
  <2>4. Tasks \subseteq Tasks' /\ \A u \in Tasks : tasks'[u] = tasks[u]
    BY <2>1, <2>2, StartOK
  <2> QED BY <1>3, <2>3, <2>4
<1>7. CASE Cancel
  <2>1. PICK t \in Tasks : tasks' = [tasks EXCEPT ![t] = [@ EXCEPT !.state = "cancelled", !.aborted = TRUE]]
    BY <1>7 DEF Cancel
  <2>2. UNCHANGED <<run, partial>>
    BY <1>7 DEF Cancel, files
  <2>3. Tasks' = Tasks /\ \A u \in Tasks : tasks'[u].state \in {tasks[u].state, "cancelled"}
    BY <2>1, CancelledOK
  <2> QED BY <1>3, <2>2, <2>3
<1>8. CASE RunBegins
  <2>1. PICK t \in Tasks : /\ tasks[t].state = "queued" /\ At("idle")
                           /\ \/ run' = [NoRun EXCEPT !.pc = "preparing", !.task = t] /\ tasks' = Told(t, "running")
                              \/ UNCHANGED run
    BY <1>8 DEF RunBegins
  <2>2. CASE run' = [NoRun EXCEPT !.pc = "preparing", !.task = t] /\ tasks' = Told(t, "running")
    <3>1. run'.task = t /\ run'.pc = "preparing"
      BY <2>2 DEF NoRun
    <3>2. tasks'[t].state = "running"
      BY <2>1, <2>2, RunFields, ToldOK
    <3> QED BY <3>1, <3>2 DEF RunInv, Writing
  <2>3. CASE UNCHANGED run
    BY <2>1, <2>3 DEF RunInv, Writing
  <2> QED BY <2>1, <2>2, <2>3
<1>9. CASE Prepare
  <2>1. CASE ~Fails
    BY <1>0, <1>4, <1>9, <2>1 DEF Prepare, Writing
  <2> QED BY <1>2, <2>1
<1>10. CASE Locate
  <2>1. CASE ~Fails
    BY <1>0, <1>4, <1>10, <2>1 DEF Locate, Writing
  <2> QED BY <1>2, <2>1
<1>11. CASE Open
  <2>1. CASE ~Fails
    <3>1. /\ UNCHANGED tasks /\ partial' = nsp /\ nsp \in Versions /\ ~At("idle")
          /\ run' = [run EXCEPT !.pc = "packing", !.read = nsp]
      BY <1>11, <2>1, TypeParts DEF Open, DiskType, Found
    <3>2. run'.task = run.task /\ run'.read = nsp
      BY <1>0, <3>1
    <3> QED BY <1>0, <3>1, <3>2 DEF RunInv
  <2> QED BY <1>2, <2>1
<1>12. CASE Pack
  BY <1>0, <1>12 DEF Pack, RunInv, Writing, files
<1>13. CASE PackFails
  BY <1>2, <1>13 DEF PackFails
<1>14. CASE CheckName
  <2>1. CASE ~Fails
    BY <1>0, <1>14, <2>1 DEF CheckName, RunInv, Writing
  <2> QED BY <1>2, <2>1
<1>15. CASE PutInPlace
  <2>1. CASE ~Fails
    <3>1. /\ run' = [run EXCEPT !.pc = "placed"] /\ run.task \in Tasks /\ ~At("idle")
          /\ tasks' = [tasks EXCEPT ![run.task] =
                           [@ EXCEPT !.located = run.located, !.packed = run.read, !.kept = TRUE]]
      BY <1>0, <1>15, <2>1 DEF PutInPlace
    <3>2. run'.task = run.task /\ run'.pc = "placed"
      BY <1>0, <3>1
    <3>3. tasks'[run.task].state = tasks[run.task].state
      BY <3>1, PlacedOK
    <3> QED BY <1>0, <3>1, <3>2, <3>3 DEF RunInv, Writing
  <2> QED BY <1>2, <2>1
<1>16. CASE Finish
  BY <1>1, <1>16 DEF Finish
<1>17. CASE RunRemoves
  BY <1>0, <1>4, <1>17 DEF RunRemoves, Writing
<1>18. ASSUME NEW w \in Removers, NEW gone \in BOOLEAN, Leaves(w, gone), removers[w].pc # "none", UNCHANGED partial
       PROVE  RunInv'
  <2>1. Tasks' = Tasks /\ \A u \in Tasks : tasks'[u].state = tasks[u].state
    BY <1>18, UnderWay, LeavesOK DEF Leaves
  <2>2. w = "run" => At("removing")
    BY <1>18, TypeParts DEF RemoverType
  <2>3. UNCHANGED run \/ (run'.task = run.task /\ run'.pc = "finishing" /\ ~At("idle"))
    BY <1>0, <1>18, <2>2 DEF Leaves
  <2> QED BY <1>0, <1>18, <2>1, <2>3 DEF RunInv, Writing
<1>19. CASE Look
  BY <1>5, <1>18, <1>19 DEF Look, files
<1>20. CASE Unlink
  BY <1>5, <1>18, <1>20 DEF Unlink
<1>21. CASE Forget
  BY <1>18, <1>21 DEF Forget, files
<1>22. CASE Restart
  BY <1>1, <1>22 DEF Restart
<1>23. CASE RemoveLeftovers
  BY <1>5, <1>23 DEF RemoveLeftovers
<1>24. CASE ChangeNsz
  <2>1. Tasks' = Tasks /\ UNCHANGED <<run, partial>> /\ \A u \in Tasks : tasks'[u].state = tasks[u].state
    BY <1>24, TouchedOK DEF ChangeNsz
  <2> QED BY <1>3, <2>1
<1> QED BY <1>5, <1>6, <1>7, <1>8, <1>9, <1>10, <1>11, <1>12, <1>13, <1>14, <1>15, <1>16, <1>17, <1>19, <1>20,
           <1>21, <1>22, <1>23, <1>24, WhoChanges

(* A finished NSZ that is kept stays at its name with the version it was packed from. *)
LEMMA KeptInvStep ==
    ASSUME TypeOK, RunInv, KeptInv, [Next]_vars
    PROVE  KeptInv'
<1>0. /\ \A t \in Tasks : tasks[t].kept => tasks[t].packed \in Versions /\ nsz = tasks[t].packed
      /\ At("renaming") => \A t \in Tasks : ~tasks[t].kept
      /\ At("renaming") /\ ~named => nsz = Gone
      /\ ~At("idle") => run.task \in Tasks
      /\ run \in [pc : Steps \cup {"idle"}, task : Tasks \cup {None}, expected : Found, located : Found, read : Found]
  BY UnderWay, RunFields DEF KeptInv
<1>1. ASSUME UNCHANGED nsz, Tasks' = Tasks, SameWork,
             run'.pc = "renaming" => At("renaming") /\ UNCHANGED named
      PROVE  KeptInv'
  BY <1>0, <1>1 DEF KeptInv, SameWork
<1>2. ASSUME UNCHANGED <<nsz, tasks>>, run'.pc = "renaming" => At("renaming") /\ UNCHANGED named
      PROVE  KeptInv'
  BY <1>0, <1>2 DEF KeptInv, Tasks
<1>3. ASSUME Fails, ~At("idle"), UNCHANGED nsz PROVE KeptInv'
  BY <1>1, <1>3, FailsOK DEF NoRun
<1>4. CASE Start
  <2>1. PICK r \in row : tasks' = Append(tasks, NewTask(r.id))
    BY <1>4 DEF Start
  <2>2. r.id \in Ids /\ ~NewTask(r.id).kept
    BY TypeParts DEF RowType, NewTask
  <2>3. UNCHANGED <<run, nsz, named>>
    BY <1>4 DEF Start, files, history
  <2>4. /\ Tasks' = Tasks \cup {Len(tasks) + 1} /\ \A u \in Tasks : tasks'[u] = tasks[u]
        /\ ~tasks'[Len(tasks) + 1].kept
    BY <2>1, <2>2, StartOK
  <2> QED BY <1>0, <2>3, <2>4 DEF KeptInv
<1>5. CASE Cancel
  <2>1. PICK t \in Tasks : tasks' = [tasks EXCEPT ![t] = [@ EXCEPT !.state = "cancelled", !.aborted = TRUE]]
    BY <1>5 DEF Cancel
  <2>2. UNCHANGED <<run, nsz, named>>
    BY <1>5 DEF Cancel, files, history
  <2> QED BY <1>1, <2>1, <2>2, CancelledOK
<1>6. CASE RunBegins
  <2>1. PICK t \in Tasks : /\ At("idle")
                           /\ tasks' = Told(t, "running") \/ tasks' = Told(t, "failed")
                           /\ run' = [NoRun EXCEPT !.pc = "preparing", !.task = t] \/ UNCHANGED run
    BY <1>6 DEF RunBegins
  <2>2. run'.pc # "renaming" /\ UNCHANGED nsz
    BY <1>6, <2>1 DEF NoRun, RunBegins, files
  <2>3. Tasks' = Tasks /\ SameWork
    BY <2>1, RunFields, ToldOK
  <2> QED BY <1>1, <2>2, <2>3
<1>7. CASE Prepare
  <2>1. CASE ~Fails
    BY <1>0, <1>2, <1>7, <2>1 DEF Prepare, files
  <2> QED BY <1>3, <1>7, <2>1 DEF Prepare, files
<1>8. CASE Locate
  <2>1. CASE ~Fails
    BY <1>0, <1>2, <1>8, <2>1 DEF Locate, files
  <2> QED BY <1>3, <1>8, <2>1 DEF Locate, files
<1>9. CASE Open
  <2>1. CASE ~Fails
    BY <1>0, <1>2, <1>9, <2>1 DEF Open
  <2> QED BY <1>3, <1>9, <2>1 DEF Open
<1>10. CASE Pack
  BY <1>0, <1>2, <1>10 DEF Pack, files
<1>11. CASE PackFails
  BY <1>3, <1>11 DEF PackFails
<1>12. CASE CheckName
  <2>1. CASE ~Fails
    <3>1. nsz = Gone /\ UNCHANGED <<nsz, tasks>>
      BY <1>12, <2>1 DEF CheckName
    <3>2. \A t \in Tasks : ~tasks[t].kept
      BY <1>0, <3>1, CompressionAssumption
    <3> QED BY <3>1, <3>2 DEF KeptInv, Tasks
  <2> QED BY <1>3, <1>12, <2>1 DEF CheckName
<1>13. CASE PutInPlace
  <2>1. CASE partial # Gone
    <3>1. /\ run' = [run EXCEPT !.pc = "placed"] /\ run.task \in Tasks /\ At("renaming")
          /\ partial # Gone /\ nsz' = partial
          /\ tasks' = [tasks EXCEPT ![run.task] =
                           [@ EXCEPT !.located = run.located, !.packed = run.read, !.kept = TRUE]]
      BY <1>0, <1>13, <2>1 DEF PutInPlace
    <3>2. run'.pc = "placed" /\ partial = run.read /\ run.read \in Versions
      BY <1>0, <3>1 DEF RunInv, Writing
    <3>3. /\ Tasks' = Tasks /\ \A u \in Tasks \ {run.task} : tasks'[u] = tasks[u]
          /\ tasks'[run.task].packed = run.read
      BY <3>1, PlacedOK
    <3> QED BY <1>0, <3>1, <3>2, <3>3 DEF KeptInv
  <2>2. CASE partial = Gone
    BY <1>3, <1>13, <2>2 DEF PutInPlace
  <2> QED BY <2>1, <2>2
<1>14. CASE Finish
  <2>1. run.task \in Tasks /\ tasks' = Told(run.task, "done") /\ run'.pc = "idle" /\ UNCHANGED nsz
    BY <1>0, <1>14 DEF Finish, NoRun, files
  <2> QED BY <1>1, <2>1, RunFields, ToldOK
<1>15. CASE RunRemoves
  BY <1>0, <1>2, <1>15 DEF RunRemoves, files
<1>16. ASSUME NEW w \in Removers, NEW gone \in BOOLEAN, Leaves(w, gone), removers[w].pc # "none",
              UNCHANGED <<nsz, named>>
       PROVE  KeptInv'
  <2>1. Tasks' = Tasks /\ SameWork
    BY <1>16, UnderWay, LeavesOK DEF Leaves
  <2>2. UNCHANGED run \/ run'.pc = "finishing"
    BY <1>0, <1>16 DEF Leaves
  <2> QED BY <1>1, <1>16, <2>1, <2>2
<1>17. CASE Look
  BY <1>2, <1>16, <1>17 DEF Look, files, history
<1>18. CASE Unlink
  BY <1>2, <1>16, <1>18 DEF Unlink, history
<1>19. CASE Forget
  BY <1>16, <1>19 DEF Forget, files, history
<1>20. CASE Restart
  BY <1>20 DEF Restart, KeptInv, Tasks, NoRun
<1>21. CASE ChangeNsz
  <2>1. Tasks' = Tasks /\ (\A u \in Tasks : ~tasks'[u].kept) /\ named' = TRUE
    BY <1>21, TouchedOK DEF ChangeNsz
  <2> QED BY <2>1 DEF KeptInv
<1>22. CASE UNCHANGED <<nsz, tasks, run, named>>
  BY <1>2, <1>22
<1> QED BY <1>4, <1>5, <1>6, <1>7, <1>8, <1>9, <1>10, <1>11, <1>12, <1>13, <1>14, <1>15, <1>17, <1>18, <1>19,
           <1>20, <1>21, <1>22, WhoChanges

(* What a remover has looked at is still so, or late says what changed since. *)
LEMMA RemoversInvStep ==
    ASSUME TypeOK, RunInv, RemoversInv, [Next]_vars
    PROVE  RemoversInv'
<1>0. /\ \A w \in Removers : removers[w].pc # "none" => removers[w].task \in Tasks /\ RemovalInv(w)
      /\ ~At("idle") => run.task \in Tasks /\ tasks[run.task].state \in {"running", "cancelled"}
      /\ run \in [pc : Steps \cup {"idle"}, task : Tasks \cup {None}, expected : Found, located : Found, read : Found]
      /\ "run" \in Removers /\ "request" \in Removers
  BY UnderWay, RunFields DEF RemoversInv, RunInv, Removers
<1>1. ASSUME Tasks \subseteq Tasks', SameWork, UNCHANGED <<removers, late, wanted, nsp>>,
             \A t \in Tasks : tasks'[t].state = "queued" => tasks[t].state = "queued",
             run'.pc \in NotYetPlaced => run.pc \in NotYetPlaced /\ run'.task = run.task
      PROVE  RemoversInv'
  BY <1>0, <1>1 DEF RemoversInv, RemovalInv, SameWork
<1>2. ASSUME UNCHANGED tasks PROVE Tasks \subseteq Tasks' /\ SameWork
                                   /\ \A t \in Tasks : tasks'[t].state = "queued" => tasks[t].state = "queued"
  BY <1>2 DEF Tasks, SameWork
<1>3. ASSUME Fails, ~At("idle"), UNCHANGED <<removers, late, wanted, nsp>> PROVE RemoversInv'
  BY <1>1, <1>3, FailsOK DEF NoRun, NotYetPlaced, Writing
<1>4. CASE Start
  <2>1. PICK r \in row : tasks' = Append(tasks, NewTask(r.id))
    BY <1>4 DEF Start
  <2>2. r.id \in Ids
    BY TypeParts DEF RowType
  <2>3. UNCHANGED <<run, removers, late, wanted, nsp>>
    BY <1>4 DEF Start, files, database, history
  <2>4. Tasks \subseteq Tasks' /\ \A u \in Tasks : tasks'[u] = tasks[u]
    BY <2>1, <2>2, StartOK
  <2> QED BY <1>1, <2>3, <2>4 DEF SameWork
<1>5. CASE Cancel
  <2>1. PICK t \in Tasks : tasks' = [tasks EXCEPT ![t] = [@ EXCEPT !.state = "cancelled", !.aborted = TRUE]]
    BY <1>5 DEF Cancel
  <2>2. UNCHANGED <<run, removers, late, wanted, nsp>>
    BY <1>5 DEF Cancel, files, database, history
  <2>3. /\ Tasks' = Tasks /\ SameWork
        /\ \A u \in Tasks : tasks'[u].state = IF u = t THEN "cancelled" ELSE tasks[u].state
    BY <2>1, CancelledOK
  <2>4. \A u \in Tasks : tasks'[u].state = "queued" => tasks[u].state = "queued"
    BY <2>3
  <2> QED BY <1>1, <2>2, <2>3, <2>4
<1>6. CASE QueueInstall
  <2>1. /\ UNCHANGED <<tasks, run, removers, nsp>>
        /\ late' = [w \in Removers |->
                       late[w] \cup IF removers[w].pc \in {"looking", "removing"} THEN {"install"} ELSE {}]
    BY <1>6 DEF QueueInstall, files, memory
  <2>2. \A w \in Removers : /\ removers[w].pc \in {"looking", "removing"} => "install" \in late'[w]
                            /\ "original" \in late[w] => "original" \in late'[w]
    BY <2>1
  <2> QED BY <1>0, <2>1, <2>2 DEF RemoversInv, RemovalInv
<1>7. CASE InstallEnds
  <2>1. UNCHANGED <<tasks, run, removers, late, nsp>> /\ wanted' \subseteq wanted
    BY <1>7 DEF InstallEnds, files, memory, history
  <2> QED BY <1>0, <2>1 DEF RemoversInv, RemovalInv
<1>8. CASE RunBegins
  <2>1. PICK t \in Tasks : /\ tasks[t].state = "queued" /\ At("idle")
                           /\ \/ run' = [NoRun EXCEPT !.pc = "preparing", !.task = t] /\ tasks' = Told(t, "running")
                              \/ UNCHANGED run /\ tasks' = Told(t, "failed")
    BY <1>8 DEF RunBegins
  <2>2. /\ Tasks' = Tasks /\ SameWork
        /\ \A u \in Tasks : tasks'[u].state = "queued" => tasks[u].state = "queued"
    BY <2>1, RunFields, ToldOK
  <2>3. UNCHANGED <<removers, late, wanted, nsp>>
    BY <1>8 DEF RunBegins, files, database, history
  <2>4. CASE UNCHANGED run
    BY <1>1, <2>2, <2>3, <2>4
  <2>5. CASE run'.task = t
    BY <1>0, <2>1, <2>2, <2>3, <2>5 DEF RemoversInv, RemovalInv, SameWork
  <2>6. UNCHANGED run \/ run'.task = t
    BY <2>1 DEF NoRun
  <2> QED BY <2>4, <2>5, <2>6
<1>9. CASE Prepare
  <2>1. UNCHANGED <<removers, late, wanted, nsp>>
    BY <1>9 DEF Prepare, files, database, history
  <2>2. CASE Fails
    BY <1>3, <1>9, <2>1, <2>2 DEF Prepare
  <2>3. CASE ~Fails
    <3>1. UNCHANGED tasks /\ run.pc \in NotYetPlaced /\ run'.task = run.task
      BY <1>0, <1>9, <2>3 DEF Prepare, NotYetPlaced
    <3> QED BY <1>1, <1>2, <2>1, <3>1
  <2> QED BY <2>2, <2>3
<1>10. CASE Locate
  <2>1. UNCHANGED <<removers, late, wanted, nsp>>
    BY <1>10 DEF Locate, files, database, history
  <2>2. CASE Fails
    BY <1>3, <1>10, <2>1, <2>2 DEF Locate
  <2>3. CASE ~Fails
    <3>1. UNCHANGED tasks /\ run.pc \in NotYetPlaced /\ run'.task = run.task
      BY <1>0, <1>10, <2>3 DEF Locate, NotYetPlaced
    <3> QED BY <1>1, <1>2, <2>1, <3>1
  <2> QED BY <2>2, <2>3
<1>11. CASE Open
  <2>1. UNCHANGED <<removers, late, wanted, nsp>>
    BY <1>11 DEF Open, database, history
  <2>2. CASE Fails
    BY <1>3, <1>11, <2>1, <2>2 DEF Open
  <2>3. CASE ~Fails
    <3>1. UNCHANGED tasks /\ run.pc \in NotYetPlaced /\ run'.task = run.task
      BY <1>0, <1>11, <2>3 DEF Open, NotYetPlaced
    <3> QED BY <1>1, <1>2, <2>1, <3>1
  <2> QED BY <2>2, <2>3
<1>12. CASE Pack
  <2>1. UNCHANGED <<removers, late, wanted, nsp, tasks>> /\ run.pc \in NotYetPlaced /\ run'.task = run.task
    BY <1>0, <1>12 DEF Pack, files, database, history, NotYetPlaced, Writing
  <2> QED BY <1>1, <1>2, <2>1
<1>13. CASE PackFails
  BY <1>3, <1>13 DEF PackFails, database, history
<1>14. CASE CheckName
  <2>1. UNCHANGED <<removers, late, wanted, nsp>>
    BY <1>14 DEF CheckName, database
  <2>2. CASE Fails
    BY <1>3, <1>14, <2>1, <2>2 DEF CheckName
  <2>3. CASE ~Fails
    <3>1. UNCHANGED tasks /\ run.pc \in NotYetPlaced /\ run'.task = run.task
      BY <1>0, <1>14, <2>3 DEF CheckName, NotYetPlaced, Writing
    <3> QED BY <1>1, <1>2, <2>1, <3>1
  <2> QED BY <2>2, <2>3
<1>15. CASE PutInPlace
  <2>1. UNCHANGED <<removers, late, wanted, nsp>>
    BY <1>15 DEF PutInPlace, database, history
  <2>2. CASE Fails
    BY <1>3, <1>15, <2>1, <2>2 DEF PutInPlace
  <2>3. CASE ~Fails
    <3>1. /\ run' = [run EXCEPT !.pc = "placed"] /\ run.task \in Tasks /\ At("renaming")
          /\ tasks' = [tasks EXCEPT ![run.task] =
                           [@ EXCEPT !.located = run.located, !.packed = run.read, !.kept = TRUE]]
      BY <1>0, <1>15, <2>3 DEF PutInPlace
    <3>2. /\ run'.pc \notin NotYetPlaced
          /\ \A w \in Removers : removers[w].pc # "none" => removers[w].task # run.task
      BY <1>0, <3>1 DEF RemovalInv, NotYetPlaced, Writing
    <3>3. Tasks' = Tasks /\ \A u \in Tasks \ {run.task} : tasks'[u] = tasks[u]
      BY <3>1, PlacedOK
    <3> QED BY <1>0, <2>1, <3>2, <3>3 DEF RemoversInv, RemovalInv
  <2> QED BY <2>2, <2>3
<1>16. CASE Finish
  <2>1. /\ run.task \in Tasks /\ tasks' = Told(run.task, "done") /\ run'.pc = "idle"
        /\ UNCHANGED <<removers, late, wanted, nsp>>
    BY <1>0, <1>16 DEF Finish, NoRun, files, database, history
  <2>2. /\ Tasks' = Tasks /\ SameWork
        /\ \A u \in Tasks : tasks'[u].state = "queued" => tasks[u].state = "queued"
    BY <2>1, RunFields, ToldOK
  <2> QED BY <1>1, <2>1, <2>2 DEF NotYetPlaced, Writing
<1>17. ASSUME NEW v \in Removers, NEW t \in Tasks, Begin(v, t), UNCHANGED <<tasks, wanted, nsp>>,
              tasks[t].state # "queued", run'.pc \in NotYetPlaced => t # run'.task /\ UNCHANGED run, ~Busy(t)
       PROVE  RemoversInv'
  <2>1. /\ removers \in [Removers -> [pc : {"none", "looking", "removing", "forgetting"}, task : Tasks \cup {None}]]
        /\ late \in [Removers -> SUBSET {"install", "original"}]
    BY TypeParts DEF RemoverType, HistoryType
  <2>2. /\ removers'[v].pc = "looking" /\ removers'[v].task = t /\ late'[v] = {}
        /\ \A w \in Removers \ {v} : removers'[w] = removers[w] /\ late'[w] = late[w]
    BY <1>17, <2>1 DEF Begin
  <2>3. ASSUME NEW w \in Removers, removers'[w].pc # "none" PROVE RemovalInv(w)'
    <3>1. CASE w = v
      BY <1>17, <2>2, <3>1 DEF RemovalInv, Busy
    <3>2. CASE w # v
      BY <1>0, <1>17, <2>2, <2>3, <3>2 DEF RemovalInv
    <3> QED BY <3>1, <3>2
  <2> QED BY <2>3 DEF RemoversInv
<1>18. CASE RunRemoves
  <2>1. UNCHANGED <<tasks, wanted, nsp>> /\ run'.pc \notin NotYetPlaced
    BY <1>0, <1>18 DEF RunRemoves, files, database, NotYetPlaced, Writing
  <2>2. CASE UNCHANGED <<removers, late>>
    BY <1>1, <1>2, <2>1, <2>2
  <2>3. CASE ~Busy(run.task) /\ Begin("run", run.task)
    BY <1>0, <1>17, <1>18, <2>1, <2>3 DEF RunRemoves
  <2> QED BY <1>18, <2>2, <2>3 DEF RunRemoves
<1>19. CASE RequestRemoves
  <2>1. PICK t \in Tasks : Removable(t) /\ Begin("request", t)
    BY <1>19 DEF RequestRemoves
  <2>2. /\ tasks[t].state = "done" /\ ~Busy(t) /\ UNCHANGED <<tasks, wanted, nsp, run>>
        /\ run.pc \in NotYetPlaced => t # run.task
    BY <1>0, <1>19, <2>1 DEF Removable, RequestRemoves, files, database, NotYetPlaced, Writing
  <2> QED BY <1>0, <1>17, <2>1, <2>2
<1>20. ASSUME NEW v \in Removers, NEW gone \in BOOLEAN, Leaves(v, gone), removers[v].pc # "none",
              UNCHANGED <<wanted, nsp, late>>
       PROVE  RemoversInv'
  <2>1. /\ Tasks' = Tasks /\ SameWork
        /\ \A t \in Tasks : tasks'[t].state = tasks[t].state
    BY <1>20, UnderWay, LeavesOK DEF Leaves
  <2>2. UNCHANGED run \/ run'.pc = "finishing"
    BY <1>0, <1>20 DEF Leaves
  <2>3. /\ removers'[v].pc = "none"
        /\ \A w \in Removers \ {v} : removers'[w] = removers[w]
    BY <1>20, TypeParts DEF Leaves, NoRemoval, RemoverType
  <2>4. ASSUME NEW w \in Removers, removers'[w].pc # "none" PROVE RemovalInv(w)'
    BY <1>0, <1>20, <2>1, <2>2, <2>3, <2>4 DEF RemovalInv, SameWork, NotYetPlaced, Writing
  <2> QED BY <2>4 DEF RemoversInv
<1>21. CASE Look
  <2>1. PICK v \in Removers : /\ removers[v].pc = "looking"
                              /\ \/ /\ Unchanged(removers[v].task)
                                    /\ removers' = [removers EXCEPT ![v].pc = "removing"]
                                    /\ UNCHANGED <<run, tasks>>
                                 \/ Leaves(v, FALSE)
    BY <1>21 DEF Look
  <2>2. UNCHANGED <<wanted, nsp, late>>
    BY <1>21 DEF Look, files, database, history
  <2>3. CASE Unchanged(removers[v].task) /\ removers' = [removers EXCEPT ![v].pc = "removing"]
             /\ UNCHANGED <<run, tasks>>
    <3>1. /\ removers'[v].pc = "removing" /\ removers'[v].task = removers[v].task
          /\ \A w \in Removers \ {v} : removers'[w] = removers[w]
      BY <2>3, TypeParts DEF RemoverType
    <3>2. ASSUME NEW w \in Removers, removers'[w].pc # "none" PROVE RemovalInv(w)'
      BY <1>0, <2>1, <2>2, <2>3, <3>1, <3>2 DEF RemovalInv, Unchanged
    <3> QED BY <3>2 DEF RemoversInv
  <2>4. CASE Leaves(v, FALSE)
    BY <1>20, <2>1, <2>2, <2>4
  <2> QED BY <2>1, <2>3, <2>4
<1>22. CASE Unlink
  <2>1. PICK v \in Removers : /\ removers[v].pc = "removing"
                              /\ \/ /\ nsp' = Gone
                                    /\ removers' = [removers EXCEPT ![v].pc = "forgetting"]
                                    /\ UNCHANGED <<run, tasks>>
                                 \/ Leaves(v, FALSE) /\ UNCHANGED nsp
    BY <1>22 DEF Unlink
  <2>2. UNCHANGED <<wanted, late>>
    BY <1>22 DEF Unlink, database, history
  <2>3. CASE nsp' = Gone /\ removers' = [removers EXCEPT ![v].pc = "forgetting"] /\ UNCHANGED <<run, tasks>>
    <3>1. /\ removers'[v].pc = "forgetting" /\ removers'[v].task = removers[v].task
          /\ \A w \in Removers \ {v} : removers'[w] = removers[w]
      BY <2>3, TypeParts DEF RemoverType
    <3>2. ASSUME NEW w \in Removers, removers'[w].pc # "none" PROVE RemovalInv(w)'
      BY <1>0, <2>1, <2>2, <2>3, <3>1, <3>2 DEF RemovalInv
    <3> QED BY <3>2 DEF RemoversInv
  <2>4. CASE Leaves(v, FALSE) /\ UNCHANGED nsp
    BY <1>20, <2>1, <2>2, <2>4
  <2> QED BY <2>1, <2>3, <2>4
<1>23. CASE Forget
  <2>1. PICK v \in Removers : removers[v].pc = "forgetting" /\ Leaves(v, TRUE)
    BY <1>23 DEF Forget
  <2>2. UNCHANGED <<wanted, nsp, late>>
    BY <1>23 DEF Forget, files, history
  <2> QED BY <1>20, <2>1, <2>2
<1>24. CASE Restart
  BY <1>24 DEF Restart, RemoversInv, NoRemoval
<1>25. CASE ChangeNsp
  <2>1. /\ UNCHANGED <<tasks, run, removers, wanted>>
        /\ late' = [w \in Removers |-> late[w] \cup IF removers[w].pc = "removing" THEN {"original"} ELSE {}]
    BY <1>25 DEF ChangeNsp, memory, database
  <2>2. \A w \in Removers : /\ removers[w].pc = "removing" => "original" \in late'[w]
                            /\ "install" \in late[w] => "install" \in late'[w]
    BY <2>1
  <2> QED BY <1>0, <2>1, <2>2 DEF RemoversInv, RemovalInv
<1>26. CASE ChangeNsz
  <2>1. /\ Tasks' = Tasks /\ UNCHANGED <<run, removers, late, wanted, nsp>>
        /\ \A u \in Tasks : /\ tasks'[u].file = tasks[u].file /\ tasks'[u].located = tasks[u].located
                            /\ tasks'[u].state = tasks[u].state
    BY <1>26, TouchedOK DEF ChangeNsz, database
  <2> QED BY <1>0, <2>1 DEF RemoversInv, RemovalInv
<1>27. CASE UNCHANGED <<tasks, run, removers, late, wanted, nsp>>
  BY <1>1, <1>2, <1>27
<1> QED BY <1>4, <1>5, <1>6, <1>7, <1>8, <1>9, <1>10, <1>11, <1>12, <1>13, <1>14, <1>15, <1>16, <1>18, <1>19,
           <1>21, <1>22, <1>23, <1>24, <1>25, <1>26, <1>27, WhoChanges

-----------------------------------------------------------------------------
(* The theorems. *)

(* The strengthened invariant holds in every reachable state. *)
LEMMA Inductive == Spec => []IInv
<1>1. Init => IInv
  <2> SUFFICES ASSUME Init PROVE IInv
    OBVIOUS
  <2>1. Tasks = {} /\ run.pc = "idle" /\ \A w \in Removers : removers[w].pc = "none"
    BY DEF Init, Tasks, NoRun, NoRemoval
  <2> QED BY <2>1, InitType DEF IInv, RunInv, KeptInv, RemoversInv, Writing
<1>2. IInv /\ [Next]_vars => IInv'
  BY TypeStep, RunInvStep, KeptInvStep, RemoversInvStep DEF IInv
<1> QED BY <1>1, <1>2, PTL DEF Spec

(* Whatever the scanner, people and restarts do, the service's bookkeeping stays sound: one run   *)
(* at a time, its task the only one that says it is running, and a partial file only while it is *)
(* written or until the server that was restarted has removed it.                                *)
THEOREM TypesAreKept == Spec => []TypeOK
BY Inductive, PTL DEF IInv

(* A removal deletes the NSP only by Unlink, and only the NSP it found when it looked last. *)
LEMMA DeletionOK ==
    ASSUME IInv, [Next]_vars, NEW w \in Removers, Deletes(w)
    PROVE  nsp # Gone /\ removers[w].task \in Tasks /\ RemovalInv(w)
<1>1. /\ removers \in [Removers -> [pc : {"none", "looking", "removing", "forgetting"}, task : Tasks \cup {None}]]
      /\ removers[w].pc = "removing" /\ removers'[w].pc = "forgetting"
  BY TypeParts DEF IInv, Deletes, RemoverType
<1>2. removers[w].task \in Tasks /\ RemovalInv(w)
  BY <1>1, UnderWay DEF IInv, RemoversInv
<1>3. Unlink
  <2>1. ~RunRemoves /\ ~RequestRemoves
    BY <1>1 DEF RunRemoves, RequestRemoves, Begin
  <2>2. ~Look /\ ~Forget
    BY <1>1 DEF Look, Forget, Leaves, NoRemoval
  <2>3. ~Restart
    BY <1>1 DEF Restart, NoRemoval
  <2> QED BY <1>1, <2>1, <2>2, <2>3, WhoChanges
<1>4. nsp # Gone
  <2>1. PICK v \in Removers : nsp # Gone \/ Leaves(v, FALSE)
    BY <1>3 DEF Unlink
  <2> QED BY <1>1, <2>1 DEF Leaves, NoRemoval
<1> QED BY <1>2, <1>4

(* An NSP is not deleted before the NSZ made of it is in place, but for the changes people make *)
(* in the windows LastCopySurvives names.                                                       *)
THEOREM TheLastCopySurvives == Spec => LastCopySurvives
<1> DEFINE Safe == \A w \in Removers :
               LET task == tasks[removers[w].task]
               IN Deletes(w) /\ "original" \notin late[w] /\ task.kept /\ task.packed = task.located => nsz = nsp
<1>1. IInv /\ [Next]_vars => Safe
  <2> SUFFICES ASSUME IInv, [Next]_vars, NEW w \in Removers, Deletes(w), "original" \notin late[w],
                      tasks[removers[w].task].kept,
                      tasks[removers[w].task].packed = tasks[removers[w].task].located
               PROVE  nsz = nsp
    OBVIOUS
  <2>1. nsp # Gone /\ removers[w].task \in Tasks /\ RemovalInv(w) /\ removers[w].pc = "removing"
    BY DeletionOK DEF Deletes
  <2>2. nsp = tasks[removers[w].task].located
    BY <2>1 DEF RemovalInv
  <2>3. nsz = tasks[removers[w].task].packed
    BY <2>1 DEF IInv, KeptInv
  <2> QED BY <2>2, <2>3
<1>2. IInv /\ [Next]_vars => [Safe]_vars
  BY <1>1
<1> QED BY <1>2, Inductive, PTL DEF Spec, LastCopySurvives

(* No install that was queued when the removal looked for one loses its NSP. *)
THEOREM InstallsKeepTheirOriginal == Spec => InstallKeepsOriginal
<1>1. IInv /\ [Next]_vars =>
          [\A w \in Removers : Deletes(w) /\ "install" \notin late[w] => ~Busy(removers[w].task)]_vars
  <2> SUFFICES ASSUME IInv, [Next]_vars, NEW w \in Removers, Deletes(w), "install" \notin late[w]
               PROVE  ~Busy(removers[w].task)
    OBVIOUS
  <2>1. RemovalInv(w) /\ removers[w].pc = "removing"
    BY DeletionOK DEF Deletes
  <2> QED BY <2>1 DEF RemovalInv, Busy
<1> QED BY <1>1, Inductive, PTL DEF Spec, InstallKeepsOriginal

(* The NSZ takes the place of no file that was there at the last look. *)
THEOREM NoFileIsOverwritten == Spec => NeverOverAFile
<1>1. IInv => [PutInPlace /\ nsz # Gone => named \/ partial = Gone]_vars
  BY DEF IInv, KeptInv, PutInPlace
<1> QED BY <1>1, Inductive, PTL DEF Spec, NeverOverAFile

--------------------------------------------------------------------------------
(* NczEncoder: what encodeNcz and its pool promise, for any number of workers. *)

NczSized == Parallel \in Nat \ {0} /\ Blocks \in Nat

\* What was read is numbered without gaps: q holds the last Len(q) blocks read.
LastRead(q) ==
    /\ Len(q) <= blocksRead
    /\ \A i \in 1..Len(q) : q[i] = blocksRead - Len(q) + i

(* The pool: jobs leave the queue in order, so those of the workers are older than those queued. *)
PoolInv ==
    /\ LastRead(waiting)
    /\ \A w \in Slots : busy[w] <= blocksRead - Len(waiting)
    /\ \A v, w \in Slots : v # w /\ busy[v] = busy[w] => busy[v] = 0
    /\ \A b \in Block : answer[b] = "none" <=> b > blocksRead
    /\ \A b \in Block : answer[b] = "pending" =>
           (\E i \in 1..Len(waiting) : waiting[i] = b) \/ (\E w \in Slots : busy[w] = b)
    /\ waiting # <<>> => \A w \in Slots : busy[w] # 0
    /\ closed => waiting = <<>>

(* The encoder: what was read is stored, awaited or in flight, in this order. *)
EncoderInv ==
    /\ LastRead(inFlight)
    /\ Len(stored) <= blocksRead
    /\ \A i \in 1..Len(stored) : stored[i] = i /\ sizes[i] = i
    /\ pc \in {"turning", "reading", "done"} =>
           oldest = 0 /\ Len(stored) + Len(inFlight) = blocksRead
    /\ pc \in {"awaiting", "writing"} =>
           oldest = Len(stored) + 1 /\ oldest + Len(inFlight) = blocksRead
    /\ pc = "reading" => blocksRead < Blocks
    /\ pc = "writing" => sizes[oldest] = oldest
    /\ pc \in {"turning", "reading", "awaiting", "writing"} => Len(inFlight) < Parallel
    /\ pc = "done" => Len(stored) = Blocks
    /\ pc \in {"done", "failed"} => inFlight = <<>>

NczInv == NczTypeOK /\ PoolInv /\ EncoderInv

--------------------------------------------------------------------------------

\* The invariant holds at the start.
LEMMA NczInitOK == ASSUME NczSized PROVE NczInit => NczInv
<1>1. SUFFICES ASSUME NczInit PROVE NczInv
  OBVIOUS
<1>2. NczTypeOK
  <2>1. <<>> \in Seq(Block)
    OBVIOUS
  <2>2. [w \in Slots |-> 0] \in [Slots -> 0..Blocks] /\ [b \in Block |-> 0] \in [Block -> 0..Blocks]
    BY NczSized DEF NczSized
  <2>3. [b \in Block |-> "none"] \in [Block -> {"none", "pending", "done", "failed"}]
    OBVIOUS
  <2>4. 0 \in 0..Blocks
    BY NczSized DEF NczSized
  <2>5. QED
    BY <1>1, <2>1, <2>2, <2>3, <2>4, Zenon DEF NczInit, NczTypeOK
<1>3. PoolInv
  BY <1>1, NczSized DEF NczSized, NczInit, PoolInv, LastRead, Block
<1>4. EncoderInv
  BY <1>1, NczSized DEF NczSized, NczInit, EncoderInv, LastRead
<1>5. QED
  BY <1>2, <1>3, <1>4 DEF NczInv

\* A queue that ends with block last, and jobs older than it; each block is in one place.
Ordered(queue, jobs, last) ==
    /\ queue \in Seq(Block) /\ jobs \in [Slots -> 0..Blocks]
    /\ Len(queue) <= last
    /\ \A i \in 1..Len(queue) : queue[i] = last - Len(queue) + i
    /\ \A w \in Slots : jobs[w] <= last - Len(queue)
    /\ \A v, w \in Slots : v # w /\ jobs[v] = jobs[w] => jobs[v] = 0

Holds(queue, jobs, b) == (\E i \in 1..Len(queue) : queue[i] = b) \/ (\E w \in Slots : jobs[w] = b)

(* A dispatch loses nothing, and no slot stays free beside a queue, if at most one more job or  *)
(* slot is to spare.                                                                            *)
LEMMA DispatchOK ==
    ASSUME NczSized, NEW queue, NEW jobs, NEW last \in 0..Blocks,
           Ordered(queue, jobs, last),
           Len(queue) > 1 => \A v, w \in Slots : jobs[v] = 0 /\ jobs[w] = 0 => v = w,
           Dispatch(queue, jobs)
    PROVE  /\ Ordered(waiting', busy', last)
           /\ \A b \in Block : Holds(queue, jobs, b) => Holds(waiting', busy', b)
           /\ waiting' # <<>> => \A w \in Slots : busy'[w] # 0
           /\ queue = <<>> => waiting' = <<>>
<1> USE DEF Ordered, Holds
<1>1. CASE queue = <<>> \/ \A w \in Slots : jobs[w] # 0
  <2>1. waiting' = queue /\ busy' = jobs
    BY <1>1 DEF Dispatch
  <2>2. QED
    BY <1>1, <2>1
<1>2. CASE queue # <<>> /\ \E w \in Slots : jobs[w] = 0
  <2>1. PICK w \in Slots : jobs[w] = 0 /\ busy' = [jobs EXCEPT ![w] = Head(queue)]
    BY <1>2 DEF Dispatch
  <2>2. waiting' = Tail(queue)
    BY <1>2 DEF Dispatch
  <2>3. /\ Len(queue) \in Nat /\ Len(queue) > 0 /\ Len(waiting') = Len(queue) - 1
        /\ waiting' \in Seq(Block)
        /\ \A i \in 1..Len(waiting') : waiting'[i] = queue[i + 1]
        /\ Head(queue) = queue[1] /\ Head(queue) \in Block
    BY <1>2, <2>2
  <2>4. Head(queue) = last - Len(queue) + 1
    BY <2>3
  <2>5. busy' \in [Slots -> 0..Blocks]
    BY <2>1, <2>3 DEF Block
  <2>6. \A v \in Slots : busy'[v] = IF v = w THEN Head(queue) ELSE jobs[v]
    BY <2>1
  <2>7. \A i \in 1..Len(waiting') : waiting'[i] = last - Len(waiting') + i
    BY <2>3, NczSized DEF NczSized
  <2>8. \A v \in Slots : busy'[v] <= last - Len(waiting')
    BY <2>3, <2>4, <2>6, NczSized DEF NczSized
  <2>9. \A u, v \in Slots : u # v /\ busy'[u] = busy'[v] => busy'[u] = 0
    BY <2>3, <2>4, <2>6, NczSized DEF NczSized
  <2>10. ASSUME NEW b \in Block,
                (\E i \in 1..Len(queue) : queue[i] = b) \/ (\E v \in Slots : jobs[v] = b)
         PROVE  (\E i \in 1..Len(waiting') : waiting'[i] = b) \/ (\E v \in Slots : busy'[v] = b)
    <3>1. CASE \E i \in 1..Len(queue) : queue[i] = b
      <4>1. PICK i \in 1..Len(queue) : queue[i] = b
        BY <3>1
      <4>2. CASE i = 1
        BY <4>1, <4>2, <2>3, <2>6
      <4>3. CASE i # 1
        <5>1. i - 1 \in 1..Len(waiting') /\ waiting'[i - 1] = b
          BY <4>1, <4>3, <2>3
        <5>2. QED
          BY <5>1
      <4>4. QED
        BY <4>2, <4>3
    <3>2. CASE \E v \in Slots : jobs[v] = b
      BY <3>2, <2>1, <2>6 DEF Block
    <3>3. QED
      BY <2>10, <3>1, <3>2
  <2>11. waiting' # <<>> => \A v \in Slots : busy'[v] # 0
    BY <2>1, <2>3, <2>6 DEF Block
  <2>12. Len(waiting') <= last
    BY <2>3
  <2>13. QED
    BY <1>2, <2>3, <2>5, <2>7, <2>8, <2>9, <2>10, <2>11, <2>12
<1>3. QED
  BY <1>1, <1>2

(* A worker is done with its job: the pool's part of Reply and of Lose. *)
Answered(w, result) ==
    /\ busy[w] # 0
    /\ answer' = [answer EXCEPT ![busy[w]] = result]
    /\ Dispatch(waiting, [busy EXCEPT ![w] = 0])

\* A job that is answered leaves its slot, which the next one takes.
LEMMA AnsweredOK ==
    ASSUME NczSized, NczInv, NEW w \in Slots, NEW result \in {"done", "failed"}, Answered(w, result),
           UNCHANGED <<closed, encoder, aborted>>
    PROVE  NczInv'
<1> DEFINE jobs == [busy EXCEPT ![w] = 0]
<1>1. /\ waiting \in Seq(Block) /\ busy \in [Slots -> 0..Blocks] /\ blocksRead \in 0..Blocks
      /\ answer \in [Block -> {"none", "pending", "done", "failed"}]
  BY DEF NczInv, NczTypeOK
<1>2. jobs \in [Slots -> 0..Blocks] /\ \A v \in Slots : jobs[v] = IF v = w THEN 0 ELSE busy[v]
  BY <1>1, NczSized DEF NczSized
<1>3. busy[w] \in Block /\ busy[w] <= blocksRead
  BY <1>1, NczSized DEF Answered, Block, NczInv, PoolInv, LastRead, NczSized
<1>4. \A b \in Block : answer'[b] = IF b = busy[w] THEN result ELSE answer[b]
  BY <1>1, <1>3 DEF Answered
<1>5. \A u, v \in Slots : jobs[u] = 0 /\ jobs[v] = 0 /\ waiting # <<>> => u = v
  BY <1>2 DEF NczInv, PoolInv
<1>6. /\ Len(waiting) <= blocksRead
      /\ \A i \in 1..Len(waiting) : waiting[i] = blocksRead - Len(waiting) + i
      /\ \A v \in Slots : jobs[v] <= blocksRead - Len(waiting)
      /\ \A u, v \in Slots : u # v /\ jobs[u] = jobs[v] => jobs[u] = 0
      /\ Len(waiting) > 1 => \A u, v \in Slots : jobs[u] = 0 /\ jobs[v] = 0 => u = v
  <2>1. Len(waiting) <= blocksRead /\ \A i \in 1..Len(waiting) : waiting[i] = blocksRead - Len(waiting) + i
    BY DEF NczInv, PoolInv, LastRead
  <2>2. \A v \in Slots : jobs[v] <= blocksRead - Len(waiting)
    BY <1>1, <1>2, <2>1 DEF NczInv, PoolInv
  <2>3. \A u, v \in Slots : u # v /\ jobs[u] = jobs[v] => jobs[u] = 0
    BY <1>2 DEF NczInv, PoolInv
  <2>4. Len(waiting) > 1 => waiting # <<>>
    BY <1>1
  <2>5. QED
    BY <1>5, <2>1, <2>2, <2>3, <2>4
<1>7. /\ waiting' \in Seq(Block) /\ busy' \in [Slots -> 0..Blocks]
      /\ Len(waiting') <= blocksRead
      /\ \A i \in 1..Len(waiting') : waiting'[i] = blocksRead - Len(waiting') + i
      /\ \A v \in Slots : busy'[v] <= blocksRead - Len(waiting')
      /\ \A u, v \in Slots : u # v /\ busy'[u] = busy'[v] => busy'[u] = 0
      /\ \A b \in Block :
             (\E i \in 1..Len(waiting) : waiting[i] = b) \/ (\E v \in Slots : jobs[v] = b) =>
             (\E i \in 1..Len(waiting') : waiting'[i] = b) \/ (\E v \in Slots : busy'[v] = b)
      /\ waiting' # <<>> => \A v \in Slots : busy'[v] # 0
      /\ waiting = <<>> => waiting' = <<>>
  <2>1. Dispatch(waiting, jobs)
    BY DEF Answered
  <2>2. Ordered(waiting, jobs, blocksRead)
    BY <1>1, <1>2, <1>6 DEF Ordered
  <2> HIDE DEF jobs
  <2>3. /\ Ordered(waiting', busy', blocksRead)
        /\ \A b \in Block : Holds(waiting, jobs, b) => Holds(waiting', busy', b)
        /\ waiting' # <<>> => \A v \in Slots : busy'[v] # 0
        /\ waiting = <<>> => waiting' = <<>>
    BY <1>1, <1>6, <2>1, <2>2, DispatchOK
  <2>4. QED
    BY <2>3 DEF Ordered, Holds
<1>8. blocksRead' = blocksRead /\ closed' = closed
  BY DEF encoder
<1>9. NczTypeOK'
  <2>1. answer' \in [Block -> {"none", "pending", "done", "failed"}]
    BY <1>1, <1>3 DEF Answered
  <2>2. QED
    BY <1>7, <2>1 DEF NczInv, NczTypeOK, encoder, Block
<1>10. PoolInv'
  <2>1. \A b \in Block : answer'[b] = "none" <=> b > blocksRead
    BY <1>1, <1>3, <1>4, NczSized DEF NczInv, PoolInv, Block, NczSized
  <2>2. ASSUME NEW b \in Block, answer'[b] = "pending"
        PROVE  (\E i \in 1..Len(waiting') : waiting'[i] = b) \/ (\E v \in Slots : busy'[v] = b)
    <3>1. b # busy[w] /\ answer[b] = "pending"
      BY <1>4, <2>2
    <3>2. (\E i \in 1..Len(waiting) : waiting[i] = b) \/ (\E v \in Slots : jobs[v] = b)
      BY <1>2, <3>1 DEF NczInv, PoolInv
    <3>3. QED
      BY <1>7, <3>2
  <2>3. closed => waiting' = <<>>
    BY <1>7 DEF NczInv, PoolInv
  <2>4. QED
    BY <1>7, <1>8, <2>1, <2>2, <2>3 DEF PoolInv, LastRead, Block
<1>11. EncoderInv'
  BY DEF NczInv, EncoderInv, LastRead, encoder
<1>12. QED
  BY <1>9, <1>10, <1>11 DEF NczInv

\* A closed pool owes nothing.
LEMMA CloseOK == ASSUME NczSized, NczInv, Close PROVE NczInv'
<1>1. waiting' = <<>> /\ \A w \in Slots : busy'[w] = 0
  BY DEF Close
<1>2. blocksRead' = blocksRead /\ blocksRead \in 0..Blocks
  BY DEF Close, encoder, NczInv, NczTypeOK
<1>3. \A b \in Block : answer'[b] = IF answer[b] = "pending" THEN "failed" ELSE answer[b]
  BY DEF Close
<1>4. NczTypeOK'
  <2>1. waiting' \in Seq(Block) /\ busy' \in [Slots -> 0..Blocks]
    BY <1>1, NczSized DEF Close, NczSized
  <2>2. answer' \in [Block -> {"none", "pending", "done", "failed"}]
    BY DEF Close, NczInv, NczTypeOK
  <2>3. QED
    BY <2>1, <2>2 DEF Close, encoder, NczInv, NczTypeOK, Block
<1>5. PoolInv'
  <2>1. \A b \in Block : answer'[b] = "none" <=> b > blocksRead
    BY <1>3 DEF NczInv, PoolInv
  <2>2. Len(waiting') = 0
    BY <1>1
  <2>3. \A b \in Block : answer'[b] # "pending"
    BY <1>3
  <2>4. QED
    BY <1>1, <1>2, <2>1, <2>2, <2>3 DEF PoolInv, LastRead, Block
<1>6. EncoderInv'
  BY DEF Close, NczInv, EncoderInv, LastRead, encoder
<1>7. QED
  BY <1>4, <1>5, <1>6 DEF NczInv

\* A step that leaves the pool alone and reads nothing keeps the pool's part.
LEMMA PoolKept == ASSUME PoolInv, UNCHANGED <<pool, blocksRead>> PROVE PoolInv'
BY DEF PoolInv, LastRead, pool

\* Whatever fails, the encoder keeps what it stored.
LEMMA FailOK == ASSUME NczSized, NczInv, Fail, UNCHANGED <<pool, aborted>> \/ UNCHANGED pool PROVE EncoderInv'
<1>1. inFlight' = <<>> /\ Len(inFlight') = 0 /\ pc' = "failed"
  BY DEF Fail
<1>2. UNCHANGED <<blocksRead, oldest, sizes, stored>> /\ blocksRead \in 0..Blocks
  BY DEF Fail, NczInv, NczTypeOK
<1>3. QED
  BY <1>1, <1>2 DEF NczInv, EncoderInv, LastRead

\* The oldest block leaves those in flight: the rest is still the last that was read.
LEMMA TailOK ==
    ASSUME NEW q \in Seq(Block), q # <<>>, NEW last \in Nat, Len(q) <= last,
           \A i \in 1..Len(q) : q[i] = last - Len(q) + i
    PROVE  /\ Head(q) = last - Len(q) + 1 /\ Head(q) \in Block
           /\ Tail(q) \in Seq(Block) /\ Len(Tail(q)) = Len(q) - 1 /\ Len(q) \in Nat \ {0}
           /\ \A i \in 1..Len(Tail(q)) : Tail(q)[i] = last - Len(Tail(q)) + i
<1>1. /\ Len(q) \in Nat \ {0} /\ Tail(q) \in Seq(Block) /\ Len(Tail(q)) = Len(q) - 1
      /\ \A i \in 1..Len(Tail(q)) : Tail(q)[i] = q[i + 1]
      /\ Head(q) = q[1] /\ Head(q) \in Block
  OBVIOUS
<1>2. QED
  BY <1>1

\* One more block: those in flight, or queued, are still the last that was read.
LEMMA AppendOK ==
    ASSUME NczSized, NEW q \in Seq(Block), NEW last \in Nat, last < Blocks, Len(q) <= last,
           \A i \in 1..Len(q) : q[i] = last - Len(q) + i
    PROVE  LET longer == Append(q, last + 1)
           IN /\ longer \in Seq(Block) /\ longer # <<>>
              /\ Len(longer) = Len(q) + 1 /\ Len(longer) <= last + 1
              /\ \A i \in 1..Len(longer) : longer[i] = last + 1 - Len(longer) + i
              /\ \A i \in 1..Len(q) : longer[i] = q[i]
              /\ longer[Len(longer)] = last + 1
<1> DEFINE longer == Append(q, last + 1)
<1>1. last + 1 \in Block
  BY NczSized DEF NczSized, Block
<1>2. /\ longer \in Seq(Block) /\ longer # <<>> /\ Len(longer) = Len(q) + 1 /\ Len(q) \in Nat
      /\ \A i \in 1..Len(q) : longer[i] = q[i]
      /\ longer[Len(q) + 1] = last + 1
  <2>1. longer \in Seq(Block) /\ Len(longer) = Len(q) + 1 /\ Len(q) \in Nat
    BY <1>1
  <2>2. longer # <<>>
    BY <2>1
  <2>3. (\A i \in 1..Len(q) : longer[i] = q[i]) /\ longer[Len(q) + 1] = last + 1
    BY <1>1
  <2>4. QED
    BY <2>1, <2>2, <2>3
<1>3. \A i \in 1..Len(longer) : i \in 1..Len(q) \/ i = Len(q) + 1
  BY <1>2
<1>4. \A i \in 1..Len(longer) : longer[i] = last + 1 - Len(longer) + i
  BY <1>2, <1>3
<1>5. QED
  BY <1>2, <1>4

--------------------------------------------------------------------------------

\* The oldest block in flight is the next to be stored.
LEMMA DrainOK == ASSUME NczSized, NczInv, Drain PROVE NczInv'
<1>1. inFlight \in Seq(Block) /\ inFlight # <<>> /\ blocksRead \in Nat /\ LastRead(inFlight)
  BY NczSized DEF NczSized, Drain, NczInv, NczTypeOK, EncoderInv
<1>2. /\ Head(inFlight) = blocksRead - Len(inFlight) + 1 /\ Head(inFlight) \in Block
      /\ Tail(inFlight) \in Seq(Block) /\ Len(Tail(inFlight)) = Len(inFlight) - 1
      /\ Len(inFlight) \in Nat \ {0}
      /\ \A i \in 1..Len(Tail(inFlight)) : Tail(inFlight)[i] = blocksRead - Len(Tail(inFlight)) + i
  BY <1>1, TailOK DEF LastRead
<1>3. /\ pc' = "awaiting" /\ oldest' = Head(inFlight) /\ inFlight' = Tail(inFlight)
      /\ UNCHANGED <<pool, blocksRead, sizes, stored, aborted>>
  BY DEF Drain
<1>4. NczTypeOK'
  BY <1>2, <1>3, NczSized DEF NczSized, NczInv, NczTypeOK, pool, Block
<1>5. EncoderInv'
  <2>1. pc = "turning" /\ Len(stored) + Len(inFlight) = blocksRead /\ Len(stored) \in Nat
        /\ Len(inFlight) < Parallel
    BY DEF Drain, NczInv, EncoderInv, NczTypeOK
  <2>2. LastRead(inFlight)'
    BY <1>1, <1>2, <1>3 DEF LastRead
  <2>3. oldest' = Len(stored) + 1 /\ oldest' + Len(inFlight') = blocksRead /\ Len(inFlight') < Parallel
    BY <1>1, <1>2, <1>3, <2>1, NczSized DEF NczSized
  <2>4. QED
    BY <1>3, <2>1, <2>2, <2>3 DEF NczInv, EncoderInv
<1>6. QED
  BY <1>3, <1>4, <1>5, PoolKept DEF NczInv

\* Each step that leaves the pool alone, but Drain.
LEMMA QuietOK ==
    ASSUME NczSized, NczInv,
           TurnAborts \/ NextBlock \/ FinishEncoding \/ ReadFails \/ OldestFailed \/ WriteFails \/ Abort
    PROVE  NczInv'
<1>1. UNCHANGED <<pool, blocksRead>>
  BY DEF TurnAborts, NextBlock, FinishEncoding, ReadFails, OldestFailed, WriteFails, Abort, Fail, encoder
<1>2. NczTypeOK'
  <2>1. <<>> \in Seq(Block)
    OBVIOUS
  <2>2. CASE Fail /\ UNCHANGED <<pool, aborted>>
    BY <2>1, <2>2 DEF Fail, pool, NczInv, NczTypeOK
  <2>3. CASE NextBlock \/ FinishEncoding
    BY <2>3 DEF NextBlock, FinishEncoding, pool, NczInv, NczTypeOK
  <2>4. CASE Abort
    BY <2>4 DEF Abort, pool, encoder, NczInv, NczTypeOK
  <2>5. QED
    BY <2>2, <2>3, <2>4 DEF TurnAborts, ReadFails, OldestFailed, WriteFails
<1>3. EncoderInv'
  <2>1. CASE TurnAborts \/ ReadFails \/ OldestFailed \/ WriteFails
    BY <2>1, FailOK DEF TurnAborts, ReadFails, OldestFailed, WriteFails
  <2>2. CASE NextBlock
    BY <2>2, NczSized DEF NextBlock, NczInv, NczTypeOK, EncoderInv, LastRead, NczSized
  <2>3. CASE FinishEncoding
    <3>1. Len(inFlight) = 0 /\ Len(stored) \in Nat
      BY <2>3 DEF FinishEncoding, NczInv, NczTypeOK
    <3>2. QED
      BY <2>3, <3>1 DEF FinishEncoding, NczInv, EncoderInv, LastRead
  <2>4. CASE Abort
    BY <2>4 DEF Abort, encoder, NczInv, EncoderInv, LastRead
  <2>5. QED
    BY <2>1, <2>2, <2>3, <2>4
<1>4. QED
  BY <1>1, <1>2, <1>3, PoolKept DEF NczInv

\* A size is entered where its block will be.
LEMMA TakeOldestOK == ASSUME NczSized, NczInv, TakeOldest PROVE NczInv'
<1>1. /\ oldest = Len(stored) + 1 /\ oldest + Len(inFlight) = blocksRead
      /\ Len(stored) \in Nat /\ Len(inFlight) \in Nat /\ blocksRead \in 0..Blocks
  BY DEF TakeOldest, NczInv, NczTypeOK, EncoderInv
<1>2. oldest \in Block
  BY <1>1, NczSized DEF NczSized, Block
<1>3. /\ pc = "awaiting" /\ pc' = "writing" /\ sizes' = [sizes EXCEPT ![oldest] = oldest]
      /\ UNCHANGED <<pool, blocksRead, inFlight, oldest, stored, aborted>>
  BY <1>1 DEF TakeOldest
<1>4. sizes' \in [Block -> 0..Blocks] /\ \A b \in Block : sizes'[b] = IF b = oldest THEN oldest ELSE sizes[b]
  BY <1>2, <1>3, NczSized DEF NczSized, NczInv, NczTypeOK, Block
<1>5. NczTypeOK'
  BY <1>3, <1>4 DEF NczInv, NczTypeOK, pool
<1>6. EncoderInv'
  <2>1. ASSUME NEW i \in 1..Len(stored) PROVE stored[i] = i /\ sizes'[i] = i
    <3>1. i # oldest /\ i \in Block
      BY <1>1, NczSized DEF NczSized, Block
    <3>2. stored[i] = i /\ sizes[i] = i
      BY DEF NczInv, EncoderInv
    <3>3. QED
      BY <1>4, <3>1, <3>2
  <2>2. QED
    BY <1>1, <1>2, <1>3, <1>4, <2>1 DEF NczInv, EncoderInv, LastRead
<1>7. QED
  BY <1>3, <1>5, <1>6, PoolKept DEF NczInv

\* The block written is the next one.
LEMMA WriteBlockOK == ASSUME NczSized, NczInv, WriteBlock PROVE NczInv'
<1>1. /\ pc = "writing" /\ oldest = Len(stored) + 1 /\ oldest + Len(inFlight) = blocksRead
      /\ sizes[oldest] = oldest /\ Len(inFlight) < Parallel
      /\ stored \in Seq(Block) /\ Len(stored) \in Nat /\ Len(inFlight) \in Nat /\ blocksRead \in 0..Blocks
  BY DEF WriteBlock, NczInv, NczTypeOK, EncoderInv
<1>2. oldest \in Block
  BY <1>1, NczSized DEF NczSized, Block
<1>3. /\ pc' = "turning" /\ stored' = Append(stored, oldest) /\ oldest' = 0
      /\ UNCHANGED <<pool, blocksRead, inFlight, sizes, aborted>>
  BY DEF WriteBlock
<1>4. /\ stored' \in Seq(Block) /\ Len(stored') = Len(stored) + 1
      /\ \A i \in 1..Len(stored) : stored'[i] = stored[i]
      /\ stored'[Len(stored) + 1] = oldest
  BY <1>1, <1>2, <1>3
<1>5. NczTypeOK'
  BY <1>3, <1>4, NczSized DEF NczSized, NczInv, NczTypeOK, pool
<1>6. EncoderInv'
  <2>1. \A i \in 1..Len(stored') : stored'[i] = i /\ sizes[i] = i
    <3>1. \A i \in 1..Len(stored') : i \in 1..Len(stored) \/ i = oldest
      BY <1>1, <1>4
    <3>2. QED
      BY <1>1, <1>4, <3>1 DEF NczInv, EncoderInv
  <2>2. QED
    BY <1>1, <1>3, <1>4, <2>1 DEF NczInv, EncoderInv, LastRead
<1>7. QED
  BY <1>3, <1>5, <1>6, PoolKept DEF NczInv

\* What the pool makes of a block handed to it.
LEMMA CompressOK ==
    ASSUME NczSized, NczInv, blocksRead < Blocks, Compress(blocksRead + 1),
           blocksRead' = blocksRead + 1, closed' = closed
    PROVE  /\ waiting' \in Seq(Block) /\ busy' \in [Slots -> 0..Blocks]
           /\ answer' \in [Block -> {"none", "pending", "done", "failed"}]
           /\ PoolInv'
<1>n. PICK new : new = blocksRead + 1
  OBVIOUS
<1>q. PICK queue : queue = Append(waiting, new)
  OBVIOUS
<1>1. /\ waiting \in Seq(Block) /\ busy \in [Slots -> 0..Blocks] /\ blocksRead \in Nat
      /\ answer \in [Block -> {"none", "pending", "done", "failed"}]
  BY NczSized DEF NczInv, NczTypeOK, NczSized
<1>2. new \in Block /\ new \in 0..Blocks
  BY <1>n, <1>1, NczSized DEF NczSized, Block
<1>3. /\ Len(waiting) <= blocksRead /\ Len(waiting) \in Nat
      /\ \A i \in 1..Len(waiting) : waiting[i] = blocksRead - Len(waiting) + i
      /\ \A w \in Slots : busy[w] <= blocksRead - Len(waiting)
      /\ \A v, w \in Slots : v # w /\ busy[v] = busy[w] => busy[v] = 0
      /\ waiting # <<>> => \A w \in Slots : busy[w] # 0
  BY <1>1 DEF NczInv, PoolInv, LastRead
<1>4. \A b \in Block : (answer[b] = "none") <=> b > blocksRead
  BY DEF NczInv, PoolInv
<1>5. CASE closed
  <2>1. waiting = <<>> /\ waiting' = waiting /\ busy' = busy /\ answer' = [answer EXCEPT ![new] = "failed"]
    BY <1>n, <1>5 DEF Compress, NczInv, PoolInv
  <2>2. \A b \in Block : answer'[b] = IF b = new THEN "failed" ELSE answer[b]
    BY <1>1, <1>2, <2>1
  <2>3. answer' \in [Block -> {"none", "pending", "done", "failed"}]
    BY <1>1, <1>2, <2>1
  <2>4. \A b \in Block : answer'[b] = "none" <=> b > new
    BY <1>n, <1>1, <1>4, <2>2 DEF Block
  <2>5. Len(waiting') = 0
    BY <2>1
  <2>6. \A w \in Slots : busy'[w] <= new
    BY <1>n, <1>1, <1>3, <2>1, NczSized DEF NczSized
  <2>7. \A b \in Block : answer'[b] = "pending" => \E w \in Slots : busy'[w] = b
    <3>1. 1..Len(waiting) = {}
      BY <2>1
    <3>2. QED
      BY <2>1, <2>2, <3>1 DEF NczInv, PoolInv
  <2>8. PoolInv'
    BY <1>n, <1>1, <1>3, <2>1, <2>4, <2>5, <2>6, <2>7 DEF PoolInv, LastRead, Block
  <2>9. QED
    BY <1>1, <2>1, <2>3, <2>8
<1>6. CASE ~closed
  <2>1. answer' = [answer EXCEPT ![new] = "pending"] /\ Dispatch(queue, busy)
    BY <1>n, <1>q, <1>6 DEF Compress
  <2>2. \A b \in Block : answer'[b] = IF b = new THEN "pending" ELSE answer[b]
    BY <1>1, <1>2, <2>1
  <2>3. answer' \in [Block -> {"none", "pending", "done", "failed"}]
    BY <1>1, <1>2, <2>1
  <2>4. \A b \in Block : answer'[b] = "none" <=> b > new
    BY <1>n, <1>1, <1>4, <2>2 DEF Block
  <2>5. /\ queue \in Seq(Block) /\ Len(queue) = Len(waiting) + 1 /\ Len(queue) <= new
        /\ \A i \in 1..Len(queue) : queue[i] = new - Len(queue) + i
        /\ \A i \in 1..Len(waiting) : queue[i] = waiting[i]
        /\ queue[Len(queue)] = new
    BY <1>n, <1>q, <1>1, <1>3, AppendOK
  <2>6. \A w \in Slots : busy[w] <= new - Len(queue)
    BY <1>n, <1>1, <1>3, <2>5
  <2>7. Len(queue) > 1 => \A v, w \in Slots : busy[v] = 0 /\ busy[w] = 0 => v = w
    <3>1. Len(queue) > 1 => waiting # <<>>
      BY <1>3, <2>5
    <3>2. QED
      BY <1>3, <3>1
  <2>8. /\ waiting' \in Seq(Block) /\ busy' \in [Slots -> 0..Blocks]
        /\ Len(waiting') <= new
        /\ \A i \in 1..Len(waiting') : waiting'[i] = new - Len(waiting') + i
        /\ \A w \in Slots : busy'[w] <= new - Len(waiting')
        /\ \A v, w \in Slots : v # w /\ busy'[v] = busy'[w] => busy'[v] = 0
        /\ \A b \in Block :
               (\E i \in 1..Len(queue) : queue[i] = b) \/ (\E w \in Slots : busy[w] = b) =>
               (\E i \in 1..Len(waiting') : waiting'[i] = b) \/ (\E w \in Slots : busy'[w] = b)
        /\ waiting' # <<>> => \A w \in Slots : busy'[w] # 0
    <3>1. Ordered(queue, busy, new)
      BY <1>1, <1>3, <2>5, <2>6 DEF Ordered
    <3>2. /\ Ordered(waiting', busy', new)
          /\ \A b \in Block : Holds(queue, busy, b) => Holds(waiting', busy', b)
          /\ waiting' # <<>> => \A w \in Slots : busy'[w] # 0
      BY <1>2, <2>1, <2>7, <3>1, DispatchOK
    <3>3. QED
      BY <3>2 DEF Ordered, Holds
  <2>9. ASSUME NEW b \in Block, answer'[b] = "pending"
        PROVE  (\E i \in 1..Len(waiting') : waiting'[i] = b) \/ (\E w \in Slots : busy'[w] = b)
    <3>1. CASE b = new
      <4>1. Len(queue) \in 1..Len(queue)
        BY <1>3, <2>5
      <4>2. QED
        BY <2>5, <2>8, <3>1, <4>1
    <3>2. CASE b # new
      <4>1. (\E i \in 1..Len(waiting) : waiting[i] = b) \/ (\E w \in Slots : busy[w] = b)
        BY <2>2, <2>9, <3>2 DEF NczInv, PoolInv
      <4>2. \A i \in 1..Len(waiting) : i \in 1..Len(queue)
        BY <1>3, <2>5
      <4>3. (\E i \in 1..Len(queue) : queue[i] = b) \/ (\E w \in Slots : busy[w] = b)
        BY <2>5, <4>1, <4>2
      <4>4. QED
        BY <2>8, <4>3
    <3>3. QED
      BY <3>1, <3>2
  <2>10. PoolInv'
    BY <1>n, <1>6, <2>4, <2>8, <2>9 DEF PoolInv, LastRead, Block
  <2>11. QED
    BY <2>3, <2>8, <2>10
<1>7. QED
  BY <1>5, <1>6

\* A block read is in flight and in the pool.
LEMMA ReadBlockOK == ASSUME NczSized, NczInv, ReadBlock PROVE NczInv'
<1>n. PICK new : new = blocksRead + 1
  OBVIOUS
<1>f. PICK flying : flying = Append(inFlight, new)
  OBVIOUS
<1>1. /\ pc = "reading" /\ blocksRead < Blocks /\ blocksRead \in Nat /\ oldest = 0
      /\ Len(stored) + Len(inFlight) = blocksRead /\ Len(inFlight) < Parallel
      /\ Len(stored) \in Nat /\ inFlight \in Seq(Block) /\ LastRead(inFlight)
  BY NczSized DEF NczSized, ReadBlock, NczInv, NczTypeOK, EncoderInv
<1>2. /\ waiting' \in Seq(Block) /\ busy' \in [Slots -> 0..Blocks]
      /\ answer' \in [Block -> {"none", "pending", "done", "failed"}]
      /\ PoolInv'
  BY <1>1, CompressOK DEF ReadBlock
<1>3. /\ flying \in Seq(Block) /\ flying # <<>> /\ Len(flying) = Len(inFlight) + 1
      /\ Len(flying) <= new /\ Len(inFlight) \in Nat
      /\ \A i \in 1..Len(flying) : flying[i] = new - Len(flying) + i
  <2>1. blocksRead \in Nat /\ inFlight \in Seq(Block) /\ Len(inFlight) <= blocksRead
        /\ \A i \in 1..Len(inFlight) : inFlight[i] = blocksRead - Len(inFlight) + i
    BY <1>1 DEF LastRead
  <2>2. QED
    BY <1>1, <1>n, <1>f, <2>1, AppendOK
<1>4. blocksRead' = new /\ blocksRead' \in 0..Blocks /\ new \in Nat
  BY <1>n, <1>1, NczSized DEF NczSized, ReadBlock
<1>5. UNCHANGED <<closed, sizes, stored, aborted>>
  BY DEF ReadBlock
<1>6. CASE Len(flying) >= Parallel
  <2>1. pc' = "awaiting" /\ oldest' = Head(flying) /\ inFlight' = Tail(flying)
    <3>1. ~(Len(flying) < Parallel)
      BY <1>3, <1>6, NczSized DEF NczSized
    <3>2. QED
      BY <1>n, <1>f, <3>1, Zenon DEF ReadBlock
  <2>2. /\ Head(flying) = new - Len(flying) + 1 /\ Head(flying) \in Block
        /\ Tail(flying) \in Seq(Block) /\ Len(Tail(flying)) = Len(flying) - 1
        /\ Len(flying) \in Nat \ {0}
        /\ \A i \in 1..Len(Tail(flying)) : Tail(flying)[i] = new - Len(Tail(flying)) + i
    BY <1>3, <1>4, TailOK
  <2>3. NczTypeOK'
    BY <1>2, <1>4, <1>5, <2>1, <2>2, NczSized, SMTT(30) DEF NczSized, NczInv, NczTypeOK, Block
  <2>4. LastRead(inFlight)'
    <3>1. Len(Tail(flying)) <= new
      BY <1>3, <1>4, <2>2
    <3>2. QED
      BY <1>4, <2>1, <2>2, <3>1 DEF LastRead
  <2>5. /\ oldest' = Len(stored) + 1 /\ oldest' + Len(inFlight') = new /\ Len(inFlight') < Parallel
        /\ Len(stored) <= new
    <3>1. /\ Len(stored) \in Nat /\ Len(inFlight) \in Nat /\ blocksRead \in Nat
          /\ Len(stored) + Len(inFlight) = blocksRead /\ Len(inFlight) < Parallel
      BY <1>1, <1>3
    <3>2. Len(inFlight') = Len(inFlight) /\ Len(flying) = Len(inFlight) + 1
      BY <1>3, <2>1, <2>2, <3>1
    <3>3. oldest' = Len(stored) + 1
      BY <1>n, <2>1, <2>2, <3>1, <3>2
    <3>4. QED
      BY <1>n, <3>1, <3>2, <3>3
  <2>6. EncoderInv'
    BY <1>4, <1>5, <2>1, <2>4, <2>5 DEF NczInv, EncoderInv
  <2>7. QED
    BY <1>2, <2>3, <2>6 DEF NczInv
<1>7. CASE Len(flying) < Parallel
  <2>1. pc' = "turning" /\ oldest' = oldest /\ inFlight' = flying
    BY <1>n, <1>f, <1>3, <1>7, NczSized DEF ReadBlock, NczSized
  <2>2. NczTypeOK'
    BY <1>2, <1>3, <1>4, <1>5, <2>1 DEF NczInv, NczTypeOK, Block
  <2>3. LastRead(inFlight)'
    BY <1>3, <1>4, <2>1 DEF LastRead
  <2>4. Len(stored) + Len(inFlight') = new /\ Len(stored) <= new
    BY <1>n, <1>1, <1>3, <2>1
  <2>5. EncoderInv'
    BY <1>1, <1>4, <1>5, <1>7, <2>1, <2>3, <2>4 DEF NczInv, EncoderInv
  <2>6. QED
    BY <1>2, <2>2, <2>5 DEF NczInv
<1>8. QED
  BY <1>3, <1>6, <1>7, NczSized DEF NczSized

--------------------------------------------------------------------------------

\* The invariant is inductive.
LEMMA NczStepOK == ASSUME NczSized PROVE NczInv /\ [NczNext]_nczVars => NczInv'
<1>1. SUFFICES ASSUME NczInv, [NczNext]_nczVars PROVE NczInv'
  OBVIOUS
<1>2. CASE Reply
  <2>1. PICK w \in Slots, result \in {"done", "failed"} :
            Answered(w, result) /\ UNCHANGED <<closed, encoder, aborted>>
    BY <1>2 DEF Reply, Answered
  <2>2. QED
    BY <1>1, <2>1, AnsweredOK
<1>3. CASE Lose
  <2>1. PICK w \in Slots : Answered(w, "failed") /\ UNCHANGED <<closed, encoder, aborted>>
    BY <1>3 DEF Lose, Answered
  <2>2. QED
    BY <1>1, <2>1, AnsweredOK
<1>4. CASE UNCHANGED nczVars
  BY <1>1, <1>4 DEF nczVars, NczInv, NczTypeOK, PoolInv, EncoderInv, LastRead, Block
<1>5. QED
  BY <1>1, <1>2, <1>3, <1>4, CloseOK, DrainOK, QuietOK, TakeOldestOK, WriteBlockOK, ReadBlockOK
  DEF NczNext, Pool, Encoder

\* The invariant of every behaviour.
LEMMA NczInvariant == ASSUME NczSized PROVE NczSpec => []NczInv
BY NczInitOK, NczStepOK, PTL DEF NczSpec

(* Whatever order the workers answer in, the NCZ holds the blocks in theirs, each with its own  *)
(* size in the block table, and all of them when encodeNcz returns (flushOldest).               *)
THEOREM BlocksAreStoredInOrder == ASSUME NczSized PROVE NczSpec => []InOrder
<1>1. NczInv => InOrder
  BY DEF NczInv, EncoderInv, InOrder
<1>2. QED
  BY <1>1, NczInvariant, PTL

(* The pool forgets no block, leaves none queued beside a free worker and gives none to two      *)
(* workers, through crashes and a close: what the encoder awaits is answered or being worked on. *)
THEOREM NoBlockIsForgotten == ASSUME NczSized PROVE NczSpec => []WorkIsShared
<1>1. NczInv => WorkIsShared
  <2>1. SUFFICES ASSUME NczInv PROVE WorkIsShared
    OBVIOUS
  <2>2. pc = "awaiting" => answer[oldest] # "none"
    <3>1. SUFFICES ASSUME pc = "awaiting" PROVE answer[oldest] # "none"
      OBVIOUS
    <3>2. /\ oldest = Len(stored) + 1 /\ oldest + Len(inFlight) = blocksRead
          /\ Len(stored) \in Nat /\ Len(inFlight) \in Nat /\ blocksRead \in 0..Blocks
      BY <2>1, <3>1 DEF NczInv, NczTypeOK, EncoderInv
    <3>3. oldest \in Block /\ ~(oldest > blocksRead)
      BY <3>2, NczSized DEF NczSized, Block
    <3>4. QED
      BY <2>1, <3>3 DEF NczInv, PoolInv
  <2>3. QED
    BY <2>1, <2>2 DEF NczInv, PoolInv, WorkIsShared
<1>2. QED
  BY <1>1, NczInvariant, PTL

(* encodeNcz "holds about `parallelBlocks` blocks in memory": never more than that many.         *)
THEOREM MemoryStaysBounded == ASSUME NczSized PROVE NczSpec => []MemoryIsBounded
<1>1. NczInv => MemoryIsBounded
  BY NczSized, SMTT(30) DEF NczSized, NczInv, NczTypeOK, EncoderInv, MemoryIsBounded
<1>2. QED
  BY <1>1, NczInvariant, PTL

-----------------------------------------------------------------------------
(* Library: what a row tells.                                                *)

(* An inspection under way has located its file, or opened it with the keys of that moment. *)
InspectionInv(j) ==
    /\ j.pc # "queued" => j.path \in Paths
    /\ IF j.pc = "reading" THEN j.ver # Nothing /\ (j.keys = keys \/ j.id \in passed) ELSE j.ver = Nothing

LibraryInv ==
    /\ LibraryTypeOK /\ OkIsTold
    /\ \A r \in rows : r.id <= lastFileId
    /\ \A j \in parsing : InspectionInv(j)

\* A table in which ids and paths are of one row each.
IsTable(rs, last) ==
    /\ rs \subseteq Rows /\ last \in Nat
    /\ \A r, o \in rs : r # o => r.id # o.id /\ r.path # o.path
    /\ \A r \in rs : r.id <= last

Vouched(r) == r.parse = "ok" => r.meta = r.ver /\ (r.keys = keys \/ r.id \in passed)

\* LibraryInv by what it says of the table and of the rest.
LEMMA LibraryInvParts ==
    LibraryInv <=> /\ IsTable(rows, lastFileId) /\ \A r \in rows : Vouched(r)
                   /\ LibraryTypeOK /\ \A j \in parsing : InspectionInv(j)
BY DEF LibraryInv, LibraryTypeOK, OkIsTold, IsTable, Vouched

\* What the operations make of one row.
LEMMA RowSteps ==
    ASSUME NEW r \in Rows, Vouched(r), NEW p \in Paths, NEW v \in Stamps
    PROVE  /\ MovedTo(r, p) \in Rows /\ Vouched(MovedTo(r, p))
           /\ MovedTo(r, p).id = r.id /\ MovedTo(r, p).path = p
           /\ SeenAs(r, v) \in Rows /\ Vouched(SeenAs(r, v))
           /\ SeenAs(r, v).id = r.id /\ SeenAs(r, v).path = r.path
           /\ [r EXCEPT !.missing = TRUE] \in Rows /\ Vouched([r EXCEPT !.missing = TRUE])
           /\ [r EXCEPT !.missing = TRUE].id = r.id /\ [r EXCEPT !.missing = TRUE].path = r.path
<1>1. MovedTo(r, p) \in Rows
  BY DEF MovedTo, Rows
<1>2. MovedTo(r, p).parse = "pending" /\ MovedTo(r, p).id = r.id /\ MovedTo(r, p).path = p
  BY DEF MovedTo, Rows
<1>3. [r EXCEPT !.missing = FALSE] \in Rows /\ [r EXCEPT !.missing = TRUE] \in Rows
  BY DEF Rows
<1>4. [r EXCEPT !.ver = v, !.parse = "pending", !.missing = FALSE] \in Rows
  BY DEF Rows
<1>5. SeenAs(r, v) \in Rows
  BY <1>3, <1>4 DEF SeenAs
<1>6. SeenAs(r, v).id = r.id /\ SeenAs(r, v).path = r.path
  BY DEF SeenAs, Rows
<1>7. Vouched(SeenAs(r, v))
  BY DEF SeenAs, Rows, Vouched
<1>8. [r EXCEPT !.missing = TRUE].id = r.id /\ [r EXCEPT !.missing = TRUE].path = r.path
  BY DEF Rows
<1>9. Vouched([r EXCEPT !.missing = TRUE])
  BY DEF Rows, Vouched
<1>10. QED
  BY <1>1, <1>2, <1>3, <1>5, <1>6, <1>7, <1>8, <1>9 DEF Vouched

LEMMA InsertStep ==
    ASSUME NEW i \in FileIds, NEW p \in Paths, NEW v \in Stamps
    PROVE  NewRow(i, p, v) \in Rows /\ Vouched(NewRow(i, p, v)) /\ NewRow(i, p, v).id = i /\ NewRow(i, p, v).path = p
<1>1. NewRow(i, p, v) \in Rows
  BY LibraryAssumption DEF NewRow, Rows, Contents, LibraryAssumption
<1>2. QED
  BY <1>1 DEF NewRow, Vouched

LEMMA MarkMissingOK ==
    ASSUME NEW rs, NEW last, IsTable(rs, last), \A r \in rs : Vouched(r), NEW ps
    PROVE  IsTable(MarkMissing(rs, ps), last) /\ \A r \in MarkMissing(rs, ps) : Vouched(r)
<1> DEFINE m(r) == IF r.path \in ps THEN [r EXCEPT !.missing = TRUE] ELSE r
<1>1. ASSUME NEW r \in rs PROVE m(r) \in Rows /\ m(r).id = r.id /\ m(r).path = r.path /\ Vouched(m(r))
  <2>2. r \in Rows /\ Vouched(r)
    BY DEF IsTable
  <2>3. \E p \in Paths, v \in Stamps : TRUE
    BY <2>2 DEF Rows
  <2>4. QED
    BY <2>2, <2>3, RowSteps
<1>2. MarkMissing(rs, ps) = {m(r) : r \in rs}
  BY DEF MarkMissing
<1> HIDE DEF m
<1>3. QED
  BY <1>1, <1>2 DEF IsTable

\* One row takes the place of another with its id, where no other row has its path.
LEMMA ReplaceOK ==
    ASSUME NEW rs, NEW last, IsTable(rs, last), NEW r \in rs, NEW s \in Rows, s.id = r.id,
           \A o \in rs : o # r => o.path # s.path
    PROVE  IsTable((rs \ {r}) \cup {s}, last)
BY DEF IsTable

LEMMA InsertOK ==
    ASSUME NEW rs, NEW last, IsTable(rs, last), NEW s \in Rows, s.id = last + 1, \A o \in rs : o.path # s.path
    PROVE  IsTable(rs \cup {s}, last + 1)
BY DEF IsTable, Rows, FileIds

LEMMA UpsertedOK ==
    ASSUME IsTable(rows, lastFileId), \A r \in rows : Vouched(r), NEW p \in Paths, NEW v \in Stamps,
           NEW u, u = Upserted(p, v)
    PROVE  IsTable(u.rows, u.lastFileId) /\ (\A r \in u.rows : Vouched(r)) /\ u.toParse \subseteq FileIds
<1>1. \A r \in rows : r \in Rows /\ Vouched(r) /\ r.id \in FileIds
  BY DEF IsTable, Rows
<1>2. lastFileId \in Nat /\ lastFileId + 1 \in FileIds
  BY DEF IsTable, FileIds
<1>3. CASE RowAt(p) # {}
  <2> DEFINE r == CHOOSE x \in RowAt(p) : TRUE
  <2>1. r \in RowAt(p)
    BY <1>3
  <2>2. r \in rows /\ r.path = p
    BY <2>1 DEF RowAt
  <2>3. u = [rows |-> (rows \ {r}) \cup {SeenAs(r, v)}, lastFileId |-> lastFileId,
             toParse |-> IF Stale(SeenAs(r, v)) THEN {r.id} ELSE {}]
    BY <1>3 DEF Upserted
  <2> HIDE DEF r
  <2> DEFINE s == SeenAs(r, v)
  <2>4. s \in Rows /\ Vouched(s) /\ s.id = r.id /\ s.path = r.path
    BY <1>1, <2>2, RowSteps
  <2> HIDE DEF s
  <2>5. \A o \in rows : o # r => o.path # s.path
    BY <2>2, <2>4 DEF IsTable
  <2>6. IsTable((rows \ {r}) \cup {s}, lastFileId)
    BY <2>2, <2>4, <2>5, ReplaceOK
  <2>7. u.rows = (rows \ {r}) \cup {s} /\ u.lastFileId = lastFileId /\ u.toParse \subseteq {r.id}
    BY <2>3 DEF s
  <2>8. QED
    BY <1>1, <2>2, <2>4, <2>6, <2>7
<1>4. CASE RowAt(p) = {} /\ Cardinality({r \in rows : r.missing /\ r.ver = v}) = 1
  <2> DEFINE known == {r \in rows : r.missing /\ r.ver = v}
             r == CHOOSE x \in known : TRUE
  <2>1. known # {}
    BY <1>4, FS_EmptySet
  <2>2. r \in rows
    BY <2>1
  <2>3. u = [rows |-> (rows \ {r}) \cup {MovedTo(r, p)}, lastFileId |-> lastFileId, toParse |-> {r.id}]
    BY <1>4 DEF Upserted
  <2> HIDE DEF r
  <2> DEFINE s == MovedTo(r, p)
  <2>4. s \in Rows /\ Vouched(s) /\ s.id = r.id /\ s.path = p
    BY <1>1, <2>2, RowSteps
  <2> HIDE DEF s
  <2>5. \A o \in rows : o.path # s.path
    BY <1>4, <2>4 DEF RowAt
  <2>6. IsTable((rows \ {r}) \cup {s}, lastFileId)
    BY <2>2, <2>4, <2>5, ReplaceOK
  <2>7. u.rows = (rows \ {r}) \cup {s} /\ u.lastFileId = lastFileId /\ u.toParse = {r.id}
    BY <2>3 DEF s
  <2>8. QED
    BY <1>1, <2>2, <2>4, <2>6, <2>7
<1>5. CASE RowAt(p) = {} /\ Cardinality({r \in rows : r.missing /\ r.ver = v}) # 1
  <2> DEFINE s == NewRow(lastFileId + 1, p, v)
  <2>1. u = [rows |-> rows \cup {s}, lastFileId |-> lastFileId + 1, toParse |-> {lastFileId + 1}]
    BY <1>5 DEF Upserted
  <2>2. s \in Rows /\ Vouched(s) /\ s.id = lastFileId + 1 /\ s.path = p
    BY <1>2, InsertStep
  <2>3. \A o \in rows : o.path # s.path
    BY <1>5, <2>2 DEF RowAt
  <2> HIDE DEF s
  <2>4. IsTable(rows \cup {s}, lastFileId + 1)
    BY <2>2, <2>3, InsertOK
  <2>5. QED
    BY <1>1, <1>2, <2>1, <2>2, <2>4
<1>6. QED
  BY <1>3, <1>4, <1>5

\* Two tables that share neither ids nor paths are one.
LEMMA UnionOK ==
    ASSUME NEW rs, NEW ss, NEW last, IsTable(rs, last), IsTable(ss, last),
           \A r \in rs, s \in ss : r.id # s.id /\ r.path # s.path
    PROVE  IsTable(rs \cup ss, last)
BY DEF IsTable

\* The rank of a path among the new ones, which numbers its row.
Rank(fresh, order, p) == Cardinality({q \in fresh : order[q] <= order[p]})

LEMMA RanksDiffer ==
    ASSUME NEW fresh \in SUBSET Paths, NEW order \in Injection(Paths, 1..Cardinality(Paths)),
           NEW p \in fresh, NEW q \in fresh
    PROVE  /\ Cardinality(fresh) \in Nat
           /\ Rank(fresh, order, p) \in 1..Cardinality(fresh)
           /\ p # q => Rank(fresh, order, p) # Rank(fresh, order, q)
<1> DEFINE upTo(x) == {y \in fresh : order[y] <= order[x]}
<1>1. /\ \A x \in fresh : order[x] \in Int
      /\ \A x, y \in fresh : order[x] = order[y] => x = y
  BY DEF Injection, IsInjective
<1>2. IsFiniteSet(fresh) /\ Cardinality(fresh) \in Nat
  BY LibraryAssumption, FS_Subset, FS_CardinalityType DEF LibraryAssumption
<1>3. ASSUME NEW x \in fresh PROVE /\ IsFiniteSet(upTo(x)) /\ Cardinality(upTo(x)) \in Nat
                                   /\ Cardinality(upTo(x)) <= Cardinality(fresh)
                                   /\ Cardinality(upTo(x)) # 0 /\ x \in upTo(x)
  <2>1. upTo(x) \in SUBSET fresh
    OBVIOUS
  <2>2. IsFiniteSet(upTo(x)) /\ Cardinality(upTo(x)) <= Cardinality(fresh) /\ Cardinality(upTo(x)) \in Nat
    BY <1>2, <2>1, FS_Subset, FS_CardinalityType
  <2>3. x \in upTo(x)
    BY <1>1
  <2>4. Cardinality(upTo(x)) # 0
    BY <2>2, <2>3, FS_EmptySet
  <2>5. QED
    BY <2>2, <2>3, <2>4
<1>4. ASSUME NEW x \in fresh, NEW y \in fresh, order[x] < order[y] PROVE Cardinality(upTo(x)) # Cardinality(upTo(y))
  <2>1. upTo(x) \in SUBSET upTo(y)
    BY <1>1, <1>4
  <2>2. y \notin upTo(x)
    BY <1>1, <1>4
  <2>3. QED
    BY <1>3, <2>1, <2>2, FS_Subset
<1>5. p # q => order[p] < order[q] \/ order[q] < order[p]
  BY <1>1
<1>6. p # q => Cardinality(upTo(p)) # Cardinality(upTo(q))
  BY <1>4, <1>5
<1>7. Cardinality(upTo(p)) \in 1..Cardinality(fresh)
  BY <1>2, <1>3
<1>8. QED
  BY <1>2, <1>6, <1>7 DEF Rank

LEMMA ReconciledOK ==
    ASSUME IsTable(rows, lastFileId), \A r \in rows : Vouched(r),
           NEW seen \in [Paths -> Contents], NEW skipped \in SUBSET Paths,
           NEW order \in Injection(Paths, 1..Cardinality(Paths)), NEW u, u = Reconciled(seen, skipped, order)
    PROVE  IsTable(u.rows, u.lastFileId) /\ (\A r \in u.rows : Vouched(r)) /\ u.toParse \subseteq FileIds
<1> DEFINE present == {p \in Paths : seen[p] # Nothing}
           matched == {r \in rows : r.path \in present}
           vanished == {r \in rows : r.path \notin present /\ r.path \notin skipped}
           unmatched == {p \in present : RowAt(p) = {}}
           moves == {m \in vanished \X unmatched :
                         /\ m[1].ver = seen[m[2]]
                         /\ \A r \in vanished : r.ver = m[1].ver => r = m[1]
                         /\ \A p \in unmatched : seen[p] = seen[m[2]] => order[m[2]] <= order[p]}
           moved == {MovedTo(m[1], m[2]) : m \in moves}
           fresh == unmatched \ {m[2] : m \in moves}
           next(p) == lastFileId + Cardinality({q \in fresh : order[q] <= order[p]})
           inserted == {NewRow(next(p), p, seen[p]) : p \in fresh}
           resaw == {SeenAs(r, seen[r.path]) : r \in matched}
           kept == rows \ (matched \cup {m[1] : m \in moves})
           marked == MarkMissing(kept, Paths \ (present \cup skipped))
           last == lastFileId + Cardinality(fresh)
<1>1. /\ u.rows = resaw \cup moved \cup inserted \cup marked
      /\ u.lastFileId = last
      /\ u.toParse = {r.id : r \in {s \in resaw : Stale(s)} \cup moved \cup inserted}
  BY DEF Reconciled
<1>2. \A r \in rows : r \in Rows /\ Vouched(r) /\ r.id \in FileIds /\ r.id <= lastFileId
  BY DEF IsTable, Rows
<1>3. lastFileId \in Nat
  BY DEF IsTable
<1>4. \A p \in present : p \in Paths /\ seen[p] \in Stamps
  BY DEF Contents
<1>5. \A p \in unmatched : p \in present /\ \A r \in rows : r.path # p
  BY DEF RowAt
<1>6. last \in Nat /\ last >= lastFileId
  <2>1. fresh \in SUBSET Paths
    BY <1>4
  <2>2. Cardinality(fresh) \in Nat
    BY <2>1, LibraryAssumption, FS_Subset, FS_CardinalityType DEF LibraryAssumption
  <2>3. QED
    BY <1>3, <2>2
<1>7. \A m \in moves : /\ m[1] \in rows /\ m[1] \notin matched /\ m[2] \in unmatched
                       /\ \A n \in moves : m[1] = n[1] \/ m[2] = n[2] => m[1] = n[1] /\ m[2] = n[2]
  <2>1. \A m \in moves : m[1] \in vanished /\ m[2] \in unmatched /\ m[1].ver = seen[m[2]]
    OBVIOUS
  <2>2. ASSUME NEW m \in moves, NEW n \in moves, m[2] = n[2] PROVE m[1] = n[1]
    BY <2>1, <2>2
  <2>3. ASSUME NEW m \in moves, NEW n \in moves, m[1] = n[1] PROVE m[2] = n[2]
    <3>1. order[m[2]] <= order[n[2]] /\ order[n[2]] <= order[m[2]]
      BY <2>1, <2>3
    <3>2. m[2] \in Paths /\ n[2] \in Paths
      BY <2>1
    <3>3. QED
      BY <3>1, <3>2 DEF Injection, IsInjective
  <2>4. QED
    BY <2>1, <2>2, <2>3
<1>8. \A r \in resaw : \E o \in matched : r \in Rows /\ Vouched(r) /\ r.id = o.id /\ r.path = o.path /\ r = SeenAs(o, seen[o.path])
  <2>1. ASSUME NEW o \in matched
        PROVE LET r == SeenAs(o, seen[o.path]) IN r \in Rows /\ Vouched(r) /\ r.id = o.id /\ r.path = o.path
    BY <1>2, <1>4, RowSteps
  <2>2. QED
    BY <2>1
<1>9. \A r \in moved : \E m \in moves : r \in Rows /\ Vouched(r) /\ r.id = m[1].id /\ r.path = m[2] /\ r = MovedTo(m[1], m[2])
  <2>1. ASSUME NEW m \in moves
        PROVE LET r == MovedTo(m[1], m[2]) IN r \in Rows /\ Vouched(r) /\ r.id = m[1].id /\ r.path = m[2]
    <3>1. m[1] \in Rows /\ Vouched(m[1]) /\ m[2] \in Paths /\ seen[m[2]] \in Stamps
      BY <1>2, <1>4, <1>5, <1>7
    <3>2. QED
      BY <3>1, RowSteps
  <2>2. QED
    BY <2>1
<1>10. \A r \in inserted : /\ r \in Rows /\ Vouched(r) /\ r.path \in fresh /\ r = NewRow(next(r.path), r.path, seen[r.path])
                           /\ r.id = next(r.path) /\ lastFileId < r.id /\ r.id <= last
  <2>1. ASSUME NEW p \in fresh
        PROVE LET r == NewRow(next(p), p, seen[p])
              IN r \in Rows /\ Vouched(r) /\ r.path = p /\ r.id = next(p) /\ lastFileId < r.id /\ r.id <= last
    <3>1. fresh \in SUBSET Paths /\ p \in Paths /\ seen[p] \in Stamps
      BY <1>4
    <3> HIDE DEF fresh
    <3>2. Rank(fresh, order, p) \in 1..Cardinality(fresh) /\ Cardinality(fresh) \in Nat
      BY <3>1, RanksDiffer
    <3>3. next(p) = lastFileId + Rank(fresh, order, p)
      BY DEF Rank
    <3>4. next(p) \in FileIds /\ lastFileId < next(p) /\ next(p) <= last
      BY <1>3, <3>2, <3>3 DEF FileIds
    <3> HIDE DEF next, last
    <3>5. QED
      BY <3>1, <3>4, InsertStep
  <2> HIDE DEF next, last, fresh
  <2>2. QED
    BY <2>1
<1>11. \A r \in inserted, s \in inserted : r # s => r.id # s.id /\ r.path # s.path
  <2>1. ASSUME NEW p \in fresh, NEW q \in fresh, p # q PROVE next(p) # next(q)
    <3>1. fresh \in SUBSET Paths
      BY <1>4
    <3> HIDE DEF fresh
    <3>2. /\ Cardinality(fresh) \in Nat
          /\ Rank(fresh, order, p) \in 1..Cardinality(fresh)
          /\ Rank(fresh, order, q) \in 1..Cardinality(fresh)
          /\ Rank(fresh, order, p) # Rank(fresh, order, q)
      BY <2>1, <3>1, RanksDiffer
    <3>3. next(p) = lastFileId + Rank(fresh, order, p) /\ next(q) = lastFileId + Rank(fresh, order, q)
      BY DEF Rank
    <3>4. QED
      BY <1>3, <3>2, <3>3
  <2> HIDE DEF next, fresh
  <2>2. QED
    BY <1>10, <2>1
<1>12. IsTable(marked, lastFileId) /\ (\A r \in marked : Vouched(r))
       /\ \A r \in marked : \E o \in kept : r.id = o.id /\ r.path = o.path
  <2>1. IsTable(kept, lastFileId) /\ \A r \in kept : Vouched(r)
    BY <1>2 DEF IsTable
  <2>2. \A r \in kept : [r EXCEPT !.missing = TRUE].id = r.id /\ [r EXCEPT !.missing = TRUE].path = r.path
    BY <1>2 DEF Rows
  <2>3. IsTable(marked, lastFileId) /\ \A r \in marked : Vouched(r)
    BY <2>1, MarkMissingOK
  <2>4. \A r \in marked : \E o \in kept : r.id = o.id /\ r.path = o.path
    <3> HIDE DEF kept
    <3>1. QED
      BY <2>2 DEF MarkMissing
  <2>5. QED
    BY <2>3, <2>4
<1> HIDE DEF present, moves, resaw, moved, inserted, kept, marked, fresh, next, last
<1>13. IsTable(resaw, last) /\ IsTable(marked, last)
  BY <1>2, <1>6, <1>8, <1>12 DEF IsTable, Rows, FileIds
<1>14. IsTable(moved, last)
  BY <1>2, <1>6, <1>7, <1>9 DEF IsTable, Rows, FileIds
<1>15. IsTable(inserted, last)
  BY <1>6, <1>10, <1>11 DEF IsTable
<1>16. IsTable(resaw \cup moved, last)
  <2>1. \A r \in resaw, s \in moved : r.id # s.id /\ r.path # s.path
    BY <1>5, <1>7, <1>8, <1>9 DEF IsTable
  <2>2. QED
    BY <1>13, <1>14, <2>1, UnionOK
<1>17. IsTable(resaw \cup moved \cup inserted, last)
  <2>1. \A r \in resaw \cup moved, s \in inserted : r.id # s.id /\ r.path # s.path
    BY <1>2, <1>3, <1>5, <1>7, <1>8, <1>9, <1>10 DEF fresh, FileIds
  <2>2. QED
    BY <1>15, <1>16, <2>1, UnionOK
<1>18. IsTable(resaw \cup moved \cup inserted \cup marked, last)
  <2>1. \A r \in kept : r \in rows /\ r \notin matched /\ \A m \in moves : r # m[1]
    BY DEF kept
  <2>2. \A r \in resaw \cup moved, s \in marked : r.id # s.id /\ r.path # s.path
    BY <1>5, <1>7, <1>8, <1>9, <1>12, <2>1 DEF IsTable
  <2>3. \A r \in inserted, s \in marked : r.id # s.id /\ r.path # s.path
    BY <1>2, <1>3, <1>5, <1>10, <1>12, <2>1 DEF fresh, FileIds
  <2>4. QED
    BY <1>13, <1>17, <2>2, <2>3, UnionOK
<1>19. \A r \in resaw \cup moved \cup inserted \cup marked : Vouched(r)
  BY <1>8, <1>9, <1>10, <1>12
<1>20. u.toParse \subseteq FileIds
  BY <1>1, <1>2, <1>8, <1>9, <1>10 DEF Rows
<1>21. QED
  BY <1>1, <1>18, <1>19, <1>20

-----------------------------------------------------------------------------
(* Library: every step keeps the invariant.                                  *)

\* The types of what is neither table nor inspections nor keys.
SceneOK ==
    /\ disk \in [Paths -> Contents] /\ told \in [Paths -> Contents] /\ batch \in [Paths -> Events]
    /\ flush \in [Flushes -> [left : SUBSET Paths, at : SUBSET Paths, found : Contents]]
    /\ scan \in Scans /\ paused \in BOOLEAN /\ events \in 0..MaxEvents

InspectionsOK ==
    /\ parsing \subseteq Inspections
    /\ \A i \in scan.waits : \E j \in parsing : j.id = i
    /\ \A j, k \in parsing : j.id = k.id => j = k
    /\ \A j \in parsing : InspectionInv(j)

TableOK == IsTable(rows, lastFileId) /\ \A r \in rows : Vouched(r)

KeysOK == passed \subseteq FileIds /\ keys \in 0..MaxKeys

LEMMA LibraryInvIs == LibraryInv <=> SceneOK /\ InspectionsOK /\ TableOK /\ KeysOK
BY DEF LibraryInv, LibraryTypeOK, OkIsTold, SceneOK, InspectionsOK, TableOK, KeysOK, IsTable, Vouched

LEMMA LibraryInvWillBe == SceneOK' /\ InspectionsOK' /\ TableOK' /\ KeysOK' => LibraryInv'
BY DEF LibraryInv, LibraryTypeOK, OkIsTold, SceneOK, InspectionsOK, TableOK, KeysOK, IsTable, Vouched

LEMMA HappensOK == ASSUME SceneOK, Happens PROVE events' \in 0..MaxEvents
BY LibraryAssumption DEF SceneOK, Happens, LibraryAssumption

\* Steps that touch neither table nor inspections nor keys, and leave the scan waiting for the same.
LEMMA QuietLibraryOK ==
    ASSUME LibraryInv, SceneOK', UNCHANGED <<rows, lastFileId, parsing, keys, passed>>,
           scan'.waits = scan.waits \/ scan'.waits = {}
    PROVE  LibraryInv'
<1>1. InspectionsOK'
  BY LibraryInvIs DEF InspectionsOK, InspectionInv
<1>2. TableOK' /\ KeysOK'
  BY LibraryInvIs DEF TableOK, KeysOK, IsTable, Vouched
<1>3. QED
  BY <1>1, <1>2, LibraryInvWillBe

\* The start of a walk.
LEMMA NoScanOK == NoScan \in Scans /\ NoScan.waits = {}
                  /\ LET walk == [NoScan EXCEPT !.phase = "walking", !.left = Paths]
                     IN walk \in Scans /\ walk.waits = {}
BY DEF NoScan, Scans, Contents

LEMMA LibraryInitOK == LibraryInit => LibraryInv
<1>1. SUFFICES ASSUME LibraryInit PROVE LibraryInv
  OBVIOUS
<1>2. SceneOK
  <2>1. disk \in [Paths -> Contents] /\ told \in [Paths -> Contents]
    BY <1>1 DEF LibraryInit
  <2>2. batch \in [Paths -> Events] /\ paused \in BOOLEAN /\ scan \in Scans
    BY <1>1, NoScanOK DEF LibraryInit, NoEvents, Events
  <2>3. flush \in [Flushes -> [left : SUBSET Paths, at : SUBSET Paths, found : Contents]]
    BY <1>1 DEF LibraryInit, NoFlush, Contents
  <2>4. events \in 0..MaxEvents
    BY <1>1, LibraryAssumption DEF LibraryInit, LibraryAssumption
  <2>5. QED
    BY <2>1, <2>2, <2>3, <2>4 DEF SceneOK
<1>3. InspectionsOK
  BY <1>1, NoScanOK DEF LibraryInit, InspectionsOK
<1>4. TableOK /\ KeysOK
  BY <1>1, LibraryAssumption DEF LibraryInit, TableOK, KeysOK, IsTable, LibraryAssumption
<1>5. QED
  BY <1>2, <1>3, <1>4, LibraryInvIs

LEMMA ScanStepsOK ==
    ASSUME LibraryInv, ScanRoot \/ WalkPath \/ SkipPath \/ ScanFails \/ ScanEnds PROVE LibraryInv'
<1> USE LibraryInvIs
<1>1. CASE ScanRoot
  BY <1>1, NoScanOK, QuietLibraryOK DEF ScanRoot, tables, libraryHistory, SceneOK
<1>2. CASE WalkPath
  <2>1. /\ \E p \in scan.left : scan' = [scan EXCEPT !.left = @ \ {p}, !.seen[p] = disk[p]]
        /\ UNCHANGED <<disk, tables, told, batch, flush, parsing, paused, keys, libraryHistory>>
    BY <1>2, Zenon DEF WalkPath
  <2>2. ASSUME NEW p \in scan.left, scan' = [scan EXCEPT !.left = @ \ {p}, !.seen[p] = disk[p]]
        PROVE  scan' \in Scans /\ scan'.waits = scan.waits
    BY <2>2 DEF SceneOK, Scans
  <2>3. scan' \in Scans /\ scan'.waits = scan.waits
    BY <2>1, <2>2, Zenon
  <2>4. QED
    BY <2>1, <2>3, QuietLibraryOK DEF tables, libraryHistory, SceneOK
<1>3. CASE SkipPath
  <2>1. /\ \E p \in scan.left : scan' = [scan EXCEPT !.left = @ \ {p}, !.skipped = @ \cup {p}]
        /\ UNCHANGED <<disk, tables, told, batch, flush, parsing, paused, keys, passed>> /\ Happens
    BY <1>3, Zenon DEF SkipPath
  <2>2. ASSUME NEW p \in scan.left, scan' = [scan EXCEPT !.left = @ \ {p}, !.skipped = @ \cup {p}]
        PROVE  scan' \in Scans /\ scan'.waits = scan.waits
    BY <2>2 DEF SceneOK, Scans
  <2>3. scan' \in Scans /\ scan'.waits = scan.waits
    BY <2>1, <2>2, Zenon
  <2>4. QED
    BY <2>1, <2>3, HappensOK, QuietLibraryOK DEF tables, SceneOK
<1>4. CASE ScanFails
  BY <1>4, NoScanOK, HappensOK, QuietLibraryOK DEF ScanFails, tables, SceneOK
<1>5. CASE ScanEnds
  BY <1>5, NoScanOK, QuietLibraryOK DEF ScanEnds, tables, libraryHistory, SceneOK
<1>6. QED
  BY <1>1, <1>2, <1>3, <1>4, <1>5

LEMMA FolderStepsOK ==
    ASSUME LibraryInv, Notice \/ FlushLocates \/ Pause \/ Resume \/ Write \/ Rename PROVE LibraryInv'
<1> USE LibraryInvIs
<1>1. CASE Notice
  <2>1. told' \in [Paths -> Contents] /\ batch' \in [Paths -> Events]
    BY <1>1 DEF Notice, SceneOK, Events
  <2>2. QED
    BY <1>1, <2>1, QuietLibraryOK DEF Notice, tables, libraryHistory, SceneOK
<1>2. CASE FlushLocates
  <2>1. PICK f \in Flushes : \E p \in flush[f].left :
            flush' = [flush EXCEPT ![f] = [left |-> @.left \ {p}, at |-> {p}, found |-> disk[p]]]
    BY <1>2 DEF FlushLocates
  <2>2. flush' \in [Flushes -> [left : SUBSET Paths, at : SUBSET Paths, found : Contents]]
    BY <2>1 DEF SceneOK
  <2>3. QED
    BY <1>2, <2>2, QuietLibraryOK DEF FlushLocates, tables, libraryHistory, SceneOK
<1>3. CASE Pause
  BY <1>3, HappensOK, QuietLibraryOK DEF Pause, tables, SceneOK, NoEvents, Events
<1>4. CASE Resume
  BY <1>4, QuietLibraryOK DEF Resume, tables, libraryHistory, SceneOK
<1>5. CASE Write
  BY <1>5, HappensOK, QuietLibraryOK DEF Write, Change, tables, SceneOK
<1>6. CASE Rename
  <2>1. disk' \in [Paths -> Contents]
    BY <1>6 DEF Rename, SceneOK, Contents
  <2>2. QED
    BY <1>6, <2>1, HappensOK, QuietLibraryOK DEF Rename, tables, SceneOK
<1>7. QED
  BY <1>1, <1>2, <1>3, <1>4, <1>5, <1>6

\* The inspection of j is over: nobody waits for it any more.
LEMMA SettleOK ==
    ASSUME SceneOK, InspectionsOK, NEW j \in parsing, Settle(j), UNCHANGED <<keys, passed>>
    PROVE  InspectionsOK' /\ scan' \in Scans
<1>1. scan' \in Scans /\ scan'.waits = scan.waits \ {j.id}
  BY DEF Settle, SceneOK, Scans
<1>2. QED
  BY <1>1 DEF Settle, InspectionsOK, InspectionInv

\* An inspection goes one step further.
LEMMA AdvanceOK ==
    ASSUME InspectionsOK, NEW j \in parsing, NEW k \in Inspections, k.id = j.id, InspectionInv(k),
           parsing' = (parsing \ {j}) \cup {k}, UNCHANGED <<scan, keys, passed>>
    PROVE  InspectionsOK'
BY DEF InspectionsOK, InspectionInv

\* A table whose rows are changed in place.
LEMMA SavedOK ==
    ASSUME TableOK, KeysOK, InspectionsOK, NEW j \in parsing, NEW outcome \in {"ok", "error"},
           outcome = "ok" => j.pc = "reading", SaveInspection(j, outcome), UNCHANGED <<lastFileId, keys, passed>>
    PROVE  TableOK'
<1> DEFINE saved(r) == [r EXCEPT !.ver = IF j.ver = Nothing THEN @ ELSE j.ver,
                                 !.parse = outcome,
                                 !.meta = IF outcome = "ok" THEN j.ver ELSE Nothing,
                                 !.keys = IF outcome = "ok" THEN j.keys ELSE @]
           next(r) == IF r.id # j.id THEN r ELSE saved(r)
<1>1. j \in Inspections /\ InspectionInv(j)
  BY DEF InspectionsOK
<1>2. j.ver \in Stamps \cup {Nothing} /\ j.keys \in 0..MaxKeys
  BY <1>1 DEF Inspections, Contents
<1>3. ASSUME NEW r \in Rows, r.id = j.id
      PROVE  saved(r) \in Rows /\ saved(r).id = r.id /\ saved(r).path = r.path /\ Vouched(saved(r))
  <2> DEFINE v == IF j.ver = Nothing THEN r.ver ELSE j.ver
             m == IF outcome = "ok" THEN j.ver ELSE Nothing
             k == IF outcome = "ok" THEN j.keys ELSE r.keys
  <2>1. v \in Stamps /\ m \in Contents /\ k \in 0..MaxKeys
    BY <1>2, <1>3 DEF Rows, Contents
  <2>2. saved(r) = [r EXCEPT !.ver = v, !.parse = outcome, !.meta = m, !.keys = k]
    BY <1>3 DEF Rows
  <2>3. outcome = "ok" => m = v /\ (k = keys \/ r.id \in passed)
    BY <1>1, <1>3 DEF InspectionInv
  <2> HIDE DEF saved, v, m, k
  <2>4. saved(r) \in Rows
    BY <1>3, <2>1, <2>2 DEF Rows
  <2>5. /\ saved(r).id = r.id /\ saved(r).path = r.path /\ saved(r).parse = outcome
        /\ saved(r).ver = v /\ saved(r).meta = m /\ saved(r).keys = k
    BY <1>3, <2>2 DEF Rows
  <2>6. QED
    BY <2>3, <2>4, <2>5 DEF Vouched
<1>4. ASSUME NEW r \in rows PROVE next(r) \in Rows /\ next(r).id = r.id /\ next(r).path = r.path /\ Vouched(next(r))
  <2>1. r \in Rows /\ Vouched(r)
    BY DEF TableOK, IsTable
  <2> HIDE DEF saved
  <2>2. QED
    BY <1>3, <2>1
<1>5. rows' = {next(r) : r \in rows}
  BY Zenon DEF SaveInspection
<1> HIDE DEF next
<1>6. IsTable(rows', lastFileId) /\ \A r \in rows' : Vouched(r)
  BY <1>4, <1>5 DEF TableOK, IsTable
<1>7. QED
  BY <1>6 DEF TableOK, IsTable, Vouched

LEMMA MarkedOK ==
    ASSUME TableOK, NEW ps, rows' = MarkMissing(rows, ps), UNCHANGED <<lastFileId, keys, passed>> PROVE TableOK'
<1>1. IsTable(rows', lastFileId) /\ \A r \in rows' : Vouched(r)
  BY MarkMissingOK DEF TableOK
<1>2. QED
  BY <1>1 DEF TableOK, IsTable, Vouched

\* More inspections are queued.
LEMMA QueuedOK ==
    ASSUME InspectionsOK, NEW ids \in SUBSET FileIds, parsing' = Parse(ids), UNCHANGED <<keys, passed>>,
           scan'.waits = scan.waits \/ scan'.waits \subseteq ids
    PROVE  InspectionsOK'
<1> DEFINE new(i) == [id |-> i, pc |-> "queued", path |-> Nothing, ver |-> Nothing, keys |-> 0]
<1>1. parsing' = parsing \cup {new(i) : i \in ids \ {j.id : j \in parsing}}
  BY DEF Parse
<1>2. \A i \in ids : new(i) \in Inspections /\ new(i).id = i /\ InspectionInv(new(i))
  BY LibraryAssumption DEF Inspections, Contents, InspectionInv, LibraryAssumption
<1> HIDE DEF new
<1>3. \A i \in ids : \E j \in parsing' : j.id = i
  BY <1>1, <1>2
<1>4. \A j, k \in parsing' : j.id = k.id => j = k
  BY <1>1, <1>2 DEF InspectionsOK
<1>5. \A j \in parsing' : j \in Inspections /\ InspectionInv(j)
  BY <1>1, <1>2 DEF InspectionsOK
<1>6. \A i \in scan'.waits : \E j \in parsing' : j.id = i
  BY <1>1, <1>3 DEF InspectionsOK
<1>7. QED
  BY <1>4, <1>5, <1>6 DEF InspectionsOK, InspectionInv

LEMMA ReconcileOK == ASSUME LibraryInv, Reconcile PROVE LibraryInv'
<1> USE LibraryInvIs
<1>1. PICK order \in Injection(Paths, 1..Cardinality(Paths)) :
          LET result == Reconciled(scan.seen, scan.skipped, order)
          IN /\ rows' = result.rows
             /\ lastFileId' = result.lastFileId
             /\ parsing' = Parse(result.toParse)
             /\ scan' = [NoScan EXCEPT !.phase = "parsing", !.waits = result.toParse]
  BY Zenon DEF Reconcile
<1> DEFINE u == Reconciled(scan.seen, scan.skipped, order)
<1>2. scan.seen \in [Paths -> Contents] /\ scan.skipped \in SUBSET Paths
  BY DEF SceneOK, Scans
<1>3. IsTable(rows, lastFileId) /\ \A r \in rows : Vouched(r)
  BY DEF TableOK
<1>4. IsTable(u.rows, u.lastFileId) /\ (\A r \in u.rows : Vouched(r)) /\ u.toParse \subseteq FileIds
  BY <1>2, <1>3, ReconciledOK
<1>5. UNCHANGED <<disk, told, batch, flush, paused, keys, passed, events>>
  BY DEF Reconcile, libraryHistory
<1>6. /\ rows' = u.rows /\ lastFileId' = u.lastFileId /\ parsing' = Parse(u.toParse)
      /\ scan' = [NoScan EXCEPT !.phase = "parsing", !.waits = u.toParse]
  BY <1>1
<1> HIDE DEF u
<1>7. scan' \in Scans /\ scan'.waits = u.toParse
  BY <1>4, <1>6 DEF NoScan, Scans, Contents
<1>8. SceneOK' /\ KeysOK'
  BY <1>5, <1>7 DEF SceneOK, KeysOK
<1>9. InspectionsOK'
  BY <1>4, <1>5, <1>6, <1>7, QueuedOK
<1>10. TableOK'
  BY <1>4, <1>5, <1>6 DEF TableOK, IsTable, Vouched
<1>11. QED
  BY <1>8, <1>9, <1>10, LibraryInvWillBe

LEMMA FlushAppliesOK == ASSUME LibraryInv, FlushApplies PROVE LibraryInv'
<1> USE LibraryInvIs
<1>1. PICK f \in Flushes : \E p \in flush[f].at :
           /\ flush' = [flush EXCEPT ![f].at = {}, ![f].found = Nothing]
           /\ \/ /\ flush[f].found = Nothing
                 /\ rows' = MarkMissing(rows, {p})
                 /\ UNCHANGED <<lastFileId, parsing>>
              \/ /\ flush[f].found # Nothing
                 /\ LET result == Upserted(p, flush[f].found)
                    IN /\ rows' = result.rows
                       /\ lastFileId' = result.lastFileId
                       /\ parsing' = Parse(result.toParse)
  BY Zenon DEF FlushApplies
<1>2. UNCHANGED <<disk, told, batch, scan, paused, keys, passed, events>>
  BY DEF FlushApplies, libraryHistory
<1>3. PICK p \in flush[f].at :
           /\ flush' = [flush EXCEPT ![f].at = {}, ![f].found = Nothing]
           /\ \/ /\ flush[f].found = Nothing
                 /\ rows' = MarkMissing(rows, {p})
                 /\ UNCHANGED <<lastFileId, parsing>>
              \/ /\ flush[f].found # Nothing
                 /\ LET result == Upserted(p, flush[f].found)
                    IN /\ rows' = result.rows
                       /\ lastFileId' = result.lastFileId
                       /\ parsing' = Parse(result.toParse)
  BY <1>1, Zenon
<1>4. p \in Paths /\ flush[f].found \in Contents
  BY DEF SceneOK
<1>5. flush' \in [Flushes -> [left : SUBSET Paths, at : SUBSET Paths, found : Contents]]
  <2>1. flush' = [flush EXCEPT ![f].at = {}, ![f].found = Nothing]
    BY <1>3, Zenon
  <2>2. QED
    BY <2>1 DEF SceneOK, Contents
<1>6. SceneOK' /\ KeysOK'
  BY <1>2, <1>5 DEF SceneOK, KeysOK
<1>7. CASE flush[f].found = Nothing
  <2>1. rows' = MarkMissing(rows, {p}) /\ UNCHANGED <<lastFileId, parsing>>
    BY <1>3, <1>7, Zenon
  <2>2. TableOK'
    BY <1>2, <2>1, MarkedOK
  <2>3. InspectionsOK'
    BY <1>2, <2>1 DEF InspectionsOK, InspectionInv
  <2>4. QED
    BY <1>6, <2>2, <2>3, LibraryInvWillBe
<1>8. CASE flush[f].found # Nothing
  <2> DEFINE u == Upserted(p, flush[f].found)
  <2>1. rows' = u.rows /\ lastFileId' = u.lastFileId /\ parsing' = Parse(u.toParse)
    BY <1>3, <1>8, Zenon
  <2>2. IsTable(rows, lastFileId) /\ (\A r \in rows : Vouched(r)) /\ flush[f].found \in Stamps
    BY <1>4, <1>8 DEF TableOK, Contents
  <2>3. IsTable(u.rows, u.lastFileId) /\ (\A r \in u.rows : Vouched(r)) /\ u.toParse \subseteq FileIds
    BY <1>4, <2>2, UpsertedOK
  <2> HIDE DEF u
  <2>4. TableOK'
    BY <1>2, <2>1, <2>3 DEF TableOK, IsTable, Vouched
  <2>5. InspectionsOK'
    BY <1>2, <2>1, <2>3, QueuedOK
  <2>6. QED
    BY <1>6, <2>4, <2>5, LibraryInvWillBe
<1>9. QED
  BY <1>7, <1>8

LEMMA InspectionStepsOK ==
    ASSUME LibraryInv, Inspect \/ OpenFails \/ InspectionFails PROVE LibraryInv'
<1> USE LibraryInvIs
<1> DEFINE over(j) == Settle(j) /\ UNCHANGED <<disk, lastFileId, told, batch, flush, paused, keys, passed>>
<1>1. ASSUME NEW j \in parsing, over(j), TableOK', events' \in 0..MaxEvents PROVE LibraryInv'
  <2>1. InspectionsOK' /\ scan' \in Scans
    BY <1>1, SettleOK
  <2>2. QED
    BY <1>1, <2>1, LibraryInvWillBe DEF SceneOK, KeysOK
<1>2. ASSUME UNCHANGED <<rows, lastFileId, keys, passed>> PROVE TableOK'
  BY <1>2 DEF TableOK, IsTable, Vouched
<1>3. ASSUME NEW j \in parsing, NEW k \in Inspections, k.id = j.id, InspectionInv(k),
             parsing' = (parsing \ {j}) \cup {k},
             UNCHANGED <<disk, tables, told, batch, flush, scan, paused, keys, libraryHistory>>
      PROVE  LibraryInv'
  <2>1. InspectionsOK'
    BY <1>3, AdvanceOK DEF libraryHistory
  <2>2. QED
    BY <1>2, <1>3, <2>1, LibraryInvWillBe DEF SceneOK, KeysOK, tables, libraryHistory
<1>4. events \in 0..MaxEvents /\ \A j \in parsing : j \in Inspections /\ InspectionInv(j)
  BY DEF SceneOK, InspectionsOK
<1>5. CASE ParseBegins
  <2>1. PICK j \in {k \in parsing : k.pc = "queued"} :
             \/ /\ RowOf(j.id) = {}
                /\ Settle(j)
             \/ /\ \E r \in RowOf(j.id) :
                       parsing' = (parsing \ {j}) \cup {[j EXCEPT !.pc = "opening", !.path = r.path]}
                /\ UNCHANGED scan
    BY <1>5, Zenon DEF ParseBegins
  <2>2. UNCHANGED <<disk, tables, told, batch, flush, paused, keys, libraryHistory>>
    BY <1>5, Zenon DEF ParseBegins
  <2>3. CASE Settle(j)
    BY <1>1, <1>2, <1>4, <2>2, <2>3 DEF tables, libraryHistory
  <2>4. ASSUME NEW r \in RowOf(j.id),
               parsing' = (parsing \ {j}) \cup {[j EXCEPT !.pc = "opening", !.path = r.path]}, UNCHANGED scan
        PROVE  LibraryInv'
    <3> DEFINE k == [j EXCEPT !.pc = "opening", !.path = r.path]
    <3>1. r.path \in Paths /\ j \in Inspections /\ j.ver = Nothing
      BY <1>4 DEF RowOf, TableOK, IsTable, Rows, InspectionInv
    <3>2. k \in Inspections /\ k.id = j.id /\ InspectionInv(k)
      BY <3>1 DEF Inspections, InspectionInv
    <3> HIDE DEF k
    <3>3. QED
      BY <1>3, <2>2, <2>4, <3>2 DEF k
  <2>5. QED
    BY <2>1, <2>3, <2>4, Zenon
<1>6. CASE ParseOpens
  <2>1. PICK j \in {k \in parsing : k.pc = "opening"} :
             \/ /\ disk[j.path] # Nothing
                /\ parsing' = (parsing \ {j}) \cup
                       {[j EXCEPT !.pc = "reading", !.ver = disk[j.path], !.keys = keys]}
                /\ UNCHANGED <<rows, scan>>
             \/ /\ disk[j.path] = Nothing
                /\ rows' = MarkMissing(rows, {j.path})
                /\ Settle(j)
    BY <1>6, Zenon DEF ParseOpens
  <2>2. UNCHANGED <<disk, lastFileId, told, batch, flush, paused, keys, libraryHistory>>
    BY <1>6 DEF ParseOpens
  <2>3. CASE rows' = MarkMissing(rows, {j.path}) /\ Settle(j)
    <3>1. TableOK'
      BY <2>2, <2>3, MarkedOK DEF libraryHistory
    <3>2. QED
      BY <1>1, <1>4, <2>2, <2>3, <3>1 DEF libraryHistory
  <2>4. CASE disk[j.path] # Nothing /\ UNCHANGED <<rows, scan>>
             /\ parsing' = (parsing \ {j}) \cup {[j EXCEPT !.pc = "reading", !.ver = disk[j.path], !.keys = keys]}
    <3> DEFINE k == [j EXCEPT !.pc = "reading", !.ver = disk[j.path], !.keys = keys]
    <3>1. j.path \in Paths /\ j \in Inspections /\ disk[j.path] \in Contents /\ keys \in 0..MaxKeys
      BY <1>4, <2>1 DEF InspectionInv, SceneOK, KeysOK
    <3>2. k \in Inspections /\ k.id = j.id /\ k.pc = "reading" /\ k.path = j.path
          /\ k.ver = disk[j.path] /\ k.keys = keys
      BY <3>1 DEF Inspections
    <3> HIDE DEF k
    <3>3. InspectionInv(k)
      BY <2>4, <3>1, <3>2 DEF InspectionInv
    <3>4. QED
      BY <1>3, <2>2, <2>4, <3>2, <3>3 DEF k, tables
  <2>5. QED
    BY <2>1, <2>3, <2>4, Zenon
<1>7. CASE OpenFails
  <2>1. PICK j \in {k \in parsing : k.pc = "opening"} : SaveInspection(j, "error") /\ Settle(j)
    BY <1>7, Zenon DEF OpenFails
  <2>2. UNCHANGED <<disk, lastFileId, told, batch, flush, paused, keys, passed>> /\ events' \in 0..MaxEvents
    BY <1>7, HappensOK DEF OpenFails
  <2>3. TableOK'
    BY <2>1, <2>2, SavedOK
  <2>4. QED
    BY <1>1, <2>1, <2>2, <2>3
<1>8. CASE ParseEnds
  <2>1. PICK j \in {k \in parsing : k.pc = "reading"} : SaveInspection(j, "ok") /\ Settle(j)
    BY <1>8, Zenon DEF ParseEnds
  <2>2. UNCHANGED <<disk, lastFileId, told, batch, flush, paused, keys, passed, events>>
    BY <1>8 DEF ParseEnds, libraryHistory
  <2>3. TableOK'
    BY <2>1, <2>2, SavedOK
  <2>4. QED
    BY <1>1, <1>4, <2>1, <2>2, <2>3
<1>9. CASE InspectionFails
  <2>1. PICK j \in {k \in parsing : k.pc = "reading"} : SaveInspection(j, "error") /\ Settle(j)
    BY <1>9, Zenon DEF InspectionFails
  <2>2. UNCHANGED <<disk, lastFileId, told, batch, flush, paused, keys, passed>> /\ events' \in 0..MaxEvents
    BY <1>9, HappensOK DEF InspectionFails
  <2>3. TableOK'
    BY <2>1, <2>2, SavedOK
  <2>4. QED
    BY <1>1, <2>1, <2>2, <2>3
<1>10. QED
  BY <1>5, <1>6, <1>7, <1>8, <1>9 DEF Inspect

LEMMA FlushBeginsOK == ASSUME LibraryInv, FlushBegins PROVE LibraryInv'
<1> USE LibraryInvIs
<1>1. PICK f \in Flushes : flush' = [flush EXCEPT ![f].left = {p \in Paths : batch[p] = "seen"}]
  BY Zenon DEF FlushBegins
<1>2. /\ batch' = NoEvents /\ rows' = MarkMissing(rows, {p \in Paths : batch[p] = "unlink"})
      /\ UNCHANGED <<disk, lastFileId, told, scan, parsing, paused, keys, passed, events>>
  BY Zenon DEF FlushBegins, libraryHistory
<1>3. flush' \in [Flushes -> [left : SUBSET Paths, at : SUBSET Paths, found : Contents]]
  BY <1>1 DEF SceneOK
<1>4. SceneOK' /\ KeysOK'
  BY <1>2, <1>3 DEF SceneOK, KeysOK, NoEvents, Events
<1>5. TableOK'
  BY <1>2, MarkedOK
<1>6. InspectionsOK'
  BY <1>2 DEF InspectionsOK, InspectionInv
<1>7. QED
  BY <1>4, <1>5, <1>6, LibraryInvWillBe

\* New keys: what was found with the old ones is marked, or noted as passed over.
LEMMA UploadKeysOK == ASSUME LibraryInv, UploadKeys PROVE LibraryInv'
<1> USE LibraryInvIs
<1> DEFINE next(r) == IF r.missing THEN r ELSE [r EXCEPT !.parse = "pending"]
           read == {j.id : j \in {k \in parsing : k.pc = "reading"}}
           gone == {r.id : r \in {s \in rows : s.missing}}
<1>1. /\ keys' = keys + 1 /\ keys < MaxKeys /\ passed' = passed \cup read \cup gone
      /\ rows' = {next(r) : r \in rows} /\ lastFileId' = lastFileId /\ parsing' = parsing
      /\ UNCHANGED <<disk, told, batch, flush, paused>>
  BY DEF UploadKeys
<1>2. events' \in 0..MaxEvents
  BY HappensOK DEF UploadKeys
<1>3. scan' \in Scans /\ (scan'.waits = scan.waits \/ scan'.waits = {})
  BY NoScanOK DEF UploadKeys, SceneOK
<1>4. \A r \in rows : r \in Rows /\ Vouched(r)
  BY DEF TableOK, IsTable
<1>5. read \subseteq FileIds /\ gone \subseteq FileIds
  BY <1>4 DEF InspectionsOK, Inspections, Rows
<1>6. SceneOK' /\ KeysOK'
  BY <1>1, <1>2, <1>3, <1>5, LibraryAssumption DEF SceneOK, KeysOK, LibraryAssumption
<1>7. ASSUME NEW r \in rows
      PROVE  /\ next(r) \in Rows /\ next(r).id = r.id /\ next(r).path = r.path
             /\ next(r).parse = "ok" => next(r).meta = next(r).ver /\ next(r).id \in gone
  <2>1. CASE r.missing
    BY <1>4, <2>1 DEF Vouched
  <2>2. CASE ~r.missing
    BY <1>4, <2>2 DEF Rows
  <2>3. QED
    BY <2>1, <2>2
<1>8. TableOK'
  <2> HIDE DEF next, gone
  <2>1. IsTable(rows', lastFileId')
    BY <1>1, <1>7 DEF TableOK, IsTable
  <2>2. \A r \in rows' : r.parse = "ok" => r.meta = r.ver /\ r.id \in passed'
    BY <1>1, <1>7
  <2>3. QED
    BY <2>1, <2>2 DEF TableOK, IsTable, Vouched
<1>9. InspectionsOK'
  BY <1>1, <1>3 DEF InspectionsOK, InspectionInv
<1>10. QED
  BY <1>6, <1>8, <1>9, LibraryInvWillBe

LEMMA PurgeMissingOK == ASSUME LibraryInv, PurgeMissing PROVE LibraryInv'
<1> USE LibraryInvIs
<1>1. /\ rows' \subseteq rows
      /\ UNCHANGED <<disk, lastFileId, told, batch, flush, scan, parsing, paused, keys, passed>>
  BY DEF PurgeMissing
<1>2. SceneOK' /\ KeysOK'
  BY <1>1, HappensOK DEF PurgeMissing, SceneOK, KeysOK
<1>3. TableOK'
  BY <1>1 DEF TableOK, IsTable, Vouched
<1>4. InspectionsOK'
  BY <1>1 DEF InspectionsOK, InspectionInv
<1>5. QED
  BY <1>2, <1>3, <1>4, LibraryInvWillBe

LEMMA LibraryRestartOK == ASSUME LibraryInv, LibraryRestart PROVE LibraryInv'
<1> USE LibraryInvIs
<1>1. flush' \in [Flushes -> [left : SUBSET Paths, at : SUBSET Paths, found : Contents]]
  BY DEF LibraryRestart, NoFlush, Contents
<1>2. SceneOK' /\ KeysOK'
  BY <1>1, HappensOK, NoScanOK DEF LibraryRestart, SceneOK, KeysOK, NoEvents, Events
<1>3. TableOK'
  BY DEF LibraryRestart, tables, TableOK, IsTable, Vouched
<1>4. InspectionsOK'
  BY NoScanOK DEF LibraryRestart, InspectionsOK
<1>5. QED
  BY <1>2, <1>3, <1>4, LibraryInvWillBe

LEMMA LibraryStepOK == LibraryInv /\ [LibraryNext]_libraryVars => LibraryInv'
<1>1. SUFFICES ASSUME LibraryInv, [LibraryNext]_libraryVars PROVE LibraryInv'
  OBVIOUS
<1>2. CASE UNCHANGED libraryVars
  BY <1>1, <1>2 DEF libraryVars, LibraryInv, LibraryTypeOK, OkIsTold, InspectionInv
<1>3. QED
  BY <1>1, <1>2, ScanStepsOK, FolderStepsOK, InspectionStepsOK, ReconcileOK, FlushBeginsOK, FlushAppliesOK,
     UploadKeysOK, PurgeMissingOK, LibraryRestartOK, Zenon
  DEF LibraryNext, Inspect, Flush

\* The invariant of every behaviour.
LEMMA LibraryInvariant == LibrarySpec => []LibraryInv
BY LibraryInitOK, LibraryStepOK, PTL DEF LibrarySpec

(* Folder, database, watcher, scan and inspections keep their types, ids and paths are of one    *)
(* row each, and a scan waits only for inspections under way, for any number of files.           *)
THEOREM LibraryIsTyped == LibrarySpec => []LibraryTypeOK
<1>1. LibraryInv => LibraryTypeOK
  BY DEF LibraryInv
<1>2. QED
  BY <1>1, LibraryInvariant, PTL

(* However scans, watch batches, renames, key uploads, purges and restarts overtake inspections,  *)
(* a row that says its file was inspected tells what was found of exactly the size and mtime it   *)
(* shows (saveInspection), with the keys in use unless reparseAll passed the file over.           *)
THEOREM InspectedRowsAreTrue == LibrarySpec => []OkIsTold
<1>1. LibraryInv => OkIsTold
  BY DEF LibraryInv
<1>2. QED
  BY <1>1, LibraryInvariant, PTL

--------------------------------------------------------------------------------
(* What the library is shown as (Titles).                                       *)

\* Among things that have numbers one has the least.
LEMMA HasLeast ==
    ASSUME NEW S, S # {}, NEW f, \A x \in S : f[x] \in Nat
    PROVE  \E x \in S : \A y \in S : f[x] <= f[y]
<1> DEFINE T == {f[x] : x \in S}
           R == {ss \in Nat \X Nat : ss[1] < ss[2]}
<1>1. T \subseteq Nat /\ T # {}
  OBVIOUS
<1>2. IsWellFoundedOn(R, Nat)
  BY NatLessThanWellFounded DEF OpToRel
<1>3. PICK k \in T : \A n \in T : ~ (<<n, k>> \in R)
  <2> HIDE DEF T
  <2> QED BY <1>1, <1>2, WFMin
<1>4. PICK x \in S : k = f[x]
  OBVIOUS
<1>5. \A y \in S : f[x] <= f[y]
  <2> SUFFICES ASSUME NEW y \in S, f[y] < f[x] PROVE FALSE
    OBVIOUS
  <2>1. <<f[y], f[x]>> \in R
    BY <1>1
  <2> QED BY <1>3, <1>4, <2>1
<1> QED BY <1>5

\* Finitely many, and one has the greatest.
LEMMA FiniteHasGreatest ==
    ASSUME NEW S, IsFiniteSet(S), S # {}, NEW f, \A x \in S : f[x] \in Int
    PROVE  \E x \in S : \A y \in S : f[y] <= f[x]
<1> DEFINE Headless(T) == T # {} /\ \A x \in T : \E y \in T : f[x] < f[y]
           Bad == {T \in SUBSET S : Headless(T)}
           size == [T \in SUBSET S |-> Cardinality(T)]
<1> SUFFICES ASSUME Bad # {} PROVE FALSE
  OBVIOUS
<1>1. \A T \in SUBSET S : IsFiniteSet(T) /\ Cardinality(T) \in Nat
  BY FS_Subset, FS_CardinalityType
<1>2. PICK T \in Bad : \A U \in Bad : size[T] <= size[U]
  <2>1. \A U \in Bad : size[U] \in Nat
    BY <1>1
  <2> HIDE DEF Bad, size
  <2> QED BY <2>1, HasLeast
<1>3. PICK x \in T : TRUE
  OBVIOUS
<1> DEFINE U == T \ {x}
<1>4. U \in SUBSET S /\ size[U] < size[T]
  <2>1. Cardinality(U) = Cardinality(T) - 1
    BY <1>1, <1>3, FS_RemoveElement
  <2> QED BY <1>1, <2>1
<1>5. U \notin Bad
  <2>1. size[T] \in Nat /\ size[U] \in Nat
    BY <1>1, <1>4
  <2>2. U \in Bad => size[T] <= size[U]
    BY <1>2
  <2> HIDE DEF Bad, size
  <2> QED BY <1>4, <2>1, <2>2
<1>6. PICK y \in T : f[x] < f[y]
  OBVIOUS
<1>7. y \in U
  BY <1>6
<1>8. PICK g \in U : \A z \in U : ~(f[g] < f[z])
  BY <1>4, <1>5, <1>7
<1>9. \A z \in T : ~(f[g] < f[z])
  BY <1>6, <1>7, <1>8
<1> QED BY <1>8, <1>9

\* An order has a first.
LEMMA HasFirst ==
    ASSUME NEW S, S # {}, S \subseteq DOMAIN MetaRow, NEW ord \in Orders
    PROVE  First(S, ord) \in S
<1>1. \A m \in S : ord[m] \in Nat
  BY DEF Orders
<1>2. \E m \in S : \A n \in S : ord[m] <= ord[n]
  BY <1>1, HasLeast
<1> QED BY <1>2 DEF First

LEMMA RanksAreNumbers ==
    ASSUME TitlesSized
    PROVE  \A m \in DOMAIN MetaRow : RankOf(m) \in Nat /\ File(m) \in Nat /\ File(m) \in DOMAIN FileRow
BY DEF TitlesSized, FilesFit, MetasFit, AppsFit, TdbFits, RankOf, FormatRank, File

LEMMA BestExists ==
    ASSUME TitlesSized, NEW S, S # {}, S \subseteq DOMAIN MetaRow
    PROVE  Best(S) # {} /\ Best(S) \subseteq S
<1> DEFINE rank == [m \in S |-> RankOf(m)]
           id == [m \in S |-> File(m)]
<1>1. \A m \in S : rank[m] \in Nat /\ id[m] \in Nat
  BY RanksAreNumbers
<1>2. PICK m \in S : \A n \in S : rank[m] <= rank[n]
  <2> HIDE DEF rank
  <2> QED BY <1>1, HasLeast
<1> DEFINE T == {n \in S : rank[n] = rank[m]}
<1>3. PICK k \in T : \A n \in T : id[k] <= id[n]
  <2>1. T # {} /\ \A n \in T : id[n] \in Nat
    BY <1>1
  <2> HIDE DEF T, id
  <2> QED BY <2>1, HasLeast
<1>4. k \in Best(S)
  <2> SUFFICES ASSUME NEW n \in S PROVE RankOf(k) < RankOf(n) \/ (RankOf(k) = RankOf(n) /\ File(k) <= File(n))
    BY DEF Best
  <2>1. RankOf(k) = RankOf(m) /\ RankOf(m) <= RankOf(n) /\ RankOf(k) \in Nat /\ RankOf(n) \in Nat
    BY <1>1, <1>2
  <2>2. CASE RankOf(n) = RankOf(m)
    BY <1>3, <2>1, <2>2
  <2>3. CASE RankOf(n) # RankOf(m)
    BY <2>1, <2>3
  <2> QED BY <2>2, <2>3
<1> QED BY <1>4 DEF Best

\* What is picked is among the best of its rows.
LEMMA PickIsBest ==
    ASSUME TitlesSized, NEW S, S # {}, S \subseteq DOMAIN MetaRow, NEW ord \in Orders
    PROVE  Pick(S, ord) \in Best(S) /\ Pick(S, ord) \in S
<1>1. Best(S) # {} /\ Best(S) \subseteq S
  BY BestExists
<1>2. First(Best(S), ord) \in Best(S)
  BY <1>1, HasFirst
<1> QED BY <1>1, <1>2 DEF Pick

\* Of one content there is one best row.
LEMMA OneBest ==
    ASSUME TitlesSized, NEW S, S \subseteq DOMAIN MetaRow, NEW m \in Best(S), NEW n \in Best(S), Title(m) = Title(n)
    PROVE  m = n
<1>1. m \in S /\ n \in S
  BY DEF Best
<1>2. File(m) = File(n)
  <2>1. RankOf(m) < RankOf(n) \/ (RankOf(m) = RankOf(n) /\ File(m) <= File(n))
    BY <1>1 DEF Best
  <2>2. RankOf(n) < RankOf(m) \/ (RankOf(n) = RankOf(m) /\ File(n) <= File(m))
    BY <1>1 DEF Best
  <2> QED BY <1>1, <2>1, <2>2, RanksAreNumbers
<1> QED BY <1>1, <1>2 DEF TitlesSized, FilesFit, MetasFit, AppsFit, TdbFits, File, Title

LEMMA RowsAreThere ==
    ASSUME NEW a
    PROVE  GameRows(a) \subseteq Present /\ Present \subseteq DOMAIN MetaRow
BY DEF GameRows, Present

\* A row that is best among more is what the page offers for its content.
LEMMA BestOfMore ==
    ASSUME TitlesSized, NEW a, NEW other \in Orders, NEW S, S \subseteq GameRows(a), NEW m \in Best(S),
           RowsFor(GameRows(a), <<Title(m), Version(m)>>) \subseteq S
    PROVE  Offered(a, other)[<<Title(m), Version(m)>>] = m
<1> DEFINE c == <<Title(m), Version(m)>>
           T == RowsFor(GameRows(a), c)
<1>1. m \in S /\ S \subseteq DOMAIN MetaRow /\ GameRows(a) \subseteq DOMAIN MetaRow
  BY RowsAreThere DEF Best
<1>2. m \in T /\ c \in ContentsOf(GameRows(a)) /\ T \subseteq DOMAIN MetaRow
  BY <1>1 DEF RowsFor, ContentsOf
<1>3. m \in Best(T)
  BY <1>2 DEF Best
<1>4. Pick(T, other) \in Best(T) /\ Pick(T, other) \in T
  BY <1>2, PickIsBest
<1>5. Title(Pick(T, other)) = Title(m)
  <2>1. <<Title(Pick(T, other)), Version(Pick(T, other))>> = c
    BY <1>4 DEF RowsFor
  <2> QED BY <2>1
<1>6. Pick(T, other) = m
  BY <1>2, <1>3, <1>4, <1>5, OneBest
<1> QED BY <1>2, <1>6 DEF Offered

LEMMA MaxIsThere ==
    ASSUME NEW S \in SUBSET Int, IsFiniteSet(S), S # {}
    PROVE  Max(S) \in S /\ \A x \in S : x <= Max(S)
<1> DEFINE f == [x \in S |-> x]
<1>1. \E x \in S : \A y \in S : f[y] <= f[x]
  <2>1. \A x \in S : f[x] \in Int
    OBVIOUS
  <2> HIDE DEF f
  <2> QED BY <2>1, FiniteHasGreatest
<1>2. \E x \in S : \A y \in S : x >= y
  BY <1>1
<1> QED BY <1>2 DEF Max

\* The versions there are, unknown ones as 0.
LEMMA VersionsAreNumbers ==
    ASSUME TitlesSized, NEW S, S \subseteq DOMAIN MetaRow, S # {}
    PROVE  /\ VersionsOf(S) \in SUBSET Nat /\ VersionsOf(S) # {} /\ IsFiniteSet(VersionsOf(S))
           /\ OfVersion(S, Max(VersionsOf(S))) # {}
<1>1. \A m \in S : OrZero(Version(m)) \in Nat
  BY DEF TitlesSized, FilesFit, MetasFit, AppsFit, TdbFits, OrZero, Version, Known
<1>2. VersionsOf(S) \in SUBSET Nat /\ VersionsOf(S) # {}
  BY <1>1 DEF VersionsOf
<1>3. IsFiniteSet(VersionsOf(S))
  <2>1. IsFiniteSet(S)
    BY FS_Subset DEF TitlesSized, FilesFit, MetasFit, AppsFit, TdbFits
  <2> DEFINE g == [m \in S |-> OrZero(Version(m))]
  <2>2. g \in Surjection(S, VersionsOf(S))
    BY DEF Surjection, VersionsOf
  <2> QED BY <2>1, <2>2, FS_Surjection
<1>4. Max(VersionsOf(S)) \in VersionsOf(S)
  BY <1>2, <1>3, MaxIsThere
<1> QED BY <1>2, <1>3, <1>4 DEF VersionsOf, OfVersion

\* What the catalog offers was picked among all rows of its id and version in the game.
LEMMA CatalogPicks ==
    ASSUME TitlesSized, NEW a, WellNamed(a), NEW ord \in Orders, NEW m \in CatalogRows(a, ord)
    PROVE  \E S \in SUBSET GameRows(a) : m \in Best(S) /\ RowsFor(GameRows(a), <<Title(m), Version(m)>>) \subseteq S
<1> DEFINE G == GameRows(a)
           bases == OfType(G, "application")
           patches == OfType(G, "patch")
           addons == OfType(G, "addon")
<1>0. G \subseteq DOMAIN MetaRow
  BY RowsAreThere
\* a pick among all rows of one type (and, for DLC, of one id) that have one version
<1>1. ASSUME NEW B, B \subseteq G, NEW v, OfVersion(B, v) # {}, m = Pick(OfVersion(B, v), ord),
             \A x \in B, y \in G : Title(x) = Title(y) => y \in B
      PROVE  \E S \in SUBSET G : m \in Best(S) /\ RowsFor(G, <<Title(m), Version(m)>>) \subseteq S
  <2> DEFINE S == OfVersion(B, v)
  <2>1. S \subseteq DOMAIN MetaRow /\ S \subseteq B
    BY <1>0, <1>1 DEF OfVersion
  <2>2. m \in Best(S) /\ m \in S
    BY <1>1, <2>1, PickIsBest
  <2>3. \A y \in RowsFor(G, <<Title(m), Version(m)>>) : y \in S
    BY <1>1, <2>1, <2>2 DEF RowsFor, OfVersion
  <2> QED BY <1>1, <2>1, <2>2, <2>3
<1>2. \A type \in Types : \A x \in OfType(G, type), y \in G : Title(x) = Title(y) => y \in OfType(G, type)
  BY DEF WellNamed, OfType
<1>3. CASE m \in {CatalogBase(a, ord)} \ {Unknown}
  <2>1. bases # {} /\ m = PickNewest(bases, ord)
    BY <1>3 DEF CatalogBase
  <2>2. bases \subseteq G /\ bases \subseteq DOMAIN MetaRow
    BY <1>0 DEF OfType
  <2>3. OfVersion(bases, Max(VersionsOf(bases))) # {}
    BY <2>1, <2>2, VersionsAreNumbers
  <2>4. \A x \in bases, y \in G : Title(x) = Title(y) => y \in bases
    BY <1>2 DEF Types
  <2>5. m = Pick(OfVersion(bases, Max(VersionsOf(bases))), ord)
    BY <2>1 DEF PickNewest
  <2> HIDE DEF bases
  <2> QED BY <1>1, <2>2, <2>3, <2>4, <2>5
<1>4. CASE m \in {CatalogUpdates(a, ord)[v] : v \in DOMAIN CatalogUpdates(a, ord)}
  <2>1. CatalogUpdates(a, ord) = [v \in VersionsOf(patches) |-> Pick(OfVersion(patches, v), ord)]
    BY DEF CatalogUpdates
  <2>2. PICK v \in VersionsOf(patches) : m = Pick(OfVersion(patches, v), ord)
    BY <1>4, <2>1
  <2>3. patches \subseteq G /\ OfVersion(patches, v) # {}
    BY <2>2 DEF OfType, VersionsOf, OfVersion
  <2>4. \A x \in patches, y \in G : Title(x) = Title(y) => y \in patches
    BY <1>2 DEF Types
  <2> HIDE DEF patches
  <2> QED BY <1>1, <2>2, <2>3, <2>4
<1>5. CASE m \in {CatalogDlc(a, ord)[t] : t \in DOMAIN CatalogDlc(a, ord)}
  <2>1. CatalogDlc(a, ord) = [t \in {Title(x) : x \in addons} |-> PickNewest({x \in addons : Title(x) = t}, ord)]
    BY DEF CatalogDlc
  <2>2. PICK t \in {Title(x) : x \in addons} : m = PickNewest({x \in addons : Title(x) = t}, ord)
    BY <1>5, <2>1
  <2> DEFINE B == {x \in addons : Title(x) = t}
  <2>3. B \subseteq G /\ B # {} /\ B \subseteq DOMAIN MetaRow
    BY <1>0, <2>2 DEF OfType
  <2>4. \A x \in B, y \in G : Title(x) = Title(y) => y \in B
    BY <1>2 DEF Types
  <2>5. m = Pick(OfVersion(B, Max(VersionsOf(B))), ord)
    BY <2>2 DEF PickNewest
  <2> HIDE DEF B
  <2>6. OfVersion(B, Max(VersionsOf(B))) # {}
    BY <2>3, VersionsAreNumbers
  <2> QED BY <1>1, <2>3, <2>4, <2>5, <2>6
<1> QED BY <1>3, <1>4, <1>5 DEF CatalogRows

\* For every library, and either order of the rows: the console is offered what the page would send.
THEOREM BothInstallTheSame ==
    TitlesSized => \A a \in Games, ord, other \in Orders : SameInstall(a, ord, other)
<1> SUFFICES ASSUME TitlesSized, NEW a \in Games, NEW ord \in Orders, NEW other \in Orders, WellNamed(a),
                    NEW m \in CatalogRows(a, ord)
             PROVE  Offered(a, other)[<<Title(m), Version(m)>>] = m
  BY DEF SameInstall
<1>1. PICK S \in SUBSET GameRows(a) : m \in Best(S) /\ RowsFor(GameRows(a), <<Title(m), Version(m)>>) \subseteq S
  BY CatalogPicks
<1> QED BY <1>1, BestOfMore

\* The flags come out the same in either order, if the bases do not differ in version or some update
\* is there.
THEOREM FlagsDoNotDependOnTheOrder ==
    \A a \in Games, ord, other \in Orders : FlagsAreStable(a, ord, other)
<1> SUFFICES ASSUME NEW a \in Games, NEW ord \in Orders, NEW other \in Orders,
                    UpdateVersions(a) # {}
                    \/ \A m, n \in OfType(GameRows(a), "application") : Version(m) = Version(n)
             PROVE  Flags(a, ord) = Flags(a, other)
  BY DEF FlagsAreStable
<1> DEFINE bases == OfType(GameRows(a), "application")
<1>1. NewestOwned(a, ord) = NewestOwned(a, other)
  <2>1. CASE UpdateVersions(a) # {} \/ bases = {}
    BY <2>1 DEF NewestOwned
  <2>2. CASE bases # {} /\ \A m, n \in bases : Version(m) = Version(n)
    <3>1. bases \subseteq DOMAIN MetaRow
      BY RowsAreThere DEF OfType
    <3>2. First(bases, ord) \in bases /\ First(bases, other) \in bases
      BY <2>2, <3>1, HasFirst
    <3> QED BY <2>2, <3>2 DEF NewestOwned
  <2> QED BY <2>1, <2>2
<1> QED BY <1>1 DEF Flags

\* Whatever the list is sorted by, up or down, it has one order, and what is not known is last.
THEOREM TheListHasOneOrder ==
    ASSUME TitlesSized, NEW sort, NEW order \in {"asc", "desc"},
           NEW key, \A x \in Games : key[x] \in Known(Int), NEW name \in [Games -> Nat]
    PROVE  ListIsOrdered(sort, key, name, order) /\ UnknownIsLast(sort, key, name, order)
<1>0. Games \subseteq Nat
  <2>1. \A m \in Present : AppOf(m) \in TitleIds
    BY DEF TitlesSized, FilesFit, MetasFit, AppsFit, TdbFits, Present, AppOf, Mapped, Title, Known
  <2> QED BY <2>1 DEF Games, TitlesSized
<1>1. \A x, y \in Games : name[x] \in Nat /\ x \in Nat /\ (key[x] # Unknown => key[x] \in Int)
  BY <1>0 DEF Known
<1>2. \A x, y, z \in Games :
         /\ ~(ByName(name, x, y) /\ ByName(name, y, x)) /\ (x # y => ByName(name, x, y) \/ ByName(name, y, x))
         /\ ~ByName(name, x, x)
         /\ ByName(name, x, y) /\ ByName(name, y, z) => ByName(name, x, z)
  BY <1>1 DEF ByName
<1>3. CASE sort = "name"
  BY <1>2, <1>3 DEF ListIsOrdered, UnknownIsLast, Before
<1>4. CASE sort # "name"
  <2>1. ASSUME NEW x \in Games, NEW y \in Games
        PROVE  /\ Before(sort, key, name, order, x, y) => ~Before(sort, key, name, order, y, x)
               /\ x # y => Before(sort, key, name, order, x, y) \/ Before(sort, key, name, order, y, x)
    <3>1. CASE key[x] = Unknown \/ key[y] = Unknown
      BY <1>2, <1>4, <3>1 DEF Before
    <3>2. CASE key[x] # Unknown /\ key[y] # Unknown
      BY <1>1, <1>2, <1>4, <3>2 DEF Before
    <3> QED BY <3>1, <3>2
  <2>2. ASSUME NEW x \in Games, NEW y \in Games, NEW z \in Games,
               Before(sort, key, name, order, x, y), Before(sort, key, name, order, y, z)
        PROVE  Before(sort, key, name, order, x, z)
    <3>1. CASE key[x] = Unknown
      <4>1. key[y] = Unknown /\ ByName(name, x, y)
        BY <1>4, <2>2, <3>1 DEF Before
      <4>2. key[z] = Unknown /\ ByName(name, y, z)
        BY <1>4, <2>2, <4>1 DEF Before
      <4> QED BY <1>2, <1>4, <3>1, <4>1, <4>2 DEF Before
    <3>2. CASE key[x] # Unknown /\ key[z] = Unknown
      BY <1>4, <3>2 DEF Before
    <3>3. CASE key[x] # Unknown /\ key[z] # Unknown
      <4>1. key[y] # Unknown
        BY <1>4, <2>2, <3>3 DEF Before
      <4> DEFINE Ahead(u, v) == IF order = "desc" THEN key[u] > key[v] ELSE key[u] < key[v]
      <4>2. \A u, v \in {x, y, z} : Before(sort, key, name, order, u, v) <=>
                IF key[u] = key[v] THEN ByName(name, u, v) ELSE Ahead(u, v)
        BY <1>4, <3>3, <4>1 DEF Before
      <4>3. \A u, v, w \in {x, y, z} :
               /\ Ahead(u, v) /\ Ahead(v, w) => Ahead(u, w) /\ key[u] # key[w]
               /\ key[u] = key[v] => (Ahead(v, w) <=> Ahead(u, w)) /\ (Ahead(w, v) <=> Ahead(w, u))
        BY <1>1, <3>3, <4>1
      <4> HIDE DEF Ahead
      <4> QED BY <1>2, <2>2, <4>2, <4>3
    <3> QED BY <3>1, <3>2, <3>3
  <2>3. UnknownIsLast(sort, key, name, order)
    BY <1>4 DEF UnknownIsLast, Before
  <2> QED BY <2>1, <2>2, <2>3 DEF ListIsOrdered
<1> QED BY <1>3, <1>4

\* The flag of a game and the report of problems agree, but for files taken for different games.
THEOREM FlagsFollowTheReport ==
    \A a \in Games, ord \in Orders : DuplicatesAreFlagged(a, ord)
<1> SUFFICES ASSUME NEW a \in Games, NEW ord \in Orders PROVE DuplicatesAreFlagged(a, ord)
  OBVIOUS
<1>1. "duplicate" \in Flags(a, ord) <=> \E c \in ContentsOf(GameRows(a)) : TwoFiles(RowsFor(GameRows(a), c))
  BY DEF Flags, Flag
<1>2. ASSUME NEW c \in ContentsOf(GameRows(a)), TwoFiles(RowsFor(GameRows(a), c)) PROVE c \in Duplicates
  BY <1>2, RowsAreThere DEF Duplicates, ContentsOf, TwoFiles, RowsFor
<1>3. ASSUME NEW c \in Duplicates, RowsFor(Present, c) \subseteq GameRows(a)
      PROVE  c \in ContentsOf(GameRows(a)) /\ TwoFiles(RowsFor(GameRows(a), c))
  BY <1>3 DEF Duplicates, ContentsOf, TwoFiles, RowsFor
<1> QED BY <1>1, <1>2, <1>3 DEF DuplicatesAreFlagged

\* What a game is shown as is found by a search for it.
THEOREM SearchFindsWhatIsShown ==
    TitlesSized => \A a \in Games, ord \in Orders : \A ids, names : ShownIsFound(a, ord, ids, names)
<1> SUFFICES ASSUME TitlesSized, NEW a \in Games, NEW ord \in Orders, NEW ids, NEW names, GameName(a, ord) \in names
             PROVE  Matches(a, ids, names)
  BY DEF ShownIsFound
<1>1. CASE AppName(a) # Unknown
  BY <1>1 DEF GameName, Coalesce, Matches
<1>2. CASE AppName(a) = Unknown
  <2> DEFINE G == GameRows(a)
             S == IF OfType(G, "application") # {} THEN OfType(G, "application")
                  ELSE IF OfType(G, "patch") # {} THEN OfType(G, "patch") ELSE OfType(G, "addon")
  <2>1. S # {} /\ S \subseteq G /\ G \subseteq DOMAIN MetaRow
    <3>1. G # {} /\ G \subseteq DOMAIN MetaRow
      BY RowsAreThere DEF Games, GameRows
    <3>2. \A m \in G : MetaRow[m].type \in Types
      BY <3>1 DEF TitlesSized, FilesFit, MetasFit, AppsFit, TdbFits
    <3> QED BY <3>1, <3>2 DEF OfType, Types
  <2>2. NameFrom(G, ord) = DisplayName(First(S, ord))
    BY DEF NameFrom
  <2> HIDE DEF S
  <2>3. First(S, ord) \in G
    BY <2>1, HasFirst
  <2>4. GameName(a, ord) = DisplayName(First(S, ord))
    BY <1>2, <2>2 DEF GameName, Coalesce
  <2> QED BY <2>3, <2>4 DEF Matches
<1> QED BY <1>1, <1>2

LEMMA AgesAreNumbers ==
    ASSUME TitlesSized, NEW m \in DOMAIN MetaRow
    PROVE  Age(m) \in Int /\ Title(m) \in Nat
<1>1. Version(m) \in Known(Nat) /\ Title(m) \in TitleIds /\ TitleIds \subseteq Nat
  BY DEF TitlesSized, FilesFit, MetasFit, AppsFit, TdbFits, Version, Title
<1>2. Age(m) \in Int
  BY <1>1 DEF Age, Known
<1> QED BY <1>1, <1>2

\* Each content is offered by a row of its own.
LEMMA OfferedAreRows ==
    ASSUME TitlesSized, NEW a, NEW ord \in Orders, NEW c \in ContentsOf(GameRows(a))
    PROVE  /\ Offered(a, ord)[c] \in GameRows(a) /\ Offered(a, ord)[c] \in DOMAIN MetaRow
           /\ <<Title(Offered(a, ord)[c]), Version(Offered(a, ord)[c])>> = c
<1>1. RowsFor(GameRows(a), c) # {} /\ RowsFor(GameRows(a), c) \subseteq DOMAIN MetaRow
  BY RowsAreThere DEF RowsFor, ContentsOf
<1>2. Pick(RowsFor(GameRows(a), c), ord) \in RowsFor(GameRows(a), c)
  BY <1>1, PickIsBest
<1> QED BY <1>1, <1>2 DEF Offered, RowsFor

\* The order of a game's page never takes two contents as equal, and has none before itself.
LEMMA ContentsCompare ==
    ASSUME TitlesSized, NEW a, NEW ord \in Orders, NEW m \in OfferedRows(a, ord), NEW n \in OfferedRows(a, ord),
           m # n
    PROVE  ContentBefore(m, n) <=> ~ContentBefore(n, m)
<1>1. PICK c \in ContentsOf(GameRows(a)), d \in ContentsOf(GameRows(a)) :
         m = Offered(a, ord)[c] /\ n = Offered(a, ord)[d]
  BY DEF OfferedRows
<1>2. m \in DOMAIN MetaRow /\ n \in DOMAIN MetaRow /\ <<Title(m), Version(m)>> = c /\ <<Title(n), Version(n)>> = d
  BY <1>1, OfferedAreRows
<1>3. Title(m) # Title(n) \/ Version(m) # Version(n)
  BY <1>1, <1>2
<1>4. \A x \in {m, n} : TypeOrder(x) \in Int /\ Age(x) \in Int /\ Called(x) \in Int /\ Title(x) \in Int
  <2> SUFFICES ASSUME NEW x \in {m, n} PROVE TypeOrder(x) \in Int /\ Age(x) \in Int /\ Called(x) \in Int /\ Title(x) \in Int
    OBVIOUS
  <2>1. TypeOrder(x) \in Int
    BY DEF TypeOrder
  <2>2. Age(x) \in Int /\ Title(x) \in Int
    BY <1>2, AgesAreNumbers
  <2>3. DisplayName(x) \in Names
    BY <1>2 DEF TitlesSized, FilesFit, MetasFit, AppsFit, TdbFits, DisplayName, Coalesce, Title, Known
  <2> QED BY <2>1, <2>2, <2>3 DEF TitlesSized, FilesFit, MetasFit, AppsFit, TdbFits, Called
<1>5. Version(m) # Version(n) => Age(m) # Age(n)
  BY <1>2 DEF TitlesSized, FilesFit, MetasFit, AppsFit, TdbFits, Age, Version, Known
<1> QED BY <1>3, <1>4, <1>5 DEF ContentBefore

\* The page of every game lists its contents in one order.
THEOREM PagesAreInOneOrder ==
    TitlesSized => \A a \in Games, ord \in Orders : ContentsAreOrdered(a, ord)
BY ContentsCompare DEF ContentsAreOrdered

LEMMA OfferedAreFinite ==
    ASSUME TitlesSized, NEW a, NEW ord \in Orders, NEW S, S \subseteq OfferedRows(a, ord)
    PROVE  IsFiniteSet(S) /\ S \subseteq GameRows(a) /\ S \subseteq DOMAIN MetaRow
<1>1. S \subseteq GameRows(a) /\ S \subseteq DOMAIN MetaRow
  BY OfferedAreRows DEF OfferedRows
<1> QED BY <1>1, FS_Subset DEF TitlesSized, FilesFit, MetasFit, AppsFit, TdbFits

\* Among updates one is the newest.
LEMMA NewestExists ==
    ASSUME TitlesSized, NEW a, NEW ord \in Orders, NEW S, S # {}, S = OfType(OfferedRows(a, ord), "patch")
    PROVE  Newest(S) # {}
<1>1. S \subseteq OfferedRows(a, ord) /\ \A m \in S : MetaRow[m].type = "patch"
  BY DEF OfType
<1>2. IsFiniteSet(S) /\ S \subseteq DOMAIN MetaRow
  BY <1>1, OfferedAreFinite
<1> DEFINE age == [m \in S |-> Age(m)]
           called == [m \in S |-> Called(m)]
           title == [m \in S |-> Title(m)]
<1>3. \A m \in S : Age(m) \in Int /\ Called(m) \in Nat /\ Title(m) \in Nat
  <2> SUFFICES ASSUME NEW m \in S PROVE Age(m) \in Int /\ Called(m) \in Nat /\ Title(m) \in Nat
    OBVIOUS
  <2>1. Age(m) \in Int /\ Title(m) \in Nat
    BY <1>2, AgesAreNumbers
  <2>2. DisplayName(m) \in Names
    BY <1>2 DEF TitlesSized, FilesFit, MetasFit, AppsFit, TdbFits, DisplayName, Coalesce, Title, Known
  <2> QED BY <2>1, <2>2 DEF TitlesSized, FilesFit, MetasFit, AppsFit, TdbFits, Called
<1>4. PICK p \in S : \A n \in S : age[n] <= age[p]
  <2>1. \A m \in S : age[m] \in Int
    BY <1>3
  <2> HIDE DEF age
  <2> QED BY <1>2, <2>1, FiniteHasGreatest
<1> DEFINE A == {m \in S : age[m] = age[p]}
<1>5. PICK q \in A : \A n \in A : called[q] <= called[n]
  <2>1. A # {} /\ \A m \in A : called[m] \in Nat
    BY <1>3
  <2> HIDE DEF called, A
  <2> QED BY <2>1, HasLeast
<1> DEFINE B == {m \in A : called[m] = called[q]}
<1>6. PICK r \in B : \A n \in B : title[r] <= title[n]
  <2>1. B # {} /\ \A m \in B : title[m] \in Nat
    BY <1>3
  <2> HIDE DEF title, B
  <2> QED BY <2>1, HasLeast
<1>7. r \in S /\ Age(r) = Age(p) /\ Called(r) = Called(q)
  BY <1>6
<1>8. ASSUME NEW n \in S \ {r} PROVE Age(n) < Age(r) \/ (Age(n) = Age(r) /\ ContentBefore(r, n))
  <2>1. Age(n) <= Age(r)
    BY <1>4, <1>7
  <2>2. CASE Age(n) = Age(r)
    <3>1. n \in A /\ Called(r) <= Called(n)
      BY <1>5, <1>7, <2>2
    <3>2. TypeOrder(n) = TypeOrder(r)
      BY <1>1, <1>7 DEF TypeOrder
    <3>3. CASE Called(n) # Called(r)
      BY <1>3, <1>7, <2>2, <3>1, <3>2, <3>3 DEF ContentBefore
    <3>4. CASE Called(n) = Called(r)
      <4>1. n \in B
        BY <1>7, <3>1, <3>4
      <4>2. Title(r) <= Title(n)
        BY <1>6, <1>7, <4>1
      <4>3. PICK c \in ContentsOf(GameRows(a)), d \in ContentsOf(GameRows(a)) :
               r = Offered(a, ord)[c] /\ n = Offered(a, ord)[d]
        BY <1>1, <1>7 DEF OfferedRows
      <4>4. <<Title(r), Version(r)>> = c /\ <<Title(n), Version(n)>> = d
        BY <4>3, OfferedAreRows
      <4>5. Version(r) = Version(n)
        BY <1>2, <1>7, <2>2 DEF TitlesSized, FilesFit, MetasFit, AppsFit, TdbFits, Age, Version, Known
      <4>6. Title(r) # Title(n)
        BY <1>8, <4>3, <4>4, <4>5
      <4> QED BY <1>3, <1>7, <2>2, <3>2, <3>4, <4>2, <4>6 DEF ContentBefore
    <3> QED BY <3>3, <3>4
  <2> QED BY <1>3, <1>7, <2>1, <2>2
<1> QED BY <1>7, <1>8 DEF Newest

\* Sending a whole game sends its newest update, and all that is no update.
THEOREM WholeGamesAreNewest ==
    TitlesSized => \A a \in Games, ord \in Orders : SendsTheNewest(a, ord)
<1> SUFFICES ASSUME TitlesSized, NEW a \in Games, NEW ord \in Orders, WellNamed(a)
             PROVE  /\ \A m \in OfferedRows(a, ord) : MetaRow[m].type # "patch" => m \in Sent(a, ord)
                    /\ \A m, n \in OfType(Sent(a, ord), "patch") : m = n
                    /\ \A m \in OfType(Sent(a, ord), "patch"), n \in OfType(GameRows(a), "patch") : Age(n) <= Age(m)
                    /\ OfType(GameRows(a), "patch") # {} => OfType(Sent(a, ord), "patch") # {}
  BY DEF SendsTheNewest
<1> DEFINE offered == OfferedRows(a, ord)
           updates == OfType(offered, "patch")
<1>1. updates \subseteq offered /\ updates \subseteq GameRows(a) /\ updates \subseteq DOMAIN MetaRow
  BY OfferedAreFinite DEF OfType
<1>2. Sent(a, ord) = (offered \ updates) \cup Newest(updates)
  BY DEF Sent
<1>3. OfType(Sent(a, ord), "patch") = Newest(updates) /\ Newest(updates) \subseteq updates
  BY <1>2 DEF OfType, Newest
<1>4. \A m \in updates : Age(m) \in Int
  BY <1>1 DEF TitlesSized, FilesFit, MetasFit, AppsFit, TdbFits, Age, Version, Known
<1>5. ASSUME NEW m \in offered, MetaRow[m].type # "patch" PROVE m \in Sent(a, ord)
  BY <1>2, <1>5 DEF OfType
<1>6. ASSUME NEW m \in Newest(updates), NEW n \in Newest(updates) PROVE m = n
  <2> SUFFICES ASSUME m # n PROVE FALSE
    OBVIOUS
  <2>1. m \in updates /\ n \in updates
    BY <1>3
  <2>2. Age(n) < Age(m) \/ (Age(n) = Age(m) /\ ContentBefore(m, n))
    BY <2>1 DEF Newest
  <2>3. Age(m) < Age(n) \/ (Age(m) = Age(n) /\ ContentBefore(n, m))
    BY <2>1 DEF Newest
  <2>4. ContentBefore(m, n) <=> ~ContentBefore(n, m)
    BY <1>1, <2>1, ContentsCompare
  <2> QED BY <1>4, <2>1, <2>2, <2>3, <2>4
<1>7. ASSUME NEW n \in OfType(GameRows(a), "patch") PROVE \E k \in updates : Age(k) = Age(n)
  <2> DEFINE c == <<Title(n), Version(n)>>
             k == Offered(a, ord)[c]
  <2>1. n \in GameRows(a) /\ MetaRow[n].type = "patch" /\ c \in ContentsOf(GameRows(a))
    BY DEF OfType, ContentsOf
  <2>2. k \in GameRows(a) /\ <<Title(k), Version(k)>> = c /\ k \in offered
    BY <2>1, OfferedAreRows DEF OfferedRows
  <2>3. Title(k) = Title(n) /\ Version(k) = Version(n)
    BY <2>2
  <2>4. MetaRow[k].type = "patch"
    BY <2>1, <2>2, <2>3 DEF WellNamed
  <2> QED BY <2>2, <2>3, <2>4 DEF OfType, Age
<1>8. ASSUME NEW m \in Newest(updates), NEW n \in OfType(GameRows(a), "patch") PROVE Age(n) <= Age(m)
  <2>1. PICK k \in updates : Age(k) = Age(n)
    BY <1>7
  <2>2. m \in updates
    BY <1>3
  <2>3. CASE k = m
    BY <1>4, <2>1, <2>3
  <2>4. CASE k # m
    <3>1. Age(k) < Age(m) \/ Age(k) = Age(m)
      BY <2>2, <2>4 DEF Newest
    <3> QED BY <1>4, <2>1, <2>2, <3>1
  <2> QED BY <2>3, <2>4
<1>9. ASSUME OfType(GameRows(a), "patch") # {} PROVE Newest(updates) # {}
  <2>1. updates # {}
    BY <1>7, <1>9
  <2> QED BY <2>1, NewestExists
<1> QED BY <1>3, <1>5, <1>6, <1>8, <1>9
================================================================================
