---------------------------- MODULE Compression ----------------------------
(***************************************************************************)
(* CompressService (library/compress-service.ts): an NSP of the library is *)
(* packed into an NSZ in the output folder, checked, and may be deleted    *)
(* afterwards.  One compression runs at a time; the request that deletes   *)
(* an original later runs beside it, and every await is a place for the    *)
(* scanner, for installs from the NSP and for people.                      *)
(*                                                                         *)
(* Two files are followed: the NSP and the NSZ that nszNameFor names.  The *)
(* scanner does anything to the NSP's row that module Library lets it do;  *)
(* a row that a rename takes to another path is one the NSP loses.         *)
(***************************************************************************)
EXTENDS Integers, FiniteSets, Sequences

CONSTANTS
    Versions,       \* what the NSP can be; one size and mtime each
    Gone,           \* no file
    Foreign,        \* a file the service did not make
    None,           \* no task
    MaxIds,         \* bound: rows the NSP ever has
    MaxTasks,       \* bound: compressions asked for between restarts
    MaxEdits,       \* bound: changes to the two files, and rows lost
    MaxRestarts     \* bound: restarts

ASSUME CompressionAssumption ==
    /\ Gone \notin Versions /\ Foreign \notin Versions \cup {Gone} /\ None \notin Nat
    /\ MaxIds \in Nat \ {0} /\ MaxTasks \in Nat /\ MaxEdits \in Nat /\ MaxRestarts \in Nat

VARIABLES
    nsp,        \* the original on the disk
    nsz,        \* the output: the version packed in it
    partial,    \* the partial file: the version packed in it
    row,        \* the NSP's row in the files table, if it has one
    lastId,     \* AUTOINCREMENT
    wanted,     \* files with install jobs queued, claimed or running
    tasks,      \* the tasks, oldest first; #tasks holds the last of each file
    run,        \* #run of the task taken from #queue
    removers,   \* #removeOriginalFile, for the run and for a request
    swept,      \* start() has come past removeLeftovers
    late,       \* history: what others did behind a removal's checks
    named,      \* history: somebody took the output's name after the last look at it
    edits,      \* history: how many of those so far
    restarts    \* history: how many restarts so far

files == <<nsp, nsz, partial>>
database == <<row, lastId, wanted>>
memory == <<tasks, run, removers, swept>>
history == <<late, named, edits, restarts>>
vars == <<nsp, nsz, partial, row, lastId, wanted, tasks, run, removers, swept, late, named, edits, restarts>>

Found == Versions \cup {Gone}
Ids == 1..MaxIds
States == {"queued", "running", "done", "failed", "cancelled"}
Removers == {"run", "request"}
Steps == {"preparing", "locating", "opening", "packing", "naming", "renaming", "placed", "removing", "finishing"}

Tasks == 1..Len(tasks)
Active(t) == tasks[t].state \in {"queued", "running"}
IsLatest(t) == \A u \in Tasks : tasks[u].file = tasks[t].file => u <= t

\* packed and kept are history: what its NSZ was made of, and that nobody has touched it.
NewTask(i) == [file |-> i, state |-> "queued", aborted |-> FALSE, located |-> Gone,
                packed |-> Gone, kept |-> FALSE, removed |-> FALSE]
NoRun == [pc |-> "idle", task |-> None, expected |-> Gone, located |-> Gone, read |-> Gone]
NoRemoval == [pc |-> "none", task |-> None]

\* The folder was scanned: the NSP is in the library with its content list.
Init ==
    /\ nsp \in Versions /\ nsz = Gone /\ partial = Gone
    /\ row = {[id |-> 1, missing |-> FALSE, meta |-> nsp]} /\ lastId = 1 /\ wanted = {}
    /\ tasks = <<>> /\ run = NoRun
    /\ removers = [w \in Removers |-> NoRemoval] /\ swept = TRUE
    /\ late = [w \in Removers |-> {}] /\ named = FALSE /\ edits = 0 /\ restarts = 0

--------------------------------------------------------------------------------
(* Requests.                                                                   *)

\* #checkFile, for file i.
CanCompress(i) == \E r \in row : r.id = i /\ ~r.missing

\* start: after the folder was checked the task is queued, unless the file has one by then.
Start ==
    /\ Len(tasks) < MaxTasks
    /\ \E r \in row :
           /\ CanCompress(r.id)
           /\ \A t \in Tasks : tasks[t].file = r.id => ~Active(t)
           /\ tasks' = Append(tasks, NewTask(r.id))
    /\ UNCHANGED <<files, database, run, removers, swept, history>>

\* cancel: the task says it is cancelled at once, whatever its run still does.
Cancel ==
    /\ \E t \in Tasks :
           /\ Active(t)
           /\ tasks' = [tasks EXCEPT ![t] = [@ EXCEPT !.state = "cancelled", !.aborted = TRUE]]
    /\ UNCHANGED <<files, database, run, removers, swept, history>>

\* Someone queues an install of a title in the file (#insertJob of device/service.ts).
QueueInstall ==
    /\ \E r \in row :
           /\ ~r.missing /\ r.meta # Gone /\ r.id \notin wanted
           /\ wanted' = wanted \cup {r.id}
    /\ late' = [w \in Removers |->
                   late[w] \cup IF removers[w].pc \in {"looking", "removing"} THEN {"install"} ELSE {}]
    /\ UNCHANGED <<files, row, lastId, memory, named, edits, restarts>>

InstallEnds ==
    /\ \E i \in wanted : wanted' = wanted \ {i}
    /\ UNCHANGED <<files, row, lastId, memory, history>>

--------------------------------------------------------------------------------
(* A run.                                                                      *)

At(pc) == run.pc = pc

\* A task that was cancelled keeps saying so.
Told(t, state) == [tasks EXCEPT ![t].state = IF @ = "cancelled" THEN @ ELSE state]

Fails ==
    /\ run' = NoRun
    /\ tasks' = Told(run.task, "failed")

\* The queue's next task; a cancelled one never starts.
RunBegins ==
    /\ At("idle")
    /\ \E t \in Tasks :
           /\ tasks[t].state = "queued" /\ \A u \in 1..(t - 1) : tasks[u].state # "queued"
           /\ \/ /\ CanCompress(tasks[t].file)
                 /\ run' = [NoRun EXCEPT !.pc = "preparing", !.task = t]
                 /\ tasks' = Told(t, "running")
              \/ /\ ~CanCompress(tasks[t].file)
                 /\ tasks' = Told(t, "failed")
                 /\ UNCHANGED run
    /\ UNCHANGED <<files, database, removers, swept, history>>

\* #expectedHashes: the versions whose content list the database has.
Expected(i) == {r.meta : r \in {s \in row : s.id = i /\ s.meta # Gone}}

\* There is a content list to check against, and the output's name is free.
Prepare ==
    /\ At("preparing")
    /\ \/ /\ nsz = Gone
          /\ \E v \in Expected(tasks[run.task].file) :
                 run' = [run EXCEPT !.pc = "locating", !.expected = v]
          /\ UNCHANGED tasks
       \/ /\ Expected(tasks[run.task].file) = {} \/ nsz # Gone
          /\ Fails
    /\ UNCHANGED <<files, database, removers, swept, history>>

Locate ==
    /\ At("locating")
    /\ \/ /\ nsp # Gone
          /\ run' = [run EXCEPT !.pc = "opening", !.located = nsp]
          /\ UNCHANGED tasks
       \/ nsp = Gone /\ Fails
    /\ UNCHANGED <<files, database, removers, swept, history>>

\* openLocatedFile: what is read from here on is the file opened.
Open ==
    /\ At("opening")
    /\ \/ /\ nsp # Gone
          /\ run' = [run EXCEPT !.pc = "packing", !.read = nsp]
          /\ partial' = nsp
          /\ UNCHANGED tasks
       \/ /\ nsp = Gone
          /\ Fails
          /\ UNCHANGED partial
    /\ UNCHANGED <<nsp, nsz, database, removers, swept, history>>

(* compressNsp: the NSP matched its content list, and the new file, read back, matches the NSP.  *)
(* A cancel is heard until here.                                                                 *)
Pack ==
    /\ At("packing")
    /\ ~tasks[run.task].aborted /\ run.read = run.expected /\ partial = run.read
    /\ run' = [run EXCEPT !.pc = "naming"]
    /\ UNCHANGED <<files, database, tasks, removers, swept, history>>

\* Mutant: the partial file stays.
PackFailsOnly ==
    /\ At("packing")
    /\ Fails
    /\ UNCHANGED <<files, database, removers, swept, history>>

\* A cancel, a read or write error, a hash that differs: the partial file is removed.
PackFails ==
    /\ At("packing")
    /\ Fails
    /\ partial' = Gone
    /\ UNCHANGED <<nsp, nsz, database, removers, swept, history>>

\* Mutant: nobody looks again.
TrustName ==
    /\ At("naming")
    /\ run' = [run EXCEPT !.pc = "renaming"]
    /\ named' = FALSE
    /\ UNCHANGED <<files, database, tasks, removers, swept, late, edits, restarts>>

\* Another file may have taken the name meanwhile.
CheckName ==
    /\ At("naming")
    /\ \/ /\ nsz = Gone
          /\ run' = [run EXCEPT !.pc = "renaming"]
          /\ named' = FALSE
          /\ UNCHANGED <<tasks, partial>>
       \/ /\ nsz # Gone
          /\ Fails
          /\ partial' = Gone
          /\ UNCHANGED named
    /\ UNCHANGED <<nsp, nsz, database, removers, swept, late, edits, restarts>>

\* rename takes the place of whatever is there by now; without its partial file it fails.
PutInPlace ==
    /\ At("renaming")
    /\ \/ /\ partial # Gone
          /\ nsz' = partial
          /\ run' = [run EXCEPT !.pc = "placed"]
          /\ tasks' = [tasks EXCEPT ![run.task] =
                           [@ EXCEPT !.located = run.located, !.packed = run.read, !.kept = TRUE]]
       \/ /\ partial = Gone
          /\ Fails
          /\ UNCHANGED nsz
    /\ partial' = Gone
    /\ UNCHANGED <<nsp, database, removers, swept, history>>

\* A rescan of the output's folder is asked for; the task is done.
Finish ==
    /\ At("finishing")
    /\ run' = NoRun
    /\ tasks' = Told(run.task, "done")
    /\ UNCHANGED <<files, database, removers, swept, history>>

--------------------------------------------------------------------------------
(* Removing the original (#removeOriginalFile).                                *)

Busy(t) == tasks[t].file \in wanted

Begin(w, t) ==
    /\ removers' = [removers EXCEPT ![w] = [pc |-> "looking", task |-> t]]
    /\ late' = [late EXCEPT ![w] = {}]

\* After the rename, with the setting on or off at that moment.
RunRemoves ==
    /\ At("placed")
    /\ \/ /\ ~Busy(run.task)
          /\ Begin("run", run.task)
          /\ run' = [run EXCEPT !.pc = "removing"]
       \/ /\ run' = [run EXCEPT !.pc = "finishing"]
          /\ UNCHANGED <<removers, late>>
    /\ UNCHANGED <<files, database, tasks, swept, named, edits, restarts>>

\* Mutant: the request does not look for installs.
RemovableAnyway(t) == IsLatest(t) /\ tasks[t].state = "done" /\ ~tasks[t].removed

\* POST remove-original: of a finished compression, once.
Removable(t) == IsLatest(t) /\ tasks[t].state = "done" /\ ~tasks[t].removed /\ ~Busy(t)

RequestRemoves ==
    /\ removers["request"].pc = "none"
    /\ \E t \in Tasks : Removable(t) /\ Begin("request", t)
    /\ UNCHANGED <<files, database, tasks, run, swept, named, edits, restarts>>

\* The removal is over: the run goes on, the request is answered.
Leaves(w, gone) ==
    /\ removers' = [removers EXCEPT ![w] = NoRemoval]
    /\ run' = IF w = "run" THEN [run EXCEPT !.pc = "finishing"] ELSE run
    /\ tasks' = [tasks EXCEPT ![removers[w].task].removed = @ \/ gone]

\* Mutant: an NSP is there.
StillThere(t) == nsp # Gone

\* The NSP is the one that was located for the compression.
Unchanged(t) == nsp = tasks[t].located

Look ==
    /\ \E w \in Removers :
           /\ removers[w].pc = "looking"
           /\ \/ /\ Unchanged(removers[w].task)
                 /\ removers' = [removers EXCEPT ![w].pc = "removing"]
                 /\ UNCHANGED <<run, tasks>>
              \/ /\ ~Unchanged(removers[w].task)
                 /\ Leaves(w, FALSE)
    /\ UNCHANGED <<files, database, swept, history>>

\* rm; a folder that can't be written to, or a file already gone, keeps the row.
Unlink ==
    /\ \E w \in Removers :
           /\ removers[w].pc = "removing"
           /\ \/ /\ nsp # Gone
                 /\ nsp' = Gone
                 /\ removers' = [removers EXCEPT ![w].pc = "forgetting"]
                 /\ UNCHANGED <<run, tasks>>
              \/ /\ Leaves(w, FALSE)
                 /\ UNCHANGED nsp
    /\ UNCHANGED <<nsz, partial, database, swept, history>>

\* deleteFile: a file deleted on purpose is not to be listed as missing.
Forget ==
    /\ \E w \in Removers :
           /\ removers[w].pc = "forgetting"
           /\ row' = {r \in row : r.id # tasks[removers[w].task].file}
           /\ Leaves(w, TRUE)
    /\ UNCHANGED <<files, lastId, wanted, swept, history>>

--------------------------------------------------------------------------------
(* The rest of the server, and everybody else.                                 *)

\* The scanner brings the NSP's row, or one inspection of it, up to date or out of date.
Scanner ==
    /\ \/ /\ \E r \in row, gone \in BOOLEAN, v \in Found :
                 row' = {[r EXCEPT !.missing = gone, !.meta = v]}
          /\ UNCHANGED lastId
       \/ /\ row = {} /\ lastId < MaxIds
          /\ row' = {[id |-> lastId + 1, missing |-> FALSE, meta |-> Gone]}
          /\ lastId' = lastId + 1
    /\ UNCHANGED <<files, wanted, memory, history>>

Edit == edits < MaxEdits /\ edits' = edits + 1

\* The row is purged, or its folder taken out of the library (purgeMissing, deleteRoot).
LosesRow ==
    /\ Edit
    /\ row # {} /\ row' = {}
    /\ UNCHANGED <<files, lastId, wanted, memory, late, named, restarts>>

\* Tasks are kept in memory; the partial file stays until start() removes it.
Restart ==
    /\ restarts < MaxRestarts /\ restarts' = restarts + 1
    /\ tasks' = <<>> /\ run' = NoRun
    /\ removers' = [w \in Removers |-> NoRemoval]
    /\ late' = [w \in Removers |-> {}]
    /\ swept' = FALSE
    /\ UNCHANGED <<files, database, named, edits>>

\* removeLeftovers, of a server that may be serving requests already.
RemoveLeftovers ==
    /\ ~swept /\ swept' = TRUE
    /\ partial' = Gone
    /\ UNCHANGED <<nsp, nsz, database, tasks, run, removers, history>>

\* People write, replace, remove or rename the NSP.
ChangeNsp ==
    /\ Edit
    /\ \E v \in Found : nsp # v /\ nsp' = v
    /\ late' = [w \in Removers |-> late[w] \cup IF removers[w].pc = "removing" THEN {"original"} ELSE {}]
    /\ UNCHANGED <<nsz, partial, database, memory, named, restarts>>

\* People put a file at the output's name or take it away.
ChangeNsz ==
    /\ Edit
    /\ \E f \in {Gone, Foreign} : nsz # f /\ nsz' = f
    /\ named' = TRUE
    /\ tasks' = [t \in Tasks |-> [tasks[t] EXCEPT !.kept = FALSE]]
    /\ UNCHANGED <<nsp, partial, database, run, removers, swept, late, restarts>>

--------------------------------------------------------------------------------

Run == RunBegins \/ Prepare \/ Locate \/ Open \/ Pack \/ PackFails \/ CheckName \/ PutInPlace \/ Finish
Removal == RunRemoves \/ RequestRemoves \/ Look \/ Unlink \/ Forget
Requests == Start \/ Cancel \/ QueueInstall \/ InstallEnds
Others == Scanner \/ LosesRow \/ Restart \/ RemoveLeftovers \/ ChangeNsp \/ ChangeNsz

Next == Requests \/ Run \/ Removal \/ Others

Spec == Init /\ [][Next]_vars

--------------------------------------------------------------------------------

TaskSet == [file : Ids, state : States, aborted : BOOLEAN, located : Found, packed : Found,
            kept : BOOLEAN, removed : BOOLEAN]

TypeOK ==
    /\ nsp \in Found /\ partial \in Found /\ nsz \in Found \cup {Foreign}
    /\ lastId \in Ids /\ wanted \subseteq Ids
    /\ row \subseteq [id : Ids, missing : BOOLEAN, meta : Found] /\ \A r, o \in row : r = o
    /\ tasks \in Seq(TaskSet)
    /\ run \in [pc : Steps \cup {"idle"}, task : Tasks \cup {None}, expected : Found, located : Found, read : Found]
    /\ At("idle") <=> run.task = None
    /\ removers \in [Removers -> [pc : {"none", "looking", "removing", "forgetting"}, task : Tasks \cup {None}]]
    /\ \A w \in Removers : removers[w].pc = "none" <=> removers[w].task = None
    /\ removers["run"].pc # "none" <=> At("removing")
    /\ \A t \in Tasks : tasks[t].state = "running" => run.task = t
    /\ partial # Gone => run.pc \in {"packing", "naming", "renaming"} \/ ~swept
    /\ late \in [Removers -> SUBSET {"install", "original"}]
    /\ swept \in BOOLEAN /\ named \in BOOLEAN /\ edits \in 0..MaxEdits /\ restarts \in 0..MaxRestarts

\* The removal that deletes the NSP in this step.
Deletes(w) == removers[w].pc = "removing" /\ removers'[w].pc = "forgetting"

(* A version of the title survives the deletion of its NSP: the NSZ, checked against just that  *)
(* NSP, is in place.  Three windows are left open: the NSP can be replaced between being        *)
(* located and opened, and again after the last look at it, and nobody looks whether the NSZ is *)
(* still there when the NSP is deleted on request later.                                        *)
LastCopySurvives ==
    [][\A w \in Removers :
           LET task == tasks[removers[w].task]
           IN Deletes(w) /\ "original" \notin late[w] /\ task.kept /\ task.packed = task.located
              => nsz = nsp]_vars

(* architecture.md:84: the NSP "is kept [...] if an install from it is queued or running".      *)
(* One window is left open: a job queued between that check and the deletion.                   *)
InstallKeepsOriginal ==
    [][\A w \in Removers : Deletes(w) /\ "install" \notin late[w] => ~Busy(removers[w].task)]_vars

(* architecture.md:80: the NSZ is "renamed once checked, and never over an existing file".      *)
(* One window is left open: a name taken between the last look and the rename.                  *)
NeverOverAFile == [][PutInPlace /\ nsz # Gone => named \/ partial = Gone]_vars

================================================================================
