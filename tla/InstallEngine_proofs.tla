-------------------------- MODULE InstallEngine_proofs --------------------------
(***************************************************************************)
(* Proofs about InstallEngine, for every set of titles and storages and    *)
(* any number of NCAs, tasks, failing calls and crashes.                   *)
(*                                                                         *)
(* The invariant says, of every place a task can stand at, what of its     *)
(* work is on the storages, what of it the rollback would take back, and   *)
(* that neither is anything the record lists.  Its parts are about the     *)
(* record (RecordInv, WholeInv, PromisedInv), the storages (SettledInv),   *)
(* the placeholders and their journal (HolderInv), and the files being     *)
(* replaced (FileInv).                                                     *)
(*                                                                         *)
(* The last section is about the compressions a page shows (CompressPage). *)
(***************************************************************************)
EXTENDS InstallEngine, CompressPage, FiniteSetTheorems, WellFoundedInduction, TLAPS

Kinds == {"none", "install", "move", "uninstall", "replace"}
Pcs == {"idle", "down", "clean", "replace", "title", "nca", "create", "stream", "list", "push", "undo",
        "unmeta", "unnca", "complete"}
Places == Storages \cup {"nowhere"}
ATask == [kind : Kinds, pc : Pcs, todo : SUBSET Copies, t : Titles, from : Places, at : Places,
          part : 1..(NcaCount + 1), had : BOOLEAN, existing : SUBSET Copies, stale : SUBSET Holders]
ARollback == [holders : SUBSET Holders, ncas : SUBSET Ncas, meta : BOOLEAN]
Noted == (SUBSET Holders) \cup {Absent}
Versions == {"v1", "v2", Absent}
AJournal == [part : Noted, dest : Noted, old : Noted]
AnNro == [part : Versions, dest : Versions, old : Versions]
ASave == [file : FileNames, step : Steps \cup {"none"}, new : Noted \cup Versions]
Spending == [tasks : Nat, trouble : Nat]

FilesTyped(fs) ==
    /\ fs = [f \in FileNames |-> fs[f]]
    /\ fs["journal"] \in AJournal /\ fs["app"] \in AnNro /\ fs["homebrew"] \in AnNro

(* What each variable is. *)
Shapes ==
    /\ content \in [Storages -> SUBSET Ncas] /\ metas \in [Storages -> SUBSET Titles]
    /\ holders \in SUBSET Holders /\ listed \in SUBSET Copies
    /\ FilesTyped(files)
    /\ task \in ATask /\ saving \in ASave /\ rb \in ARollback
    /\ promised \in SUBSET Copies /\ bare \in SUBSET FileNames /\ spent \in Spending

-----------------------------------------------------------------------------
(* Where a task stands.                                                      *)

(* Bringing a title in, from its first NCA to its record. *)
Bringing == {"nca", "create", "stream", "list", "push"}
Brings == task.kind \in {"install", "move"} /\ task.pc \in Bringing \cup {"undo"}

TaskInv ==
    /\ task.kind = "none" <=> task.pc \in {"idle", "down", "clean"}
    /\ task.kind = "replace" <=> task.pc = "replace"
    /\ task.pc \in {"title", "nca", "create", "stream"} => task.kind \in {"install", "move"}
    /\ task.pc \in {"unmeta", "unnca"} => task.kind \in {"uninstall", "move"}
    /\ task.pc = "complete" => task.kind = "uninstall" /\ task.t = Base
    /\ task.kind \in {"install", "move", "uninstall"} => task.at \in Storages
    /\ task.kind = "uninstall" \/ task.pc \in Bringing \cup {"unmeta", "unnca"} => task.from \in Storages
    /\ task.kind = "move" => \A m \in task.todo : m.at # task.at
    /\ task.kind = "move" /\ task.pc \in Bringing \cup {"unmeta", "unnca"} => task.from # task.at
    /\ task.pc \in {"create", "stream"} => task.part \in Parts

(* What the rollback holds is the title at hand. *)
RollbackInv ==
    /\ task.pc \notin Bringing \cup {"undo"} \/ task.kind = "uninstall" => rb = NoRollback
    /\ rb.ncas \subseteq NcasOf(task.t)
    /\ \A h \in rb.holders, g \in rb.holders : h = g
    /\ task.pc \in {"nca", "list", "push"} => rb.holders = {}
    /\ task.pc \in {"nca", "create", "stream"} => ~rb.meta

-----------------------------------------------------------------------------
(* The record.                                                               *)

Here == [t |-> task.t, at |-> task.at]
There == [t |-> task.t, at |-> task.from]

(* The record as the app knows it, also while ns has none. *)
Record == IF task.pc = "push" THEN task.existing ELSE listed

Unique(r) == \A x \in r, y \in r : SameId(x.t, y.t) => x = y

(* On its storage, the record has no other version of this copy's title. *)
OnlyItself(r, c) == \A x \in r : SameId(x.t, c.t) /\ x.at = c.at => x = c

RecordInv ==
    /\ Unique(Record)
    /\ task.pc = "push" => listed = {}
    /\ "otherVersion" \notin excuses =>
          /\ task.kind = "move" => \A m \in task.todo : OnlyItself(Record, m)
          /\ task.kind \in {"move", "uninstall"} /\ task.pc \in Bringing => OnlyItself(Record, There)
    /\ task.pc \in {"unmeta", "unnca"} => \A x \in Record : ~(SameId(x.t, task.t) /\ x.at = task.from)

(* What is listed is whole; what the rollback would take is not listed. *)
Plain == excuses \cap {"reinstall", "otherVersion"} = {}
WholeInv ==
    /\ Plain => /\ \A c \in Record : IsWhole(c)
                /\ (rb.ncas # {} \/ task.pc \in {"create", "stream"}) => Here \notin Record
                /\ rb.meta => (task.kind = "install" /\ task.had) \/ Here \notin Record
    /\ task.pc \in {"nca", "create", "stream"} => {task.t} \X (1..(task.part - 1)) \subseteq content[task.at]
    /\ task.pc \in {"create", "stream"} => Nca \notin content[task.at]
    /\ task.pc \in {"list", "push"} /\ task.kind \in {"install", "move"} => IsWhole(Here)

PromisedInv ==
    /\ excuses \cap {"recordLost", "otherVersion"} = {} => promised \subseteq Record
    /\ task.kind = "uninstall" /\ task.t = Base => promised = {}
    /\ task.kind = "uninstall" /\ task.pc \in Bringing => There \notin promised

-----------------------------------------------------------------------------
(* The storages.                                                             *)

(* Content and database of a storage agree about a title. *)
Settled(s, t) == IF t \in metas[s] THEN NcasOf(t) \subseteq content[s] ELSE NcasOf(t) \cap content[s] = {}

(* The title at hand was there before, and is not taken back. *)
WasThere == task.t \in metas[task.at] /\ (rb.meta => task.kind = "install" /\ task.had)

SettledInv ==
    excuses \cap {"crashed", "undoFailed", "reinstall"} = {} =>
        /\ holders \subseteq rb.holders
        /\ \A s \in Storages, t \in Titles :
              Settled(s, t) \/ (Brings /\ s = task.at /\ t = task.t) \/ (task.pc = "unnca" /\ s = task.from /\ t = task.t)
        /\ Brings => IF WasThere THEN rb.ncas = {} /\ NcasOf(task.t) \subseteq content[task.at]
                     ELSE NcasOf(task.t) \cap content[task.at] = rb.ncas
        /\ task.pc = "unnca" => /\ task.t \notin metas[task.from]
                                /\ NcasOf(task.t) \cap content[task.from] = {task.t} \X (task.part..NcaCount)

-----------------------------------------------------------------------------
(* Placeholders and files.                                                   *)

Journal == Journaled(files["journal"])

(* While the journal is being replaced there is no placeholder. *)
HolderInv ==
    excuses \cap {"journalFailed", "cleanupFailed", "undoFailed"} = {} =>
        /\ task.pc = "create" =>
              holders = {} /\ rb.holders \subseteq (IF saving.step = "none" THEN Journal ELSE saving.new)
        /\ task.pc \in {"stream", "undo"} => holders \subseteq rb.holders /\ rb.holders \subseteq Journal
        /\ task.pc = "down" => holders \subseteq Journal
        /\ task.pc = "clean" => holders \subseteq task.stale /\ task.stale \subseteq Journal
        /\ task.pc \notin {"create", "stream", "undo", "down", "clean"} => holders = {}

SavingInv ==
    /\ saving.step # "none" =>
          \/ saving.file = "journal" /\ saving.new \in SUBSET Holders /\ task.pc \in {"create", "nca", "undo"}
          \/ saving.file # "journal" /\ saving.new = "v2" /\ task.pc = "replace"
    /\ task.pc = "replace" => saving.step # "none"
    /\ task.pc = "undo" /\ saving.step # "none" => rb.holders = {}
    /\ saving.step \in {"clear", "park", "swap"} => files[saving.file].part = saving.new
    /\ saving.step = "tidy" => files[saving.file].dest = saving.new

FileInv ==
    /\ \A f \in {"app", "homebrew"} \ bare :
          /\ files[f].dest # Absent \/ files[f].old # Absent
          /\ saving.file = f /\ saving.step = "park" => files[f].dest # Absent
          /\ saving.file = f /\ saving.step = "swap" => files[f].old # Absent
    /\ "app" \notin bare /\ "notRestored" \notin excuses /\ task.pc # "down" =>
          files["app"].dest # Absent \/ (saving.file = "app" /\ saving.step = "swap")

EngineInv ==
    /\ Shapes /\ TaskInv /\ RollbackInv /\ RecordInv /\ WholeInv /\ PromisedInv /\ SettledInv
    /\ HolderInv /\ SavingInv /\ FileInv

-----------------------------------------------------------------------------
(* Data.                                                                     *)

LEMMA SameIdIsEquivalence ==
    ASSUME NEW t \in Titles, NEW u \in Titles, NEW v \in Titles
    PROVE  /\ SameId(t, t) /\ (SameId(t, u) => SameId(u, t))
           /\ (SameId(t, u) /\ SameId(u, v) => SameId(t, v))
BY EngineAssumption DEF SameId, Titles

LEMMA JournalIsTyped == ASSUME FilesTyped(files) PROVE Journal \in SUBSET Holders
<1>1. files["journal"].dest \in Noted BY DEF FilesTyped, AJournal
<1>2. QED BY <1>1, Zenon DEF Noted, Journal, Journaled

(* One file changes, the others stay. *)
LEMMA FileChanges ==
    ASSUME FilesTyped(files), NEW f \in FileNames, NEW x, files' = [files EXCEPT ![f] = x],
           f = "journal" => x \in AJournal, f # "journal" => x \in AnNro
    PROVE  FilesTyped(files') /\ files'[f] = x /\ \A g \in FileNames \ {f} : files'[g] = files[g]
BY DEF FilesTyped, FileNames

LEMMA ConstantsAreTyped ==
    /\ Idle \in ATask /\ Idle.kind = "none" /\ Idle.pc = "idle" /\ Idle.todo = {} /\ Idle.existing = {}
    /\ Down \in ATask /\ Down.kind = "none" /\ Down.pc = "down" /\ Down.todo = {} /\ Down.existing = {}
    /\ NoRollback \in ARollback /\ NoRollback.holders = {} /\ NoRollback.ncas = {} /\ ~NoRollback.meta
    /\ NoSave \in ASave /\ NoSave.step = "none"
<1>1. Base \in Titles /\ 1 \in 1..(NcaCount + 1) BY EngineAssumption DEF Titles
<1>2. Idle \in ATask BY <1>1 DEF Idle, ATask, Kinds, Pcs, Places
<1>3. Idle.kind = "none" /\ Idle.pc = "idle" /\ Idle.todo = {} /\ Idle.existing = {} BY DEF Idle
<1>4. "down" \in Pcs /\ Down = [Idle EXCEPT !.pc = "down"] BY DEF Pcs, Down
<1>5. Down \in ATask /\ Down.kind = "none" /\ Down.pc = "down" /\ Down.todo = {} /\ Down.existing = {}
  <2> HIDE DEF Idle
  <2>1. QED BY <1>2, <1>3, <1>4 DEF ATask
<1>6. NoRollback \in ARollback /\ NoRollback.holders = {} /\ NoRollback.ncas = {} /\ ~NoRollback.meta
  BY DEF NoRollback, ARollback
<1>7. NoSave \in ASave /\ NoSave.step = "none"
  <2>1. Absent \in Noted \cup Versions BY DEF Versions
  <2>2. QED BY <2>1 DEF NoSave, ASave, FileNames
<1>8. QED BY <1>2, <1>3, <1>5, <1>6, <1>7

-----------------------------------------------------------------------------
(* Files: what becomes of them in a step that replaces none, and in one that *)
(* begins to replace the journal.                                            *)

LEMMA FilesRest ==
    ASSUME FileInv, SavingInv, saving.step = "none", UNCHANGED <<files, saving, bare>>, excuses \subseteq excuses',
           task.pc # "down", task'.pc # "replace"
    PROVE  FileInv' /\ SavingInv'
<1>1. SavingInv' BY DEF SavingInv
<1>2. FileInv' BY DEF FileInv
<1>3. QED BY <1>1, <1>2

LEMMA JournalIsSaved ==
    ASSUME FilesTyped(files), saving \in ASave, FileInv, SavingInv, saving.step = "none",
           NEW held \in SUBSET Holders, SaveJournal(held), UNCHANGED bare, excuses \subseteq excuses',
           task.pc # "down", task'.pc \in {"create", "nca", "undo"}, task'.pc = "undo" => rb'.holders = {}
    PROVE  /\ FileInv' /\ SavingInv' /\ FilesTyped(files') /\ saving' \in ASave
           /\ held = IF saving'.step = "none" THEN Journal' ELSE saving'.new
<1>1. CASE held = {}
  <2> DEFINE x == [files["journal"] EXCEPT !.dest = Absent]
  <2>1. files' = [files EXCEPT !["journal"] = x] /\ UNCHANGED saving BY <1>1 DEF SaveJournal
  <2>2. x \in AJournal /\ x.dest = Absent
    <3>1. Absent \in Noted BY DEF Noted
    <3>2. QED BY <3>1 DEF FilesTyped, AJournal
  <2> HIDE DEF x
  <2>3. "journal" \in FileNames BY DEF FileNames
  <2>4. FilesTyped(files') /\ files'["journal"] = x /\ \A g \in FileNames \ {"journal"} : files'[g] = files[g]
    BY <2>1, <2>2, <2>3, FileChanges
  <2>5. Journal' = {} BY <2>2, <2>4 DEF Journal, Journaled
  <2>6. files'["app"] = files["app"] /\ files'["homebrew"] = files["homebrew"] BY <2>4 DEF FileNames
  <2>7. FileInv' BY <2>1, <2>6 DEF FileInv
  <2>8. SavingInv' BY <2>1 DEF SavingInv
  <2>9. QED BY <1>1, <2>1, <2>4, <2>5, <2>7, <2>8
<1>2. CASE held # {}
  <2>1. saving' = [file |-> "journal", step |-> "write", new |-> held] /\ UNCHANGED files
    BY <1>2 DEF SaveJournal, StartSave
  <2>2. saving' \in ASave BY <2>1 DEF ASave, FileNames, Steps, Noted
  <2>3. saving'.file = "journal" /\ saving'.step = "write" /\ saving'.new = held BY <2>1
  <2>4. SavingInv' BY <2>3 DEF SavingInv
  <2>5. FileInv' BY <2>1, <2>3 DEF FileInv
  <2>6. QED BY <2>1, <2>2, <2>3, <2>4, <2>5
<1>3. QED BY <1>1, <1>2

-----------------------------------------------------------------------------
(* Steps that only take the task further.                                    *)

(* Nothing but the task changes, and what excuses it. *)
OnlyTask ==
    /\ UNCHANGED <<content, holders, metas, listed, files, saving, rb, promised, bare>>
    /\ excuses \subseteq excuses' /\ spent' \in Spending

LEMMA NextTitleKeeps == ASSUME EngineInv, NEW c \in Copies, NextTitle(c) PROVE EngineInv'
<1>1. Shapes /\ TaskInv /\ RollbackInv /\ RecordInv /\ WholeInv /\ PromisedInv /\ SettledInv /\ HolderInv
      /\ SavingInv /\ FileInv
  BY DEF EngineInv
<1>2. OnlyTask /\ task.pc = "title" /\ saving.step = "none" /\ c \in task.todo
  BY <1>1 DEF NextTitle, At, OnlyTask, disk, history, Shapes
<1>3. task \in ATask /\ c.t \in Titles /\ c.at \in Storages /\ c = [t |-> c.t, at |-> c.at]
  BY <1>1 DEF Shapes, Copies
<1>4. /\ task' \in ATask /\ task'.pc = "nca" /\ task'.kind = task.kind /\ task'.at = task.at /\ task'.part = 1
      /\ task'.t = c.t /\ task'.from = c.at /\ task'.todo = task.todo \ {c}
      /\ task'.existing = task.existing /\ task'.stale = task.stale
  <2>1. 1 \in 1..(NcaCount + 1) BY EngineAssumption
  <2>2. task' = [task EXCEPT !.todo = @ \ {c}, !.t = c.t, !.from = c.at, !.part = 1, !.pc = "nca"] BY DEF NextTitle
  <2>3. QED BY <1>3, <2>1, <2>2 DEF ATask, Pcs, Places
<1>5. task.kind \in {"install", "move"} /\ task.at \in Storages /\ rb = NoRollback BY <1>1, <1>2 DEF TaskInv, RollbackInv, Bringing
<1>6. rb.ncas = {} /\ ~rb.meta /\ rb.holders = {} BY <1>5, ConstantsAreTyped
<1>7. Shapes' BY <1>1, <1>2, <1>4 DEF Shapes, OnlyTask
<1>8. TaskInv' BY <1>1, <1>2, <1>3, <1>4, <1>5 DEF TaskInv, Bringing
<1>9. RollbackInv' BY <1>2, <1>4, <1>5, <1>6 DEF RollbackInv, OnlyTask, Bringing
<1>10. Record' = Record BY <1>2, <1>4 DEF Record, OnlyTask
<1>11. RecordInv' BY <1>1, <1>2, <1>3, <1>4, <1>5, <1>10 DEF RecordInv, OnlyTask, OnlyItself, There
<1>12. WholeInv'
  <2>1. {c.t} \X (1..0) = {} OBVIOUS
  <2>2. QED BY <1>1, <1>2, <1>4, <1>6, <1>10, <2>1 DEF WholeInv, OnlyTask, Plain, IsWhole
<1>13. PromisedInv' BY <1>1, <1>2, <1>4, <1>5, <1>10 DEF PromisedInv, OnlyTask
<1>14. SettledInv' BY <1>1, <1>2, <1>3, <1>4, <1>5, <1>6 DEF SettledInv, Settled, OnlyTask, Brings, WasThere, Bringing
<1>15. HolderInv' BY <1>1, <1>2, <1>4 DEF HolderInv, OnlyTask
<1>16. FileInv' /\ SavingInv' BY <1>1, <1>2, <1>4, FilesRest DEF OnlyTask
<1>17. QED BY <1>7, <1>8, <1>9, <1>11, <1>12, <1>13, <1>14, <1>15, <1>16 DEF EngineInv

LEMMA SkipNcaKeeps == ASSUME EngineInv, SkipNca PROVE EngineInv'
<1>1. Shapes /\ TaskInv /\ RollbackInv /\ RecordInv /\ WholeInv /\ PromisedInv /\ SettledInv /\ HolderInv
      /\ SavingInv /\ FileInv
  BY DEF EngineInv
<1>2. OnlyTask /\ task.pc = "nca" /\ saving.step = "none" /\ task.part \in Parts
      /\ <<task.t, task.part>> \in content[task.at]
  BY <1>1 DEF SkipNca, At, OnlyTask, disk, history, Nca, Shapes
<1>3. task \in ATask BY <1>1 DEF Shapes
<1>4. /\ task' \in ATask /\ task'.pc = task.pc /\ task'.kind = task.kind /\ task'.at = task.at
      /\ task'.part = task.part + 1 /\ task'.t = task.t /\ task'.from = task.from /\ task'.todo = task.todo
      /\ task'.existing = task.existing /\ task'.stale = task.stale /\ task'.had = task.had
  <2>1. task.part + 1 \in 1..(NcaCount + 1) BY <1>2, EngineAssumption DEF Parts
  <2>2. task' = [task EXCEPT !.part = @ + 1] BY DEF SkipNca
  <2>3. QED BY <1>3, <2>1, <2>2 DEF ATask
<1>7. Shapes' BY <1>1, <1>2, <1>4 DEF Shapes, OnlyTask
<1>8. TaskInv' BY <1>1, <1>2, <1>4 DEF TaskInv, Bringing
<1>9. RollbackInv' BY <1>1, <1>2, <1>4 DEF RollbackInv, OnlyTask, Bringing
<1>10. Record' = Record BY <1>2, <1>4 DEF Record, OnlyTask
<1>11. RecordInv' BY <1>1, <1>2, <1>4, <1>10 DEF RecordInv, OnlyTask, OnlyItself, There
<1>12. WholeInv'
  <2>1. {task.t} \X (1..(task.part - 1)) \subseteq content[task.at] BY <1>1, <1>2 DEF WholeInv
  <2>2. 1..(task'.part - 1) = (1..(task.part - 1)) \cup {task.part} BY <1>2, <1>4, EngineAssumption DEF Parts
  <2>3. {task'.t} \X (1..(task'.part - 1)) \subseteq content'[task'.at] BY <1>2, <1>4, <2>1, <2>2 DEF OnlyTask
  <2>4. Here' = Here BY <1>4 DEF Here
  <2>5. Plain => (\A c \in Record : IsWhole(c)) /\ (rb.ncas # {} => Here \notin Record) /\ ~rb.meta
    BY <1>1, <1>2 DEF WholeInv, RollbackInv
  <2>6. Plain' => (\A c \in Record' : IsWhole(c)') /\ (rb'.ncas # {} => Here' \notin Record') /\ ~rb'.meta
    BY <1>2, <1>10, <2>4, <2>5 DEF OnlyTask, Plain, IsWhole
  <2>7. QED BY <1>2, <1>4, <2>3, <2>6 DEF WholeInv
<1>13. PromisedInv' BY <1>1, <1>2, <1>4, <1>10 DEF PromisedInv, OnlyTask, There
<1>14. SettledInv' BY <1>1, <1>2, <1>4 DEF SettledInv, Settled, OnlyTask, Brings, WasThere, Bringing
<1>15. HolderInv' BY <1>1, <1>2, <1>4 DEF HolderInv, OnlyTask
<1>16. FileInv' /\ SavingInv' BY <1>1, <1>2, <1>4, FilesRest DEF OnlyTask
<1>17. QED BY <1>7, <1>8, <1>9, <1>11, <1>12, <1>13, <1>14, <1>15, <1>16 DEF EngineInv

(* A task ends, or a move turns to its next title, with nothing in hand. *)
LEMMA EndKeeps ==
    ASSUME EngineInv, OnlyTask, saving.step = "none", rb = NoRollback,
           task' = Idle \/ (task.kind = "move" /\ task.pc \in {"unmeta", "unnca"} /\ Go("title")),
           task.pc \in {"title", "undo", "unmeta", "unnca"},
           task.pc = "unmeta" => task.t \notin metas[task.from],
           task.pc = "unnca" => task.part = NcaCount + 1
    PROVE  EngineInv'
<1>1. Shapes /\ TaskInv /\ RollbackInv /\ RecordInv /\ WholeInv /\ PromisedInv /\ SettledInv /\ HolderInv
      /\ SavingInv /\ FileInv
  BY DEF EngineInv
<1>2. task \in ATask BY <1>1 DEF Shapes
<1>3. /\ task' \in ATask /\ task'.pc \in {"idle", "title"}
      /\ task'.pc = "idle" => task'.kind = "none"
      /\ task'.pc = "title" => /\ task.kind = "move" /\ task'.kind = "move"
                               /\ task'.at = task.at /\ task'.todo = task.todo
  <2>1. CASE task' = Idle BY <2>1, ConstantsAreTyped
  <2>2. CASE task.kind = "move" /\ Go("title") BY <1>2, <2>2 DEF Go, ATask, Pcs
  <2>3. QED BY <2>1, <2>2
<1>4. rb.ncas = {} /\ ~rb.meta /\ rb.holders = {} BY ConstantsAreTyped
<1>5. Shapes' BY <1>1, <1>3 DEF Shapes, OnlyTask
<1>6. TaskInv' BY <1>1, <1>3 DEF TaskInv, Bringing
<1>7. RollbackInv' BY <1>3, <1>4 DEF RollbackInv, OnlyTask, Bringing
<1>8. Record' = Record BY <1>3 DEF Record, OnlyTask
<1>9. RecordInv' BY <1>1, <1>3, <1>8 DEF RecordInv, OnlyTask, OnlyItself, Bringing
<1>10. WholeInv' BY <1>1, <1>3, <1>4, <1>8 DEF WholeInv, OnlyTask, Plain, IsWhole
<1>11. PromisedInv' BY <1>1, <1>3, <1>8 DEF PromisedInv, OnlyTask
<1>12. SettledInv'
  <2>1. SUFFICES ASSUME excuses \cap {"crashed", "undoFailed", "reinstall"} = {}
                 PROVE  holders = {} /\ \A s \in Storages, t \in Titles : Settled(s, t)
    <3>1. ~Brings' /\ task'.pc # "unnca" BY <1>3 DEF Brings, Bringing
    <3>2. holders' = holders /\ content' = content /\ metas' = metas /\ excuses \subseteq excuses' BY DEF OnlyTask
    <3>3. QED BY <3>1, <3>2, Zenon DEF SettledInv, Settled
  <2>2. holders = {} BY <1>1, <1>4, <2>1 DEF SettledInv
  <2>3. \A s \in Storages, t \in Titles :
           Settled(s, t) \/ (Brings /\ s = task.at /\ t = task.t) \/ (task.pc = "unnca" /\ s = task.from /\ t = task.t)
    BY <1>1, <2>1 DEF SettledInv
  <2>4. Brings => Settled(task.at, task.t)
    <3>1. SUFFICES ASSUME Brings PROVE Settled(task.at, task.t) OBVIOUS
    <3>2. IF WasThere THEN NcasOf(task.t) \subseteq content[task.at]
          ELSE NcasOf(task.t) \cap content[task.at] = {}
      BY <1>1, <1>4, <2>1, <3>1 DEF SettledInv
    <3>3. WasThere <=> task.t \in metas[task.at] BY <1>4 DEF WasThere
    <3>4. QED BY <3>2, <3>3 DEF Settled
  <2>5. task.pc = "unnca" => Settled(task.from, task.t)
    <3>1. SUFFICES ASSUME task.pc = "unnca" PROVE Settled(task.from, task.t) OBVIOUS
    <3>2. NcasOf(task.t) \cap content[task.from] = {task.t} \X ((NcaCount + 1)..NcaCount)
          /\ task.t \notin metas[task.from]
      BY <1>1, <2>1, <3>1 DEF SettledInv
    <3>3. {task.t} \X ((NcaCount + 1)..NcaCount) = {} BY EngineAssumption
    <3>4. QED BY <3>2, <3>3 DEF Settled
  <2>6. QED BY <2>2, <2>3, <2>4, <2>5
<1>13. HolderInv' BY <1>1, <1>3, <1>4 DEF HolderInv, OnlyTask
<1>14. FileInv' /\ SavingInv' BY <1>1, <1>3, FilesRest DEF OnlyTask
<1>15. QED BY <1>5, <1>6, <1>7, <1>9, <1>10, <1>11, <1>12, <1>13, <1>14 DEF EngineInv

(* A task gives up: what it has done is to be undone. *)
LEMMA GiveUpKeeps ==
    ASSUME EngineInv, OnlyTask, saving.step = "none", Go("undo"),
           task.pc \in {"title", "nca", "create", "stream", "list", "complete"}
    PROVE  EngineInv'
<1>1. Shapes /\ TaskInv /\ RollbackInv /\ RecordInv /\ WholeInv /\ PromisedInv /\ SettledInv /\ HolderInv
      /\ SavingInv /\ FileInv
  BY DEF EngineInv
<1>2. task \in ATask BY <1>1 DEF Shapes
<1>3. /\ task' \in ATask /\ task'.pc = "undo" /\ task'.kind = task.kind /\ task'.at = task.at
      /\ task'.part = task.part /\ task'.t = task.t /\ task'.from = task.from /\ task'.todo = task.todo
      /\ task'.existing = task.existing /\ task'.stale = task.stale /\ task'.had = task.had
  BY <1>2 DEF Go, ATask, Pcs
<1>4. task.pc \in {"title", "complete"} => rb.ncas = {} /\ ~rb.meta /\ rb.holders = {}
  BY <1>1, ConstantsAreTyped DEF RollbackInv, Bringing
<1>5. Shapes' BY <1>1, <1>3 DEF Shapes, OnlyTask
<1>6. TaskInv' BY <1>1, <1>3 DEF TaskInv, Bringing
<1>7. RollbackInv' BY <1>1, <1>3 DEF RollbackInv, OnlyTask
<1>8. Record' = Record BY <1>3 DEF Record, OnlyTask
<1>9. RecordInv' BY <1>1, <1>3, <1>8 DEF RecordInv, OnlyTask, Bringing, OnlyItself
<1>10. WholeInv'
  <2>1. Here' = Here BY <1>3 DEF Here
  <2>2. QED BY <1>1, <1>3, <1>8, <2>1 DEF WholeInv, OnlyTask, Plain, IsWhole
<1>11. PromisedInv' BY <1>1, <1>3, <1>8 DEF PromisedInv, OnlyTask, Bringing
<1>12. SettledInv'
  <2>1. SUFFICES ASSUME excuses \cap {"crashed", "undoFailed", "reinstall"} = {}
                 PROVE  /\ holders \subseteq rb.holders
                        /\ \A s \in Storages, t \in Titles : Settled(s, t) \/ (Brings' /\ s = task.at /\ t = task.t)
                        /\ Brings' => IF WasThere THEN rb.ncas = {} /\ NcasOf(task.t) \subseteq content[task.at]
                                      ELSE NcasOf(task.t) \cap content[task.at] = rb.ncas
    BY <1>3, Zenon DEF SettledInv, OnlyTask, Settled, WasThere
  <2>2. Brings => Brings' BY <1>3 DEF Brings
  <2>3. CASE Brings BY <1>1, <2>1, <2>2, <2>3 DEF SettledInv
  <2>4. CASE ~Brings
    <3>1. holders \subseteq rb.holders /\ \A s \in Storages, t \in Titles : Settled(s, t)
      BY <1>1, <2>1, <2>4 DEF SettledInv
    <3>2. Brings' => task.pc \in {"title", "complete"} BY <2>4, <1>3 DEF Brings, Bringing
    <3>3. task.t \in Titles BY <1>2 DEF ATask
    <3>4. Brings' => task.at \in Storages BY <1>1, <1>3 DEF TaskInv, Brings
    <3>5. Brings' => Settled(task.at, task.t) BY <3>1, <3>3, <3>4
    <3>6. QED BY <1>4, <3>1, <3>2, <3>5 DEF Settled, WasThere
  <2>5. QED BY <2>3, <2>4
<1>13. HolderInv'
  <2>1. Journal' = Journal BY Zenon DEF Journal, Journaled, OnlyTask
  <2>2. task.pc \in {"nca", "list"} => rb.holders = {} BY <1>1 DEF RollbackInv
  <2>3. QED BY <1>1, <1>3, <1>4, <2>1, <2>2 DEF HolderInv, OnlyTask
<1>14. FileInv' /\ SavingInv' BY <1>1, <1>3, FilesRest DEF OnlyTask
<1>15. QED BY <1>5, <1>6, <1>7, <1>9, <1>10, <1>11, <1>12, <1>13, <1>14 DEF EngineInv

-----------------------------------------------------------------------------
(* What the user asks for.                                                   *)

(* A task that may begin. *)
Startable(new) ==
    /\ new \in ATask /\ new.existing = {}
    /\ \/ new.pc = "title" /\ new.kind \in {"install", "move"}
       \/ new.pc = "replace" /\ new.kind = "replace"
       \/ new.pc \in {"list", "complete", "unmeta"} /\ new.kind = "uninstall" /\ new.from \in Storages
    /\ new.pc = "complete" => new.t = Base
    /\ new.kind # "replace" => new.at \in Storages
    /\ new.kind = "move" => \A m \in new.todo : m.at # new.at
    /\ new.pc = "unmeta" => \A x \in listed : ~(SameId(x.t, new.t) /\ x.at = new.from)

LEMMA BeginKeeps ==
    ASSUME EngineInv, NEW new, Startable(new), Begin(new), UNCHANGED <<disk, bare>>,
           excuses \subseteq excuses', promised' \in SUBSET promised,
           "otherVersion" \notin excuses' =>
              /\ new.kind = "move" => \A m \in new.todo : OnlyItself(listed, m)
              /\ new.kind = "uninstall" => OnlyItself(listed, [t |-> new.t, at |-> new.from]),
           new.kind = "uninstall" /\ new.t = Base => promised' = {},
           new.kind = "uninstall" => [t |-> new.t, at |-> new.from] \notin promised',
           IF new.kind = "replace" THEN \E f \in {"app", "homebrew"} : StartSave(f, "v2") ELSE UNCHANGED saving
    PROVE  EngineInv'
<1>1. Shapes /\ TaskInv /\ RollbackInv /\ RecordInv /\ WholeInv /\ PromisedInv /\ SettledInv /\ HolderInv
      /\ SavingInv /\ FileInv
  BY DEF EngineInv
<1>2. /\ task.pc = "idle" /\ saving.step = "none" /\ task' = new /\ rb' = NoRollback
      /\ spent' \in Spending
  BY <1>1 DEF Begin, At, Spending, Shapes
<1>3. /\ UNCHANGED <<content, metas, holders, listed, files, bare>>
      /\ task' \in ATask /\ task'.pc \in {"title", "replace", "list", "complete", "unmeta"}
      /\ task'.pc \in {"list", "complete", "unmeta"} <=> task'.kind = "uninstall"
      /\ task'.pc = "replace" <=> task'.kind = "replace"
      /\ task'.pc = "title" <=> task'.kind \in {"install", "move"}
  BY <1>2 DEF Startable, disk
<1>4. rb'.ncas = {} /\ ~rb'.meta /\ rb'.holders = {} /\ rb' \in ARollback BY <1>2, ConstantsAreTyped
<1>5. IF task'.pc = "replace"
      THEN saving'.step = "write" /\ saving'.file \in {"app", "homebrew"} /\ saving'.new = "v2" /\ saving' \in ASave
      ELSE saving' = saving
  <2>1. CASE new.kind = "replace"
    <3>1. PICK f \in {"app", "homebrew"} : saving' = [file |-> f, step |-> "write", new |-> "v2"]
      BY <2>1 DEF StartSave
    <3>2. f \in FileNames /\ "write" \in Steps \cup {"none"} /\ "v2" \in Noted \cup Versions
      BY DEF FileNames, Steps, Versions
    <3>3. QED BY <1>2, <1>3, <2>1, <3>1, <3>2 DEF ASave
  <2>2. QED BY <1>2, <1>3, <2>1
<1>6. Shapes'
  <2>1. saving' \in ASave BY <1>1, <1>5 DEF Shapes
  <2>2. promised' \in SUBSET Copies BY <1>1 DEF Shapes
  <2>3. QED BY <1>1, <1>2, <1>3, <1>4, <2>1, <2>2 DEF Shapes
<1>7. TaskInv' BY <1>2, <1>3 DEF TaskInv, Bringing, Startable
<1>8. RollbackInv' BY <1>2, <1>4 DEF RollbackInv
<1>9. Record' = listed /\ Record = listed BY <1>2, <1>3 DEF Record
<1>10. RecordInv'
  <2>1. There' = [t |-> new.t, at |-> new.from] BY <1>2 DEF There
  <2>2. Unique(Record') BY <1>1, <1>9 DEF RecordInv
  <2>3. "otherVersion" \notin excuses' =>
           /\ task'.kind = "move" => \A m \in task'.todo : OnlyItself(Record', m)
           /\ task'.kind \in {"move", "uninstall"} /\ task'.pc \in Bringing => OnlyItself(Record', There')
    BY <1>2, <1>3, <1>9, <2>1 DEF Bringing
  <2>4. task'.pc \in {"unmeta", "unnca"} => \A x \in Record' : ~(SameId(x.t, task'.t) /\ x.at = task'.from)
    BY <1>2, <1>3, <1>9 DEF Startable
  <2>5. QED BY <1>3, <2>2, <2>3, <2>4 DEF RecordInv, Unique, OnlyItself
<1>11. WholeInv'
  <2>1. Plain' => Plain BY DEF Plain
  <2>2. Plain' => \A c \in Record' : IsWhole(c)' BY <1>1, <1>3, <1>9, <2>1 DEF WholeInv, IsWhole
  <2>3. task'.pc \in {"list", "push"} => task'.kind \notin {"install", "move"} BY <1>3
  <2>4. QED BY <1>3, <1>4, <2>2, <2>3 DEF WholeInv
<1>12. PromisedInv'
  <2>1. excuses' \cap {"recordLost", "otherVersion"} = {} => promised' \subseteq Record' BY <1>1, <1>9 DEF PromisedInv
  <2>2. There' = [t |-> new.t, at |-> new.from] BY <1>2 DEF There
  <2>3. QED BY <1>2, <2>1, <2>2 DEF PromisedInv
<1>13. SettledInv'
  <2>1. ~Brings' /\ task'.pc # "unnca" BY <1>3 DEF Brings, Bringing
  <2>2. ~Brings /\ task.pc # "unnca" /\ rb.holders = {} BY <1>1, <1>2, ConstantsAreTyped DEF Brings, RollbackInv, Bringing
  <2>3. QED BY <1>1, <1>3, <1>4, <2>1, <2>2 DEF SettledInv, Settled
<1>14. HolderInv' BY <1>1, <1>2, <1>3 DEF HolderInv
<1>15. SavingInv' BY <1>2, <1>3, <1>5 DEF SavingInv
<1>16. FileInv' BY <1>1, <1>2, <1>3, <1>5 DEF FileInv
<1>17. QED BY <1>6, <1>7, <1>8, <1>10, <1>11, <1>12, <1>13, <1>14, <1>15, <1>16 DEF EngineInv

(* A record that lists a title once, and this copy under no other version. *)
LEMMA AloneInRecord ==
    ASSUME RecordInv, task.pc = "idle", NEW c, ~MistakenFor(c), NEW m \in MetasFor(c)
    PROVE  OnlyItself(listed, m)
<1>1. Unique(listed) BY DEF RecordInv, Record
<1>2. \A r \in listed : OnlyItself(listed, r) BY <1>1 DEF Unique, OnlyItself
<1>3. c \in listed \/ OnlyItself(listed, c) BY DEF MistakenFor, OnlyItself
<1>4. m \in listed \/ m = c BY DEF MetasFor
<1>5. QED BY <1>2, <1>3, <1>4

LEMMA StartsKeep ==
    ASSUME EngineInv
    PROVE  /\ \A s \in Storages, titles \in SUBSET Titles : StartInstall(titles, s) => EngineInv'
           /\ \A c \in Copies, to \in Storages : StartMove(c, to) => EngineInv'
           /\ \A c \in Copies : StartUninstall(c) => EngineInv'
           /\ \A f \in {"app", "homebrew"} : StartReplace(f) => EngineInv'
<1>1. Shapes /\ RecordInv BY DEF EngineInv
<1>2. listed \in SUBSET Copies BY <1>1 DEF Shapes
<1>3. ASSUME NEW s \in Storages, NEW titles \in SUBSET Titles, StartInstall(titles, s) PROVE EngineInv'
  <2> DEFINE todo == {[t |-> t, at |-> s] : t \in titles}
             new == [Idle EXCEPT !.kind = "install", !.pc = "title", !.at = s, !.from = s, !.todo = todo]
  <2>1. todo \in SUBSET Copies BY DEF Copies
  <2>2. Begin(new) /\ UNCHANGED <<disk, saving, promised, excuses, bare>> BY <1>3 DEF StartInstall
  <2>3. "install" \in Kinds /\ "title" \in Pcs /\ s \in Places BY DEF Kinds, Pcs, Places
  <2> HIDE DEF todo
  <2>4. new \in ATask /\ new.kind = "install" /\ new.pc = "title" /\ new.at = s /\ new.existing = {}
    BY <2>1, <2>3, ConstantsAreTyped DEF ATask
  <2> HIDE DEF new
  <2>5. Startable(new) BY <2>4 DEF Startable
  <2>6. QED BY <2>2, <2>4, <2>5, BeginKeeps
<1>4. ASSUME NEW c \in Copies, NEW to \in Storages, StartMove(c, to) PROVE EngineInv'
  <2> DEFINE todo == {m \in MetasFor(c) : m.at # to}
             new == [Idle EXCEPT !.kind = "move", !.pc = "title", !.at = to, !.todo = todo]
  <2>1. todo \in SUBSET Copies /\ \A m \in todo : m.at # to BY <1>2 DEF MetasFor
  <2>2. Begin(new) /\ UNCHANGED <<disk, saving, promised, bare>> BY <1>4 DEF StartMove
  <2>3. excuses' = IF MistakenFor(c) THEN excuses \cup {"otherVersion"} ELSE excuses BY <1>4 DEF StartMove
  <2>4. "move" \in Kinds /\ "title" \in Pcs /\ to \in Places BY DEF Kinds, Pcs, Places
  <2>5. ASSUME "otherVersion" \notin excuses' PROVE \A m \in todo : OnlyItself(listed, m)
    <3>1. ~MistakenFor(c) BY <2>3, <2>5
    <3>2. task.pc = "idle" BY <2>2 DEF Begin, At
    <3>3. QED BY <1>1, <3>1, <3>2, AloneInRecord
  <2> HIDE DEF todo
  <2>6. /\ new \in ATask /\ new.kind = "move" /\ new.pc = "title" /\ new.at = to /\ new.existing = {}
        /\ new.todo = todo
    BY <2>1, <2>4, ConstantsAreTyped DEF ATask
  <2> HIDE DEF new
  <2>7. Startable(new) BY <2>1, <2>6 DEF Startable
  <2>8. QED BY <2>2, <2>3, <2>5, <2>6, <2>7, BeginKeeps
<1>5. ASSUME NEW c \in Copies, StartUninstall(c) PROVE EngineInv'
  <2> DEFINE pc == IF c.t # Base THEN "list" ELSE IF listed # {} THEN "complete" ELSE "unmeta"
             new == [Idle EXCEPT !.kind = "uninstall", !.t = c.t, !.from = c.at, !.at = c.at, !.pc = pc]
  <2>1. Begin(new) /\ UNCHANGED <<disk, saving, bare>> BY <1>5 DEF StartUninstall
  <2>2. /\ promised' = IF c.t = Base THEN {} ELSE promised \ {c}
        /\ excuses' = IF MistakenFor(c) THEN excuses \cup {"otherVersion"} ELSE excuses
    BY <1>5 DEF StartUninstall
  <2>3. pc \in {"list", "complete", "unmeta"} /\ (pc = "complete" => c.t = Base) /\ (pc = "unmeta" => listed = {})
    OBVIOUS
  <2> HIDE DEF pc
  <2>4. "uninstall" \in Kinds /\ pc \in Pcs /\ c.at \in Places /\ c.t \in Titles /\ c.at \in Storages
        /\ c = [t |-> c.t, at |-> c.at]
    BY <2>3 DEF Kinds, Pcs, Places, Copies
  <2>5. ASSUME "otherVersion" \notin excuses' PROVE OnlyItself(listed, c)
    <3>1. ~MistakenFor(c) BY <2>2, <2>5
    <3>2. task.pc = "idle" BY <2>1 DEF Begin, At
    <3>3. c \in MetasFor(c) BY DEF MetasFor
    <3>4. QED BY <1>1, <3>1, <3>2, <3>3, AloneInRecord
  <2>6. /\ new \in ATask /\ new.kind = "uninstall" /\ new.pc = pc /\ new.at = c.at /\ new.from = c.at
        /\ new.t = c.t /\ new.existing = {}
    BY <2>4, ConstantsAreTyped DEF ATask
  <2> HIDE DEF new
  <2>7. Startable(new) BY <2>3, <2>4, <2>6 DEF Startable
  <2>8. [t |-> new.t, at |-> new.from] = c BY <2>4, <2>6
  <2>9. QED BY <2>1, <2>2, <2>5, <2>6, <2>7, <2>8, BeginKeeps
<1>6. ASSUME NEW f \in {"app", "homebrew"}, StartReplace(f) PROVE EngineInv'
  <2> DEFINE new == [Idle EXCEPT !.kind = "replace", !.pc = "replace"]
  <2>1. Begin(new) /\ StartSave(f, "v2") /\ UNCHANGED <<disk, promised, excuses, bare>> BY <1>6 DEF StartReplace
  <2>2. "replace" \in Kinds /\ "replace" \in Pcs BY DEF Kinds, Pcs
  <2>3. new \in ATask /\ new.kind = "replace" /\ new.pc = "replace" /\ new.existing = {}
    BY <2>2, ConstantsAreTyped DEF ATask
  <2> HIDE DEF new
  <2>4. Startable(new) BY <2>3 DEF Startable
  <2>5. QED BY <2>1, <2>3, <2>4, BeginKeeps
<1>7. QED BY <1>3, <1>4, <1>5, <1>6

-----------------------------------------------------------------------------
(* Bringing a title in.                                                      *)

LEMMA GenerateHolderKeeps == ASSUME EngineInv, NEW h \in Holders, GenerateHolder(h) PROVE EngineInv'
<1>1. Shapes /\ TaskInv /\ RollbackInv /\ RecordInv /\ WholeInv /\ PromisedInv /\ SettledInv /\ HolderInv
      /\ SavingInv /\ FileInv
  BY DEF EngineInv
<1>2. /\ task.pc = "nca" /\ saving.step = "none" /\ task.part \in Parts /\ Nca \notin content[task.at]
      /\ rb' = [rb EXCEPT !.holders = @ \cup {h}] /\ SaveJournal(Journal \cup {h}) /\ Go("create")
      /\ UNCHANGED <<content, holders, metas, listed, promised, excuses, bare, spent>>
  BY DEF GenerateHolder, At, NoteHolder, Journal, history
<1>3. task \in ATask /\ rb \in ARollback /\ FilesTyped(files) /\ saving \in ASave BY <1>1 DEF Shapes
<1>4. /\ task' \in ATask /\ task'.pc = "create" /\ task'.kind = task.kind /\ task'.at = task.at
      /\ task'.part = task.part /\ task'.t = task.t /\ task'.from = task.from /\ task'.todo = task.todo
      /\ task'.existing = task.existing /\ task'.stale = task.stale /\ task'.had = task.had
  BY <1>2, <1>3 DEF Go, ATask, Pcs
<1>5. rb.holders = {} /\ ~rb.meta BY <1>1, <1>2 DEF RollbackInv
<1>6. rb' \in ARollback /\ rb'.holders = {h} /\ rb'.ncas = rb.ncas /\ rb'.meta = rb.meta
  BY <1>2, <1>3, <1>5 DEF ARollback
<1>7. Journal \cup {h} \in SUBSET Holders BY <1>3, JournalIsTyped
<1>8. /\ FileInv' /\ SavingInv' /\ FilesTyped(files') /\ saving' \in ASave
      /\ Journal \cup {h} = IF saving'.step = "none" THEN Journal' ELSE saving'.new
  BY <1>1, <1>2, <1>3, <1>4, <1>7, JournalIsSaved
<1>9. Shapes' BY <1>1, <1>2, <1>4, <1>6, <1>8 DEF Shapes
<1>10. TaskInv' BY <1>1, <1>2, <1>4 DEF TaskInv, Bringing
<1>11. RollbackInv'
  <2>1. task'.kind # "uninstall" BY <1>1, <1>2, <1>4 DEF TaskInv
  <2>2. QED BY <1>1, <1>2, <1>4, <1>5, <1>6, <2>1 DEF RollbackInv, Bringing
<1>12. Record' = Record BY <1>2, <1>4 DEF Record
<1>13. RecordInv' BY <1>1, <1>2, <1>4, <1>12 DEF RecordInv, OnlyItself, There, Bringing
<1>14. Here' = Here /\ Nca' = Nca BY <1>4 DEF Here, Nca
<1>15. WholeInv'
  <2>1. Plain => Here \notin Record
    <3>1. ASSUME IsWhole(Here) PROVE FALSE
      <4>1. NcasOf(task.t) \subseteq content[task.at] BY <3>1 DEF IsWhole, Here
      <4>2. Nca \in NcasOf(task.t) BY <1>2 DEF Nca, NcasOf
      <4>3. QED BY <1>2, <4>1, <4>2
    <3>2. QED BY <1>1, <3>1 DEF WholeInv
  <2>2. Plain' => \A c \in Record' : IsWhole(c)' BY <1>1, <1>2, <1>12 DEF WholeInv, Plain, IsWhole
  <2>3. Plain' => Here' \notin Record' /\ ~rb'.meta BY <1>2, <1>5, <1>6, <1>12, <1>14, <2>1 DEF Plain
  <2>4. {task'.t} \X (1..(task'.part - 1)) \subseteq content'[task'.at] BY <1>1, <1>2, <1>4 DEF WholeInv
  <2>5. Nca' \notin content'[task'.at] BY <1>2, <1>4, <1>14
  <2>6. QED BY <1>4, <2>2, <2>3, <2>4, <2>5 DEF WholeInv
<1>16. PromisedInv' BY <1>1, <1>2, <1>4, <1>12 DEF PromisedInv, There, Bringing
<1>17. SettledInv'
  <2>1. Brings' = Brings /\ WasThere' = WasThere BY <1>2, <1>4, <1>6 DEF Brings, WasThere, Bringing
  <2>2. QED BY <1>1, <1>2, <1>4, <1>5, <1>6, <2>1 DEF SettledInv, Settled
<1>18. HolderInv' BY <1>1, <1>2, <1>4, <1>6, <1>8 DEF HolderInv
<1>19. QED BY <1>8, <1>9, <1>10, <1>11, <1>13, <1>15, <1>16, <1>17, <1>18 DEF EngineInv

LEMMA CreateHolderKeeps == ASSUME EngineInv, CreateHolder PROVE EngineInv'
<1>1. Shapes /\ TaskInv /\ RollbackInv /\ RecordInv /\ WholeInv /\ PromisedInv /\ SettledInv /\ HolderInv
      /\ SavingInv /\ FileInv
  BY DEF EngineInv
<1>2. /\ task.pc = "create" /\ saving.step = "none" /\ holders' = holders \cup rb.holders /\ Go("stream")
      /\ UNCHANGED <<content, metas, listed, files, saving, rb, promised, excuses, bare, spent>>
  BY DEF CreateHolder, At, history
<1>3. task \in ATask /\ rb \in ARollback BY <1>1 DEF Shapes
<1>4. /\ task' \in ATask /\ task'.pc = "stream" /\ task'.kind = task.kind /\ task'.at = task.at
      /\ task'.part = task.part /\ task'.t = task.t /\ task'.from = task.from /\ task'.todo = task.todo
      /\ task'.existing = task.existing /\ task'.stale = task.stale /\ task'.had = task.had
  BY <1>2, <1>3 DEF Go, ATask, Pcs
<1>5. holders' \in SUBSET Holders BY <1>1, <1>2, <1>3 DEF Shapes, ARollback
<1>6. Shapes' BY <1>1, <1>2, <1>4, <1>5 DEF Shapes
<1>7. TaskInv' BY <1>1, <1>2, <1>4 DEF TaskInv, Bringing
<1>8. RollbackInv' BY <1>1, <1>2, <1>4 DEF RollbackInv, Bringing
<1>9. Record' = Record BY <1>2, <1>4 DEF Record
<1>10. RecordInv' BY <1>1, <1>2, <1>4, <1>9 DEF RecordInv, OnlyItself, There, Bringing
<1>11. Here' = Here /\ Nca' = Nca BY <1>4 DEF Here, Nca
<1>12. WholeInv' BY <1>1, <1>2, <1>4, <1>9, <1>11 DEF WholeInv, Plain, IsWhole
<1>13. PromisedInv' BY <1>1, <1>2, <1>4, <1>9 DEF PromisedInv, There, Bringing
<1>14. SettledInv'
  <2>1. Brings' = Brings /\ WasThere' = WasThere BY <1>2, <1>4 DEF Brings, WasThere, Bringing
  <2>2. QED BY <1>1, <1>2, <1>4, <2>1 DEF SettledInv, Settled
<1>15. Journal' = Journal BY <1>2, Zenon DEF Journal, Journaled
<1>16. HolderInv' BY <1>1, <1>2, <1>4, <1>15 DEF HolderInv
<1>17. SavingInv' BY <1>1, <1>2, <1>4 DEF SavingInv
<1>18. FileInv' BY <1>1, <1>2, <1>4 DEF FileInv
<1>19. QED BY <1>6, <1>7, <1>8, <1>10, <1>12, <1>13, <1>14, <1>16, <1>17, <1>18 DEF EngineInv

LEMMA RegisterNcaKeeps == ASSUME EngineInv, RegisterNca PROVE EngineInv'
<1>1. Shapes /\ TaskInv /\ RollbackInv /\ RecordInv /\ WholeInv /\ PromisedInv /\ SettledInv /\ HolderInv
      /\ SavingInv /\ FileInv
  BY DEF EngineInv
<1>2. /\ task.pc = "stream" /\ saving.step = "none"
      /\ content' = [content EXCEPT ![task.at] = @ \cup {Nca}] /\ holders' = holders \ rb.holders
      /\ rb' = [rb EXCEPT !.holders = {}, !.ncas = @ \cup {Nca}] /\ SaveJournal(Journal \ rb.holders)
      /\ task' = [task EXCEPT !.part = @ + 1, !.pc = "nca"]
      /\ UNCHANGED <<metas, listed, promised, excuses, bare, spent>>
  BY DEF RegisterNca, At, ForgetHolder, Journal, history
<1>3. task \in ATask /\ rb \in ARollback /\ FilesTyped(files) /\ saving \in ASave
      /\ content \in [Storages -> SUBSET Ncas]
  BY <1>1 DEF Shapes
<1>4. task.kind \in {"install", "move"} /\ task.at \in Storages /\ task.part \in Parts /\ task.t \in Titles
      /\ Nca = <<task.t, task.part>> /\ Nca \in Ncas /\ Nca \in NcasOf(task.t)
  BY <1>1, <1>2, <1>3 DEF TaskInv, ATask, Nca, Ncas, NcasOf
<1>5. /\ task' \in ATask /\ task'.pc = "nca" /\ task'.kind = task.kind /\ task'.at = task.at
      /\ task'.part = task.part + 1 /\ task'.t = task.t /\ task'.from = task.from /\ task'.todo = task.todo
      /\ task'.existing = task.existing /\ task'.stale = task.stale /\ task'.had = task.had
  <2>1. task.part + 1 \in 1..(NcaCount + 1) BY <1>4, EngineAssumption DEF Parts
  <2>2. QED BY <1>2, <1>3, <2>1 DEF ATask, Pcs
<1>6. rb' \in ARollback /\ rb'.holders = {} /\ rb'.ncas = rb.ncas \cup {Nca} /\ rb'.meta = rb.meta
  BY <1>2, <1>3, <1>4 DEF ARollback
<1>7. /\ content' \in [Storages -> SUBSET Ncas] /\ content'[task.at] = content[task.at] \cup {Nca}
      /\ \A s \in Storages \ {task.at} : content'[s] = content[s]
  BY <1>2, <1>3, <1>4
<1>8. Journal \ rb.holders \in SUBSET Holders BY <1>3, JournalIsTyped
<1>9. FileInv' /\ SavingInv' /\ FilesTyped(files') /\ saving' \in ASave
  BY <1>1, <1>2, <1>3, <1>5, <1>8, JournalIsSaved
<1>10. Shapes' BY <1>1, <1>2, <1>5, <1>6, <1>7, <1>9 DEF Shapes
<1>11. TaskInv' BY <1>1, <1>2, <1>5 DEF TaskInv, Bringing
<1>12. RollbackInv' BY <1>1, <1>2, <1>4, <1>5, <1>6 DEF RollbackInv, Bringing
<1>13. Record' = Record BY <1>2, <1>5 DEF Record
<1>14. RecordInv' BY <1>1, <1>2, <1>5, <1>13 DEF RecordInv, OnlyItself, There, Bringing
<1>15. WholeInv'
  <2>1. Here' = Here BY <1>5 DEF Here
  <2>2. \A c \in Copies : IsWhole(c) => IsWhole(c)' BY <1>2, <1>7 DEF IsWhole, Copies
  <2>3. Record \in SUBSET Copies BY <1>1, <1>2 DEF Record, Shapes
  <2>4. Plain' => (\A c \in Record' : IsWhole(c)') /\ Here' \notin Record' /\ ~rb'.meta
    BY <1>1, <1>2, <1>6, <1>13, <2>1, <2>2, <2>3 DEF WholeInv, Plain, RollbackInv
  <2>5. 1..(task'.part - 1) = (1..(task.part - 1)) \cup {task.part} BY <1>4, <1>5, EngineAssumption DEF Parts
  <2>6. {task.t} \X (1..(task.part - 1)) \subseteq content[task.at] BY <1>1, <1>2 DEF WholeInv
  <2>7. {task'.t} \X (1..(task'.part - 1)) \subseteq content'[task'.at] BY <1>4, <1>5, <1>7, <2>5, <2>6
  <2>8. QED BY <1>5, <2>4, <2>7 DEF WholeInv
<1>16. PromisedInv' BY <1>1, <1>2, <1>5, <1>13 DEF PromisedInv, There, Bringing
<1>17. SettledInv'
  <2>1. SUFFICES ASSUME excuses \cap {"crashed", "undoFailed", "reinstall"} = {} PROVE SettledInv' BY <1>2 DEF SettledInv
  <2>2. Brings' /\ Brings /\ WasThere' = WasThere BY <1>2, <1>4, <1>5, <1>6 DEF Brings, WasThere, Bringing
  <2>3. Nca \notin content[task.at] BY <1>1, <1>2 DEF WholeInv
  <2>4. ~WasThere /\ NcasOf(task.t) \cap content[task.at] = rb.ncas /\ holders \subseteq rb.holders
    BY <1>1, <1>4, <2>1, <2>2, <2>3 DEF SettledInv
  <2>5. NcasOf(task'.t) \cap content'[task'.at] = rb'.ncas BY <1>4, <1>5, <1>6, <1>7, <2>4
  <2>6. ASSUME NEW s \in Storages, NEW t \in Titles, s # task.at \/ t # task.t PROVE Settled(s, t)'
    <3>1. Settled(s, t) BY <1>1, <1>2, <2>1, <2>6 DEF SettledInv
    <3>2. NcasOf(t) \cap content'[s] = NcasOf(t) \cap content[s] BY <1>4, <1>7, <2>6 DEF NcasOf
    <3>3. QED BY <1>2, <3>1, <3>2 DEF Settled
  <2>7. holders' \subseteq rb'.holders BY <1>2, <1>6, <2>4
  <2>8. QED BY <1>5, <2>2, <2>4, <2>5, <2>6, <2>7 DEF SettledInv
<1>18. HolderInv' BY <1>1, <1>2, <1>5 DEF HolderInv
<1>19. QED BY <1>9, <1>10, <1>11, <1>12, <1>14, <1>15, <1>16, <1>17, <1>18 DEF EngineInv

LEMMA SetMetaKeeps == ASSUME EngineInv, SetMeta PROVE EngineInv'
<1>1. Shapes /\ TaskInv /\ RollbackInv /\ RecordInv /\ WholeInv /\ PromisedInv /\ SettledInv /\ HolderInv
      /\ SavingInv /\ FileInv
  BY DEF EngineInv
<1>2. /\ task.pc = "nca" /\ saving.step = "none" /\ task.part = NcaCount + 1
      /\ metas' = [metas EXCEPT ![task.at] = @ \cup {task.t}]
      /\ rb' = [rb EXCEPT !.meta = (task.kind = "install" \/ task.t \notin metas[task.at])]
      /\ task' = [task EXCEPT !.had = task.t \in metas[task.at], !.pc = "list"]
      /\ UNCHANGED <<content, holders, listed, files, saving, promised, excuses, bare, spent>>
  BY DEF SetMeta, At, UndoesMeta, history
<1>3. task \in ATask /\ rb \in ARollback /\ metas \in [Storages -> SUBSET Titles] BY <1>1 DEF Shapes
<1>4. task.kind \in {"install", "move"} /\ task.at \in Storages /\ task.t \in Titles
  BY <1>1, <1>2, <1>3 DEF TaskInv, ATask
<1>5. /\ task' \in ATask /\ task'.pc = "list" /\ task'.kind = task.kind /\ task'.at = task.at
      /\ task'.part = task.part /\ task'.t = task.t /\ task'.from = task.from /\ task'.todo = task.todo
      /\ task'.existing = task.existing /\ task'.stale = task.stale /\ task'.had = (task.t \in metas[task.at])
  <2> DEFINE found == task.t \in metas[task.at]
  <2>1. found \in BOOLEAN /\ task' = [task EXCEPT !.had = found, !.pc = "list"] BY <1>2
  <2> HIDE DEF found
  <2>2. /\ task' \in ATask /\ task'.pc = "list" /\ task'.kind = task.kind /\ task'.at = task.at
        /\ task'.part = task.part /\ task'.t = task.t /\ task'.from = task.from /\ task'.todo = task.todo
        /\ task'.existing = task.existing /\ task'.stale = task.stale /\ task'.had = found
    BY <1>3, <2>1 DEF ATask, Pcs
  <2>3. QED BY <2>2, Zenon DEF found
<1>6. rb' \in ARollback /\ rb'.holders = rb.holders /\ rb'.ncas = rb.ncas
      /\ rb'.meta = (task.kind = "install" \/ task.t \notin metas[task.at])
  BY <1>2, <1>3 DEF ARollback
<1>7. /\ metas' \in [Storages -> SUBSET Titles] /\ metas'[task.at] = metas[task.at] \cup {task.t}
      /\ \A s \in Storages \ {task.at} : metas'[s] = metas[s]
  BY <1>2, <1>3, <1>4
<1>8. rb.holders = {} /\ ~rb.meta BY <1>1, <1>2 DEF RollbackInv
<1>9. NcasOf(task.t) \subseteq content[task.at]
  <2>1. {task.t} \X (1..(task.part - 1)) \subseteq content[task.at] BY <1>1, <1>2 DEF WholeInv
  <2>2. 1..(task.part - 1) = Parts BY <1>2, EngineAssumption DEF Parts
  <2>3. QED BY <2>1, <2>2 DEF NcasOf
<1>10. Shapes' BY <1>1, <1>2, <1>5, <1>6, <1>7 DEF Shapes
<1>11. TaskInv' BY <1>1, <1>2, <1>5 DEF TaskInv, Bringing
<1>12. RollbackInv'
  <2>1. task'.kind # "uninstall" BY <1>4, <1>5
  <2>2. QED BY <1>1, <1>2, <1>5, <1>6, <1>8, <2>1 DEF RollbackInv, Bringing
<1>13. Record' = Record BY <1>2, <1>5 DEF Record
<1>14. RecordInv' BY <1>1, <1>2, <1>5, <1>13 DEF RecordInv, OnlyItself, There, Bringing
<1>15. WholeInv'
  <2>1. Here' = Here /\ Here = [t |-> task.t, at |-> task.at] BY <1>5 DEF Here
  <2>2. \A c \in Copies : IsWhole(c) => IsWhole(c)' BY <1>2, <1>7 DEF IsWhole, Copies
  <2>3. Record \in SUBSET Copies BY <1>1, <1>2 DEF Record, Shapes
  <2>4. Plain' => \A c \in Record' : IsWhole(c)' BY <1>1, <1>2, <1>13, <2>2, <2>3 DEF WholeInv, Plain
  <2>5. Plain' /\ rb'.ncas # {} => Here' \notin Record' BY <1>1, <1>2, <1>6, <1>13, <2>1 DEF WholeInv, Plain
  <2>6. ASSUME Plain', rb'.meta, task.t \notin metas[task.at] PROVE Here' \notin Record'
    <3>1. ~IsWhole(Here) BY <2>1, <2>6 DEF IsWhole
    <3>2. QED BY <1>1, <1>2, <1>13, <2>1, <2>6, <3>1 DEF WholeInv, Plain
  <2>7. IsWhole(Here)' BY <1>2, <1>5, <1>7, <1>9, <2>1 DEF IsWhole
  <2>8. task.t \in metas[task.at] /\ rb'.meta => task'.kind = "install" /\ task'.had BY <1>5, <1>6
  <2>9. QED BY <1>5, <2>4, <2>5, <2>6, <2>7, <2>8 DEF WholeInv
<1>16. PromisedInv' BY <1>1, <1>2, <1>5, <1>13 DEF PromisedInv, There, Bringing
<1>17. SettledInv'
  <2>1. SUFFICES ASSUME excuses \cap {"crashed", "undoFailed", "reinstall"} = {} PROVE SettledInv' BY <1>2 DEF SettledInv
  <2>2. Brings' /\ Brings BY <1>2, <1>4, <1>5 DEF Brings, Bringing
  <2>3. holders \subseteq rb.holders BY <1>1, <2>1 DEF SettledInv
  <2>4. ASSUME task.t \in metas[task.at]
        PROVE  IF WasThere' THEN rb'.ncas = {} /\ NcasOf(task'.t) \subseteq content'[task'.at]
               ELSE NcasOf(task'.t) \cap content'[task'.at] = rb'.ncas
    <3>1. WasThere BY <1>8, <2>4 DEF WasThere
    <3>2. WasThere' BY <1>5, <1>6, <1>7, <2>4 DEF WasThere
    <3>3. rb.ncas = {} BY <1>1, <2>1, <2>2, <3>1 DEF SettledInv
    <3>4. QED BY <1>2, <1>5, <1>6, <1>9, <3>2, <3>3
  <2>5. ASSUME task.t \notin metas[task.at]
        PROVE  IF WasThere' THEN rb'.ncas = {} /\ NcasOf(task'.t) \subseteq content'[task'.at]
               ELSE NcasOf(task'.t) \cap content'[task'.at] = rb'.ncas
    <3>1. ~WasThere BY <2>5 DEF WasThere
    <3>2. ~WasThere' BY <1>5, <1>6, <2>5 DEF WasThere
    <3>3. NcasOf(task.t) \cap content[task.at] = rb.ncas BY <1>1, <2>1, <2>2, <3>1 DEF SettledInv
    <3>4. QED BY <1>2, <1>5, <1>6, <3>2, <3>3
  <2>6. IF WasThere' THEN rb'.ncas = {} /\ NcasOf(task'.t) \subseteq content'[task'.at]
        ELSE NcasOf(task'.t) \cap content'[task'.at] = rb'.ncas
    BY <2>4, <2>5
  <2>7. ASSUME NEW s \in Storages, NEW t \in Titles, s # task.at \/ t # task.t PROVE Settled(s, t)'
    <3>1. Settled(s, t) BY <1>1, <1>2, <2>1, <2>7 DEF SettledInv
    <3>2. t \in metas'[s] <=> t \in metas[s] BY <1>7, <2>7
    <3>3. QED BY <1>2, <3>1, <3>2 DEF Settled
  <2>8. \A s \in Storages, t \in Titles : Settled(s, t)' \/ (s = task'.at /\ t = task'.t) BY <1>5, <2>7
  <2>9. holders' \subseteq rb'.holders /\ task'.pc # "unnca" BY <1>2, <1>5, <1>6, <2>3
  <2>10. QED BY <2>2, <2>6, <2>8, <2>9, Zenon DEF SettledInv
<1>18. HolderInv' BY <1>1, <1>2, <1>5 DEF HolderInv
<1>19. FileInv' /\ SavingInv'
  <2>1. task.pc # "down" /\ task'.pc # "replace" /\ UNCHANGED <<files, saving, bare>> /\ excuses \subseteq excuses'
    BY <1>2, <1>5
  <2>2. QED BY <1>1, <1>2, <2>1, FilesRest
<1>20. QED BY <1>10, <1>11, <1>12, <1>14, <1>15, <1>16, <1>17, <1>18, <1>19 DEF EngineInv

-----------------------------------------------------------------------------
(* The record.                                                               *)

LEMMA DeleteRecordKeeps == ASSUME EngineInv, DeleteRecord PROVE EngineInv'
<1>1. Shapes /\ TaskInv /\ RollbackInv /\ RecordInv /\ WholeInv /\ PromisedInv /\ SettledInv /\ HolderInv
      /\ SavingInv /\ FileInv
  BY DEF EngineInv
<1>2. /\ task.pc = "list" /\ saving.step = "none" /\ listed' = {}
      /\ task' = [task EXCEPT !.existing = listed, !.pc = "push"]
      /\ UNCHANGED <<content, holders, metas, files, saving, rb, promised, excuses, bare, spent>>
  BY DEF DeleteRecord, At, history
<1>3. task \in ATask /\ rb \in ARollback /\ listed \in SUBSET Copies BY <1>1 DEF Shapes
<1>4. /\ task' \in ATask /\ task'.pc = "push" /\ task'.kind = task.kind /\ task'.at = task.at
      /\ task'.part = task.part /\ task'.t = task.t /\ task'.from = task.from /\ task'.todo = task.todo
      /\ task'.existing = listed /\ task'.stale = task.stale /\ task'.had = task.had
  BY <1>2, <1>3 DEF ATask, Pcs
<1>5. Shapes' BY <1>1, <1>2, <1>4 DEF Shapes
<1>6. TaskInv' BY <1>1, <1>2, <1>4 DEF TaskInv, Bringing
<1>7. RollbackInv' BY <1>1, <1>2, <1>4 DEF RollbackInv, Bringing
<1>8. Record' = Record BY <1>2, <1>4 DEF Record
<1>9. There' = There /\ Here' = Here BY <1>4 DEF There, Here
<1>10. RecordInv' BY <1>1, <1>2, <1>4, <1>8, <1>9 DEF RecordInv, OnlyItself, Bringing
<1>11. WholeInv' BY <1>1, <1>2, <1>4, <1>8, <1>9 DEF WholeInv, Plain, IsWhole
<1>12. PromisedInv' BY <1>1, <1>2, <1>4, <1>8, <1>9 DEF PromisedInv, Bringing
<1>13. SettledInv'
  <2>1. Brings' = Brings /\ WasThere' = WasThere BY <1>2, <1>4 DEF Brings, WasThere, Bringing
  <2>2. QED BY <1>1, <1>2, <1>4, <2>1 DEF SettledInv, Settled
<1>14. HolderInv' BY <1>1, <1>2, <1>4 DEF HolderInv
<1>15. FileInv' /\ SavingInv'
  <2>1. task.pc # "down" /\ task'.pc # "replace" /\ UNCHANGED <<files, saving, bare>> /\ excuses \subseteq excuses'
    BY <1>2, <1>4
  <2>2. QED BY <1>1, <1>2, <2>1, FilesRest
<1>16. QED BY <1>5, <1>6, <1>7, <1>10, <1>11, <1>12, <1>13, <1>14, <1>15 DEF EngineInv

(* What the three rewritings make of a record that lists each title once. *)
LEMMA MergingTitles ==
    ASSUME NEW r \in SUBSET Copies, NEW c \in Copies, Unique(r)
    PROVE  /\ Merged(r, c) \in SUBSET Copies /\ Unique(Merged(r, c)) /\ c \in Merged(r, c)
           /\ \A x \in Merged(r, c) : x = c \/ x \in r
           /\ \A x \in r : ~SameId(x.t, c.t) => x \in Merged(r, c)
<1>1. \A x \in r, y \in r : SameId(x.t, y.t) => x = y BY DEF Unique
<1>2. \A x \in Merged(r, c) : x = c \/ (x \in r /\ ~SameId(x.t, c.t)) BY DEF Merged
<1>3. \A x \in r : x.t \in Titles BY DEF Copies
<1>4. c.t \in Titles BY DEF Copies
<1>5. Unique(Merged(r, c)) BY <1>1, <1>2, <1>3, <1>4, SameIdIsEquivalence DEF Unique
<1>6. QED BY <1>2, <1>5 DEF Merged

LEMMA RemovingTitles ==
    ASSUME NEW r \in SUBSET Copies, NEW c \in Copies, Unique(r)
    PROVE  /\ Removed(r, c) \in SUBSET r /\ Unique(Removed(r, c))
           /\ \A x \in Removed(r, c) : ~(SameId(x.t, c.t) /\ x.at = c.at)
           /\ OnlyItself(r, c) => Removed(r, c) = r \ {c}
<1>1. Removed(r, c) \in SUBSET r BY DEF Removed
<1>2. \A x \in Removed(r, c) : ~(SameId(x.t, c.t) /\ x.at = c.at) BY DEF Removed
<1>3. Unique(Removed(r, c)) BY <1>1 DEF Unique
<1>4. SameId(c.t, c.t) BY DEF SameId
<1>5. OnlyItself(r, c) => Removed(r, c) = r \ {c} BY <1>4 DEF OnlyItself, Removed
<1>6. QED BY <1>1, <1>2, <1>3, <1>5

LEMMA MovingTitles ==
    ASSUME NEW r \in SUBSET Copies, NEW c \in Copies, NEW to \in Storages, to # c.at, Unique(r)
    PROVE  /\ Moved(r, c, to) \in SUBSET Copies /\ Unique(Moved(r, c, to))
           /\ \A x \in Moved(r, c, to) : x.at # to => x \in r
           /\ \A x \in Moved(r, c, to) : ~(SameId(x.t, c.t) /\ x.at = c.at)
           /\ OnlyItself(r, c) => Moved(r, c, to) = IF c \in r THEN (r \ {c}) \cup {[t |-> c.t, at |-> to]} ELSE r
           /\ Moved(r, c, to) = {} => r = {}
<1> DEFINE Mine(x) == SameId(x.t, c.t) /\ x.at = c.at
           Image(x) == IF Mine(x) THEN [x EXCEPT !.at = to] ELSE x
<1>1. Moved(r, c, to) = {Image(x) : x \in r} BY DEF Moved
<1>2. \A x \in r : /\ Image(x) \in Copies /\ Image(x).t = x.t
                   /\ Mine(x) => Image(x) = [t |-> x.t, at |-> to] /\ Image(x).at = to
                   /\ ~Mine(x) => Image(x) = x
  BY DEF Copies
<1>3. \A x \in r : x.t \in Titles /\ x = [t |-> x.t, at |-> x.at] BY DEF Copies
<1>4. c.t \in Titles /\ c = [t |-> c.t, at |-> c.at] BY DEF Copies
<1>5. \A x \in r, y \in r : SameId(x.t, y.t) => x = y BY DEF Unique
<1> HIDE DEF Image
<1>6. Moved(r, c, to) \in SUBSET Copies BY <1>1, <1>2
<1>7. Unique(Moved(r, c, to)) BY <1>1, <1>2, <1>5 DEF Unique
<1>8. \A x \in Moved(r, c, to) : x.at # to => x \in r BY <1>1, <1>2
<1>9. \A x \in Moved(r, c, to) : ~(SameId(x.t, c.t) /\ x.at = c.at)
  <2>1. SUFFICES ASSUME NEW x \in r, SameId(Image(x).t, c.t), Image(x).at = c.at PROVE FALSE BY <1>1
  <2>2. CASE Mine(x) BY <1>2, <2>1, <2>2
  <2>3. CASE ~Mine(x) BY <1>2, <2>1, <2>3
  <2>4. QED BY <2>2, <2>3
<1>10. ASSUME OnlyItself(r, c)
       PROVE  Moved(r, c, to) = IF c \in r THEN (r \ {c}) \cup {[t |-> c.t, at |-> to]} ELSE r
  <2>1. \A x \in r : Mine(x) <=> x = c BY <1>10 DEF OnlyItself, SameId
  <2>2. QED BY <1>1, <1>2, <2>1
<1>11. Moved(r, c, to) = {} => r = {} BY <1>1
<1>12. QED BY <1>6, <1>7, <1>8, <1>9, <1>10, <1>11

(* The record about to be pushed, for each kind of task. *)
LEMMA RecordPushed ==
    ASSUME EngineInv, task.pc = "push"
    PROVE  /\ Record = task.existing /\ Record \in SUBSET Copies /\ Unique(Record)
           /\ Here \in Copies /\ There \in Copies
           /\ task.kind \in {"install", "move", "uninstall"}
           /\ task.kind = "install" => Changed(task.existing) = Merged(Record, Here)
           /\ task.kind = "uninstall" => Changed(task.existing) = Removed(Record, There)
           /\ task.kind = "move" => /\ Changed(task.existing) = Moved(Record, There, task.at)
                                    /\ task.at # There.at /\ task.at \in Storages
           /\ Changed(task.existing) \in SUBSET Copies /\ Unique(Changed(task.existing))
<1>1. Shapes /\ TaskInv /\ RecordInv BY DEF EngineInv
<1>2. task \in ATask BY <1>1 DEF Shapes
<1>3. Record = task.existing /\ Record \in SUBSET Copies BY <1>2 DEF Record, ATask
<1>4. Unique(Record) BY <1>1 DEF RecordInv
<1>5. task.kind \in {"install", "move", "uninstall"} BY <1>1, <1>2 DEF TaskInv, ATask, Kinds
<1>6. task.t \in Titles /\ task.from \in Storages /\ task.at \in Storages
  BY <1>1, <1>2, <1>5 DEF TaskInv, ATask, Bringing
<1>7. Here \in Copies /\ There \in Copies BY <1>6 DEF Here, There, Copies
<1>8. task.kind = "move" => task.at # There.at BY <1>1 DEF TaskInv, Bringing, There
<1>9. /\ task.kind = "install" => Changed(task.existing) = Merged(Record, Here)
      /\ task.kind = "uninstall" => Changed(task.existing) = Removed(Record, There)
      /\ task.kind = "move" => Changed(task.existing) = Moved(Record, There, task.at)
  BY <1>3 DEF Changed, Here, There
<1>10. Changed(task.existing) \in SUBSET Copies /\ Unique(Changed(task.existing))
  <2>1. CASE task.kind = "install" BY <1>3, <1>4, <1>7, <1>9, <2>1, MergingTitles
  <2>2. CASE task.kind = "uninstall" BY <1>3, <1>4, <1>7, <1>9, <2>2, RemovingTitles
  <2>3. CASE task.kind = "move" BY <1>3, <1>4, <1>6, <1>7, <1>8, <1>9, <2>3, MovingTitles
  <2>4. QED BY <1>5, <2>1, <2>2, <2>3
<1>11. QED BY <1>3, <1>4, <1>5, <1>6, <1>7, <1>8, <1>9, <1>10

LEMMA PushRecordKeeps == ASSUME EngineInv, PushRecord PROVE EngineInv'
<1>1. Shapes /\ TaskInv /\ RollbackInv /\ RecordInv /\ WholeInv /\ PromisedInv /\ SettledInv /\ HolderInv
      /\ SavingInv /\ FileInv
  BY DEF EngineInv
<1>2. /\ task.pc = "push" /\ saving.step = "none" /\ listed' = Changed(task.existing) /\ rb' = NoRollback
      /\ task' = [task EXCEPT !.pc = AfterRecord, !.existing = {}, !.part = 1]
      /\ UNCHANGED <<content, holders, metas, files, saving, excuses, bare, spent>>
      /\ promised' = IF task.kind = "install" THEN {p \in promised : ~SameId(p.t, task.t)} \cup {Here}
                     ELSE IF There \in promised THEN (promised \ {There}) \cup {Here} ELSE promised
  BY DEF PushRecord, At, Here, There
<1>3. task \in ATask /\ promised \in SUBSET Copies BY <1>1 DEF Shapes
<1>4. /\ Record = task.existing /\ Record \in SUBSET Copies /\ Unique(Record) /\ Here \in Copies /\ There \in Copies
      /\ task.kind \in {"install", "move", "uninstall"}
      /\ task.kind = "install" => listed' = Merged(Record, Here)
      /\ task.kind = "uninstall" => listed' = Removed(Record, There)
      /\ task.kind = "move" => listed' = Moved(Record, There, task.at) /\ task.at # There.at /\ task.at \in Storages
      /\ listed' \in SUBSET Copies /\ Unique(listed')
  BY <1>2, RecordPushed
<1>5. Here.t = task.t /\ Here.at = task.at /\ There.t = task.t /\ There.at = task.from BY DEF Here, There
<1>6. /\ task' \in ATask /\ task'.kind = task.kind /\ task'.at = task.at /\ task'.t = task.t
      /\ task'.from = task.from /\ task'.todo = task.todo
      /\ task'.pc = IF task.kind = "install" THEN "title" ELSE "unmeta"
      /\ task.kind = "move" => task'.pc = "unmeta"
  <2>1. AfterRecord = (IF task.kind = "install" THEN "title" ELSE "unmeta") BY <1>4 DEF AfterRecord
  <2>2. 1 \in 1..(NcaCount + 1) BY EngineAssumption
  <2> HIDE DEF AfterRecord
  <2>3. QED BY <1>2, <1>3, <2>1, <2>2 DEF ATask, Pcs
<1>7. rb' \in ARollback /\ rb'.holders = {} /\ rb'.ncas = {} /\ ~rb'.meta BY <1>2, ConstantsAreTyped
<1>8. promised' \in SUBSET Copies BY <1>2, <1>3, <1>4
<1>9. Shapes' BY <1>1, <1>2, <1>4, <1>6, <1>7, <1>8 DEF Shapes
<1>10. TaskInv' BY <1>1, <1>2, <1>4, <1>6 DEF TaskInv, Bringing
<1>11. RollbackInv' BY <1>2, <1>6, <1>7 DEF RollbackInv, Bringing
<1>12. Record' = listed' BY <1>6 DEF Record
<1>13. RecordInv'
  <2>1. "otherVersion" \notin excuses' /\ task'.kind = "move" => \A m \in task'.todo : OnlyItself(Record', m)
    <3>1. SUFFICES ASSUME "otherVersion" \notin excuses, task.kind = "move", NEW m \in task.todo
                   PROVE  OnlyItself(listed', m)
      BY <1>2, <1>6, <1>12
    <3>2. m.at # task.at /\ OnlyItself(Record, m) BY <1>1, <3>1 DEF RecordInv, TaskInv
    <3>3. \A x \in listed' : x.at # task.at => x \in Record BY <1>4, <3>1, MovingTitles
    <3>4. QED BY <3>2, <3>3 DEF OnlyItself
  <2>2. task'.pc = "unmeta" => \A x \in listed' : ~(SameId(x.t, task.t) /\ x.at = task.from)
    BY <1>4, <1>5, <1>6, RemovingTitles, MovingTitles
  <2>3. Unique(Record') BY <1>4, <1>12
  <2>4. task'.pc \in {"title", "unmeta"} BY <1>6
  <2>5. QED BY <1>6, <1>12, <2>1, <2>2, <2>3, <2>4 DEF RecordInv, Unique, OnlyItself, Bringing
<1>14. task.kind \in {"move", "uninstall"} /\ "otherVersion" \notin excuses => OnlyItself(Record, There)
  BY <1>1, <1>2 DEF RecordInv, Bringing
<1>15. task.kind \in {"install", "move"} => IsWhole(Here) BY <1>1, <1>2 DEF WholeInv
<1>16. WholeInv'
  <2>1. ASSUME Plain, NEW c \in listed' PROVE IsWhole(c)
    <3>1. \A x \in Record : IsWhole(x) BY <1>1, <2>1 DEF WholeInv
    <3>2. "otherVersion" \notin excuses BY <2>1 DEF Plain
    <3>3. CASE task.kind = "install"
      <4>1. c = Here \/ c \in Record BY <1>4, <2>1, <3>3, MergingTitles
      <4>2. QED BY <1>15, <3>1, <3>3, <4>1
    <3>4. CASE task.kind = "uninstall"
      <4>1. c \in Record BY <1>4, <2>1, <3>4, RemovingTitles
      <4>2. QED BY <3>1, <4>1
    <3>5. CASE task.kind = "move"
      <4>1. listed' = IF There \in Record THEN (Record \ {There}) \cup {Here} ELSE Record
        BY <1>4, <1>14, <3>2, <3>5, MovingTitles DEF Here, There
      <4>2. QED BY <1>15, <2>1, <3>1, <3>5, <4>1
    <3>6. QED BY <1>4, <3>3, <3>4, <3>5
  <2>2. Plain' => \A c \in Record' : IsWhole(c)' BY <1>2, <1>12, <2>1 DEF Plain, IsWhole
  <2>3. task'.pc \in {"title", "unmeta"} BY <1>6
  <2>4. QED BY <1>7, <2>2, <2>3 DEF WholeInv
<1>17. PromisedInv'
  <2>1. ASSUME excuses \cap {"recordLost", "otherVersion"} = {} PROVE promised' \subseteq listed'
    <3>1. promised \subseteq Record /\ "otherVersion" \notin excuses BY <1>1, <2>1 DEF PromisedInv
    <3>2. CASE task.kind = "install"
      <4>1. Here \in listed' /\ \A x \in Record : ~SameId(x.t, task.t) => x \in listed'
        BY <1>4, <1>5, <3>2, MergingTitles
      <4>2. QED BY <1>2, <3>1, <3>2, <4>1
    <3>3. CASE task.kind = "uninstall"
      <4>1. There \notin promised BY <1>1, <1>2, <3>3 DEF PromisedInv, Bringing
      <4>2. listed' = Record \ {There} BY <1>4, <1>14, <3>1, <3>3, RemovingTitles
      <4>3. QED BY <1>2, <3>1, <3>3, <4>1, <4>2
    <3>4. CASE task.kind = "move"
      <4>1. listed' = IF There \in Record THEN (Record \ {There}) \cup {Here} ELSE Record
        BY <1>4, <1>14, <3>1, <3>4, MovingTitles DEF Here, There
      <4>2. QED BY <1>2, <3>1, <3>4, <4>1
    <3>5. QED BY <1>4, <3>2, <3>3, <3>4
  <2>2. task.kind = "uninstall" => There \notin promised BY <1>1, <1>2 DEF PromisedInv, Bringing
  <2>3. task'.kind = "uninstall" /\ task'.t = Base => promised' = {} BY <1>1, <1>2, <1>6, <2>2 DEF PromisedInv
  <2>4. task'.pc \notin Bringing BY <1>6 DEF Bringing
  <2>5. QED BY <1>2, <1>12, <2>1, <2>3, <2>4 DEF PromisedInv
<1>18. SettledInv'
  <2>1. SUFFICES ASSUME excuses \cap {"crashed", "undoFailed", "reinstall"} = {} PROVE SettledInv' BY <1>2 DEF SettledInv
  <2>2. holders = {} /\ rb.holders = {} BY <1>1, <1>2, <2>1 DEF SettledInv, RollbackInv
  <2>3. ~Brings' /\ task'.pc # "unnca" BY <1>6 DEF Brings, Bringing
  <2>4. ASSUME NEW s \in Storages, NEW t \in Titles PROVE Settled(s, t)
    <3>1. CASE Brings /\ s = task.at /\ t = task.t
      <4>1. IsWhole(Here) BY <1>15, <3>1 DEF Brings
      <4>2. QED BY <3>1, <4>1 DEF IsWhole, Here, Settled
    <3>2. CASE ~(Brings /\ s = task.at /\ t = task.t) BY <1>1, <1>2, <2>1, <3>2 DEF SettledInv
    <3>3. QED BY <3>1, <3>2
  <2>5. \A s \in Storages, t \in Titles : Settled(s, t)' BY <1>2, <2>4, Zenon DEF Settled
  <2>6. QED BY <1>2, <1>7, <2>2, <2>3, <2>5 DEF SettledInv
<1>19. HolderInv' BY <1>1, <1>2, <1>6 DEF HolderInv
<1>20. FileInv' /\ SavingInv'
  <2>1. task.pc # "down" /\ task'.pc # "replace" /\ UNCHANGED <<files, saving, bare>> /\ excuses \subseteq excuses'
    BY <1>2, <1>6
  <2>2. QED BY <1>1, <1>2, <2>1, FilesRest
<1>21. QED BY <1>9, <1>10, <1>11, <1>13, <1>16, <1>17, <1>18, <1>19, <1>20 DEF EngineInv

LEMMA PushFailsKeeps == ASSUME EngineInv, PushFails PROVE EngineInv'
<1>1. Shapes /\ TaskInv /\ RollbackInv /\ RecordInv /\ WholeInv /\ PromisedInv /\ SettledInv /\ HolderInv
      /\ SavingInv /\ FileInv
  BY DEF EngineInv
<1>2. /\ task.pc = "push" /\ saving.step = "none"
      /\ task' = [task EXCEPT !.pc = "undo", !.existing = {}]
      /\ UNCHANGED <<content, holders, metas, files, saving, rb, promised, bare>>
      /\ spent' \in Spending /\ excuses \subseteq excuses'
      /\ (listed' = task.existing \/ (UNCHANGED listed /\ "recordLost" \in excuses'))
  BY <1>1 DEF PushFails, At, Trouble, DoubleTrouble, Excuse, Spending, Shapes
<1>3. task \in ATask /\ rb \in ARollback BY <1>1 DEF Shapes
<1>4. /\ task' \in ATask /\ task'.pc = "undo" /\ task'.kind = task.kind /\ task'.at = task.at
      /\ task'.part = task.part /\ task'.t = task.t /\ task'.from = task.from /\ task'.todo = task.todo
      /\ task'.stale = task.stale /\ task'.had = task.had
  BY <1>2, <1>3 DEF ATask, Pcs
<1>5. Record = task.existing /\ listed = {} BY <1>1, <1>2 DEF Record, RecordInv
<1>6. Record' = Record \/ (Record' = {} /\ "recordLost" \in excuses') BY <1>2, <1>4, <1>5 DEF Record
<1>7. listed' \in SUBSET Copies BY <1>1, <1>2, <1>3 DEF Shapes, ATask
<1>8. Shapes' BY <1>1, <1>2, <1>4, <1>7 DEF Shapes
<1>9. TaskInv' BY <1>1, <1>2, <1>4 DEF TaskInv, Bringing
<1>10. RollbackInv' BY <1>1, <1>2, <1>4 DEF RollbackInv, Bringing
<1>11. RecordInv' BY <1>1, <1>2, <1>4, <1>6 DEF RecordInv, OnlyItself, Bringing, Unique
<1>12. Here' = Here BY <1>4 DEF Here
<1>13. WholeInv' BY <1>1, <1>2, <1>4, <1>6, <1>12 DEF WholeInv, Plain, IsWhole
<1>14. PromisedInv' BY <1>1, <1>2, <1>4, <1>6 DEF PromisedInv, Bringing
<1>15. SettledInv'
  <2>1. Brings' = Brings /\ WasThere' = WasThere BY <1>2, <1>4 DEF Brings, WasThere, Bringing
  <2>2. excuses \subseteq excuses' BY <1>2
  <2>3. QED BY <1>1, <1>2, <1>4, <2>1, <2>2 DEF SettledInv, Settled
<1>16. HolderInv'
  <2>1. rb.holders = {} BY <1>1, <1>2 DEF RollbackInv
  <2>2. QED BY <1>1, <1>2, <1>4, <2>1 DEF HolderInv
<1>17. FileInv' /\ SavingInv'
  <2>1. task.pc # "down" /\ task'.pc # "replace" /\ UNCHANGED <<files, saving, bare>> /\ excuses \subseteq excuses'
    BY <1>2, <1>4
  <2>2. QED BY <1>1, <1>2, <2>1, FilesRest
<1>18. QED BY <1>8, <1>9, <1>10, <1>11, <1>13, <1>14, <1>15, <1>16, <1>17 DEF EngineInv

-----------------------------------------------------------------------------
(* Undoing.                                                                  *)

LEMMA UndoHolderKeeps == ASSUME EngineInv, NEW h \in Holders, UndoHolder(h) PROVE EngineInv'
<1>1. Shapes /\ TaskInv /\ RollbackInv /\ RecordInv /\ WholeInv /\ PromisedInv /\ SettledInv /\ HolderInv
      /\ SavingInv /\ FileInv
  BY DEF EngineInv
<1>2. /\ task.pc = "undo" /\ saving.step = "none" /\ h \in rb.holders
      /\ rb' = [rb EXCEPT !.holders = @ \ {h}] /\ SaveJournal(Journal \ {h})
      /\ UNCHANGED <<content, metas, listed, task, promised, bare>>
      /\ spent' \in Spending /\ excuses \subseteq excuses'
      /\ (holders' = holders \ {h} \/ (holders' = holders /\ "undoFailed" \in excuses'))
  BY <1>1 DEF UndoHolder, At, Journal, Trouble, Excuse, Spending, Shapes
<1>3. task \in ATask /\ rb \in ARollback /\ FilesTyped(files) /\ saving \in ASave BY <1>1 DEF Shapes
<1>4. rb.holders = {h} BY <1>1, <1>2 DEF RollbackInv
<1>5. rb' \in ARollback /\ rb'.holders = {} /\ rb'.ncas = rb.ncas /\ rb'.meta = rb.meta
  BY <1>2, <1>3, <1>4 DEF ARollback
<1>6. Journal \ {h} \in SUBSET Holders BY <1>3, JournalIsTyped
<1>7. task'.pc \in {"create", "nca", "undo"} /\ (task'.pc = "undo" => rb'.holders = {}) /\ task.pc # "down"
  BY <1>2, <1>5
<1>8. FileInv' /\ SavingInv' /\ FilesTyped(files') /\ saving' \in ASave
  BY <1>1, <1>2, <1>3, <1>6, <1>7, JournalIsSaved
<1>9. holders' \in SUBSET Holders BY <1>1, <1>2 DEF Shapes
<1>10. Shapes' BY <1>1, <1>2, <1>5, <1>8, <1>9 DEF Shapes
<1>11. TaskInv' BY <1>1, <1>2 DEF TaskInv, Bringing
<1>12. RollbackInv'
  <2>1. rb # NoRollback BY <1>2, ConstantsAreTyped
  <2>2. QED BY <1>1, <1>2, <1>5, <2>1 DEF RollbackInv, Bringing
<1>13. Record' = Record BY <1>2 DEF Record
<1>14. RecordInv' BY <1>1, <1>2, <1>13 DEF RecordInv, OnlyItself, There
<1>15. Here' = Here BY <1>2 DEF Here
<1>16. WholeInv' BY <1>1, <1>2, <1>5, <1>13, <1>15 DEF WholeInv, Plain, IsWhole
<1>17. PromisedInv' BY <1>1, <1>2, <1>13 DEF PromisedInv, There, Bringing
<1>18. SettledInv'
  <2>1. Brings' = Brings /\ WasThere' = WasThere BY <1>2, <1>5 DEF Brings, WasThere
  <2>2. SUFFICES ASSUME excuses' \cap {"crashed", "undoFailed", "reinstall"} = {} PROVE SettledInv' BY DEF SettledInv
  <2>3. excuses \cap {"crashed", "undoFailed", "reinstall"} = {} BY <1>2, <2>2
  <2>4. holders' = holders \ {h} BY <1>2, <2>2
  <2>5. holders' \subseteq rb'.holders BY <1>1, <1>4, <1>5, <2>3, <2>4 DEF SettledInv
  <2>6. QED BY <1>1, <1>2, <1>5, <2>1, <2>3, <2>5 DEF SettledInv, Settled
<1>19. HolderInv'
  <2>1. SUFFICES ASSUME excuses' \cap {"journalFailed", "cleanupFailed", "undoFailed"} = {} PROVE HolderInv'
    BY DEF HolderInv
  <2>2. excuses \cap {"journalFailed", "cleanupFailed", "undoFailed"} = {} /\ holders' = holders \ {h} BY <1>2, <2>1
  <2>3. holders' \subseteq {} BY <1>1, <1>2, <1>4, <2>2 DEF HolderInv
  <2>4. QED BY <1>2, <1>5, <2>3 DEF HolderInv
<1>20. QED BY <1>8, <1>10, <1>11, <1>12, <1>14, <1>16, <1>17, <1>18, <1>19 DEF EngineInv

LEMMA UndoNcaKeeps == ASSUME EngineInv, NEW n \in Ncas, UndoNca(n) PROVE EngineInv'
<1>1. Shapes /\ TaskInv /\ RollbackInv /\ RecordInv /\ WholeInv /\ PromisedInv /\ SettledInv /\ HolderInv
      /\ SavingInv /\ FileInv
  BY DEF EngineInv
<1>2. /\ task.pc = "undo" /\ saving.step = "none" /\ rb.holders = {} /\ n \in rb.ncas
      /\ rb' = [rb EXCEPT !.ncas = @ \ {n}]
      /\ UNCHANGED <<holders, metas, listed, files, saving, task, promised, bare>>
      /\ spent' \in Spending /\ excuses \subseteq excuses'
      /\ \/ content' = [content EXCEPT ![task.at] = @ \ {n}]
         \/ content' = content /\ "undoFailed" \in excuses'
  BY <1>1 DEF UndoNca, At, Trouble, Excuse, Spending, Shapes
<1>3. task \in ATask /\ rb \in ARollback /\ content \in [Storages -> SUBSET Ncas] BY <1>1 DEF Shapes
<1>4. rb' \in ARollback /\ rb'.holders = {} /\ rb'.ncas = rb.ncas \ {n} /\ rb'.meta = rb.meta
  BY <1>2, <1>3 DEF ARollback
<1>5. n \in NcasOf(task.t) BY <1>1, <1>2 DEF RollbackInv
<1>6. Brings /\ task.at \in Storages
  <2>1. rb # NoRollback BY <1>2, ConstantsAreTyped
  <2>2. task.kind # "uninstall" BY <1>1, <2>1 DEF RollbackInv
  <2>3. task.kind \in {"install", "move"} BY <1>1, <1>2, <1>3, <2>2 DEF TaskInv, ATask, Kinds
  <2>4. QED BY <1>1, <1>2, <2>3 DEF Brings, TaskInv
<1>7. /\ content' \in [Storages -> SUBSET Ncas]
      /\ \A s \in Storages, t \in Titles : s # task.at \/ t # task.t =>
            NcasOf(t) \cap content'[s] = NcasOf(t) \cap content[s]
      /\ "undoFailed" \notin excuses' => content'[task.at] = content[task.at] \ {n}
  <2>1. \A t \in Titles : t # task.t => n \notin NcasOf(t) BY <1>5 DEF NcasOf
  <2>2. QED BY <1>2, <1>3, <1>6, <2>1
<1>8. Shapes' BY <1>1, <1>2, <1>4, <1>7 DEF Shapes
<1>9. TaskInv' BY <1>1, <1>2 DEF TaskInv, Bringing
<1>10. RollbackInv' BY <1>1, <1>2, <1>4, <1>6 DEF RollbackInv, Bringing, Brings
<1>11. Record' = Record BY <1>2 DEF Record
<1>12. RecordInv' BY <1>1, <1>2, <1>11 DEF RecordInv, OnlyItself, There
<1>13. WholeInv'
  <2>1. Here' = Here /\ Here = [t |-> task.t, at |-> task.at] BY <1>2 DEF Here
  <2>2. Plain' => Plain BY <1>2 DEF Plain
  <2>3. Plain => Here \notin Record BY <1>1, <1>2 DEF WholeInv
  <2>4. Record \in SUBSET Copies BY <1>1, <1>2 DEF Record, Shapes
  <2>5. ASSUME Plain', NEW c \in Record' PROVE IsWhole(c)'
    <3>1. IsWhole(c) /\ c # Here /\ c \in Copies BY <1>1, <1>11, <2>2, <2>3, <2>4, <2>5 DEF WholeInv
    <3>2. c.t \in Titles /\ c.at \in Storages /\ (c.t # task.t \/ c.at # task.at) BY <2>1, <3>1 DEF Copies
    <3>3. NcasOf(c.t) \cap content'[c.at] = NcasOf(c.t) \cap content[c.at] BY <1>7, <3>2
    <3>4. QED BY <1>2, <3>1, <3>3 DEF IsWhole
  <2>6. Plain' => Here' \notin Record' BY <1>11, <2>1, <2>2, <2>3
  <2>7. QED BY <1>2, <2>5, <2>6 DEF WholeInv
<1>14. PromisedInv' BY <1>1, <1>2, <1>11 DEF PromisedInv, There
<1>15. SettledInv'
  <2>1. SUFFICES ASSUME excuses' \cap {"crashed", "undoFailed", "reinstall"} = {} PROVE SettledInv' BY DEF SettledInv
  <2>2. excuses \cap {"crashed", "undoFailed", "reinstall"} = {} /\ "undoFailed" \notin excuses' BY <1>2, <2>1
  <2>3. Brings' /\ WasThere' = WasThere BY <1>2, <1>4, <1>6 DEF Brings, WasThere
  <2>4. ~WasThere /\ NcasOf(task.t) \cap content[task.at] = rb.ncas /\ holders \subseteq rb.holders
    BY <1>1, <1>2, <1>6, <2>2 DEF SettledInv
  <2>5. NcasOf(task'.t) \cap content'[task'.at] = rb'.ncas BY <1>2, <1>4, <1>7, <2>2, <2>4
  <2>6. ASSUME NEW s \in Storages, NEW t \in Titles, s # task.at \/ t # task.t PROVE Settled(s, t)'
    <3>1. Settled(s, t) BY <1>1, <1>2, <2>2, <2>6 DEF SettledInv
    <3>2. NcasOf(t) \cap content'[s] = NcasOf(t) \cap content[s] BY <1>7, <2>6
    <3>3. QED BY <1>2, <3>1, <3>2 DEF Settled
  <2>7. holders' \subseteq rb'.holders BY <1>2, <1>4, <2>4
  <2>8. QED BY <1>2, <2>3, <2>4, <2>5, <2>6, <2>7 DEF SettledInv
<1>16. Journal' = Journal BY <1>2, Zenon DEF Journal, Journaled
<1>17. HolderInv' BY <1>1, <1>2, <1>4, <1>16 DEF HolderInv
<1>18. FileInv' /\ SavingInv'
  <2>1. task.pc # "down" /\ task'.pc # "replace" /\ UNCHANGED <<files, saving, bare>> BY <1>2
  <2>2. QED BY <1>1, <1>2, <2>1, FilesRest
<1>19. QED BY <1>8, <1>9, <1>10, <1>12, <1>13, <1>14, <1>15, <1>17, <1>18 DEF EngineInv

LEMMA UndoMetaKeeps == ASSUME EngineInv, UndoMeta PROVE EngineInv'
<1>1. Shapes /\ TaskInv /\ RollbackInv /\ RecordInv /\ WholeInv /\ PromisedInv /\ SettledInv /\ HolderInv
      /\ SavingInv /\ FileInv
  BY DEF EngineInv
<1>2. /\ task.pc = "undo" /\ saving.step = "none" /\ rb.holders = {} /\ rb.ncas = {} /\ rb.meta
      /\ rb' = [rb EXCEPT !.meta = FALSE]
      /\ UNCHANGED <<content, holders, listed, files, saving, task, promised, bare>>
      /\ spent' \in Spending /\ excuses \subseteq excuses'
      /\ \/ /\ metas' = [metas EXCEPT ![task.at] = @ \ {task.t}]
            /\ task.had /\ task.kind = "install" => "reinstall" \in excuses'
         \/ metas' = metas /\ "undoFailed" \in excuses'
  BY <1>1 DEF UndoMeta, At, Trouble, Excuse, Spending, Shapes
<1>3. task \in ATask /\ rb \in ARollback /\ metas \in [Storages -> SUBSET Titles] BY <1>1 DEF Shapes
<1>4. rb' \in ARollback /\ rb'.holders = {} /\ rb'.ncas = {} /\ ~rb'.meta BY <1>2, <1>3 DEF ARollback
<1>5. Brings /\ task.at \in Storages
  <2>1. rb # NoRollback BY <1>2, ConstantsAreTyped
  <2>2. task.kind # "uninstall" BY <1>1, <2>1 DEF RollbackInv
  <2>3. task.kind \in {"install", "move"} BY <1>1, <1>2, <1>3, <2>2 DEF TaskInv, ATask, Kinds
  <2>4. QED BY <1>1, <1>2, <2>3 DEF Brings, TaskInv
<1>6. /\ metas' \in [Storages -> SUBSET Titles]
      /\ \A s \in Storages, t \in Titles : s # task.at \/ t # task.t => (t \in metas'[s] <=> t \in metas[s])
      /\ "undoFailed" \notin excuses' => task.t \notin metas'[task.at]
  BY <1>2, <1>3, <1>5
<1>7. Shapes' BY <1>1, <1>2, <1>4, <1>6 DEF Shapes
<1>8. TaskInv' BY <1>1, <1>2 DEF TaskInv, Bringing
<1>9. RollbackInv' BY <1>1, <1>2, <1>4, <1>5 DEF RollbackInv, Bringing, Brings
<1>10. Record' = Record BY <1>2 DEF Record
<1>11. RecordInv' BY <1>1, <1>2, <1>10 DEF RecordInv, OnlyItself, There
<1>12. WholeInv'
  <2>1. Here = [t |-> task.t, at |-> task.at] BY DEF Here
  <2>2. Plain' => Plain BY <1>2 DEF Plain
  <2>3. Record \in SUBSET Copies BY <1>1, <1>2 DEF Record, Shapes
  <2>4. ASSUME Plain', NEW c \in Record' PROVE IsWhole(c)'
    <3>1. IsWhole(c) /\ c \in Copies BY <1>1, <1>10, <2>2, <2>3, <2>4 DEF WholeInv
    <3>2. CASE c = Here
      <4>1. task.kind = "install" /\ task.had BY <1>1, <1>2, <1>10, <2>2, <2>4, <3>2 DEF WholeInv
      <4>2. metas' = metas BY <1>2, <2>4, <4>1 DEF Plain
      <4>3. QED BY <1>2, <3>1, <4>2 DEF IsWhole
    <3>3. CASE c # Here
      <4>1. c.t \in Titles /\ c.at \in Storages /\ (c.t # task.t \/ c.at # task.at) BY <2>1, <3>1, <3>3 DEF Copies
      <4>2. c.t \in metas'[c.at] <=> c.t \in metas[c.at] BY <1>6, <4>1
      <4>3. QED BY <1>2, <3>1, <4>2 DEF IsWhole
    <3>4. QED BY <3>2, <3>3
  <2>5. QED BY <1>2, <1>4, <2>4 DEF WholeInv
<1>13. PromisedInv' BY <1>1, <1>2, <1>10 DEF PromisedInv, There
<1>14. SettledInv'
  <2>1. SUFFICES ASSUME excuses' \cap {"crashed", "undoFailed", "reinstall"} = {} PROVE SettledInv' BY DEF SettledInv
  <2>2. /\ excuses \cap {"crashed", "undoFailed", "reinstall"} = {}
        /\ "undoFailed" \notin excuses' /\ "reinstall" \notin excuses'
    BY <1>2, <2>1
  <2>3. ~(task.kind = "install" /\ task.had) BY <1>2, <2>2
  <2>4. ~WasThere /\ ~WasThere' /\ Brings' BY <1>2, <1>5, <1>6, <2>2, <2>3 DEF WasThere, Brings
  <2>5. NcasOf(task.t) \cap content[task.at] = {} /\ holders \subseteq rb.holders
    BY <1>1, <1>2, <1>5, <2>2, <2>4 DEF SettledInv
  <2>6. ASSUME NEW s \in Storages, NEW t \in Titles, s # task.at \/ t # task.t PROVE Settled(s, t)'
    <3>1. Settled(s, t) BY <1>1, <1>2, <2>2, <2>6 DEF SettledInv
    <3>2. t \in metas'[s] <=> t \in metas[s] BY <1>6, <2>6
    <3>3. QED BY <1>2, <3>1, <3>2 DEF Settled
  <2>7. holders' \subseteq rb'.holders BY <1>2, <1>4, <2>5
  <2>8. QED BY <1>2, <1>4, <2>4, <2>5, <2>6, <2>7 DEF SettledInv
<1>15. Journal' = Journal BY <1>2, Zenon DEF Journal, Journaled
<1>16. HolderInv' BY <1>1, <1>2, <1>4, <1>15 DEF HolderInv
<1>17. FileInv' /\ SavingInv'
  <2>1. task.pc # "down" /\ task'.pc # "replace" /\ UNCHANGED <<files, saving, bare>> BY <1>2
  <2>2. QED BY <1>1, <1>2, <2>1, FilesRest
<1>18. QED BY <1>7, <1>8, <1>9, <1>11, <1>12, <1>13, <1>14, <1>16, <1>17 DEF EngineInv

-----------------------------------------------------------------------------
(* Deleting a copy, and the whole game.                                      *)

(* The record lists no copy of this title on the storage it is deleted from. *)
LEMMA NotThere ==
    ASSUME EngineInv, task.pc \in {"unmeta", "unnca"}
    PROVE  /\ rb = NoRollback /\ task.kind \in {"uninstall", "move"} /\ task.from \in Storages /\ task.t \in Titles
           /\ Record = listed
           /\ \A c \in Record : c \in Copies /\ (c.t # task.t \/ c.at # task.from)
<1>1. Shapes /\ TaskInv /\ RollbackInv /\ RecordInv BY DEF EngineInv
<1>2. rb = NoRollback BY <1>1 DEF RollbackInv, Bringing
<1>3. task.kind \in {"uninstall", "move"} /\ task.from \in Storages BY <1>1 DEF TaskInv
<1>4. task.t \in Titles BY <1>1 DEF Shapes, ATask
<1>5. Record = listed /\ listed \in SUBSET Copies BY <1>1 DEF Record, Shapes
<1>6. \A c \in Record : ~(SameId(c.t, task.t) /\ c.at = task.from) BY <1>1 DEF RecordInv
<1>7. SameId(task.t, task.t) BY DEF SameId
<1>8. QED BY <1>2, <1>3, <1>4, <1>5, <1>6, <1>7

LEMMA AfterDeleteKeeps ==
    ASSUME EngineInv, OnlyTask, saving.step = "none", task' = AfterDelete, task.pc \in {"unmeta", "unnca"},
           task.pc = "unmeta" => task.t \notin metas[task.from],
           task.pc = "unnca" => task.part = NcaCount + 1
    PROVE  EngineInv'
<1>1. rb = NoRollback BY NotThere
<1>2. task' = Idle \/ (task.kind = "move" /\ task.pc \in {"unmeta", "unnca"} /\ Go("title")) BY DEF AfterDelete, Go
<1>3. QED BY <1>1, <1>2, EndKeeps

LEMMA UnMetaKeeps == ASSUME EngineInv, UnMeta PROVE EngineInv'
<1>1. Shapes /\ TaskInv /\ RollbackInv /\ RecordInv /\ WholeInv /\ PromisedInv /\ SettledInv /\ HolderInv
      /\ SavingInv /\ FileInv
  BY DEF EngineInv
<1>2. /\ task.pc = "unmeta" /\ saving.step = "none"
      /\ UNCHANGED <<content, holders, listed, files, saving, rb, promised, bare>>
      /\ spent' \in Spending /\ excuses \subseteq excuses'
      /\ \/ metas' = [metas EXCEPT ![task.from] = @ \ {task.t}]
         \/ metas' = metas /\ "undoFailed" \in excuses'
      /\ task' = IF task.t \in metas[task.from] THEN [task EXCEPT !.pc = "unnca", !.part = 1] ELSE AfterDelete
  BY <1>1 DEF UnMeta, At, Trouble, Excuse, Spending, Shapes
<1>3. task \in ATask /\ metas \in [Storages -> SUBSET Titles] BY <1>1 DEF Shapes
<1>4. /\ rb = NoRollback /\ task.kind \in {"uninstall", "move"} /\ task.from \in Storages /\ task.t \in Titles
      /\ Record = listed
      /\ \A c \in Record : c \in Copies /\ (c.t # task.t \/ c.at # task.from)
  BY <1>2, NotThere
<1>5. ASSUME task.t \notin metas[task.from] PROVE EngineInv'
  <2>1. metas' = metas
    <3>1. metas[task.from] \ {task.t} = metas[task.from] BY <1>5
    <3>2. [metas EXCEPT ![task.from] = metas[task.from]] = metas BY <1>3
    <3>3. QED BY <1>2, <3>1, <3>2
  <2>2. OnlyTask BY <1>2, <2>1 DEF OnlyTask
  <2>3. task' = AfterDelete BY <1>2, <1>5
  <2>4. QED BY <1>2, <1>5, <2>2, <2>3, AfterDeleteKeeps
<1>6. ASSUME task.t \in metas[task.from] PROVE EngineInv'
  <2>1. /\ task' \in ATask /\ task'.pc = "unnca" /\ task'.kind = task.kind /\ task'.at = task.at
        /\ task'.part = 1 /\ task'.t = task.t /\ task'.from = task.from /\ task'.todo = task.todo
    <3>1. task' = [task EXCEPT !.pc = "unnca", !.part = 1] BY <1>2, <1>6
    <3>2. 1 \in 1..(NcaCount + 1) BY EngineAssumption
    <3>3. QED BY <1>3, <3>1, <3>2 DEF ATask, Pcs
  <2>2. /\ metas' \in [Storages -> SUBSET Titles]
        /\ \A s \in Storages, t \in Titles : s # task.from \/ t # task.t => (t \in metas'[s] <=> t \in metas[s])
        /\ "undoFailed" \notin excuses' => task.t \notin metas'[task.from]
    BY <1>2, <1>3, <1>4
  <2>3. rb.holders = {} /\ rb.ncas = {} /\ ~rb.meta BY <1>4, ConstantsAreTyped
  <2>4. Shapes' BY <1>1, <1>2, <2>1, <2>2 DEF Shapes
  <2>5. TaskInv' BY <1>1, <1>2, <2>1 DEF TaskInv, Bringing
  <2>6. RollbackInv' BY <1>2, <1>4, <2>1, <2>3 DEF RollbackInv, Bringing
  <2>7. Record' = Record BY <1>2, <1>4, <2>1 DEF Record
  <2>8. RecordInv' BY <1>1, <1>2, <2>1, <2>7 DEF RecordInv, OnlyItself, Bringing
  <2>9. WholeInv'
    <3>1. Plain' => Plain BY <1>2 DEF Plain
    <3>2. ASSUME Plain', NEW c \in Record' PROVE IsWhole(c)'
      <4>1. IsWhole(c) BY <1>1, <2>7, <3>1, <3>2 DEF WholeInv
      <4>2. c.t \in Titles /\ c.at \in Storages /\ (c.t # task.t \/ c.at # task.from) BY <1>4, <2>7, <3>2 DEF Copies
      <4>3. c.t \in metas'[c.at] <=> c.t \in metas[c.at] BY <2>2, <4>2
      <4>4. QED BY <1>2, <4>1, <4>3 DEF IsWhole
    <3>3. QED BY <1>2, <2>1, <2>3, <3>2 DEF WholeInv
  <2>10. PromisedInv' BY <1>1, <1>2, <2>1, <2>7 DEF PromisedInv, Bringing
  <2>11. SettledInv'
    <3>1. SUFFICES ASSUME excuses' \cap {"crashed", "undoFailed", "reinstall"} = {} PROVE SettledInv' BY DEF SettledInv
    <3>2. excuses \cap {"crashed", "undoFailed", "reinstall"} = {} /\ "undoFailed" \notin excuses' BY <1>2, <3>1
    <3>3. ~Brings /\ ~Brings' BY <1>2, <2>1 DEF Brings, Bringing
    <3>4. \A s \in Storages, t \in Titles : Settled(s, t) BY <1>1, <1>2, <3>2, <3>3 DEF SettledInv
    <3>5. NcasOf(task.t) \subseteq content[task.from] BY <1>4, <1>6, <3>4 DEF Settled
    <3>6. NcasOf(task'.t) \cap content'[task'.from] = {task'.t} \X (task'.part..NcaCount)
      BY <1>2, <2>1, <3>5 DEF NcasOf, Parts
    <3>7. ASSUME NEW s \in Storages, NEW t \in Titles, s # task.from \/ t # task.t PROVE Settled(s, t)'
      <4>1. t \in metas'[s] <=> t \in metas[s] BY <2>2, <3>7
      <4>2. Settled(s, t) BY <3>4
      <4>3. QED BY <1>2, <4>1, <4>2 DEF Settled
    <3>8. holders' \subseteq rb'.holders BY <1>1, <1>2, <3>2 DEF SettledInv
    <3>9. QED BY <2>1, <2>2, <3>2, <3>3, <3>6, <3>7, <3>8 DEF SettledInv
  <2>12. HolderInv' BY <1>1, <1>2, <2>1 DEF HolderInv
  <2>13. FileInv' /\ SavingInv'
    <3>1. task.pc # "down" /\ task'.pc # "replace" /\ UNCHANGED <<files, saving, bare>> BY <1>2, <2>1
    <3>2. QED BY <1>1, <1>2, <3>1, FilesRest
  <2>14. QED BY <2>4, <2>5, <2>6, <2>8, <2>9, <2>10, <2>11, <2>12, <2>13 DEF EngineInv
<1>7. QED BY <1>5, <1>6

LEMMA UnNcaKeeps == ASSUME EngineInv, UnNca PROVE EngineInv'
<1>1. Shapes /\ TaskInv /\ RollbackInv /\ RecordInv /\ WholeInv /\ PromisedInv /\ SettledInv /\ HolderInv
      /\ SavingInv /\ FileInv
  BY DEF EngineInv
<1>2. /\ task.pc = "unnca" /\ saving.step = "none" /\ task.part \in Parts
      /\ UNCHANGED <<holders, metas, listed, files, saving, rb, promised, bare>>
      /\ spent' \in Spending /\ excuses \subseteq excuses'
      /\ \/ content' = [content EXCEPT ![task.from] = @ \ {<<task.t, task.part>>}]
         \/ content' = content /\ "undoFailed" \in excuses'
      /\ task' = [task EXCEPT !.part = @ + 1]
  BY <1>1 DEF UnNca, UnNcaBody, At, Trouble, Excuse, Spending, Shapes, Nca
<1>3. task \in ATask /\ content \in [Storages -> SUBSET Ncas] BY <1>1 DEF Shapes
<1>4. /\ rb = NoRollback /\ task.kind \in {"uninstall", "move"} /\ task.from \in Storages /\ task.t \in Titles
      /\ Record = listed
      /\ \A c \in Record : c \in Copies /\ (c.t # task.t \/ c.at # task.from)
  BY <1>2, NotThere
<1>5. /\ task' \in ATask /\ task'.pc = task.pc /\ task'.kind = task.kind /\ task'.at = task.at
      /\ task'.part = task.part + 1 /\ task'.t = task.t /\ task'.from = task.from /\ task'.todo = task.todo
  <2>1. task.part + 1 \in 1..(NcaCount + 1) BY <1>2, EngineAssumption DEF Parts
  <2>2. QED BY <1>2, <1>3, <2>1 DEF ATask
<1>6. /\ content' \in [Storages -> SUBSET Ncas]
      /\ \A s \in Storages, t \in Titles : s # task.from \/ t # task.t =>
            NcasOf(t) \cap content'[s] = NcasOf(t) \cap content[s]
      /\ "undoFailed" \notin excuses' => content'[task.from] = content[task.from] \ {<<task.t, task.part>>}
  <2>1. \A t \in Titles : t # task.t => <<task.t, task.part>> \notin NcasOf(t) BY DEF NcasOf
  <2>2. QED BY <1>2, <1>3, <1>4, <2>1
<1>7. rb.holders = {} /\ rb.ncas = {} /\ ~rb.meta BY <1>4, ConstantsAreTyped
<1>8. Shapes' BY <1>1, <1>2, <1>5, <1>6 DEF Shapes
<1>9. TaskInv' BY <1>1, <1>2, <1>5 DEF TaskInv, Bringing
<1>10. RollbackInv' BY <1>2, <1>4, <1>5, <1>7 DEF RollbackInv, Bringing
<1>11. Record' = Record BY <1>2, <1>4, <1>5 DEF Record
<1>12. RecordInv' BY <1>1, <1>2, <1>5, <1>11 DEF RecordInv, OnlyItself, Bringing
<1>13. WholeInv'
  <2>1. Plain' => Plain BY <1>2 DEF Plain
  <2>2. ASSUME Plain', NEW c \in Record' PROVE IsWhole(c)'
    <3>1. IsWhole(c) BY <1>1, <1>11, <2>1, <2>2 DEF WholeInv
    <3>2. c.t \in Titles /\ c.at \in Storages /\ (c.t # task.t \/ c.at # task.from) BY <1>4, <1>11, <2>2 DEF Copies
    <3>3. NcasOf(c.t) \cap content'[c.at] = NcasOf(c.t) \cap content[c.at] BY <1>6, <3>2
    <3>4. QED BY <1>2, <3>1, <3>3 DEF IsWhole
  <2>3. QED BY <1>2, <1>5, <1>7, <2>2 DEF WholeInv
<1>14. PromisedInv' BY <1>1, <1>2, <1>5, <1>11 DEF PromisedInv, Bringing
<1>15. SettledInv'
  <2>1. SUFFICES ASSUME excuses' \cap {"crashed", "undoFailed", "reinstall"} = {} PROVE SettledInv' BY DEF SettledInv
  <2>2. excuses \cap {"crashed", "undoFailed", "reinstall"} = {} /\ "undoFailed" \notin excuses' BY <1>2, <2>1
  <2>3. ~Brings /\ ~Brings' BY <1>2, <1>5 DEF Brings, Bringing
  <2>4. /\ task.t \notin metas[task.from]
        /\ NcasOf(task.t) \cap content[task.from] = {task.t} \X (task.part..NcaCount)
    BY <1>1, <1>2, <2>2 DEF SettledInv
  <2>5. task.part..NcaCount = {task.part} \cup ((task.part + 1)..NcaCount) /\ task.part \notin (task.part + 1)..NcaCount
    BY <1>2, EngineAssumption DEF Parts
  <2>6. NcasOf(task'.t) \cap content'[task'.from] = {task'.t} \X (task'.part..NcaCount)
    BY <1>5, <1>6, <2>2, <2>4, <2>5
  <2>7. ASSUME NEW s \in Storages, NEW t \in Titles, s # task.from \/ t # task.t PROVE Settled(s, t)'
    <3>1. Settled(s, t) BY <1>1, <1>2, <2>2, <2>3, <2>7 DEF SettledInv
    <3>2. NcasOf(t) \cap content'[s] = NcasOf(t) \cap content[s] BY <1>6, <2>7
    <3>3. QED BY <1>2, <3>1, <3>2 DEF Settled
  <2>8. holders' \subseteq rb'.holders BY <1>1, <1>2, <2>2 DEF SettledInv
  <2>9. QED BY <1>2, <1>5, <2>3, <2>4, <2>6, <2>7, <2>8 DEF SettledInv
<1>16. HolderInv' BY <1>1, <1>2, <1>5 DEF HolderInv
<1>17. FileInv' /\ SavingInv'
  <2>1. task.pc # "down" /\ task'.pc # "replace" /\ UNCHANGED <<files, saving, bare>> BY <1>2, <1>5
  <2>2. QED BY <1>1, <1>2, <2>1, FilesRest
<1>18. QED BY <1>8, <1>9, <1>10, <1>12, <1>13, <1>14, <1>15, <1>16, <1>17 DEF EngineInv

LEMMA DeletedKeeps == ASSUME EngineInv, Deleted PROVE EngineInv'
<1>1. spent \in Spending BY DEF EngineInv, Shapes
<1>2. OnlyTask BY <1>1 DEF Deleted, OnlyTask, disk, history
<1>3. task.pc = "unnca" /\ saving.step = "none" /\ task.part = NcaCount + 1 /\ task' = AfterDelete
  BY DEF Deleted, At
<1>4. QED BY <1>2, <1>3, AfterDeleteKeeps

LEMMA TaskEndsKeeps == ASSUME EngineInv, AllTitlesDone \/ Undone PROVE EngineInv'
<1>1. spent \in Spending /\ RollbackInv BY DEF EngineInv, Shapes
<1>2. OnlyTask BY <1>1 DEF AllTitlesDone, Undone, OnlyTask, disk, history
<1>3. task.pc \in {"title", "undo"} /\ saving.step = "none" /\ task' = Idle BY DEF AllTitlesDone, Undone, At
<1>4. rb = NoRollback BY <1>1, <1>3 DEF AllTitlesDone, Undone, At, RollbackInv, Bringing
<1>5. QED BY <1>2, <1>3, <1>4, EndKeeps

LEMMA TaskFailsKeeps == ASSUME EngineInv, Fails \/ SourceMissing PROVE EngineInv'
<1>1. Shapes BY DEF EngineInv
<1>2. OnlyTask BY <1>1 DEF Fails, SourceMissing, OnlyTask, Trouble, disk, history, Shapes, Spending
<1>3. task.pc \in {"title", "nca", "create", "stream", "list", "complete"} /\ saving.step = "none" /\ Go("undo")
  BY DEF Fails, SourceMissing, At
<1>4. QED BY <1>2, <1>3, GiveUpKeeps

LEMMA DeleteCompletelyKeeps == ASSUME EngineInv, DeleteCompletely PROVE EngineInv'
<1>1. Shapes /\ TaskInv /\ RollbackInv /\ RecordInv /\ WholeInv /\ PromisedInv /\ SettledInv /\ HolderInv
      /\ SavingInv /\ FileInv
  BY DEF EngineInv
<1>2. /\ task.pc = "complete" /\ saving.step = "none" /\ listed' = {}
      /\ content' = [s \in Storages |-> {n \in content[s] : [t |-> n[1], at |-> s] \notin listed}]
      /\ metas' = [s \in Storages |-> {t \in metas[s] : [t |-> t, at |-> s] \notin listed}]
      /\ UNCHANGED <<holders, files, saving, rb, promised, excuses, bare, spent>>
      /\ task' = Idle \/ task' = [task EXCEPT !.pc = "unmeta"]
  BY DEF DeleteCompletely, At, history
<1>3. task \in ATask BY <1>1 DEF Shapes
<1>4. rb = NoRollback /\ task.kind = "uninstall" /\ task.t = Base BY <1>1, <1>2 DEF RollbackInv, Bringing, TaskInv
<1>5. promised = {} BY <1>1, <1>4 DEF PromisedInv
<1>6. /\ task' \in ATask /\ task'.pc \in {"idle", "unmeta"}
      /\ task'.pc = "idle" => task'.kind = "none"
      /\ task'.pc = "unmeta" => task'.kind = "uninstall" /\ task'.from = task.from /\ task'.at = task.at
  <2>1. CASE task' = Idle BY <2>1, ConstantsAreTyped
  <2>2. CASE task' = [task EXCEPT !.pc = "unmeta"] BY <1>3, <1>4, <2>2 DEF ATask, Pcs
  <2>3. QED BY <1>2, <2>1, <2>2
<1>7. content' \in [Storages -> SUBSET Ncas] /\ metas' \in [Storages -> SUBSET Titles] BY <1>1, <1>2 DEF Shapes
<1>8. rb.holders = {} /\ rb.ncas = {} /\ ~rb.meta BY <1>4, ConstantsAreTyped
<1>9. Shapes' BY <1>1, <1>2, <1>6, <1>7 DEF Shapes
<1>10. TaskInv' BY <1>1, <1>2, <1>4, <1>6 DEF TaskInv, Bringing
<1>11. RollbackInv' BY <1>2, <1>4, <1>6, <1>8 DEF RollbackInv, Bringing
<1>12. Record' = {} BY <1>2, <1>6 DEF Record
<1>13. RecordInv' BY <1>6, <1>12 DEF RecordInv, Unique, OnlyItself, Bringing
<1>14. WholeInv' BY <1>2, <1>6, <1>8, <1>12 DEF WholeInv
<1>15. PromisedInv' BY <1>2, <1>5 DEF PromisedInv
<1>16. SettledInv'
  <2>1. SUFFICES ASSUME excuses \cap {"crashed", "undoFailed", "reinstall"} = {} PROVE SettledInv' BY <1>2 DEF SettledInv
  <2>2. ~Brings /\ ~Brings' BY <1>2, <1>4, <1>6 DEF Brings, Bringing
  <2>3. ASSUME NEW s \in Storages, NEW t \in Titles PROVE Settled(s, t)'
    <3>1. Settled(s, t) BY <1>1, <1>2, <2>1, <2>2 DEF SettledInv
    <3>2. \A n \in NcasOf(t) : n[1] = t BY DEF NcasOf
    <3>3. CASE [t |-> t, at |-> s] \in listed
      <4>1. t \notin metas'[s] BY <1>2, <3>3
      <4>2. NcasOf(t) \cap content'[s] = {} BY <1>2, <3>2, <3>3
      <4>3. QED BY <4>1, <4>2 DEF Settled
    <3>4. CASE [t |-> t, at |-> s] \notin listed
      <4>1. t \in metas'[s] <=> t \in metas[s] BY <1>2, <3>4
      <4>2. NcasOf(t) \cap content'[s] = NcasOf(t) \cap content[s] BY <1>2, <3>2, <3>4
      <4>3. QED BY <3>1, <4>1, <4>2 DEF Settled
    <3>5. QED BY <3>3, <3>4
  <2>4. holders' \subseteq rb'.holders BY <1>1, <1>2, <2>1 DEF SettledInv
  <2>5. QED BY <1>6, <2>2, <2>3, <2>4 DEF SettledInv
<1>17. HolderInv' BY <1>1, <1>2, <1>6 DEF HolderInv
<1>18. FileInv' /\ SavingInv'
  <2>1. task.pc # "down" /\ task'.pc # "replace" /\ UNCHANGED <<files, saving, bare>> /\ excuses \subseteq excuses'
    BY <1>2, <1>6
  <2>2. QED BY <1>1, <1>2, <2>1, FilesRest
<1>19. QED BY <1>9, <1>10, <1>11, <1>13, <1>14, <1>15, <1>16, <1>17, <1>18 DEF EngineInv

-----------------------------------------------------------------------------
(* Crashes and the next start.                                               *)

(* A record lost to a crash between deleting and pushing it held nothing, or
   its loss is excused. *)
LEMMA CrashLoses ==
    ASSUME EngineInv, task.pc = "push", excuses \cap {"recordLost", "otherVersion"} = {}, ~RecordInHand
    PROVE  promised = {}
<1>1. PromisedInv /\ RecordInv BY DEF EngineInv
<1>2. promised \subseteq Record /\ "otherVersion" \notin excuses BY <1>1 DEF PromisedInv
<1>3. /\ Record = task.existing /\ Record \in SUBSET Copies /\ Unique(Record) /\ Here \in Copies /\ There \in Copies
      /\ task.kind \in {"install", "move", "uninstall"}
      /\ task.kind = "install" => Changed(task.existing) = Merged(Record, Here)
      /\ task.kind = "uninstall" => Changed(task.existing) = Removed(Record, There)
      /\ task.kind = "move" => /\ Changed(task.existing) = Moved(Record, There, task.at)
                               /\ task.at # There.at /\ task.at \in Storages
  BY RecordPushed
<1>4. Record = {} \/ Changed(task.existing) = {} BY <1>3 DEF RecordInHand
<1>5. CASE Record = {} BY <1>2, <1>5
<1>6. CASE Changed(task.existing) = {}
  <2>1. task.kind # "install" BY <1>3, <1>6, MergingTitles
  <2>2. task.kind = "move" => Record = {} BY <1>3, <1>6, MovingTitles
  <2>3. CASE task.kind = "uninstall"
    <3>1. OnlyItself(Record, There) /\ There \notin promised
      BY <1>1, <1>2, <2>3 DEF RecordInv, PromisedInv, Bringing
    <3>2. Record \ {There} = {} BY <1>3, <1>6, <2>3, <3>1, RemovingTitles
    <3>3. QED BY <1>2, <3>1, <3>2
  <2>4. QED BY <1>2, <1>3, <2>1, <2>2, <2>3
<1>7. QED BY <1>4, <1>5, <1>6

LEMMA CrashKeeps == ASSUME EngineInv, Crash PROVE EngineInv'
<1>1. Shapes /\ TaskInv /\ RollbackInv /\ RecordInv /\ WholeInv /\ PromisedInv /\ SettledInv /\ HolderInv
      /\ SavingInv /\ FileInv
  BY DEF EngineInv
<1>2. /\ task.pc # "down" /\ task' = Down /\ saving' = NoSave /\ rb' = NoRollback
      /\ UNCHANGED <<content, holders, metas, listed, files, promised, bare>>
      /\ spent' \in Spending /\ excuses \subseteq excuses' /\ "crashed" \in excuses'
      /\ RecordInHand => "recordLost" \in excuses'
      /\ excuses' \subseteq excuses \cup {"crashed", "recordLost"}
  BY <1>1 DEF Crash, Trouble, Spending, Shapes, disk
<1>3. task' \in ATask /\ task'.pc = "down" /\ task'.kind = "none" /\ saving' \in ASave /\ saving'.step = "none"
      /\ rb' \in ARollback /\ rb'.holders = {} /\ rb'.ncas = {} /\ ~rb'.meta
  BY <1>2, ConstantsAreTyped
<1>4. Shapes' BY <1>1, <1>2, <1>3 DEF Shapes
<1>5. TaskInv' BY <1>3 DEF TaskInv, Bringing
<1>6. RollbackInv' BY <1>2, <1>3 DEF RollbackInv, Bringing
<1>7. Record' = listed /\ (Record' = Record \/ (task.pc = "push" /\ Record' = {}))
  BY <1>1, <1>2, <1>3 DEF Record, RecordInv
<1>8. RecordInv' BY <1>1, <1>3, <1>7 DEF RecordInv, Unique, Bringing
<1>9. WholeInv' BY <1>1, <1>2, <1>3, <1>7 DEF WholeInv, Plain, IsWhole
<1>10. PromisedInv'
  <2>1. SUFFICES ASSUME excuses' \cap {"recordLost", "otherVersion"} = {} PROVE promised' \subseteq Record'
    BY <1>3 DEF PromisedInv
  <2>2. excuses \cap {"recordLost", "otherVersion"} = {} /\ ~RecordInHand BY <1>2, <2>1
  <2>3. CASE task.pc = "push" BY <1>2, <2>2, <2>3, CrashLoses
  <2>4. CASE task.pc # "push" BY <1>1, <1>2, <1>7, <2>2, <2>4 DEF PromisedInv
  <2>5. QED BY <2>3, <2>4
<1>11. SettledInv' BY <1>2 DEF SettledInv
<1>12. Journal' = Journal BY <1>2, Zenon DEF Journal, Journaled
<1>13. HolderInv'
  <2>1. task.pc \in Pcs BY <1>1 DEF Shapes, ATask
  <2>2. excuses \cap {"journalFailed", "cleanupFailed", "undoFailed"} = {} => holders \subseteq Journal
    BY <1>1, <2>1 DEF HolderInv
  <2>3. QED BY <1>2, <1>3, <1>12, <2>2 DEF HolderInv
<1>14. SavingInv' BY <1>3 DEF SavingInv
<1>15. FileInv' BY <1>1, <1>2, <1>3 DEF FileInv
<1>16. QED BY <1>4, <1>5, <1>6, <1>8, <1>9, <1>10, <1>11, <1>13, <1>14, <1>15 DEF EngineInv

(* A step that only takes the task from one resting place to another: starting
   the app, cleaning up, ending a replacement. *)
LEMMA RestingFrame ==
    ASSUME EngineInv, UNCHANGED <<content, metas, listed, rb, promised>>, excuses \subseteq excuses',
           spent' \in Spending, bare' \in SUBSET FileNames, FilesTyped(files'), saving' \in ASave,
           holders' \in SUBSET holders,
           task' = task \/ (/\ task.pc \in {"down", "clean", "replace"}
                            /\ task' \in ATask /\ task'.kind = "none" /\ task'.pc \in {"idle", "clean"})
    PROVE  Shapes' /\ TaskInv' /\ RollbackInv' /\ RecordInv' /\ WholeInv' /\ PromisedInv' /\ SettledInv'
<1>1. Shapes /\ TaskInv /\ RollbackInv /\ RecordInv /\ WholeInv /\ PromisedInv /\ SettledInv BY DEF EngineInv
<1>2. Shapes' BY <1>1 DEF Shapes
<1>3. CASE task' = task
  <2>1. Record' = Record /\ Here' = Here /\ There' = There /\ Nca' = Nca BY <1>3 DEF Record, Here, There, Nca
  <2>2. Brings' = Brings /\ WasThere' = WasThere BY <1>3 DEF Brings, WasThere
  <2>3. TaskInv' /\ RollbackInv' BY <1>1, <1>3 DEF TaskInv, RollbackInv
  <2>4. RecordInv' BY <1>1, <1>3, <2>1 DEF RecordInv, Unique, OnlyItself
  <2>5. WholeInv' BY <1>1, <1>3, <2>1 DEF WholeInv, Plain, IsWhole
  <2>6. PromisedInv' BY <1>1, <1>3, <2>1 DEF PromisedInv
  <2>7. SettledInv' BY <1>1, <1>3, <2>2 DEF SettledInv, Settled
  <2>8. QED BY <1>2, <2>3, <2>4, <2>5, <2>6, <2>7
<1>4. CASE /\ task.pc \in {"down", "clean", "replace"}
           /\ task' \in ATask /\ task'.kind = "none" /\ task'.pc \in {"idle", "clean"}
  <2>1. rb = NoRollback BY <1>1, <1>4 DEF RollbackInv, Bringing
  <2>2. rb.holders = {} /\ rb.ncas = {} /\ ~rb.meta BY <2>1, ConstantsAreTyped
  <2>3. Record' = Record BY <1>4 DEF Record
  <2>4. ~Brings /\ ~Brings' BY <1>4 DEF Brings, Bringing
  <2>5. TaskInv' BY <1>4 DEF TaskInv, Bringing
  <2>6. RollbackInv' BY <1>4, <2>1, <2>2 DEF RollbackInv, Bringing
  <2>7. RecordInv' BY <1>1, <1>4, <2>3 DEF RecordInv, Unique, Bringing
  <2>8. WholeInv' BY <1>1, <1>4, <2>2, <2>3 DEF WholeInv, Plain, IsWhole
  <2>9. PromisedInv' BY <1>1, <1>4, <2>3 DEF PromisedInv
  <2>10. SettledInv' BY <1>1, <1>4, <2>4 DEF SettledInv, Settled
  <2>11. QED BY <1>2, <2>5, <2>6, <2>7, <2>8, <2>9, <2>10
<1>5. QED BY <1>3, <1>4

LEMMA StartKeeps == ASSUME EngineInv, Start PROVE EngineInv'
<1>1. Shapes /\ HolderInv /\ SavingInv /\ FileInv BY DEF EngineInv
<1>2. /\ task.pc = "down" /\ saving.step = "none"
      /\ UNCHANGED <<content, holders, metas, listed, saving, rb, promised, excuses, bare, spent>>
      /\ files' = [files EXCEPT !["app"] = Recovered(@)]
      /\ task' = IF Journal = {} THEN Idle ELSE [Down EXCEPT !.pc = "clean", !.stale = Journal]
  BY DEF Start, At, history, Journal
<1>3. FilesTyped(files) /\ Journal \in SUBSET Holders BY <1>1, JournalIsTyped DEF Shapes
<1>4. /\ task' \in ATask /\ task'.kind = "none" /\ task'.pc \in {"idle", "clean"}
      /\ task'.pc = "idle" => Journal = {}
      /\ task'.pc = "clean" => task'.stale = Journal
  <2>1. CASE Journal = {} BY <1>2, <2>1, ConstantsAreTyped
  <2>2. CASE Journal # {}
    <3>1. task' = [Down EXCEPT !.pc = "clean", !.stale = Journal] BY <1>2, <2>2
    <3>2. QED BY <1>3, <3>1, ConstantsAreTyped DEF ATask, Pcs
  <2>3. QED BY <2>1, <2>2
<1>5. Recovered(files["app"]) \in AnNro /\ (files["app"].dest # Absent \/ files["app"].old # Absent =>
         Recovered(files["app"]).dest # Absent)
  BY <1>3 DEF FilesTyped, AnNro, Recovered
<1>6. /\ FilesTyped(files') /\ files'["journal"] = files["journal"] /\ files'["homebrew"] = files["homebrew"]
      /\ files'["app"] = Recovered(files["app"])
  BY <1>2, <1>3, <1>5, FileChanges DEF FileNames
<1>7. Shapes' /\ TaskInv' /\ RollbackInv' /\ RecordInv' /\ WholeInv' /\ PromisedInv' /\ SettledInv'
  <2>1. saving' \in ASave /\ holders' \in SUBSET holders /\ bare' \in SUBSET FileNames /\ spent' \in Spending
        /\ excuses \subseteq excuses' /\ UNCHANGED <<content, metas, listed, rb, promised>>
    BY <1>1, <1>2 DEF Shapes
  <2>2. QED BY <1>2, <1>4, <1>6, <2>1, RestingFrame
<1>8. HolderInv'
  <2>1. Journal' = Journal BY <1>6, Zenon DEF Journal, Journaled
  <2>2. QED BY <1>1, <1>2, <1>4, <2>1 DEF HolderInv
<1>9. SavingInv' BY <1>2, <1>4 DEF SavingInv
<1>10. FileInv'
  <2>1. \A f \in {"app", "homebrew"} \ bare' : files'[f].dest # Absent \/ files'[f].old # Absent
    BY <1>1, <1>2, <1>5, <1>6 DEF FileInv
  <2>2. "app" \notin bare' => files'["app"].dest # Absent BY <1>1, <1>2, <1>5, <1>6 DEF FileInv
  <2>3. saving'.step = "none" BY <1>2
  <2>4. QED BY <2>1, <2>2, <2>3 DEF FileInv
<1>11. QED BY <1>7, <1>8, <1>9, <1>10 DEF EngineInv

LEMMA CleaningKeeps == ASSUME EngineInv, ClearJournal \/ \E h \in Holders : CleanHolder(h) PROVE EngineInv'
<1>1. Shapes /\ TaskInv /\ HolderInv /\ SavingInv /\ FileInv BY DEF EngineInv
<1>2. task \in ATask /\ FilesTyped(files) BY <1>1 DEF Shapes
<1>3. ASSUME NEW h \in Holders, CleanHolder(h) PROVE EngineInv'
  <2>1. /\ task.pc = "clean" /\ saving.step = "none"
        /\ UNCHANGED <<content, metas, listed, files, saving, rb, promised, bare>>
        /\ spent' \in Spending /\ excuses \subseteq excuses'
        /\ holders' = holders \ {h} \/ (holders' = holders /\ "cleanupFailed" \in excuses')
        /\ task' = [task EXCEPT !.stale = @ \ {h}]
    BY <1>1, <1>3 DEF CleanHolder, At, Trouble, Excuse, Spending, Shapes
  <2>2. task' \in ATask /\ task'.kind = "none" /\ task'.pc = "clean" /\ task'.stale = task.stale \ {h}
    BY <1>1, <1>2, <2>1 DEF ATask, TaskInv
  <2>3. Shapes' /\ TaskInv' /\ RollbackInv' /\ RecordInv' /\ WholeInv' /\ PromisedInv' /\ SettledInv'
    <3>1. saving' \in ASave /\ holders' \in SUBSET holders /\ bare' \in SUBSET FileNames /\ FilesTyped(files')
          /\ UNCHANGED <<content, metas, listed, rb, promised>>
      BY <1>1, <2>1 DEF Shapes
    <3>2. QED BY <2>1, <2>2, <3>1, RestingFrame
  <2>4. Journal' = Journal BY <2>1, Zenon DEF Journal, Journaled
  <2>5. HolderInv' BY <1>1, <2>1, <2>2, <2>4 DEF HolderInv
  <2>6. FileInv' /\ SavingInv' BY <1>1, <2>1, <2>2, FilesRest
  <2>7. QED BY <2>3, <2>5, <2>6 DEF EngineInv
<1>4. ASSUME ClearJournal PROVE EngineInv'
  <2> DEFINE x == [files["journal"] EXCEPT !.dest = Absent]
  <2>1. /\ task.pc = "clean" /\ saving.step = "none" /\ task.stale = {} /\ task' = Idle
        /\ UNCHANGED <<content, holders, metas, listed, saving, rb, promised, excuses, bare, spent>>
        /\ files' = [files EXCEPT !["journal"] = x]
    BY <1>4 DEF ClearJournal, At, history
  <2>2. task' \in ATask /\ task'.kind = "none" /\ task'.pc = "idle" BY <2>1, ConstantsAreTyped
  <2>3. x \in AJournal
    <3>1. Absent \in Noted BY DEF Noted
    <3>2. QED BY <1>2, <3>1 DEF FilesTyped, AJournal
  <2> HIDE DEF x
  <2>4. "journal" \in FileNames BY DEF FileNames
  <2>5. FilesTyped(files') /\ files'["app"] = files["app"] /\ files'["homebrew"] = files["homebrew"]
    <3>1. FilesTyped(files') /\ \A g \in FileNames \ {"journal"} : files'[g] = files[g]
      BY <1>2, <2>1, <2>3, <2>4, FileChanges
    <3>2. QED BY <3>1 DEF FileNames
  <2>6. Shapes' /\ TaskInv' /\ RollbackInv' /\ RecordInv' /\ WholeInv' /\ PromisedInv' /\ SettledInv'
    <3>1. saving' \in ASave /\ holders' \in SUBSET holders /\ bare' \in SUBSET FileNames /\ spent' \in Spending
          /\ excuses \subseteq excuses' /\ UNCHANGED <<content, metas, listed, rb, promised>>
      BY <1>1, <2>1 DEF Shapes
    <3>2. QED BY <2>1, <2>2, <2>5, <3>1, RestingFrame
  <2>7. HolderInv' BY <1>1, <2>1, <2>2 DEF HolderInv
  <2>8. SavingInv' BY <2>1, <2>2 DEF SavingInv
  <2>9. FileInv' BY <1>1, <2>1, <2>2, <2>5 DEF FileInv
  <2>10. QED BY <2>6, <2>7, <2>8, <2>9 DEF EngineInv
<1>5. QED BY <1>3, <1>4

-----------------------------------------------------------------------------
(* Replacing a file.                                                         *)

ValueOf(name) == IF name = "journal" THEN Noted ELSE Versions
FileOf(name) == IF name = "journal" THEN AJournal ELSE AnNro

(* The fields of a file after a step and after a failure. *)
LEMMA FileSteps ==
    ASSUME NEW name, NEW old \in FileOf(name), NEW new \in ValueOf(name), NEW s \in Steps
    PROVE  /\ AfterStep(old, s, new) \in FileOf(name)
           /\ AfterStep(old, s, new).part = IF s = "write" THEN new ELSE IF s = "swap" THEN Absent ELSE old.part
           /\ AfterStep(old, s, new).dest = IF s = "park" THEN Absent ELSE IF s = "swap" THEN old.part ELSE old.dest
           /\ AfterStep(old, s, new).old = IF s \in {"clear", "tidy"} THEN Absent
                                           ELSE IF s = "park" THEN old.dest ELSE old.old
           /\ AfterFailure(old, s) \in FileOf(name)
           /\ AfterFailure(old, s).dest = IF s = "swap" /\ old.old # Absent THEN old.old ELSE old.dest
           /\ AfterFailure(old, s).old = IF s = "swap" THEN Absent ELSE old.old
<1> DEFINE V == ValueOf(name)
           R == [part : V, dest : V, old : V]
<1>1. FileOf(name) = R BY DEF FileOf, ValueOf, AJournal, AnNro
<1>2. Absent \in V /\ new \in V BY DEF ValueOf, Noted, Versions
<1>3. old \in R BY <1>1
<1> HIDE DEF V
<1>4. /\ [old EXCEPT !.part = new] \in R /\ [old EXCEPT !.old = Absent] \in R /\ [old EXCEPT !.part = Absent] \in R
      /\ [old EXCEPT !.old = old.dest, !.dest = Absent] \in R /\ [old EXCEPT !.dest = old.part, !.part = Absent] \in R
      /\ [part |-> Absent, dest |-> old.old, old |-> Absent] \in R
  BY <1>2, <1>3
<1>5. CASE s = "write" BY <1>1, <1>3, <1>4, <1>5 DEF AfterStep, AfterFailure
<1>6. CASE s = "clear" BY <1>1, <1>3, <1>4, <1>6 DEF AfterStep, AfterFailure
<1>7. CASE s = "park" BY <1>1, <1>3, <1>4, <1>7 DEF AfterStep, AfterFailure
<1>8. CASE s = "swap" BY <1>1, <1>3, <1>4, <1>8 DEF AfterStep, AfterFailure, HadDest
<1>9. CASE s = "tidy" BY <1>1, <1>3, <1>4, <1>9 DEF AfterStep, AfterFailure
<1>10. QED BY <1>5, <1>6, <1>7, <1>8, <1>9 DEF Steps

(* The file being replaced, and what it can hold. *)
LEMMA FileAtHand ==
    ASSUME EngineInv, saving.step # "none"
    PROVE  /\ saving.file \in FileNames /\ saving.step \in Steps /\ task.pc # "down" /\ saving.new # Absent
           /\ files[saving.file] \in FileOf(saving.file) /\ saving.new \in ValueOf(saving.file)
           /\ saving.file = "journal" => saving.new \in SUBSET Holders /\ task.pc \in {"create", "nca", "undo"}
           /\ saving.file # "journal" => task.pc = "replace" /\ task.kind = "replace"
           /\ task.pc = "replace" <=> task.kind = "replace"
<1>1. Shapes /\ SavingInv /\ TaskInv BY DEF EngineInv
<1>2. saving.file \in FileNames /\ saving.step \in Steps BY <1>1 DEF Shapes, ASave
<1>3. Absent # "v2" /\ "v2" \in Versions /\ \A noted \in SUBSET Holders : Absent # noted /\ noted \in Noted
  BY EngineAssumption DEF Versions, Noted, Holders
<1>4. CASE saving.file = "journal"
  BY <1>1, <1>2, <1>3, <1>4 DEF SavingInv, TaskInv, Shapes, FilesTyped, FileOf, ValueOf
<1>5. CASE saving.file # "journal"
  <2>1. saving.file \in {"app", "homebrew"} BY <1>2, <1>5 DEF FileNames
  <2>2. saving.new = "v2" /\ task.pc = "replace" /\ task.kind = "replace" BY <1>1, <1>5 DEF SavingInv, TaskInv
  <2>3. files[saving.file] \in AnNro BY <1>1, <2>1 DEF Shapes, FilesTyped
  <2>4. QED BY <1>2, <1>3, <1>5, <2>2, <2>3 DEF FileOf, ValueOf
<1>6. QED BY <1>4, <1>5

LEMMA SaveStepKeeps == ASSUME EngineInv, SaveStep PROVE EngineInv'
<1> DEFINE f == saving.file
           s == saving.step
           next == NextStep(files[f], s)
           x == AfterStep(files[f], s, saving.new)
<1>1. Shapes /\ RollbackInv /\ HolderInv /\ SavingInv /\ FileInv BY DEF EngineInv
<1>2. /\ s # "none" /\ files' = [files EXCEPT ![f] = x]
      /\ saving' = IF next = "done" THEN NoSave ELSE [saving EXCEPT !.step = next]
      /\ bare' = IF s = "clear" /\ files[f].dest = Absent THEN bare \cup {f} ELSE bare
      /\ task' = IF next = "done" /\ task.kind = "replace" THEN Idle ELSE task
      /\ UNCHANGED <<content, holders, metas, listed, rb, promised, excuses, spent>>
  BY DEF SaveStep
<1>3. /\ f \in FileNames /\ s \in Steps /\ task.pc # "down" /\ saving.new # Absent
      /\ files[f] \in FileOf(f) /\ saving.new \in ValueOf(f)
      /\ f = "journal" => saving.new \in SUBSET Holders /\ task.pc \in {"create", "nca", "undo"}
      /\ f # "journal" => task.pc = "replace" /\ task.kind = "replace"
      /\ task.pc = "replace" <=> task.kind = "replace"
  BY <1>2, FileAtHand
<1>4. /\ x \in (IF f = "journal" THEN AJournal ELSE AnNro)
      /\ x.part = IF s = "write" THEN saving.new ELSE IF s = "swap" THEN Absent ELSE files[f].part
      /\ x.dest = IF s = "park" THEN Absent ELSE IF s = "swap" THEN files[f].part ELSE files[f].dest
      /\ x.old = IF s \in {"clear", "tidy"} THEN Absent ELSE IF s = "park" THEN files[f].dest ELSE files[f].old
  <2>1. x \in FileOf(f) BY <1>3, FileSteps
  <2>2. /\ x.part = IF s = "write" THEN saving.new ELSE IF s = "swap" THEN Absent ELSE files[f].part
        /\ x.dest = IF s = "park" THEN Absent ELSE IF s = "swap" THEN files[f].part ELSE files[f].dest
        /\ x.old = IF s \in {"clear", "tidy"} THEN Absent ELSE IF s = "park" THEN files[f].dest ELSE files[f].old
    BY <1>3, FileSteps
  <2>3. QED BY <2>1, <2>2 DEF FileOf
<1>5. next = CASE s = "write" -> "clear" [] s = "clear" -> "park" [] s = "park" -> "swap"
             [] s = "swap" -> (IF files[f].old # Absent THEN "tidy" ELSE "done") [] s = "tidy" -> "done"
  BY <1>3 DEF NextStep, HadDest, Steps
<1>6. saving \in ASave BY <1>1 DEF Shapes
<1> HIDE DEF x, next
<1>7. FilesTyped(files') /\ files'[f] = x /\ \A g \in FileNames \ {f} : files'[g] = files[g]
  <2>1. FilesTyped(files) BY <1>1 DEF Shapes
  <2>2. QED BY <1>2, <1>3, <1>4, <2>1, FileChanges
<1>8. next \in Steps \cup {"done"} BY <1>3, <1>5 DEF Steps
<1>9. /\ saving' \in ASave
      /\ next = "done" => saving'.step = "none"
      /\ next # "done" => saving'.step = next /\ saving'.file = f /\ saving'.new = saving.new
  <2>1. CASE next = "done" BY <1>2, <2>1, ConstantsAreTyped
  <2>2. CASE next # "done"
    <3>1. saving' = [saving EXCEPT !.step = next] /\ next \in Steps BY <1>2, <1>8, <2>2
    <3>2. QED BY <1>6, <2>2, <3>1 DEF ASave
  <2>3. QED BY <2>1, <2>2
<1>10. bare' \in SUBSET FileNames /\ bare \subseteq bare' BY <1>1, <1>2, <1>3 DEF Shapes
<1>11. task' = task \/ (/\ next = "done" /\ task.pc = "replace"
                        /\ task' \in ATask /\ task'.kind = "none" /\ task'.pc = "idle")
  BY <1>2, <1>3, ConstantsAreTyped
<1>12. task'.pc # task.pc => next = "done" /\ task.pc = "replace" /\ task'.pc = "idle" BY <1>11
<1>13. Shapes' /\ TaskInv' /\ RollbackInv' /\ RecordInv' /\ WholeInv' /\ PromisedInv' /\ SettledInv'
  <2>1. holders' \in SUBSET holders /\ spent' \in Spending /\ excuses \subseteq excuses'
        /\ UNCHANGED <<content, metas, listed, rb, promised>>
    BY <1>1, <1>2 DEF Shapes
  <2>2. task' = task \/ (/\ task.pc \in {"down", "clean", "replace"}
                         /\ task' \in ATask /\ task'.kind = "none" /\ task'.pc \in {"idle", "clean"})
    BY <1>11
  <2>3. QED BY <1>7, <1>9, <1>10, <2>1, <2>2, RestingFrame
<1>14. SavingInv'
  <2>1. CASE next = "done"
    <3>1. task'.pc # "replace" BY <1>2, <1>3, <2>1, ConstantsAreTyped
    <3>2. QED BY <1>9, <2>1, <3>1 DEF SavingInv
  <2>2. CASE next # "done"
    <3>1. task' = task /\ rb' = rb BY <1>2, <2>2
    <3>2. saving'.step # "none" BY <1>8, <1>9, <2>2 DEF Steps
    <3>3. next \in {"clear", "park", "swap"} => x.part = saving.new
      BY <1>1, <1>3, <1>4, <1>5 DEF SavingInv, Steps
    <3>4. next = "tidy" => x.dest = saving.new BY <1>1, <1>3, <1>4, <1>5 DEF SavingInv, Steps
    <3>5. QED BY <1>1, <1>2, <1>7, <1>9, <2>2, <3>1, <3>2, <3>3, <3>4 DEF SavingInv
  <2>3. QED BY <2>1, <2>2
<1>15. FileInv'
  <2>1. ASSUME NEW g \in {"app", "homebrew"} \ bare'
        PROVE  /\ files'[g].dest # Absent \/ files'[g].old # Absent
               /\ saving'.file = g /\ saving'.step = "park" => files'[g].dest # Absent
               /\ saving'.file = g /\ saving'.step = "swap" => files'[g].old # Absent
    <3>1. /\ g \in FileNames /\ (files[g].dest # Absent \/ files[g].old # Absent)
          /\ f = g /\ s = "park" => files[g].dest # Absent
          /\ f = g /\ s = "swap" => files[g].old # Absent
      BY <1>1, <1>10, <2>1 DEF FileInv, FileNames
    <3>2. CASE g = f
      <4>1. /\ s \in {"swap", "clear"} => files[f].part = saving.new
            /\ s = "tidy" => files[f].dest = saving.new
            /\ s = "clear" => files[f].dest # Absent
        BY <1>1, <1>2, <2>1, <3>2 DEF SavingInv
      <4>2. x.dest # Absent \/ x.old # Absent BY <1>3, <1>4, <3>1, <3>2, <4>1 DEF Steps
      <4>3. next = "park" => x.dest # Absent BY <1>3, <1>4, <1>5, <4>1 DEF Steps
      <4>4. next = "swap" => x.old # Absent BY <1>3, <1>4, <1>5, <3>1, <3>2 DEF Steps
      <4>5. QED BY <1>7, <1>9, <3>2, <4>2, <4>3, <4>4
    <3>3. CASE g # f
      <4>1. files'[g] = files[g] BY <1>7, <3>1, <3>3
      <4>2. saving'.step \in {"park", "swap"} => saving'.file = f BY <1>9
      <4>3. QED BY <3>1, <3>3, <4>1, <4>2
    <3>4. QED BY <3>2, <3>3
  <2>2. ASSUME "app" \notin bare', "notRestored" \notin excuses'
        PROVE  files'["app"].dest # Absent \/ (saving'.file = "app" /\ saving'.step = "swap")
    <3>1. files["app"].dest # Absent \/ (f = "app" /\ s = "swap") BY <1>1, <1>2, <1>3, <1>10, <2>2 DEF FileInv
    <3>2. CASE f = "app"
      <4>1. s \in {"swap"} => files[f].part = saving.new BY <1>1 DEF SavingInv
      <4>2. x.dest # Absent \/ next = "swap" BY <1>3, <1>4, <1>5, <3>1, <3>2, <4>1 DEF Steps
      <4>3. QED BY <1>7, <1>9, <3>2, <4>2
    <3>3. CASE f # "app"
      <4>1. files'["app"] = files["app"] BY <1>7, <3>3 DEF FileNames
      <4>2. QED BY <3>1, <3>3, <4>1
    <3>4. QED BY <3>2, <3>3
  <2>3. QED BY <2>1, <2>2 DEF FileInv
<1>16. HolderInv'
  <2>1. SUFFICES ASSUME excuses \cap {"journalFailed", "cleanupFailed", "undoFailed"} = {} PROVE HolderInv'
    BY <1>2 DEF HolderInv
  <2>2. CASE f # "journal"
    <3>1. holders = {} /\ task'.pc \in {"replace", "idle"} BY <1>1, <1>3, <1>11, <2>1, <2>2 DEF HolderInv
    <3>2. QED BY <1>2, <3>1 DEF HolderInv
  <2>3. CASE f = "journal"
    <3>1. task' = task /\ task.pc \in {"create", "nca", "undo"} BY <1>3, <1>11, <2>3
    <3>2. task.pc = "create" => saving'.new = saving.new \/ next = "done" BY <1>9
    <3>3. next = "done" => Journal' = saving.new
      <4>1. next = "done" => s \in {"swap", "tidy"} BY <1>3, <1>5 DEF Steps
      <4>2. next = "done" => x.dest = saving.new BY <1>1, <1>4, <4>1 DEF SavingInv
      <4>3. next = "done" => files'["journal"].dest = saving.new /\ saving.new # Absent BY <1>3, <1>7, <2>3, <4>2
      <4>4. QED BY <4>3 DEF Journal, Journaled
    <3>4. task.pc = "undo" => rb.holders = {} BY <1>1, <1>2 DEF SavingInv
    <3>5. task.pc \in {"undo", "nca"} => holders = {} BY <1>1, <2>1, <3>4 DEF HolderInv
    <3>6. task.pc = "create" => holders = {} /\ rb.holders \subseteq saving.new BY <1>1, <1>2, <2>1 DEF HolderInv
    <3>7. next # "done" => saving'.step # "none" BY <1>8, <1>9 DEF Steps
    <3>8. QED BY <1>2, <1>9, <3>1, <3>3, <3>4, <3>5, <3>6, <3>7 DEF HolderInv
  <2>4. QED BY <2>2, <2>3
<1>17. QED BY <1>13, <1>14, <1>15, <1>16 DEF EngineInv

LEMMA SaveFailsKeeps == ASSUME EngineInv, SaveFails PROVE EngineInv'
<1> DEFINE f == saving.file
           s == saving.step
           Back == AfterFailure(files[f], s)
           Without == [files[f] EXCEPT !.part = Absent]
<1>1. Shapes /\ RollbackInv /\ HolderInv /\ SavingInv /\ FileInv BY DEF EngineInv
<1>2. /\ s \in {"write", "park", "swap"} /\ s # "none" /\ saving' = NoSave
      /\ task' = IF task.kind = "replace" THEN Idle ELSE task
      /\ UNCHANGED <<content, holders, metas, listed, rb, promised, bare>>
      /\ spent' \in Spending /\ excuses \subseteq excuses'
      /\ \/ files' = [files EXCEPT ![f] = Back]
         \/ /\ s = "swap" /\ files[f].old # Absent /\ files' = [files EXCEPT ![f] = Without]
            /\ f # "journal" => "notRestored" \in excuses'
      /\ f = "journal" => "journalFailed" \in excuses'
  BY <1>1 DEF SaveFails, Trouble, DoubleTrouble, Excuse, Spending, Shapes, HadDest
<1>3. /\ f \in FileNames /\ s \in Steps /\ task.pc # "down"
      /\ files[f] \in FileOf(f) /\ saving.new \in ValueOf(f)
      /\ f = "journal" => task.pc \in {"create", "nca", "undo"}
      /\ f # "journal" => task.pc = "replace" /\ task.kind = "replace"
      /\ task.pc = "replace" <=> task.kind = "replace"
  BY <1>2, FileAtHand
<1>4. /\ Back \in FileOf(f)
      /\ Back.dest = IF s = "swap" /\ files[f].old # Absent THEN files[f].old ELSE files[f].dest
      /\ Back.old = IF s = "swap" THEN Absent ELSE files[f].old
  BY <1>3, FileSteps
<1>5. Without \in FileOf(f) /\ Without.dest = files[f].dest /\ Without.old = files[f].old
  <2>1. Absent \in Noted /\ Absent \in Versions BY DEF Noted, Versions
  <2>2. QED BY <1>3, <2>1 DEF FileOf, AJournal, AnNro
<1> HIDE DEF Back, Without
<1>6. /\ FilesTyped(files') /\ \A g \in FileNames \ {f} : files'[g] = files[g]
      /\ files'[f] = Back \/ (/\ s = "swap" /\ files[f].old # Absent /\ files'[f] = Without
                              /\ f # "journal" => "notRestored" \in excuses')
  <2>1. FilesTyped(files) BY <1>1 DEF Shapes
  <2>2. CASE files' = [files EXCEPT ![f] = Back] BY <1>3, <1>4, <2>1, <2>2, FileChanges DEF FileOf
  <2>3. CASE /\ s = "swap" /\ files[f].old # Absent /\ files' = [files EXCEPT ![f] = Without]
             /\ f # "journal" => "notRestored" \in excuses'
    BY <1>3, <1>5, <2>1, <2>3, FileChanges DEF FileOf
  <2>4. QED BY <1>2, <2>2, <2>3
<1>7. saving' \in ASave /\ saving'.step = "none" BY <1>2, ConstantsAreTyped
<1>8. task' = task \/ (task.pc = "replace" /\ task' \in ATask /\ task'.kind = "none" /\ task'.pc = "idle")
  BY <1>2, <1>3, ConstantsAreTyped
<1>9. task'.pc # "replace" BY <1>2, <1>3, ConstantsAreTyped
<1>10. Shapes' /\ TaskInv' /\ RollbackInv' /\ RecordInv' /\ WholeInv' /\ PromisedInv' /\ SettledInv'
  <2>1. holders' \in SUBSET holders /\ bare' \in SUBSET FileNames /\ UNCHANGED <<content, metas, listed, rb, promised>>
    BY <1>1, <1>2 DEF Shapes
  <2>2. task' = task \/ (/\ task.pc \in {"down", "clean", "replace"}
                         /\ task' \in ATask /\ task'.kind = "none" /\ task'.pc \in {"idle", "clean"})
    BY <1>8
  <2>3. QED BY <1>2, <1>6, <1>7, <2>1, <2>2, RestingFrame
<1>11. SavingInv' BY <1>7, <1>9 DEF SavingInv
<1>12. FileInv'
  <2>1. ASSUME NEW g \in {"app", "homebrew"} \ bare' PROVE files'[g].dest # Absent \/ files'[g].old # Absent
    <3>1. /\ g \in FileNames /\ (files[g].dest # Absent \/ files[g].old # Absent)
          /\ f = g /\ s = "swap" => files[g].old # Absent
      BY <1>1, <1>2, <2>1 DEF FileInv, FileNames
    <3>2. CASE g = f BY <1>4, <1>5, <1>6, <3>1, <3>2
    <3>3. CASE g # f BY <1>6, <3>1, <3>3
    <3>4. QED BY <3>2, <3>3
  <2>2. ASSUME "app" \notin bare', "notRestored" \notin excuses' PROVE files'["app"].dest # Absent
    <3>1. files["app"].dest # Absent \/ (f = "app" /\ s = "swap") BY <1>1, <1>2, <1>3, <2>2 DEF FileInv
    <3>2. CASE f = "app"
      <4>1. files'[f] = Back BY <1>6, <2>2, <3>2
      <4>2. s = "swap" => files[f].old # Absent BY <1>1, <1>2, <2>2, <3>2 DEF FileInv
      <4>3. QED BY <1>4, <3>1, <3>2, <4>1, <4>2
    <3>3. CASE f # "app"
      <4>1. files'["app"] = files["app"] BY <1>6, <3>3 DEF FileNames
      <4>2. QED BY <3>1, <3>3, <4>1
    <3>4. QED BY <3>2, <3>3
  <2>3. QED BY <1>7, <2>1, <2>2 DEF FileInv
<1>13. HolderInv'
  <2>1. SUFFICES ASSUME excuses' \cap {"journalFailed", "cleanupFailed", "undoFailed"} = {} PROVE HolderInv'
    BY DEF HolderInv
  <2>2. f # "journal" BY <1>2, <2>1
  <2>3. excuses \cap {"journalFailed", "cleanupFailed", "undoFailed"} = {} BY <1>2, <2>1
  <2>4. holders = {} /\ task'.pc = "idle" BY <1>1, <1>3, <1>8, <1>9, <2>2, <2>3 DEF HolderInv
  <2>5. QED BY <1>2, <2>4 DEF HolderInv
<1>14. QED BY <1>10, <1>11, <1>12, <1>13 DEF EngineInv

-----------------------------------------------------------------------------
(* The invariant holds in every behaviour.                                   *)

LEMMA EngineStarts == Init => EngineInv
<1> SUFFICES ASSUME Init PROVE EngineInv OBVIOUS
<1>1. /\ content = [s \in Storages |-> {}] /\ holders = {} /\ metas = [s \in Storages |-> {}] /\ listed = {}
      /\ files = [f \in FileNames |-> IF f = "journal" THEN NoFile ELSE [NoFile EXCEPT !.dest = "v1"]]
      /\ task = Idle /\ saving = NoSave /\ rb = NoRollback
      /\ promised = {} /\ excuses = {} /\ bare = {} /\ spent = [tasks |-> 0, trouble |-> 0]
  BY DEF Init
<1>2. /\ task \in ATask /\ task.kind = "none" /\ task.pc = "idle" /\ saving \in ASave /\ saving.step = "none"
      /\ rb \in ARollback /\ rb.holders = {} /\ rb.ncas = {} /\ ~rb.meta
  BY <1>1, ConstantsAreTyped
<1>3. /\ FilesTyped(files) /\ files["app"].dest = "v1" /\ files["homebrew"].dest = "v1"
  <2>1. Absent \in Noted /\ Absent \in Versions /\ "v1" \in Versions BY DEF Noted, Versions
  <2>2. files["journal"] = NoFile /\ files["app"] = [NoFile EXCEPT !.dest = "v1"] /\ files["homebrew"] = files["app"]
        /\ files = [f \in FileNames |-> files[f]]
    BY <1>1 DEF FileNames
  <2>3. NoFile \in AJournal /\ [NoFile EXCEPT !.dest = "v1"] \in AnNro BY <2>1 DEF NoFile, AJournal, AnNro
  <2>4. [NoFile EXCEPT !.dest = "v1"].dest = "v1" BY DEF NoFile
  <2>5. QED BY <2>2, <2>3, <2>4 DEF FilesTyped
<1>4. Shapes BY <1>1, <1>2, <1>3 DEF Shapes, Spending
<1>5. TaskInv BY <1>2 DEF TaskInv, Bringing
<1>6. RollbackInv BY <1>1, <1>2 DEF RollbackInv, Bringing
<1>7. Record = {} BY <1>1, <1>2 DEF Record
<1>8. RecordInv /\ WholeInv /\ PromisedInv
  BY <1>1, <1>2, <1>7 DEF RecordInv, Unique, WholeInv, PromisedInv, Bringing
<1>9. SettledInv BY <1>1, <1>2 DEF SettledInv, Settled, Brings, Bringing
<1>10. HolderInv /\ SavingInv BY <1>1, <1>2 DEF HolderInv, SavingInv
<1>11. FileInv
  <2>1. "v1" # Absent BY EngineAssumption
  <2>2. QED BY <1>2, <1>3, <2>1 DEF FileInv
<1>12. QED BY <1>4, <1>5, <1>6, <1>8, <1>9, <1>10, <1>11 DEF EngineInv

LEMMA EngineSteps == EngineInv /\ [EngineNext]_vars => EngineInv'
<1> SUFFICES ASSUME EngineInv, [EngineNext]_vars PROVE EngineInv' OBVIOUS
<1>1. CASE User
  <2>1. \A s \in Storages, titles \in {{t} : t \in Titles} \cup {{Base, p} : p \in Patches} : titles \in SUBSET Titles
    BY DEF Titles
  <2>2. QED BY <1>1, <2>1, StartsKeep DEF User
<1>2. CASE Work
  <2>1. CASE SaveStep \/ SaveFails BY <2>1, SaveStepKeeps, SaveFailsKeeps
  <2>2. CASE \E c \in Copies : NextTitle(c) BY <2>2, NextTitleKeeps
  <2>3. CASE AllTitlesDone \/ SkipNca \/ Undone BY <2>3, TaskEndsKeeps, SkipNcaKeeps
  <2>4. CASE \E h \in Holders : GenerateHolder(h) \/ UndoHolder(h) \/ CleanHolder(h)
    BY <2>4, GenerateHolderKeeps, UndoHolderKeeps, CleaningKeeps
  <2>5. CASE CreateHolder \/ RegisterNca \/ SetMeta BY <2>5, CreateHolderKeeps, RegisterNcaKeeps, SetMetaKeeps
  <2>6. CASE DeleteRecord \/ PushRecord \/ PushFails BY <2>6, DeleteRecordKeeps, PushRecordKeeps, PushFailsKeeps
  <2>7. CASE Fails \/ SourceMissing BY <2>7, TaskFailsKeeps
  <2>8. CASE (\E n \in Ncas : UndoNca(n)) \/ UndoMeta BY <2>8, UndoNcaKeeps, UndoMetaKeeps
  <2>9. CASE UnMeta \/ UnNca \/ Deleted \/ DeleteCompletely \/ ClearJournal
    BY <2>9, UnMetaKeeps, UnNcaKeeps, DeletedKeeps, DeleteCompletelyKeeps, CleaningKeeps
  <2>10. QED BY <1>2, <2>1, <2>2, <2>3, <2>4, <2>5, <2>6, <2>7, <2>8, <2>9 DEF Work
<1>3. CASE Crash \/ Start BY <1>3, CrashKeeps, StartKeeps
<1>4. CASE Rest \/ UNCHANGED vars
  <2>1. UNCHANGED <<content, holders, metas, listed, files, task, saving, rb, promised, excuses, bare, spent>>
    BY <1>4 DEF Rest, vars, disk, history
  <2>2. Record' = Record /\ Here' = Here /\ There' = There /\ Nca' = Nca /\ Journal' = Journal
    BY <2>1 DEF Record, Here, There, Nca, Journal, Journaled
  <2>3. Shapes' /\ TaskInv' /\ RollbackInv' BY <2>1 DEF EngineInv, Shapes, TaskInv, RollbackInv
  <2>4. RecordInv' /\ WholeInv' /\ PromisedInv'
    BY <2>1, <2>2 DEF EngineInv, RecordInv, WholeInv, PromisedInv, Unique, OnlyItself, Plain, IsWhole
  <2>5. SettledInv' BY <2>1 DEF EngineInv, SettledInv, Settled, Brings, WasThere
  <2>6. HolderInv' /\ SavingInv' /\ FileInv' BY <2>1, <2>2 DEF EngineInv, HolderInv, SavingInv, FileInv
  <2>7. QED BY <2>3, <2>4, <2>5, <2>6 DEF EngineInv
<1>5. QED BY <1>1, <1>2, <1>3, <1>4 DEF EngineNext

(* In every state the engine reaches, the parts of EngineInv hold together:
   the task at hand, its rollback, the record, the storages, the placeholders
   with their journal, and the files being replaced. *)
THEOREM EngineInductive == EngineSpec => []EngineInv
<1>1. Init => EngineInv BY EngineStarts
<1>2. EngineInv /\ [EngineNext]_vars => EngineInv' BY EngineSteps
<1>3. QED BY <1>1, <1>2, PTL DEF EngineSpec

(* Every variable keeps its type: content and meta entries are of titles there
   are, the journal lists placeholders, the parts of a title are counted to one
   past their end at most. *)
THEOREM EngineIsTyped == EngineSpec => []TypeOK
<1>1. EngineInv => TypeOK
  <2> SUFFICES ASSUME EngineInv PROVE TypeOK OBVIOUS
  <2>1. Shapes BY DEF EngineInv
  <2>2. \A f \in FileNames, n \in {"part", "dest", "old"} :
           files[f][n] = Absent \/ IF f = "journal" THEN files[f][n] \subseteq Holders ELSE files[f][n] \in {"v1", "v2"}
    <3>1. files["journal"] \in AJournal /\ files["app"] \in AnNro /\ files["homebrew"] \in AnNro
      BY <2>1 DEF Shapes, FilesTyped
    <3>2. \A n \in {"part", "dest", "old"} : files["journal"][n] \in Noted BY <3>1 DEF AJournal
    <3>3. \A f \in {"app", "homebrew"}, n \in {"part", "dest", "old"} : files[f][n] \in Versions BY <3>1 DEF AnNro
    <3>4. \A x \in Noted : x = Absent \/ x \subseteq Holders BY DEF Noted
    <3>5. QED BY <3>2, <3>3, <3>4 DEF FileNames, Versions
  <2>3. content \in [Storages -> SUBSET Ncas] /\ metas \in [Storages -> SUBSET Titles] BY <2>1 DEF Shapes
  <2>4. holders \subseteq Holders /\ listed \subseteq Copies /\ promised \subseteq Copies /\ bare \subseteq FileNames
    BY <2>1 DEF Shapes
  <2>5. saving.file \in FileNames /\ saving.step \in Steps \cup {"none"} BY <2>1 DEF Shapes, ASave
  <2>6. rb.holders \subseteq Holders /\ rb.ncas \subseteq Ncas /\ rb.meta \in BOOLEAN BY <2>1 DEF Shapes, ARollback
  <2>7. /\ task.todo \subseteq Copies /\ task.existing \subseteq Copies /\ task.stale \subseteq Holders
        /\ task.part \in 1..(NcaCount + 1)
    BY <2>1 DEF Shapes, ATask
  <2>8. QED BY <2>2, <2>3, <2>4, <2>5, <2>6, <2>7 DEF TypeOK
<1>2. QED BY <1>1, EngineInductive, PTL

(* What HOME lists can be started at every moment, also between any two calls
   of an installation, a move, an uninstallation or a rollback, except for the
   two cases RecordedIsWhole names. *)
THEOREM HomeListsWholeTitles == EngineSpec => []RecordedIsWhole
<1>1. EngineInv => RecordedIsWhole
  <2>1. EngineInv => RecordInv /\ WholeInv BY DEF EngineInv
  <2>2. RecordInv => listed = {} \/ listed = Record BY DEF RecordInv, Record
  <2>3. QED BY <2>1, <2>2 DEF RecordedIsWhole, WholeInv, Plain
<1>2. QED BY <1>1, EngineInductive, PTL

(* A title whose installation or move finished is listed whenever the app
   rests, until it is uninstalled or replaced, except for the losses
   InstalledIsListed names. *)
THEOREM FinishedTitlesStayListed == EngineSpec => []InstalledIsListed
<1>1. EngineInv => InstalledIsListed
  <2>1. EngineInv => PromisedInv BY DEF EngineInv
  <2>2. Resting => Record = listed BY DEF Resting, Record
  <2>3. QED BY <2>1, <2>2 DEF InstalledIsListed, PromisedInv
<1>2. QED BY <1>1, EngineInductive, PTL

(* A failed or cancelled installation or move leaves on the storages exactly
   the content of the titles in their databases, and no placeholder. *)
THEOREM FailuresLeaveNothing == EngineSpec => []UndoLeavesNothing
<1>1. EngineInv => UndoLeavesNothing
  <2> SUFFICES ASSUME EngineInv, task.pc = "idle", excuses \cap {"crashed", "undoFailed", "reinstall"} = {}
               PROVE  holders = {} /\ \A s \in Storages : content[s] = UNION {NcasOf(t) : t \in metas[s]}
    BY DEF UndoLeavesNothing
  <2>1. Shapes /\ RollbackInv /\ SettledInv BY DEF EngineInv
  <2>2. rb.holders = {} BY <2>1, ConstantsAreTyped DEF RollbackInv, Bringing
  <2>3. holders = {} BY <2>1, <2>2 DEF SettledInv
  <2>4. \A s \in Storages, t \in Titles : Settled(s, t) BY <2>1 DEF SettledInv, Brings, Bringing
  <2>5. ASSUME NEW s \in Storages PROVE content[s] = UNION {NcasOf(t) : t \in metas[s]}
    <3>1. content[s] \in SUBSET Ncas /\ metas[s] \in SUBSET Titles BY <2>1 DEF Shapes
    <3>2. ASSUME NEW n \in content[s] PROVE n \in UNION {NcasOf(t) : t \in metas[s]}
      <4>1. PICK t \in Titles, i \in Parts : n = <<t, i>> BY <3>1, <3>2 DEF Ncas
      <4>2. n \in NcasOf(t) BY <4>1 DEF NcasOf
      <4>3. t \in metas[s] BY <2>4, <3>2, <4>2 DEF Settled
      <4>4. QED BY <4>2, <4>3
    <3>3. ASSUME NEW t \in metas[s] PROVE NcasOf(t) \subseteq content[s]
      <4>1. t \in Titles BY <3>1
      <4>2. QED BY <2>4, <3>3, <4>1 DEF Settled
    <3>4. QED BY <3>2, <3>3
  <2>6. QED BY <2>3, <2>5
<1>2. QED BY <1>1, EngineInductive, PTL

(* The journal on the SD card lists every placeholder a crash leaves behind,
   and none is left once the app runs, except for the failures
   PlaceholdersAreKnown names. *)
THEOREM JournalKnowsPlaceholders == EngineSpec => []PlaceholdersAreKnown
<1>1. EngineInv => PlaceholdersAreKnown
  <2>1. EngineInv => HolderInv BY DEF EngineInv
  <2>2. QED BY <2>1 DEF PlaceholdersAreKnown, HolderInv, Journal
<1>2. QED BY <1>1, EngineInductive, PTL

(* Whatever step of replacing a file fails or is cut off, its old or its new
   copy remains; the app's own file is in place after every start. *)
THEOREM ReplacingKeepsACopy == EngineSpec => []OneCopyRemains
<1>1. EngineInv => OneCopyRemains
  <2> SUFFICES ASSUME EngineInv PROVE OneCopyRemains OBVIOUS
  <2>1. FileInv /\ SavingInv BY DEF EngineInv
  <2>2. \A f \in {"app", "homebrew"} \ bare : {files[f].dest, files[f].old} # {Absent} BY <2>1 DEF FileInv
  <2>3. ASSUME "app" \notin bare, task.pc \in {"idle", "clean"}, "notRestored" \notin excuses
        PROVE  files["app"].dest # Absent
    <3>1. ~(saving.file = "app" /\ saving.step = "swap") BY <2>1, <2>3 DEF SavingInv
    <3>2. QED BY <2>1, <2>3, <3>1 DEF FileInv
  <2>4. QED BY <2>2, <2>3 DEF OneCopyRemains
<1>2. QED BY <1>1, EngineInductive, PTL

-----------------------------------------------------------------------------
(* The record as HOME sees it changes by whole copies.                       *)

LEMMA HomeMeans ==
    /\ Home!Copies = Copies
    /\ \A t \in Titles, u \in Titles : Home!SameId(t, u) <=> SameId(t, u)
BY DEF Home!Copies, Copies, Home!Titles, Titles, Home!SameId, SameId

LEMMA HomeChanges ==
    /\ \A c \in Copies : Record' = Merged(Record, c) => Home!HomeNext
    /\ \A c \in Copies : c \in Record /\ Record' = Record \ {c} => Home!HomeNext
    /\ \A c \in Copies, to \in Storages :
          c \in Record /\ Record' = (Record \ {c}) \cup {[c EXCEPT !.at = to]} => Home!HomeNext
    /\ Record' = {} => Home!HomeNext
<1>1. ASSUME NEW c \in Copies, Record' = Merged(Record, c) PROVE Home!HomeNext
  <2>1. Home!List(c) BY <1>1 DEF Home!List, Home!SameId, SameId, Merged, Record
  <2>2. QED BY <1>1, <2>1, HomeMeans DEF Home!HomeNext
<1>2. ASSUME NEW c \in Copies, c \in Record, Record' = Record \ {c} PROVE Home!HomeNext
  <2>1. Home!Unlist(c) BY <1>2 DEF Home!Unlist, Record
  <2>2. QED BY <1>2, <2>1, HomeMeans DEF Home!HomeNext
<1>3. ASSUME NEW c \in Copies, NEW to \in Storages, c \in Record,
             Record' = (Record \ {c}) \cup {[c EXCEPT !.at = to]}
      PROVE  Home!HomeNext
  <2>1. Home!Relocate(c, to) BY <1>3 DEF Home!Relocate, Record
  <2>2. QED BY <1>3, <2>1, HomeMeans DEF Home!HomeNext
<1>4. ASSUME Record' = {} PROVE Home!HomeNext BY <1>4 DEF Home!HomeNext, Home!DropGame, Record
<1>5. QED BY <1>1, <1>2, <1>3, <1>4

LEMMA PushChanges == ASSUME EngineInv, PushRecord PROVE Record' = Record \/ Home!HomeNext
<1>1. task.pc = "push" /\ listed' = Changed(task.existing) /\ task'.pc # "push"
  <2>1. Shapes BY DEF EngineInv
  <2>2. task.pc = "push" /\ task.kind \in {"install", "move", "uninstall"} BY RecordPushed DEF PushRecord, At
  <2>3. AfterRecord # "push" BY <2>2 DEF AfterRecord
  <2>4. task'.pc = AfterRecord
    <3> HIDE DEF AfterRecord
    <3>1. task' = [task EXCEPT !.pc = AfterRecord, !.existing = {}, !.part = 1] BY DEF PushRecord
    <3>2. QED BY <2>1, <3>1 DEF Shapes, ATask
  <2>5. QED BY <2>2, <2>3, <2>4 DEF PushRecord
<1>2. /\ Record = task.existing /\ Record \in SUBSET Copies /\ Unique(Record)
      /\ Here \in Copies /\ There \in Copies
      /\ task.kind \in {"install", "move", "uninstall"}
      /\ task.kind = "install" => Changed(task.existing) = Merged(Record, Here)
      /\ task.kind = "uninstall" => Changed(task.existing) = Removed(Record, There)
      /\ task.kind = "move" => /\ Changed(task.existing) = Moved(Record, There, task.at)
                               /\ task.at # There.at /\ task.at \in Storages
  BY <1>1, RecordPushed
<1>3. Record' = Changed(task.existing) BY <1>1 DEF Record
<1> DEFINE Mine(x) == SameId(x.t, There.t) /\ x.at = There.at
<1>4. ASSUME NEW c \in Record, Mine(c) PROVE \A x \in Record : Mine(x) <=> x = c
  <2>1. \A x \in Record : x.t \in Titles BY <1>2 DEF Copies
  <2>2. There.t \in Titles BY <1>2 DEF Copies
  <2>3. ASSUME NEW x \in Record, Mine(x) PROVE x = c
    <3>1. SameId(x.t, c.t) BY <1>4, <2>1, <2>2, <2>3, SameIdIsEquivalence
    <3>2. QED BY <1>2, <1>4, <3>1 DEF Unique
  <2>4. QED BY <1>4, <2>3
<1>5. CASE task.kind = "install" BY <1>2, <1>3, <1>5, HomeChanges
<1>6. CASE task.kind = "uninstall"
  <2>1. Record' = {x \in Record : ~Mine(x)} BY <1>2, <1>3, <1>6 DEF Removed
  <2>2. CASE \E c \in Record : Mine(c)
    <3>1. PICK c \in Record : Mine(c) BY <2>2
    <3>2. \A x \in Record : Mine(x) <=> x = c BY <1>4, <3>1
    <3>3. Record' = Record \ {c} BY <2>1, <3>2
    <3>4. QED BY <1>2, <3>1, <3>3, HomeChanges
  <2>3. CASE \A c \in Record : ~Mine(c) BY <2>1, <2>3
  <2>4. QED BY <2>2, <2>3
<1>7. CASE task.kind = "move"
  <2>1. Record' = {IF Mine(x) THEN [x EXCEPT !.at = task.at] ELSE x : x \in Record} BY <1>2, <1>3, <1>7 DEF Moved
  <2>2. CASE \E c \in Record : Mine(c)
    <3>1. PICK c \in Record : Mine(c) BY <2>2
    <3>2. \A x \in Record : Mine(x) <=> x = c BY <1>4, <3>1
    <3> HIDE DEF Mine
    <3>3. Record' = (Record \ {c}) \cup {[c EXCEPT !.at = task.at]} BY <2>1, <3>1, <3>2
    <3>4. QED BY <1>2, <1>7, <3>1, <3>3, HomeChanges
  <2>3. CASE \A c \in Record : ~Mine(c)
    <3> HIDE DEF Mine
    <3>1. QED BY <2>1, <2>3
  <2>4. QED BY <2>2, <2>3
<1>8. QED BY <1>2, <1>5, <1>6, <1>7

(* No task begins while a record is in hand. *)
LEMMA UserRests == ASSUME User PROVE task.pc = "idle" /\ listed' = listed /\ task'.pc # "push"
<1>1. ASSUME NEW s \in Storages, NEW titles, StartInstall(titles, s)
      PROVE  task.pc = "idle" /\ listed' = listed /\ task'.pc # "push"
  BY <1>1 DEF StartInstall, Begin, At, disk, Idle
<1>2. ASSUME NEW c \in Copies, NEW to \in Storages, StartMove(c, to)
      PROVE  task.pc = "idle" /\ listed' = listed /\ task'.pc # "push"
  BY <1>2 DEF StartMove, Begin, At, disk, Idle
<1>3. ASSUME NEW c \in Copies, StartUninstall(c)
      PROVE  task.pc = "idle" /\ listed' = listed /\ task'.pc # "push"
  BY <1>3 DEF StartUninstall, Begin, At, disk, Idle
<1>4. ASSUME NEW f \in {"app", "homebrew"}, StartReplace(f)
      PROVE  task.pc = "idle" /\ listed' = listed /\ task'.pc # "push"
  BY <1>4 DEF StartReplace, Begin, At, disk, Idle
<1>5. QED BY <1>1, <1>2, <1>3, <1>4 DEF User

LEMMA HomeSteps == EngineInv /\ [EngineNext]_vars => Record' = Record \/ Home!HomeNext
<1> SUFFICES ASSUME EngineInv, [EngineNext]_vars PROVE Record' = Record \/ Home!HomeNext OBVIOUS
<1>1. Shapes /\ TaskInv /\ RecordInv BY DEF EngineInv
<1>2. task \in ATask BY <1>1 DEF Shapes
<1>3. CASE PushRecord BY <1>3, PushChanges
<1>4. ASSUME listed' = {}, task'.pc # "push" PROVE Home!HomeNext
  <2>1. Record' = {} BY <1>4 DEF Record
  <2>2. QED BY <2>1, HomeChanges
<1>5. ASSUME listed' = listed, task.pc # "push", task'.pc # "push" PROVE Record' = Record BY <1>5 DEF Record
<1>6. CASE DeleteRecord
  <2>1. task.pc = "list" /\ task' = [task EXCEPT !.existing = listed, !.pc = "push"] BY <1>6 DEF DeleteRecord, At
  <2>2. task'.pc = "push" /\ task'.existing = listed BY <1>2, <2>1 DEF ATask
  <2>3. QED BY <2>1, <2>2 DEF Record
<1>7. CASE PushFails
  <2>1. /\ task.pc = "push" /\ task' = [task EXCEPT !.pc = "undo", !.existing = {}]
        /\ listed' = task.existing \/ listed' = listed
    BY <1>7 DEF PushFails, At
  <2>2. task'.pc = "undo" BY <1>2, <2>1 DEF ATask
  <2>3. CASE listed' = task.existing BY <2>1, <2>2, <2>3 DEF Record
  <2>4. CASE listed' = listed
    <3>1. listed' = {} BY <1>1, <2>1, <2>4 DEF RecordInv
    <3>2. QED BY <1>4, <2>2, <3>1
  <2>5. QED BY <2>1, <2>3, <2>4
<1>8. CASE DeleteCompletely
  <2>1. task.pc = "complete" /\ listed' = {} /\ (task' = Idle \/ task' = [task EXCEPT !.pc = "unmeta"])
    BY <1>8 DEF DeleteCompletely, At
  <2>2. task'.pc # "push" BY <1>2, <2>1, ConstantsAreTyped DEF ATask
  <2>3. QED BY <1>4, <2>1, <2>2
<1>9. CASE Crash
  <2>1. task' = Down /\ listed' = listed BY <1>9 DEF Crash, disk
  <2>2. task'.pc # "push" BY <2>1, ConstantsAreTyped
  <2>3. CASE task.pc = "push"
    <3>1. listed' = {} BY <1>1, <2>1, <2>3 DEF RecordInv
    <3>2. QED BY <1>4, <2>2, <3>1
  <2>4. CASE task.pc # "push" BY <1>5, <2>1, <2>2, <2>4
  <2>5. QED BY <2>3, <2>4
<1>10. CASE User BY <1>5, <1>10, UserRests
<1>11. CASE UNCHANGED <<task, listed>> BY <1>11 DEF Record
<1>12. CASE SaveStep \/ SaveFails
  <2>1. listed' = listed /\ (task' = task \/ (task.kind = "replace" /\ task' = Idle)) BY <1>12 DEF SaveStep, SaveFails
  <2>2. CASE task.kind = "replace" /\ task' = Idle
    <3>1. task.pc # "push" /\ task'.pc # "push" BY <1>1, <2>2, ConstantsAreTyped DEF TaskInv
    <3>2. QED BY <1>5, <2>1, <3>1
  <2>3. QED BY <1>11, <2>1, <2>2
<1>13. CASE (\E c \in Copies : NextTitle(c)) \/ AllTitlesDone \/ SkipNca \/ Undone \/ Deleted
  <2>1. ASSUME NEW c \in Copies, NextTitle(c) PROVE listed' = listed /\ task.pc # "push" /\ task'.pc # "push"
    BY <1>2, <2>1 DEF NextTitle, At, disk, ATask
  <2>2. CASE SkipNca BY <1>2, <1>5, <2>2 DEF SkipNca, At, disk, ATask
  <2>3. CASE AllTitlesDone \/ Undone BY <1>5, <2>3, ConstantsAreTyped DEF AllTitlesDone, Undone, At, disk
  <2>4. CASE Deleted
    <3>1. listed' = listed /\ task.pc # "push" /\ task' = AfterDelete BY <2>4 DEF Deleted, At, disk
    <3>2. task'.pc # "push" BY <1>2, <3>1, ConstantsAreTyped DEF AfterDelete, ATask
    <3>3. QED BY <1>5, <3>1, <3>2
  <2>5. QED BY <1>5, <1>13, <2>1, <2>2, <2>3, <2>4
<1>14. CASE (\E h \in Holders : GenerateHolder(h)) \/ CreateHolder \/ RegisterNca \/ SetMeta \/ Fails \/ SourceMissing
  <2>1. listed' = listed /\ task.pc # "push"
    BY <1>14 DEF GenerateHolder, CreateHolder, RegisterNca, SetMeta, Fails, SourceMissing, At, disk
  <2>2. Go("create") \/ Go("stream") \/ Go("undo") \/ RegisterNca \/ SetMeta
    BY <1>14 DEF GenerateHolder, CreateHolder, Fails, SourceMissing
  <2>3. task'.pc # "push" BY <1>2, <2>2 DEF Go, RegisterNca, SetMeta, ATask
  <2>4. QED BY <1>5, <2>1, <2>3
<1>15. CASE (\E h \in Holders : UndoHolder(h)) \/ (\E n \in Ncas : UndoNca(n)) \/ UndoMeta
  BY <1>11, <1>15 DEF UndoHolder, UndoNca, UndoMeta
<1>16. CASE (\E h \in Holders : CleanHolder(h)) \/ ClearJournal \/ UnMeta \/ UnNca \/ Start
  <2>1. listed' = listed /\ task.pc \in {"clean", "unmeta", "unnca", "down"}
    BY <1>16 DEF CleanHolder, ClearJournal, UnMeta, UnNca, UnNcaBody, Start, At
  <2>2. task'.pc # "push"
    <3>1. CASE \E h \in Holders : CleanHolder(h) BY <1>2, <3>1 DEF CleanHolder, At, ATask
    <3>2. CASE ClearJournal BY <3>2, ConstantsAreTyped DEF ClearJournal
    <3>3. CASE UnMeta BY <1>2, <3>3, ConstantsAreTyped DEF UnMeta, AfterDelete, ATask
    <3>4. CASE UnNca BY <1>2, <3>4 DEF UnNca, UnNcaBody, At, ATask
    <3>5. CASE Start BY <3>5, ConstantsAreTyped DEF Start, ATask
    <3>6. QED BY <1>16, <3>1, <3>2, <3>3, <3>4, <3>5
  <2>3. QED BY <1>5, <2>1, <2>2
<1>17. CASE Rest \/ UNCHANGED vars BY <1>11, <1>17 DEF Rest, vars, disk
<1>18. QED
  BY <1>3, <1>6, <1>7, <1>8, <1>9, <1>10, <1>12, <1>13, <1>14, <1>15, <1>16, <1>17 DEF EngineNext, Work

(* The app's steps, one call at a time, with failures and crashes between any
   two of them, change the record as HOME should see it only by listing,
   unlisting or relocating one copy, or by dropping the game. *)
THEOREM EngineImplementsHome == EngineSpec => RecordChangesWhole
<1>1. Init => Home!HomeInit BY ConstantsAreTyped DEF Init, Home!HomeInit
<1>2. EngineInv /\ [EngineNext]_vars => [Home!HomeNext]_Record BY HomeSteps
<1>3. Record = IF task.pc = "push" THEN task.existing ELSE listed BY DEF Record
<1>4. QED BY <1>1, <1>2, EngineInductive, PTL DEF EngineSpec, RecordChangesWhole, Home!HomeSpec, Record

--------------------------------------------------------------------------------
(* The compressions a page shows (CompressPage).                              *)

\* A nonempty set of naturals has a least element.
LEMMA LeastStamp ==
    ASSUME NEW S \in SUBSET Nat, S # {} PROVE \E x \in S : \A y \in S : x <= y
<1> DEFINE R == {ss \in Nat \X Nat : ss[1] < ss[2]}
<1>1. IsWellFoundedOn(R, Nat) BY NatLessThanWellFounded DEF OpToRel
<1>2. PICK x \in S : \A y \in S : ~(<<y, x>> \in R)
  <2> HIDE DEF R
  <2> QED BY <1>1, WFMin
<1>3. ASSUME NEW y \in S, y < x PROVE FALSE
  <2>1. <<y, x>> \in R BY <1>3
  <2> QED BY <1>2, <2>1
<1> QED BY <1>3

--------------------------------------------------------------------------------
\* What a task is.

\* A task stays one when more tasks have begun.
LEMMA TaskStays ==
    ASSUME NEW t, NEW b, NEW c, b \subseteq c, TaskOK(t, b) PROVE TaskOK(t, c)
BY DEF TaskOK

LEMMA ListStays ==
    ASSUME NEW l, NEW b, NEW c, b \subseteq c, ListOK(l, b) PROVE ListOK(l, c)
BY TaskStays DEF ListOK

\* The fields of a task that runs, waits, ended or was cancelled.
LEMMA CTaskIs ==
    ASSUME PageSized, NEW f \in Files, NEW s \in Nat \ {0}, NEW st \in {"queued", "running", "cancelled"},
           NEW p \in Phases \cup {None}, st = "running" => p # None, NEW b, [stamp |-> s, file |-> f] \in b
    PROVE  LET t == CTask(f, s, st, p)
           IN  /\ TaskOK(t, b) /\ t # None /\ t.file = f /\ t.stamp = s /\ t.state = st /\ t.phase = p
               /\ (CActive(t) <=> st # "cancelled")
<1> DEFINE t == CTask(f, s, st, p)
<1>1. /\ t.file = f /\ t.stamp = s /\ t.state = st /\ t.phase = p /\ t.result = None /\ t.error = None
  BY DEF CTask
<1>2. t \in CTasks BY DEF CTask, CTasks, States
<1>3. t # None BY <1>2 DEF PageSized
<1> HIDE DEF t
<1>4. TaskOK(t, b) BY <1>1, <1>2 DEF TaskOK
<1> QED BY <1>1, <1>3, <1>4 DEF CActive, t

LEMMA DoneIs ==
    ASSUME PageSized, NEW w, w.file \in Files, w.stamp \in Nat \ {0}, NEW b, [stamp |-> w.stamp, file |-> w.file] \in b,
           NEW result \in {"kept", "removed"}, NEW t, t = DoneTask(w, result)
    PROVE  TaskOK(t, b) /\ t # None /\ t.file = w.file /\ t.stamp = w.stamp /\ t.state = "done" /\ t.result = result
<1>1. /\ t.file = w.file /\ t.stamp = w.stamp /\ t.state = "done" /\ t.phase = None /\ t.result = result /\ t.error = None
  BY DEF CTask, DoneTask
<1>2. t \in CTasks BY DEF CTask, CTasks, States, DoneTask
<1>3. t # None BY <1>2 DEF PageSized
<1>4. result # None BY DEF PageSized
<1>5. TaskOK(t, b) BY <1>1, <1>2, <1>4 DEF TaskOK
<1> QED BY <1>1, <1>3, <1>5

LEMMA FailedIs ==
    ASSUME PageSized, NEW w, w.file \in Files, w.stamp \in Nat \ {0}, NEW b, [stamp |-> w.stamp, file |-> w.file] \in b,
           NEW error \in {"setup", "other"}, NEW t, t = FailedTask(w, error)
    PROVE  TaskOK(t, b) /\ t # None /\ t.file = w.file /\ t.stamp = w.stamp /\ t.state = "failed"
<1>1. /\ t.file = w.file /\ t.stamp = w.stamp /\ t.state = "failed" /\ t.phase = None /\ t.result = None /\ t.error = error
  BY DEF CTask, FailedTask
<1>2. t \in CTasks BY DEF CTask, CTasks, States, FailedTask
<1>3. t # None BY <1>2 DEF PageSized
<1>4. error # None BY DEF PageSized
<1>5. TaskOK(t, b) BY <1>1, <1>2, <1>4 DEF TaskOK
<1> QED BY <1>1, <1>3, <1>5

LEMMA RemovedIs ==
    ASSUME PageSized, NEW r, NEW b, TaskOK(r, b), r.result = "kept"
    PROVE  LET t == [r EXCEPT !.result = "removed"]
           IN  TaskOK(t, b) /\ t # None /\ t.file = r.file /\ t.stamp = r.stamp /\ t.state = "done" /\ r.state = "done"
<1> DEFINE t == [r EXCEPT !.result = "removed"]
<1>1. r \in CTasks /\ [stamp |-> r.stamp, file |-> r.file] \in b /\ r.result # None BY DEF TaskOK, PageSized
<1>2. r.state = "done" BY <1>1 DEF TaskOK
<1>3. r.error = None BY <1>1, <1>2 DEF TaskOK, CTasks
<1>4. /\ t.file = r.file /\ t.stamp = r.stamp /\ t.state = r.state /\ t.phase = r.phase /\ t.error = r.error
      /\ t.result = "removed" /\ t \in CTasks
  BY <1>1 DEF CTasks
<1>5. t # None /\ "removed" # None BY <1>4 DEF PageSized
<1> HIDE DEF t
<1>6. TaskOK(t, b) BY <1>1, <1>2, <1>3, <1>4, <1>5 DEF TaskOK
<1> QED BY <1>2, <1>4, <1>5, <1>6 DEF t

--------------------------------------------------------------------------------
\* #trimFinished.

LEMMA EldestExists ==
    ASSUME NEW es, NEW b, ListOK(es, b), Ended(es) # {}
    PROVE  Eldest(es) \in Ended(es) /\ \A g \in Ended(es) : es[Eldest(es)].stamp <= es[g].stamp
<1> DEFINE S == {es[f].stamp : f \in Ended(es)}
<1>1. \A f \in Ended(es) : es[f] \in CTasks BY DEF Ended, ListOK, TaskOK
<1>2. S \in SUBSET Nat /\ S # {} BY <1>1 DEF CTasks
<1>3. PICK x \in S : \A y \in S : x <= y BY <1>2, LeastStamp
<1>4. \E f \in Ended(es) : \A g \in Ended(es) : es[f].stamp <= es[g].stamp BY <1>3
<1> QED BY <1>4 DEF Eldest

\* It keeps the entries but for the eldest that ended.
LEMMA TrimIs ==
    ASSUME PageSized, NEW es, NEW b, ListOK(es, b)
    PROVE  /\ ListOK(Trim(es), b)
           /\ \A f \in Files : Trim(es)[f] = es[f] \/ (Trim(es)[f] = None /\ f \in Ended(es))
           /\ \A f \in Files : Trim(es)[f] = None /\ es[f] # None =>
                  \A g \in Ended(Trim(es)) : g # f /\ Trim(es)[g] = es[g] /\ es[f].stamp <= es[g].stamp
           /\ \A E \in SUBSET Files, f \in Files : Cardinality(E) <= Limit /\ Ended(es) \subseteq E \cup {f}
                  => Cardinality(Ended(Trim(es))) <= Limit
<1>1. CASE Cardinality(Ended(es)) <= Limit BY <1>1 DEF Trim
<1>2. CASE ~(Cardinality(Ended(es)) <= Limit)
  <2> DEFINE o == Eldest(es)
  <2>0. Ended(es) # {} BY <1>2, FS_EmptySet DEF PageSized
  <2>1. Trim(es) = [es EXCEPT ![o] = None] BY <1>2 DEF Trim
  <2>2. o \in Ended(es) /\ \A g \in Ended(es) : es[o].stamp <= es[g].stamp BY <2>0, EldestExists
  <2>3. o \in Files /\ DOMAIN es = Files BY <2>2 DEF Ended, ListOK
  <2> HIDE DEF o
  <2>4. Trim(es)[o] = None /\ \A f \in Files : f # o => Trim(es)[f] = es[f] BY <2>1, <2>3
  <2>5. Trim(es) \in [Files -> CTasks \cup {None}] BY <2>1, <2>3 DEF ListOK
  <2>6. ListOK(Trim(es), b) BY <2>4, <2>5 DEF ListOK
  <2>7. Ended(Trim(es)) = Ended(es) \ {o} BY <2>3, <2>4 DEF Ended
  <2>8. ASSUME NEW E \in SUBSET Files, NEW f \in Files, Cardinality(E) <= Limit, Ended(es) \subseteq E \cup {f}
        PROVE  Cardinality(Ended(Trim(es))) <= Limit
    <3>1. IsFiniteSet(E) /\ IsFiniteSet(E \cup {f}) BY FS_Subset, FS_AddElement DEF PageSized
    <3>2. Cardinality(E) \in Nat /\ Cardinality(E \cup {f}) \in {Cardinality(E), Cardinality(E) + 1}
      BY <3>1, FS_AddElement, FS_CardinalityType
    <3>3. IsFiniteSet(Ended(es)) /\ Cardinality(Ended(es)) <= Cardinality(E \cup {f}) BY <2>8, <3>1, FS_Subset
    <3>4. Cardinality(Ended(es)) \in Nat /\ Cardinality(Ended(es) \ {o}) = Cardinality(Ended(es)) - 1
      BY <2>2, <3>3, FS_RemoveElement, FS_CardinalityType
    <3> QED BY <2>7, <2>8, <3>2, <3>3, <3>4 DEF PageSized
  <2>9. ASSUME NEW f \in Files, Trim(es)[f] = None, es[f] # None, NEW g \in Ended(Trim(es))
        PROVE  g # f /\ Trim(es)[g] = es[g] /\ es[f].stamp <= es[g].stamp
    <3>1. f = o BY <2>4, <2>9
    <3>2. g \in Ended(es) /\ g # o /\ g \in Files BY <2>7 DEF Ended
    <3> QED BY <2>2, <2>4, <3>1, <3>2
  <2> QED BY <2>2, <2>4, <2>6, <2>8, <2>9
<1> QED BY <1>1, <1>2

--------------------------------------------------------------------------------
(* The inductive invariant.                                                     *)

\* Stamps are given once.
BegunOnce == \A p, q \in begun : p.stamp = q.stamp => p = q
Of(s, f) == [stamp |-> s, file |-> f] \in begun

\* The run is of the entry that runs, and no entry that waits was started before it.
RunInv ==
    /\ \A f \in Files : entries[f] # None /\ entries[f].state = "running" =>
           worker # None /\ worker.file = f /\ worker.stamp = entries[f].stamp
    /\ worker # None => \A f \in Files : entries[f] # None /\ entries[f].state = "queued" => worker.stamp < entries[f].stamp
    /\ \A r \in removals : CActive(entries[r.task.file]) => r.task.stamp < entries[r.task.file].stamp
    /\ FinishedAreFew

\* Events are numbered; those of starts that are on their way are all since the last one heard of.
WireInv ==
    /\ \A e, d \in wire : e.n = d.n => e = d
    /\ ~online => wire = {} /\ heard = lastStart
    /\ \A s \in Nat : heard < s /\ s <= lastStart => \E e \in wire : e.task.state = "queued" /\ e.task.stamp = s
    /\ \A e \in wire : e.task.state = "queued" => heard < e.task.stamp
    /\ \A e, d \in wire : e.task.state = "queued" /\ d.task.state = "queued" /\ e.n < d.n => e.task.stamp < d.task.stamp
    /\ LastEventIsTheEntry

\* After an end there is no more of that task or of one before it.
EndInv ==
    /\ \A e, d \in wire : e.task.file = d.task.file /\ e.n < d.n /\ ~CActive(e.task) /\ d.task.stamp <= e.task.stamp
           => ~CActive(d.task)
    /\ \A e \in wire : ~CActive(e.task) /\ CActive(entries[e.task.file]) => e.task.stamp < entries[e.task.file].stamp
    /\ \A f \in Files : CActive(entries[f]) => \A s \in announced : Of(s, f) => s < entries[f].stamp
    /\ \A e \in wire : CActive(e.task) => \A s \in announced : Of(s, e.task.file) => s < e.task.stamp
    /\ \A f \in Files : CActive(shown[f]) /\ via[f] = "event" => \A s \in announced : Of(s, f) => s < shown[f].stamp

\* What the page shows has a place, a list the order of starts, and a batch that of its requests.
BatchOrder ==
    batch # None => \A g, h \in batch.got :
        /\ g.nth = h.nth => g = h
        /\ g.new /\ h.new /\ g.nth < h.nth => g.task.stamp < h.task.stamp
OrderInv ==
    /\ \A f \in Files : place[f] <= front /\ (~loaded => shown[f] = None)
    /\ \A l \in lists, f \in Files : l.list[f] # None => l.list[f].stamp <= l.upTo
    /\ QueueIsShownInOrder
    /\ BatchOrder

CpInv == CpTypeOK /\ BegunOnce /\ RunInv /\ WireInv /\ EndInv /\ OrderInv

--------------------------------------------------------------------------------
(* Steps that publish a task.                                                   *)

LEMMA EntriesAre ==
    ASSUME CpTypeOK, NEW f \in Files
    PROVE  /\ entries[f] # None => /\ entries[f] \in CTasks /\ TaskOK(entries[f], begun) /\ entries[f].file = f
                                   /\ entries[f].stamp \in Nat \ {0} /\ entries[f].stamp <= lastStart /\ Of(entries[f].stamp, f)
           /\ shown[f] # None => /\ shown[f] \in CTasks /\ TaskOK(shown[f], begun) /\ shown[f].file = f
                                 /\ shown[f].stamp \in Nat \ {0} /\ shown[f].stamp <= lastStart /\ Of(shown[f].stamp, f)
           /\ lastStart \in Nat
<1>1. \A q \in begun : q.stamp \in 1..lastStart BY DEF CpTypeOK
<1>2. lastStart \in Nat BY DEF CpTypeOK
<1>3. ASSUME entries[f] # None PROVE TaskOK(entries[f], begun) /\ entries[f].file = f /\ entries[f] \in CTasks
  BY <1>3 DEF CpTypeOK, ListOK, TaskOK
<1>4. ASSUME shown[f] # None PROVE TaskOK(shown[f], begun) /\ shown[f].file = f /\ shown[f] \in CTasks
  BY <1>4 DEF CpTypeOK, ListOK, TaskOK
<1>5. ASSUME NEW t \in CTasks, TaskOK(t, begun) PROVE t.stamp \in Nat \ {0} /\ t.stamp <= lastStart /\ Of(t.stamp, t.file)
  <2>1. [stamp |-> t.stamp, file |-> t.file] \in begun BY <1>5 DEF TaskOK
  <2>2. t.stamp \in 1..lastStart BY <1>1, <2>1
  <2> QED BY <1>2, <2>1, <2>2 DEF Of
<1> QED BY <1>2, <1>3, <1>4, <1>5

\* The tasks of events, too.
LEMMA EventsAre ==
    ASSUME CpTypeOK, NEW e \in wire
    PROVE  /\ e.n \in Nat /\ e.n <= said /\ said \in Nat /\ TaskOK(e.task, begun) /\ e.task.file \in Files
           /\ e.task \in CTasks /\ e.task.stamp \in Nat \ {0} /\ e.task.stamp <= lastStart /\ Of(e.task.stamp, e.task.file)
<1>1. e.n \in 1..said /\ TaskOK(e.task, begun) /\ said \in Nat BY DEF CpTypeOK
<1>2. [stamp |-> e.task.stamp, file |-> e.task.file] \in begun /\ e.task \in CTasks BY <1>1 DEF TaskOK
<1>3. e.task.stamp \in 1..lastStart /\ lastStart \in Nat /\ e.task.file \in Files BY <1>2 DEF CpTypeOK
<1> QED BY <1>1, <1>2, <1>3 DEF Of

Spares(t) == \A f \in Files : f # t.file => entries'[f] = entries[f] \/ (entries'[f] = None /\ ~CActive(entries[f]))

LEMMA FinishIs ==
    ASSUME PageSized, CpTypeOK, FinishedAreFew, NEW b, begun \subseteq b, NEW t, TaskOK(t, b), t # None, Finish(t)
    PROVE  /\ ListOK(entries', b) /\ Spares(t) /\ Publish(t, entries') /\ Cardinality(Ended(entries')) <= Limit
           /\ entries'[t.file] = t \/ entries'[t.file] = None
           /\ CActive(t) => entries'[t.file] = t
           /\ \A f \in Files : entries[f] # None /\ entries'[f] = None =>
                  /\ f # t.file \/ ~CActive(t)
                  /\ \A g \in Ended(entries') : /\ g # f /\ entries'[g] = (IF g = t.file THEN t ELSE entries[g])
                                                /\ (IF f = t.file THEN t ELSE entries[f]).stamp <= entries'[g].stamp
<1> DEFINE es == [entries EXCEPT ![t.file] = t]
<1>1. t \in CTasks /\ t.file \in Files BY DEF TaskOK, CTasks
<1>2. ListOK(entries, b) /\ DOMAIN entries = Files
  <2>1. ListOK(entries, begun) BY DEF CpTypeOK
  <2>2. ListOK(entries, b) BY <2>1, ListStays
  <2> QED BY <2>1, <2>2 DEF ListOK
<1>3. es[t.file] = t /\ \A f \in Files : f # t.file => es[f] = entries[f] BY <1>1, <1>2
<1>4. es \in [Files -> CTasks \cup {None}] BY <1>1, <1>2 DEF ListOK
<1>5. entries' = Trim(es) /\ Publish(t, entries') BY DEF Finish
<1> HIDE DEF es
<1>6. ListOK(es, b) BY <1>2, <1>3, <1>4 DEF ListOK
<1>7. Ended(es) \subseteq Ended(entries) \cup {t.file} /\ Ended(entries) \in SUBSET Files BY <1>3 DEF Ended
<1>8. ListOK(entries', b) /\ Cardinality(Ended(entries')) <= Limit
  BY <1>1, <1>5, <1>6, <1>7, TrimIs DEF FinishedAreFew
<1>9. \A f \in Files : entries'[f] = es[f] \/ (entries'[f] = None /\ f \in Ended(es)) BY <1>5, <1>6, TrimIs
<1>10. Spares(t) BY <1>3, <1>9 DEF Spares, Ended
<1>11. CActive(t) => entries'[t.file] = t BY <1>1, <1>3, <1>9 DEF Ended
<1>12. \A f \in Files : entries'[f] = None /\ es[f] # None =>
          \A g \in Ended(entries') : g # f /\ entries'[g] = es[g] /\ es[f].stamp <= es[g].stamp
  <2>1. \A f \in Files : Trim(es)[f] = None /\ es[f] # None =>
            \A g \in Ended(Trim(es)) : g # f /\ Trim(es)[g] = es[g] /\ es[f].stamp <= es[g].stamp
    BY <1>6, TrimIs
  <2> QED BY <1>5, <2>1
<1>13. ASSUME NEW f \in Files, entries[f] # None, entries'[f] = None
       PROVE  /\ f # t.file \/ ~CActive(t)
              /\ \A g \in Ended(entries') : /\ g # f /\ entries'[g] = (IF g = t.file THEN t ELSE entries[g])
                                            /\ (IF f = t.file THEN t ELSE entries[f]).stamp <= entries'[g].stamp
  <2>1. es[f] # None /\ es[f] = (IF f = t.file THEN t ELSE entries[f]) BY <1>3, <1>13
  <2>2. \A g \in Ended(entries') : es[g] = (IF g = t.file THEN t ELSE entries[g]) BY <1>3 DEF Ended
  <2> QED BY <1>11, <1>12, <1>13, <2>1, <2>2
<1> QED BY <1>1, <1>3, <1>5, <1>8, <1>9, <1>10, <1>11, <1>13

LEMMA UpdateIs ==
    ASSUME PageSized, CpTypeOK, FinishedAreFew, NEW t, TaskOK(t, begun), t # None, Update(t),
           CActive(t) \/ (entries[t.file] # None /\ ~CActive(entries[t.file]))
    PROVE  /\ ListOK(entries', begun) /\ Spares(t) /\ Publish(t, entries') /\ Cardinality(Ended(entries')) <= Limit
           /\ entries'[t.file] = t /\ \A f \in Files : entries[f] # None => entries'[f] # None
<1>1. t \in CTasks /\ t.file \in Files BY DEF TaskOK, CTasks
<1>2. ListOK(entries, begun) /\ DOMAIN entries = Files BY DEF CpTypeOK, ListOK
<1>3. entries' = [entries EXCEPT ![t.file] = t] /\ Publish(t, entries') BY DEF Update
<1>4. entries'[t.file] = t /\ \A f \in Files : f # t.file => entries'[f] = entries[f] BY <1>1, <1>2, <1>3
<1>5. entries' \in [Files -> CTasks \cup {None}] BY <1>1, <1>2, <1>3 DEF ListOK
<1>6. ListOK(entries', begun) BY <1>2, <1>4, <1>5 DEF ListOK
<1>7. Ended(entries') \subseteq Ended(entries) BY <1>1, <1>4 DEF Ended
<1>8. IsFiniteSet(Ended(entries)) /\ Limit \in Nat BY FS_Subset DEF Ended, PageSized
<1>9. /\ Cardinality(Ended(entries')) <= Cardinality(Ended(entries)) /\ IsFiniteSet(Ended(entries'))
  BY <1>7, <1>8, FS_Subset
<1>10. Cardinality(Ended(entries')) <= Limit
  <2>1. Cardinality(Ended(entries')) \in Nat /\ Cardinality(Ended(entries)) \in Nat BY <1>8, <1>9, FS_CardinalityType
  <2> QED BY <2>1, <1>8, <1>9 DEF FinishedAreFew
<1> QED BY <1>3, <1>4, <1>6, <1>10 DEF Spares

\* A task was published: it is in its entry, unless it ended and was trimmed or the entry is of a later start.
Sending(t) ==
    /\ TaskOK(t, begun') /\ Publish(t, entries') /\ ListOK(entries', begun') /\ Spares(t)
    /\ Cardinality(Ended(entries')) <= Limit /\ online' = online
    /\ \/ entries'[t.file] = t
       \/ ~CActive(t) /\ entries'[t.file] = None
       \/ /\ ~CActive(t) /\ entries'[t.file] = entries[t.file]
          /\ CActive(entries[t.file]) => t.stamp < entries[t.file].stamp
    /\ t.state = "queued" => /\ t.stamp = lastStart + 1 /\ lastStart' = lastStart + 1 /\ heard' = (IF online THEN heard ELSE lastStart + 1)
                             /\ begun' = begun \cup {[stamp |-> lastStart + 1, file |-> t.file]}
    /\ t.state # "queued" => lastStart' = lastStart /\ heard' = heard /\ begun' = begun
    /\ t.state = "running" => CActive(entries[t.file]) /\ entries[t.file].stamp = t.stamp

\* What it leaves: an entry is an old one, or the task.
LEMMA SentEntries ==
    ASSUME PageSized, CpTypeOK, NEW t, Sending(t)
    PROVE  /\ t \in CTasks /\ t.file \in Files /\ t.stamp \in Nat \ {0} /\ t # None
           /\ \A f \in Files : CActive(entries'[f]) => entries'[f] = entries[f] \/ (f = t.file /\ entries'[f] = t)
           /\ \A f \in Files, s \in 1..lastStart : Of(s, f)' => Of(s, f)
           /\ lastStart \in Nat /\ said \in Nat /\ heard \in Nat /\ heard <= lastStart
           /\ CActive(t) <=> t.state \in {"queued", "running"}
           /\ begun \subseteq begun' /\ lastStart' \in Nat /\ lastStart <= lastStart' /\ begun' \subseteq [stamp : 1..lastStart', file : Files]
           /\ wire' = IF online THEN wire \cup {[n |-> said + 1, task |-> t]} ELSE wire
           /\ said' = said + 1
<1>1. t \in CTasks /\ t.file \in Files /\ t.stamp \in Nat \ {0} BY DEF Sending, TaskOK, CTasks
<1>2. t # None BY <1>1 DEF PageSized
<1>3. lastStart \in Nat /\ said \in Nat /\ heard \in Nat /\ heard <= lastStart BY DEF CpTypeOK
<1>4. CActive(t) <=> t.state \in {"queued", "running"} BY <1>2 DEF CActive
<1>5. wire' = (IF online THEN wire \cup {[n |-> said + 1, task |-> t]} ELSE wire) /\ said' = said + 1 BY DEF Sending, Publish
<1>6. \A f \in Files : CActive(entries'[f]) => entries'[f] = entries[f] \/ (f = t.file /\ entries'[f] = t)
  BY DEF Sending, Spares, CActive
<1>7. begun \subseteq [stamp : 1..lastStart, file : Files] BY DEF CpTypeOK
<1>8. CASE t.state = "queued"
  <2>1. begun' = begun \cup {[stamp |-> lastStart + 1, file |-> t.file]} /\ lastStart' = lastStart + 1 BY <1>8 DEF Sending
  <2>2. begun' \subseteq [stamp : 1..lastStart', file : Files] BY <1>1, <1>3, <1>7, <2>1
  <2>3. ASSUME NEW f \in Files, NEW s \in 1..lastStart, Of(s, f)' PROVE Of(s, f)
    <3>1. [stamp |-> s, file |-> f] # [stamp |-> lastStart + 1, file |-> t.file] BY <1>3
    <3> QED BY <2>1, <2>3, <3>1 DEF Of
  <2> QED BY <1>1, <1>2, <1>3, <1>4, <1>5, <1>6, <2>1, <2>2, <2>3
<1>9. CASE t.state # "queued"
  <2>1. begun' = begun /\ lastStart' = lastStart BY <1>9 DEF Sending
  <2> QED BY <1>1, <1>2, <1>3, <1>4, <1>5, <1>6, <1>7, <2>1 DEF Of
<1> QED BY <1>8, <1>9

LEMMA SentWire ==
    ASSUME PageSized, CpTypeOK, WireInv, NEW t, Sending(t) PROVE WireInv'
<1> USE SentEntries
<1>1. \A e \in wire : e.n \in Nat /\ e.n <= said /\ e.task.stamp <= lastStart /\ e.task.stamp \in Nat /\ e.task.file \in Files BY EventsAre
<1>2. CASE ~online
  <2>1. wire = {} /\ wire' = {} /\ heard = lastStart /\ ~online' BY <1>2 DEF WireInv, Sending
  <2>2. heard' = lastStart' BY <1>2, <2>1 DEF Sending
  <2>3. LastEventIsTheEntry' BY <2>1 DEF LastEventIsTheEntry
  <2> QED BY <2>1, <2>2, <2>3 DEF WireInv
<1>3. CASE online
  <2> DEFINE new == [n |-> said + 1, task |-> t]
  <2>1. wire' = wire \cup {new} /\ new.n = said + 1 /\ new.task = t BY <1>3
  <2> HIDE DEF new
  <2>2. heard' = heard /\ online' BY <1>3 DEF Sending
  <2>3. \A e, d \in wire' : e.n = d.n => e = d BY <1>1, <2>1 DEF WireInv
  <2>4. ASSUME NEW s \in Nat, heard' < s, s <= lastStart' PROVE \E e \in wire' : e.task.state = "queued" /\ e.task.stamp = s
    <3>1. CASE s <= lastStart BY <2>1, <2>2, <2>4, <3>1 DEF WireInv
    <3>2. CASE ~(s <= lastStart) BY <2>1, <2>4, <3>2 DEF Sending
    <3> QED BY <3>1, <3>2
  <2>5. \A e \in wire' : e.task.state = "queued" => heard' < e.task.stamp BY <2>1, <2>2 DEF WireInv, Sending
  <2>6. \A e, d \in wire' : e.task.state = "queued" /\ d.task.state = "queued" /\ e.n < d.n => e.task.stamp < d.task.stamp
    BY <1>1, <2>1 DEF WireInv, Sending
  <2>7. ASSUME NEW e \in wire', e.task.file \notin shadowed', entries'[e.task.file] # None,
               \A d \in wire' : d.task.file = e.task.file => d.n <= e.n
        PROVE  e.task = entries'[e.task.file]
    <3>0. shadowed' = (IF entries'[t.file] = t THEN shadowed \ {t.file} ELSE shadowed \cup {t.file}) BY DEF Sending, Publish
    <3>1. CASE e = new BY <2>1, <2>7, <3>0, <3>1
    <3>2. CASE e \in wire
      <4>1. e.task.file # t.file BY <1>1, <2>1, <2>7, <3>2
      <4>2. e.task.file \notin shadowed BY <2>7, <3>0, <4>1
      <4>3. entries'[e.task.file] = entries[e.task.file] BY <1>1, <2>7, <3>2, <4>1 DEF Sending, Spares
      <4> QED BY <2>1, <2>7, <3>2, <4>2, <4>3 DEF WireInv, LastEventIsTheEntry
    <3> QED BY <2>1, <3>1, <3>2
  <2>8. LastEventIsTheEntry' BY <2>7 DEF LastEventIsTheEntry
  <2> QED BY <2>2, <2>3, <2>4, <2>5, <2>6, <2>8 DEF WireInv
<1>4. online \in BOOLEAN BY DEF CpTypeOK
<1> QED BY <1>2, <1>3, <1>4

LEMMA SentEnd ==
    ASSUME PageSized, CpTypeOK, EndInv, NEW t, Sending(t), UNCHANGED <<shown, via, announced>> PROVE EndInv'
<1> USE SentEntries
<1>1. \A e \in wire : e.n \in Nat /\ e.n <= said /\ e.task.stamp <= lastStart /\ e.task.stamp \in Nat /\ e.task.file \in Files BY EventsAre
<1>2. \A e \in wire' : e \in wire \/ (e.n = said + 1 /\ e.task = t) OBVIOUS
<1>3. announced \subseteq 1..lastStart BY DEF CpTypeOK
<1>4. CActive(t) => lastStart < t.stamp \/ (CActive(entries[t.file]) /\ entries[t.file].stamp = t.stamp) BY DEF Sending
<1>5. \A f \in Files : CActive(entries[f]) => entries[f].stamp \in Nat BY EntriesAre DEF CActive
<1>6. ASSUME NEW e \in wire', NEW d \in wire', e.task.file = d.task.file, e.n < d.n, ~CActive(e.task), d.task.stamp <= e.task.stamp
      PROVE  ~CActive(d.task)
  <2>1. e \in wire BY <1>1, <1>2, <1>6
  <2>2. CASE d \in wire BY <1>6, <2>1, <2>2 DEF EndInv
  <2>3. CASE d.task = t
    <3>1. CActive(entries[e.task.file]) => e.task.stamp < entries[e.task.file].stamp BY <1>6, <2>1 DEF EndInv
    <3> QED BY <1>1, <1>4, <1>5, <1>6, <2>1, <2>3, <3>1
  <2> QED BY <1>2, <2>2, <2>3
<1>7. ASSUME NEW e \in wire', ~CActive(e.task), CActive(entries'[e.task.file])
      PROVE  e.task.stamp < entries'[e.task.file].stamp
  <2>1. CASE e \in wire
    <3>1. CActive(entries[e.task.file]) => e.task.stamp < entries[e.task.file].stamp BY <1>7, <2>1 DEF EndInv
    <3>2. entries'[e.task.file] = entries[e.task.file] \/ (e.task.file = t.file /\ entries'[e.task.file] = t) BY <1>1, <1>7, <2>1
    <3> QED BY <1>1, <1>4, <1>5, <1>7, <2>1, <3>1, <3>2
  <2>2. CASE e.task = t
    <3>1. entries'[t.file] # None /\ entries'[t.file] # t BY <1>7, <2>2 DEF CActive
    <3>2. entries'[t.file] = entries[t.file] /\ (CActive(entries[t.file]) => t.stamp < entries[t.file].stamp) BY <3>1 DEF Sending
    <3> QED BY <1>7, <2>2, <3>2
  <2> QED BY <1>2, <2>1, <2>2
<1>8. ASSUME CActive(t), NEW s \in announced, Of(s, t.file) PROVE s < t.stamp
  <2>1. CActive(entries[t.file]) => s < entries[t.file].stamp BY <1>8 DEF EndInv
  <2>2. s \in 1..lastStart BY <1>3
  <2> QED BY <1>4, <1>8, <2>1, <2>2
<1>9. ASSUME NEW f \in Files, CActive(entries'[f]), NEW s \in announced', Of(s, f)' PROVE s < entries'[f].stamp
  <2>1. Of(s, f) /\ s \in announced BY <1>3, <1>9
  <2>2. entries'[f] = entries[f] \/ (f = t.file /\ entries'[f] = t) BY <1>9
  <2> QED BY <1>8, <1>9, <2>1, <2>2 DEF EndInv
<1>10. ASSUME NEW e \in wire', CActive(e.task), NEW s \in announced', Of(s, e.task.file)' PROVE s < e.task.stamp
  <2>1. e.task.file \in Files BY <1>1, <1>2
  <2>2. Of(s, e.task.file) /\ s \in announced BY <1>3, <1>10, <2>1
  <2> QED BY <1>2, <1>8, <1>10, <2>2 DEF EndInv
<1>11. ASSUME NEW f \in Files, CActive(shown'[f]), via'[f] = "event", NEW s \in announced', Of(s, f)' PROVE s < shown'[f].stamp
  <2>1. Of(s, f) /\ s \in announced BY <1>3, <1>11
  <2> QED BY <1>11, <2>1 DEF EndInv
<1>12. \A f \in Files : CActive(entries'[f]) => \A s \in announced' : Of(s, f)' => s < entries'[f].stamp BY <1>9
<1>13. \A e \in wire' : CActive(e.task) => \A s \in announced' : Of(s, e.task.file)' => s < e.task.stamp BY <1>10
<1>14. \A f \in Files : CActive(shown'[f]) /\ via'[f] = "event" => \A s \in announced' : Of(s, f)' => s < shown'[f].stamp BY <1>11
<1> QED
  <2> HIDE DEF CActive, Of
  <2> QED BY <1>6, <1>7, <1>12, <1>13, <1>14 DEF EndInv

LEMMA SentOnce ==
    ASSUME PageSized, CpTypeOK, BegunOnce, NEW t, Sending(t) PROVE BegunOnce'
<1>1. begun \subseteq [stamp : 1..lastStart, file : Files] /\ lastStart \in Nat BY DEF CpTypeOK
<1>2. \A p \in begun : p.stamp <= lastStart BY <1>1
<1>3. CASE t.state = "queued"
  <2> DEFINE new == [stamp |-> lastStart + 1, file |-> t.file]
  <2>1. begun' = begun \cup {new} /\ new.stamp = lastStart + 1 BY <1>3 DEF Sending
  <2> HIDE DEF new
  <2>2. \A p \in begun : p.stamp # new.stamp BY <1>1, <1>2, <2>1
  <2> QED BY <2>1, <2>2 DEF BegunOnce
<1>4. CASE t.state # "queued"
  <2>1. begun' = begun BY <1>4 DEF Sending
  <2> QED BY <2>1 DEF BegunOnce
<1> QED BY <1>3, <1>4

\* The order on the page stays when nothing is put anywhere.
LEMMA OrderStays ==
    ASSUME CpTypeOK, QueueIsShownInOrder, UNCHANGED <<shown, via, place>>,
           missed' \/ (missed' = missed /\ (heard' = heard \/ heard = lastStart))
    PROVE  QueueIsShownInOrder'
<1>1. \A f \in Files : shown[f] # None => shown[f].stamp <= lastStart BY EntriesAre
<1>2. ASSUME ~missed', NEW f \in Files, NEW g \in Files,
             /\ shown'[f] # None /\ shown'[f].state = "queued" /\ via'[f] # "answer"
             /\ shown'[g] # None /\ shown'[g].state = "queued" /\ via'[g] # "answer"
             /\ shown'[f].stamp < shown'[g].stamp /\ shown'[g].stamp <= heard'
      PROVE  Leads(f, g)'
  <2>1. ~missed /\ shown[g].stamp <= heard BY <1>1, <1>2
  <2>2. Leads(f, g) BY <1>2, <2>1 DEF QueueIsShownInOrder
  <2> QED BY <2>2 DEF Leads
<1> QED BY <1>2 DEF QueueIsShownInOrder

\* What runs and what is removed, when a task is published by the run, a start, a cancellation or a removal.
LEMMA SentRun ==
    ASSUME PageSized, CpTypeOK, RunInv, NEW t, Sending(t), worker' = worker, removals' \subseteq removals,
           t.state = "running" => worker # None /\ worker.file = t.file /\ worker.stamp = t.stamp
    PROVE  RunInv'
<1> USE SentEntries
<1>1. \A f \in Files : entries'[f] # None => (CActive(entries'[f]) <=> entries'[f].state \in {"queued", "running"}) BY DEF CActive
<1>2. ASSUME NEW f \in Files, entries'[f] # None, entries'[f].state = "running"
      PROVE  worker' # None /\ worker'.file = f /\ worker'.stamp = entries'[f].stamp
  <2>1. entries'[f] = entries[f] \/ (f = t.file /\ entries'[f] = t) BY <1>1, <1>2
  <2> QED BY <1>2, <2>1 DEF RunInv
<1>3. ASSUME worker' # None, NEW f \in Files, entries'[f] # None, entries'[f].state = "queued"
      PROVE  worker'.stamp < entries'[f].stamp
  <2>1. entries'[f] = entries[f] \/ (f = t.file /\ entries'[f] = t) BY <1>1, <1>3
  <2>2. worker.stamp \in Nat /\ worker.stamp <= lastStart
    <3>1. [stamp |-> worker.stamp, file |-> worker.file] \in begun /\ worker.stamp \in Nat BY <1>3 DEF CpTypeOK
    <3>2. worker.stamp \in 1..lastStart BY <3>1 DEF CpTypeOK
    <3> QED BY <3>1, <3>2
  <2>3. CASE entries'[f] = entries[f] BY <1>3, <2>3 DEF RunInv
  <2>4. CASE entries'[f] = t BY <1>3, <2>2, <2>4 DEF Sending
  <2> QED BY <2>1, <2>3, <2>4
<1>4. ASSUME NEW r \in removals', CActive(entries'[r.task.file]) PROVE r.task.stamp < entries'[r.task.file].stamp
  <2>0. r \in removals OBVIOUS
  <2>1. TaskOK(r.task, begun) BY <2>0 DEF CpTypeOK
  <2>2. r.task.file \in Files /\ r.task.stamp \in 1..lastStart
    <3>1. [stamp |-> r.task.stamp, file |-> r.task.file] \in begun BY <2>1 DEF TaskOK
    <3> QED BY <3>1 DEF CpTypeOK
  <2>3. CActive(entries[r.task.file]) => r.task.stamp < entries[r.task.file].stamp BY <2>0 DEF RunInv
  <2>4. CASE entries'[r.task.file] = entries[r.task.file] BY <1>4, <2>3, <2>4
  <2>5. CASE r.task.file = t.file /\ entries'[r.task.file] = t
    <3>1. CASE t.state = "queued" BY <2>2, <2>5, <3>1 DEF Sending
    <3>2. CASE t.state = "running" BY <2>3, <2>5, <3>2 DEF Sending
    <3> QED BY <1>4, <2>5, <3>1, <3>2
  <2> QED BY <1>4, <2>2, <2>4, <2>5
<1>5. FinishedAreFew' BY DEF Sending, FinishedAreFew
<1> QED BY <1>2, <1>3, <1>4, <1>5 DEF RunInv

--------------------------------------------------------------------------------
(* Steps that publish none.                                                     *)

\* Entries may go, events may be lost; what the page shows of a file by an event stays.
Quiet ==
    /\ ListOK(entries', begun) /\ \A f \in Files : entries'[f] \in {entries[f], None}
    /\ UNCHANGED <<lastStart, begun, said, shadowed, announced>>
    /\ \/ UNCHANGED <<wire, heard>> /\ (online' = online \/ online' = TRUE)
       \/ wire' = {} /\ heard' = lastStart
    /\ \A f \in Files : via'[f] = "event" => via[f] = "event" /\ shown'[f] = shown[f]

LEMMA QuietKeeps ==
    ASSUME PageSized, CpTypeOK, BegunOnce, WireInv, EndInv, FinishedAreFew, Quiet
    PROVE  BegunOnce' /\ WireInv' /\ EndInv' /\ FinishedAreFew'
<1>1. BegunOnce' BY DEF BegunOnce, Quiet
<1>2. \A f \in Files : CActive(entries'[f]) => entries'[f] = entries[f] BY DEF Quiet, CActive
<1>3. \A e \in wire : e.task.file \in Files BY EventsAre
<1>4. UNCHANGED <<lastStart, begun, said, shadowed, announced>> BY DEF Quiet
<1>5. wire' \subseteq wire BY DEF Quiet
<1>6. WireInv'
  <2>1. CASE UNCHANGED <<wire, heard>> /\ (online' = online \/ online' = TRUE)
    <3>1. LastEventIsTheEntry'
      <4>1. \A e \in wire : entries'[e.task.file] # None => entries'[e.task.file] = entries[e.task.file] BY <1>3 DEF Quiet
      <4> QED BY <1>4, <2>1, <4>1 DEF LastEventIsTheEntry, WireInv
    <3>2. ~online' => wire' = {} /\ heard' = lastStart' BY <1>4, <2>1 DEF WireInv
    <3> QED BY <1>4, <2>1, <3>1, <3>2 DEF WireInv
  <2>2. CASE wire' = {} /\ heard' = lastStart
    <3>1. LastEventIsTheEntry' BY <2>2 DEF LastEventIsTheEntry
    <3>2. lastStart \in Nat BY DEF CpTypeOK
    <3> QED BY <1>4, <2>2, <3>1, <3>2 DEF WireInv
  <2> QED BY <2>1, <2>2 DEF Quiet
<1>7. EndInv'
  <2>1. \A f \in Files, s \in announced : Of(s, f)' <=> Of(s, f) BY <1>4 DEF Of
  <2>2. \A f \in Files : CActive(entries'[f]) => \A s \in announced' : Of(s, f)' => s < entries'[f].stamp
    BY <1>2, <1>4, <2>1 DEF EndInv
  <2>3. \A e \in wire' : CActive(e.task) => \A s \in announced' : Of(s, e.task.file)' => s < e.task.stamp
    BY <1>3, <1>4, <1>5, <2>1 DEF EndInv
  <2>4. \A f \in Files : CActive(shown'[f]) /\ via'[f] = "event" => \A s \in announced' : Of(s, f)' => s < shown'[f].stamp
    BY <1>4, <2>1 DEF EndInv, Quiet
  <2>5. \A e \in wire' : ~CActive(e.task) /\ CActive(entries'[e.task.file]) => e.task.stamp < entries'[e.task.file].stamp
    BY <1>2, <1>3, <1>5 DEF EndInv
  <2>6. \A e, d \in wire' : e.task.file = d.task.file /\ e.n < d.n /\ ~CActive(e.task) /\ d.task.stamp <= e.task.stamp
           => ~CActive(d.task)
    BY <1>5 DEF EndInv
  <2> HIDE DEF CActive, Of
  <2> QED BY <2>2, <2>3, <2>4, <2>5, <2>6 DEF EndInv
<1>8. FinishedAreFew'
  <2>1. Ended(entries') \subseteq Ended(entries) BY DEF Ended, Quiet
  <2>2. IsFiniteSet(Ended(entries)) /\ Limit \in Nat BY FS_Subset DEF Ended, PageSized
  <2>3. Cardinality(Ended(entries')) <= Cardinality(Ended(entries)) /\ IsFiniteSet(Ended(entries')) BY <2>1, <2>2, FS_Subset
  <2>4. Cardinality(Ended(entries')) \in Nat /\ Cardinality(Ended(entries)) \in Nat BY <2>2, <2>3, FS_CardinalityType
  <2> QED BY <2>2, <2>3, <2>4 DEF FinishedAreFew
<1> QED BY <1>1, <1>6, <1>7, <1>8

\* The run of an entry that waits or runs goes on, or it is over.
LEMMA QuietRun ==
    ASSUME PageSized, CpTypeOK, BegunOnce, WireInv, EndInv, RunInv, Quiet,
           worker' = worker \/ (worker' = None /\ \A f \in Files : entries'[f] # None => entries'[f].state # "running"),
           \A r \in removals' : r \in removals \/ ~CActive(entries'[r.task.file])
    PROVE  RunInv'
<1>1. FinishedAreFew' BY QuietKeeps DEF RunInv
<1>2. \A f \in Files : entries'[f] # None => entries'[f] = entries[f] BY DEF Quiet
<1>3. \A r \in removals : r.task.file \in Files
  <2>1. \A r \in removals : TaskOK(r.task, begun) BY DEF CpTypeOK
  <2> QED BY <2>1 DEF TaskOK, CTasks
<1>4. \A r \in removals' : CActive(entries'[r.task.file]) => r.task.stamp < entries'[r.task.file].stamp
  <2>1. \A f \in Files : CActive(entries'[f]) => entries'[f] = entries[f] BY <1>2 DEF CActive
  <2> QED BY <1>3, <2>1 DEF RunInv
<1>5. \A f \in Files : entries'[f] # None /\ entries'[f].state = "running" =>
           worker' # None /\ worker'.file = f /\ worker'.stamp = entries'[f].stamp
  BY <1>2 DEF RunInv
<1>6. worker' # None => \A f \in Files : entries'[f] # None /\ entries'[f].state = "queued" => worker'.stamp < entries'[f].stamp
  BY <1>2 DEF RunInv
<1> QED BY <1>1, <1>4, <1>5, <1>6 DEF RunInv

--------------------------------------------------------------------------------
(* Each step that publishes.                                                    *)

LEMMA StartSends ==
    ASSUME PageSized, CpTypeOK, FinishedAreFew, NEW f \in Files, ~CActive(entries[f]), StartTask(f)
    PROVE  /\ Sending(NewTask(f)) /\ NewTask(f).state = "queued" /\ NewTask(f).file = f /\ NewTask(f).stamp = lastStart + 1
           /\ TaskOK(NewTask(f), begun') /\ UNCHANGED <<worker, removals, online>>
<1> DEFINE t == NewTask(f)
<1>1. /\ Finish(t) /\ lastStart' = lastStart + 1 /\ begun' = begun \cup {[stamp |-> lastStart + 1, file |-> f]}
      /\ heard' = (IF online THEN heard ELSE lastStart + 1) /\ UNCHANGED <<worker, removals, online>>
  BY DEF StartTask
<1>2. lastStart + 1 \in Nat \ {0} BY DEF CpTypeOK
<1>3. TaskOK(t, begun') /\ t # None /\ t.file = f /\ t.stamp = lastStart + 1 /\ t.state = "queued" /\ CActive(t)
  <2> DEFINE s == lastStart + 1
  <2>1. t = CTask(f, s, "queued", None) BY DEF NewTask
  <2>2. [stamp |-> s, file |-> f] \in begun' BY <1>1
  <2>3. s \in Nat \ {0} BY <1>2
  <2> HIDE DEF s, t
  <2>4. TaskOK(t, begun') /\ t # None /\ t.file = f /\ t.stamp = s /\ t.state = "queued" /\ CActive(t)
    BY <2>1, <2>2, <2>3, CTaskIs
  <2> QED BY <2>4 DEF s
<1> HIDE DEF t
<1>4. /\ ListOK(entries', begun') /\ Spares(t) /\ Publish(t, entries') /\ Cardinality(Ended(entries')) <= Limit
      /\ entries'[t.file] = t
  BY <1>1, <1>3, FinishIs
<1>5. Sending(t) BY <1>1, <1>3, <1>4 DEF Sending
<1> QED BY <1>1, <1>3, <1>5 DEF t

\* A task of an entry that runs or waits takes its place.
LEMMA EndSends ==
    ASSUME PageSized, CpTypeOK, FinishedAreFew, NEW t, TaskOK(t, begun), t # None, t.state \in {"done", "failed", "cancelled"},
           Finish(t), UNCHANGED <<lastStart, online, begun, heard>>
    PROVE  Sending(t)
<1>1. ~CActive(t) BY DEF CActive
<1>2. /\ ListOK(entries', begun) /\ Spares(t) /\ Publish(t, entries') /\ Cardinality(Ended(entries')) <= Limit
      /\ entries'[t.file] = t \/ entries'[t.file] = None
  BY FinishIs
<1> QED BY <1>1, <1>2 DEF Sending

LEMMA CancelSends ==
    ASSUME PageSized, CpTypeOK, FinishedAreFew, NEW f \in Files, CActive(entries[f]), Cancel(f)
    PROVE  /\ Sending(Stopped(f)) /\ Stopped(f).state = "cancelled" /\ TaskOK(Stopped(f), begun')
           /\ UNCHANGED <<lastStart, worker, removals, online, begun, heard>>
<1> DEFINE t == Stopped(f)
<1>1. Finish(t) /\ UNCHANGED <<lastStart, worker, removals, online, begun, heard>> BY DEF Cancel
<1>2. entries[f] # None BY DEF CActive
<1>3. entries[f].stamp \in Nat \ {0} /\ Of(entries[f].stamp, f) BY <1>2, EntriesAre
<1>4. t = CTask(f, entries[f].stamp, "cancelled", None) BY DEF Stopped
<1>5. TaskOK(t, begun) /\ t # None /\ t.state = "cancelled" BY <1>3, <1>4, CTaskIs DEF Of
<1> HIDE DEF t
<1>6. Sending(t) BY <1>1, <1>5, EndSends
<1> QED BY <1>1, <1>5, <1>6 DEF t

LEMMA UpdateSends ==
    ASSUME PageSized, CpTypeOK, FinishedAreFew, NEW t, TaskOK(t, begun), t # None, t.state # "queued", Update(t),
           entries[t.file] # None, entries[t.file].stamp = t.stamp, CActive(t) <=> CActive(entries[t.file]),
           UNCHANGED <<lastStart, online, begun, heard>>
    PROVE  Sending(t)
<1>1. t.state = "running" => CActive(t) BY DEF CActive
<1>2. /\ ListOK(entries', begun) /\ Spares(t) /\ Publish(t, entries') /\ Cardinality(Ended(entries')) <= Limit
      /\ entries'[t.file] = t
  BY UpdateIs
<1> QED BY <1>1, <1>2 DEF Sending

\* A task whose entry is gone, or of a later start.
LEMMA StraySends ==
    ASSUME PageSized, CpTypeOK, FinishedAreFew, NEW t, TaskOK(t, begun), t # None, t.state \in {"done", "cancelled"},
           Publish(t, entries), entries' = entries,
           CActive(entries[t.file]) => t.stamp < entries[t.file].stamp,
           UNCHANGED <<lastStart, online, begun, heard>>
    PROVE  Sending(t)
<1>1. ~CActive(t) BY DEF CActive
<1>2. Publish(t, entries') BY DEF Publish
<1>3. ListOK(entries', begun) /\ Cardinality(Ended(entries')) <= Limit BY DEF CpTypeOK, FinishedAreFew
<1> QED BY <1>1, <1>2, <1>3 DEF Sending, Spares

LEMMA RunBeginsSends ==
    ASSUME PageSized, CpTypeOK, BegunOnce, RunInv, RunBegins
    PROVE  \E t : /\ Sending(t) /\ t.state = "running" /\ worker' = [file |-> t.file, stamp |-> t.stamp] /\ TaskOK(t, begun)
                  /\ RunInv'
<1>1. PICK f \in Files :
          /\ entries[f] # None /\ entries[f].state = "queued"
          /\ \A g \in Files : entries[g] # None /\ entries[g].state = "queued" => entries[f].stamp <= entries[g].stamp
          /\ worker' = [file |-> f, stamp |-> entries[f].stamp]
          /\ Update(CTask(f, entries[f].stamp, "running", "compressing"))
  BY DEF RunBegins
<1> DEFINE t == CTask(f, entries[f].stamp, "running", "compressing")
<1>2. entries[f].stamp \in Nat \ {0} /\ Of(entries[f].stamp, f) BY <1>1, EntriesAre
<1>3. TaskOK(t, begun) /\ t # None /\ t.file = f /\ t.stamp = entries[f].stamp /\ t.state = "running" /\ CActive(t)
  <2>1. "compressing" \in Phases /\ "compressing" # None BY DEF Phases, PageSized
  <2> QED BY <1>2, <2>1, CTaskIs DEF Of
<1>4. Update(t) BY <1>1
<1> HIDE DEF t
<1>5. CActive(entries[f]) BY <1>1 DEF CActive
<1>6. UNCHANGED <<lastStart, online, begun, heard, removals>> BY DEF RunBegins
<1>7. Sending(t) BY <1>1, <1>3, <1>4, <1>5, <1>6, UpdateSends DEF RunInv
<1>8. entries'[f] = t /\ \A g \in Files : g # f => entries'[g] = entries[g]
  <2>1. DOMAIN entries = Files BY DEF CpTypeOK, ListOK
  <2> QED BY <1>3, <1>4, <2>1 DEF Update
<1>9. RunInv'
  <2>1. \A g \in Files : entries[g] # None => entries[g].state # "running" BY DEF RunInv, RunBegins
  <2>2. worker' # None /\ worker'.file = f /\ worker'.stamp = entries[f].stamp
    <3>1. worker' \in [file : Files, stamp : Nat] BY <1>1, <1>2
    <3> QED BY <1>1, <3>1 DEF PageSized
  <2>3. \A g \in Files : entries'[g] # None /\ entries'[g].state = "running" =>
           worker' # None /\ worker'.file = g /\ worker'.stamp = entries'[g].stamp
    BY <1>3, <1>8, <2>1, <2>2
  <2>4. ASSUME NEW g \in Files, entries'[g] # None, entries'[g].state = "queued" PROVE worker'.stamp < entries'[g].stamp
    <3>1. g # f /\ entries'[g] = entries[g] BY <1>3, <1>8, <2>4
    <3>2. entries[f].stamp <= entries[g].stamp /\ entries[g].stamp \in Nat /\ Of(entries[g].stamp, g) BY <1>1, <2>4, <3>1, EntriesAre
    <3>3. entries[f].stamp # entries[g].stamp
      <4>1. [stamp |-> entries[f].stamp, file |-> f] # [stamp |-> entries[g].stamp, file |-> g] BY <3>1
      <4>2. [stamp |-> entries[f].stamp, file |-> f].stamp = entries[f].stamp /\ [stamp |-> entries[g].stamp, file |-> g].stamp = entries[g].stamp
        OBVIOUS
      <4> QED BY <1>2, <3>2, <4>1, <4>2 DEF BegunOnce, Of
    <3> QED BY <1>2, <2>2, <3>1, <3>2, <3>3
  <2>5. FinishedAreFew' BY <1>7 DEF Sending, FinishedAreFew
  <2>6. ASSUME NEW r \in removals', CActive(entries'[r.task.file]) PROVE r.task.stamp < entries'[r.task.file].stamp
    <3>1. r \in removals BY <1>6
    <3>2. TaskOK(r.task, begun) BY <3>1 DEF CpTypeOK
    <3>3. r.task.file \in Files BY <3>2 DEF TaskOK, CTasks
    <3> QED BY <1>3, <1>5, <1>8, <2>6, <3>1, <3>3 DEF RunInv
  <2> QED BY <2>3, <2>4, <2>5, <2>6 DEF RunInv
<1> QED BY <1>1, <1>3, <1>7, <1>9

LEMMA ProgressSends ==
    ASSUME PageSized, CpTypeOK, RunInv, NEW p \in Phases, Progress(p)
    PROVE  \E t : Sending(t) /\ RunInv'
<1> DEFINE t == CTask(worker.file, worker.stamp, "running", p)
<1>1. Running /\ Update(t) /\ UNCHANGED <<lastStart, worker, removals, online, begun, heard>> BY DEF Progress
<1>2. worker # None /\ entries[worker.file] # None /\ entries[worker.file].stamp = worker.stamp /\ entries[worker.file].state = "running"
  BY <1>1 DEF Running
<1>3. worker \in [file : Files, stamp : Nat \ {0}] /\ [stamp |-> worker.stamp, file |-> worker.file] \in begun BY <1>2 DEF CpTypeOK
<1>4. worker.file \in Files /\ worker.stamp \in Nat \ {0} /\ p # None BY <1>3 DEF PageSized
<1>5. TaskOK(t, begun) /\ t # None /\ t.file = worker.file /\ t.stamp = worker.stamp /\ t.state = "running" /\ CActive(t)
  BY <1>3, <1>4, CTaskIs
<1> HIDE DEF t
<1>6. CActive(entries[t.file]) BY <1>2, <1>5 DEF CActive
<1>7. Sending(t) BY <1>1, <1>2, <1>5, <1>6, UpdateSends DEF RunInv
<1>8. RunInv' BY <1>1, <1>2, <1>5, <1>7, SentRun
<1> QED BY <1>7, <1>8

LEMMA LateSends ==
    ASSUME PageSized, CpTypeOK, RunInv, NEW p \in {"compressing", "checking"}, LateProgress(p)
    PROVE  \E t : Sending(t) /\ RunInv'
<1> DEFINE t == CTask(worker.file, worker.stamp, "cancelled", p)
<1>1. /\ worker # None /\ ~Running /\ UNCHANGED <<lastStart, worker, removals, online, begun, heard>>
      /\ IF entries[t.file] # None /\ entries[t.file].stamp = t.stamp THEN Update(t)
         ELSE Publish(t, entries) /\ UNCHANGED entries
  BY DEF LateProgress
<1>3. worker \in [file : Files, stamp : Nat \ {0}] /\ [stamp |-> worker.stamp, file |-> worker.file] \in begun BY <1>1 DEF CpTypeOK
<1>4. worker.file \in Files /\ worker.stamp \in Nat \ {0} /\ p \in Phases /\ p # None BY <1>3 DEF PageSized, Phases
<1>5. TaskOK(t, begun) /\ t # None /\ t.file = worker.file /\ t.stamp = worker.stamp /\ t.state = "cancelled" /\ ~CActive(t)
  BY <1>3, <1>4, CTaskIs
<1> HIDE DEF t
<1>6. ASSUME CActive(entries[t.file]) PROVE t.stamp < entries[t.file].stamp
  <2>1. entries[t.file] # None /\ entries[t.file].state \in {"queued", "running"} BY <1>6 DEF CActive
  <2>2. CASE entries[t.file].state = "queued" BY <1>1, <1>4, <1>5, <2>1, <2>2 DEF RunInv
  <2>3. CASE entries[t.file].state = "running"
    <3>1. worker.stamp = entries[t.file].stamp BY <1>4, <1>5, <2>1, <2>3 DEF RunInv
    <3> QED BY <1>1, <1>5, <2>1, <2>3, <3>1 DEF Running
  <2> QED BY <2>1, <2>2, <2>3
<1>7. CASE entries[t.file] # None /\ entries[t.file].stamp = t.stamp
  <2>1. ~CActive(entries[t.file]) BY <1>4, <1>5, <1>6, <1>7
  <2>2. Sending(t) BY <1>1, <1>5, <1>7, <2>1, UpdateSends DEF RunInv
  <2>3. RunInv' BY <1>1, <1>5, <2>2, SentRun
  <2> QED BY <2>2, <2>3
<1>8. CASE ~(entries[t.file] # None /\ entries[t.file].stamp = t.stamp)
  <2>1. Sending(t) BY <1>1, <1>5, <1>6, <1>8, StraySends DEF RunInv
  <2>2. RunInv' BY <1>1, <1>5, <2>1, SentRun
  <2> QED BY <2>1, <2>2
<1> QED BY <1>7, <1>8

\* A run that was not cancelled ends with a task.
LEMMA EndOfRunSends ==
    ASSUME PageSized, CpTypeOK, RunInv, RunEnds, Running
    PROVE  \E t : Sending(t) /\ RunInv'
<1>1. worker # None /\ entries[worker.file] # None /\ entries[worker.file].stamp = worker.stamp /\ entries[worker.file].state = "running"
  BY DEF Running
<1>2. worker \in [file : Files, stamp : Nat \ {0}] /\ [stamp |-> worker.stamp, file |-> worker.file] \in begun BY <1>1 DEF CpTypeOK
<1>3. worker.file \in Files /\ worker.stamp \in Nat \ {0} BY <1>2
<1>4. worker' = None /\ UNCHANGED <<lastStart, removals, online, begun, heard>> BY DEF RunEnds
<1>5. PICK t : Finish(t) /\ TaskOK(t, begun) /\ t # None /\ t.file = worker.file /\ t.stamp = worker.stamp /\ t.state \in {"done", "failed"}
  <2>1. CASE \E result \in {"kept", "removed"} : Finish(DoneTask(worker, result))
    <3>1. PICK result \in {"kept", "removed"} : Finish(DoneTask(worker, result)) BY <2>1
    <3>2. PICK t : t = DoneTask(worker, result) OBVIOUS
    <3>3. Finish(t) BY <3>1, <3>2
    <3> HIDE DEF Finish
    <3> QED BY <1>2, <1>3, <3>2, <3>3, DoneIs
  <2>2. CASE \E error \in {"setup", "other"} : Finish(FailedTask(worker, error))
    <3>1. PICK error \in {"setup", "other"} : Finish(FailedTask(worker, error)) BY <2>2
    <3>2. PICK t : t = FailedTask(worker, error) OBVIOUS
    <3>3. Finish(t) BY <3>1, <3>2
    <3> HIDE DEF Finish
    <3> QED BY <1>2, <1>3, <3>2, <3>3, FailedIs
  <2> HIDE DEF Finish
  <2> QED BY <2>1, <2>2 DEF RunEnds
<1>6. Sending(t) BY <1>4, <1>5, EndSends DEF RunInv
<1>7. RunInv'
  <2>1. \A f \in Files : f # worker.file => entries[f] = None \/ entries[f].state # "running" BY DEF RunInv
  <2>2. entries'[worker.file] = None \/ entries'[worker.file].state # "running"
    <3>1. CActive(entries[t.file]) /\ ~(t.stamp < entries[t.file].stamp) BY <1>1, <1>3, <1>5 DEF CActive
    <3>2. entries'[t.file] = t \/ entries'[t.file] = None BY <1>6, <3>1 DEF Sending
    <3> QED BY <1>5, <3>2
  <2>3. \A f \in Files : f # worker.file /\ entries'[f] # None => entries'[f] = entries[f] BY <1>5, <1>6 DEF Sending, Spares
  <2>4. \A f \in Files : ~(entries'[f] # None /\ entries'[f].state = "running") BY <2>1, <2>2, <2>3
  <2>5. FinishedAreFew' BY <1>6 DEF Sending, FinishedAreFew
  <2>6. ASSUME NEW r \in removals', CActive(entries'[r.task.file]) PROVE r.task.stamp < entries'[r.task.file].stamp
    <3>1. r \in removals BY <1>4
    <3>2. TaskOK(r.task, begun) BY <3>1 DEF CpTypeOK
    <3>3. r.task.file \in Files BY <3>2 DEF TaskOK, CTasks
    <3>4. entries'[r.task.file] = entries[r.task.file]
      <4>1. ~CActive(t) BY <1>5 DEF CActive
      <4> QED BY <1>6, <2>6, <3>3, <4>1, SentEntries
    <3> QED BY <2>6, <3>1, <3>4 DEF RunInv
  <2> QED BY <1>4, <2>4, <2>5, <2>6 DEF RunInv
<1> QED BY <1>6, <1>7

LEMMA RemovalSends ==
    ASSUME PageSized, CpTypeOK, RunInv, NEW r \in removals, RemovalEnds(r)
    PROVE  LET t == [r.task EXCEPT !.result = "removed"] IN Sending(t) /\ TaskOK(t, begun) /\ RunInv'
<1> DEFINE t == [r.task EXCEPT !.result = "removed"]
<1>1. TaskOK(r.task, begun) /\ r.task.result = "kept" BY DEF CpTypeOK
<1>2. TaskOK(t, begun) /\ t # None /\ t.file = r.task.file /\ t.stamp = r.task.stamp /\ t.state = "done" BY <1>1, RemovedIs
<1>3. /\ UNCHANGED <<lastStart, worker, online, begun, heard>> /\ removals' \subseteq removals
      /\ IF entries[t.file] # None /\ entries[t.file].stamp = t.stamp THEN Update(t)
         ELSE Publish(t, entries) /\ UNCHANGED entries
  BY DEF RemovalEnds
<1> HIDE DEF t
<1>4. CActive(entries[t.file]) => t.stamp < entries[t.file].stamp BY <1>2 DEF RunInv
<1>5. ~CActive(t) /\ t.stamp \in Nat BY <1>2 DEF CActive, TaskOK, CTasks
<1>6. Sending(t)
  <2>1. CASE entries[t.file] # None /\ entries[t.file].stamp = t.stamp
    <3>1. ~CActive(entries[t.file]) BY <1>4, <1>5, <2>1
    <3> QED BY <1>2, <1>3, <1>5, <2>1, <3>1, UpdateSends DEF RunInv
  <2>2. CASE ~(entries[t.file] # None /\ entries[t.file].stamp = t.stamp)
    BY <1>2, <1>3, <1>4, <2>2, StraySends DEF RunInv
  <2> QED BY <2>1, <2>2
<1>7. RunInv' BY <1>2, <1>3, <1>6, SentRun
<1> QED BY <1>2, <1>6, <1>7 DEF t

--------------------------------------------------------------------------------
(* Types.                                                                       *)

PageOK == /\ loaded \in BOOLEAN /\ ListOK(shown, begun) /\ place \in [Files -> Nat] /\ front \in Nat
          /\ via \in [Files -> {"list", "event", "answer"}]
ReadOK(l) == ListOK(l.list, begun) /\ l.upTo \in 0..lastStart /\ l = [list |-> l.list, upTo |-> l.upTo]
RemovalOK(r) == r.here \in BOOLEAN /\ TaskOK(r.task, begun) /\ r.task.result = "kept" /\ r = [task |-> r.task, here |-> r.here]
WorkerOK == worker = None \/ (worker \in [file : Files, stamp : Nat \ {0}] /\ [stamp |-> worker.stamp, file |-> worker.file] \in begun)
EventOK(e) == e = [n |-> e.n, task |-> e.task] /\ e.n \in 1..said /\ TaskOK(e.task, begun)

LEMMA TypeParts ==
    CpTypeOK <=> /\ ListOK(entries, begun) /\ lastStart \in Nat /\ WorkerOK /\ \A r \in removals : RemovalOK(r)
                 /\ online \in BOOLEAN /\ said \in Nat /\ \A e \in wire : EventOK(e)
                 /\ PageOK /\ \A l \in lists : ReadOK(l)
                 /\ \A t \in answers : TaskOK(t, begun)
                 /\ batch = None \/ BatchOK(batch)
                 /\ rows \subseteq Rows /\ cands \subseteq Files
                 /\ begun \subseteq [stamp : 1..lastStart, file : Files] /\ heard \in 0..lastStart
                 /\ missed \in BOOLEAN /\ shadowed \subseteq Files /\ announced \subseteq 1..lastStart
BY DEF CpTypeOK, WorkerOK, RemovalOK, EventOK, PageOK, ReadOK

LEMMA TypesFit ==
    ASSUME /\ ListOK(entries', begun') /\ lastStart' \in Nat /\ WorkerOK' /\ \A r \in removals' : RemovalOK(r)'
           /\ online' \in BOOLEAN /\ said' \in Nat /\ \A e \in wire' : EventOK(e)'
           /\ PageOK' /\ \A l \in lists' : ReadOK(l)'
           /\ \A t \in answers' : TaskOK(t, begun')
           /\ batch' = None \/ BatchOK(batch)'
           /\ rows' \subseteq Rows /\ cands' \subseteq Files
           /\ begun' \subseteq [stamp : 1..lastStart', file : Files] /\ heard' \in 0..lastStart'
           /\ missed' \in BOOLEAN /\ shadowed' \subseteq Files /\ announced' \subseteq 1..lastStart'
    PROVE  CpTypeOK'
BY DEF CpTypeOK, WorkerOK, RemovalOK, EventOK, PageOK, ReadOK

\* What has its type keeps it when more tasks begin.
LEMMA GrownStays ==
    ASSUME CpTypeOK, lastStart' \in Nat, lastStart <= lastStart', begun \subseteq begun', said' \in Nat, said <= said'
    PROVE  /\ worker' \in {worker, None} => WorkerOK'
           /\ \A r \in removals : RemovalOK(r)'
           /\ \A e \in wire : EventOK(e)'
           /\ UNCHANGED page => PageOK'
           /\ \A l \in lists : ReadOK(l)'
           /\ \A t \in answers : TaskOK(t, begun')
           /\ batch' = batch => batch' = None \/ BatchOK(batch)'
<1>1. /\ WorkerOK /\ \A r \in removals : RemovalOK(r) 
      /\ PageOK /\ (\A l \in lists : ReadOK(l)) /\ (\A e \in wire : EventOK(e))
      /\ (\A t \in answers : TaskOK(t, begun)) /\ (batch = None \/ BatchOK(batch)) /\ lastStart \in Nat /\ said \in Nat
  BY TypeParts
<1>2. worker' \in {worker, None} => WorkerOK' BY <1>1 DEF WorkerOK
<1>3. \A r \in removals : RemovalOK(r)' BY <1>1, TaskStays DEF RemovalOK
<1>4. \A e \in wire : EventOK(e)' BY <1>1, TaskStays DEF EventOK
<1>5. UNCHANGED page => PageOK'
  <2>1. ListOK(shown, begun') BY <1>1, ListStays DEF PageOK
  <2> QED BY <1>1, <2>1 DEF PageOK, page
<1>6. \A l \in lists : ReadOK(l)'
  <2>1. \A l \in lists : ListOK(l.list, begun') BY <1>1, ListStays DEF ReadOK
  <2> QED BY <1>1, <2>1 DEF ReadOK
<1>7. \A t \in answers : TaskOK(t, begun') BY <1>1, TaskStays
<1>8. ASSUME batch' = batch PROVE batch' = None \/ BatchOK(batch)'
  <2>1. CASE batch = None BY <1>8, <2>1
  <2>2. CASE batch # None
    <3>1. \A g \in batch.got : TaskOK(g.task, begun') BY <1>1, <2>2, TaskStays DEF BatchOK
    <3> QED BY <1>1, <1>8, <2>2, <3>1 DEF BatchOK
  <2> QED BY <2>1, <2>2
<1> QED BY <1>2, <1>3, <1>4, <1>5, <1>6, <1>7, <1>8

--------------------------------------------------------------------------------
(* Both kinds of steps keep the invariant.                                      *)

LEMMA SentKeeps ==
    ASSUME PageSized, CpInv, NEW t, Sending(t), RunInv', UNCHANGED <<page, lists, library, missed, announced>>,
           worker' \in {worker, None} \/ worker' = [file |-> t.file, stamp |-> t.stamp], removals' \subseteq removals,
           \A u \in answers' : u \in answers \/ TaskOK(u, begun'),
           batch' = batch \/ (BatchOK(batch)' /\ BatchOrder')
    PROVE  CpInv'
<1>1. CpTypeOK /\ BegunOnce /\ RunInv /\ WireInv /\ EndInv /\ OrderInv BY DEF CpInv
<1>2. UNCHANGED <<loaded, shown, via, place, front, lists, missed, announced, rows, cands>> BY DEF page, library
<1>3. BegunOnce' /\ WireInv' /\ EndInv' BY <1>1, <1>2, SentOnce, SentWire, SentEnd
<1>4. /\ t \in CTasks /\ t.file \in Files /\ t.stamp \in Nat \ {0} /\ lastStart \in Nat /\ said \in Nat /\ heard \in Nat /\ heard <= lastStart
      /\ begun \subseteq begun' /\ lastStart' \in Nat /\ lastStart <= lastStart' /\ begun' \subseteq [stamp : 1..lastStart', file : Files]
      /\ wire' = (IF online THEN wire \cup {[n |-> said + 1, task |-> t]} ELSE wire) /\ said' = said + 1
  BY <1>1, SentEntries
<1>5. CpTypeOK'
  <2>1. ListOK(entries', begun') /\ online' \in BOOLEAN /\ TaskOK(t, begun') BY <1>1 DEF Sending, CpTypeOK
  <2>2. WorkerOK'
    <3>1. CASE worker' \in {worker, None} BY <1>1, <1>4, <3>1, GrownStays
    <3>2. CASE worker' = [file |-> t.file, stamp |-> t.stamp] BY <1>4, <2>1, <3>2 DEF WorkerOK, TaskOK
    <3> QED BY <3>1, <3>2
  <2>3. \A r \in removals' : RemovalOK(r)' BY <1>1, <1>4, GrownStays
  <2>4. \A e \in wire' : EventOK(e)'
    <3>1. \A e \in wire : EventOK(e)' BY <1>1, <1>4, GrownStays
    <3> DEFINE new == [n |-> said + 1, task |-> t]
    <3>2. new.n = said + 1 /\ new.task = t /\ new = [n |-> new.n, task |-> new.task] /\ wire' \subseteq wire \cup {new} BY <1>4
    <3> HIDE DEF new
    <3>3. ASSUME NEW e \in wire', e = new PROVE EventOK(e)'
      <4>1. new.n \in 1..said' BY <1>4, <3>2
      <4> QED BY <2>1, <3>2, <3>3, <4>1 DEF EventOK
    <3> QED BY <3>1, <3>2, <3>3
  <2>5. PageOK' /\ (\A l \in lists' : ReadOK(l)') /\ \A u \in answers' : TaskOK(u, begun') BY <1>1, <1>2, <1>4, GrownStays
  <2>6. batch' = None \/ BatchOK(batch)' BY <1>1, <1>4, GrownStays
  <2>7. rows' \subseteq Rows /\ cands' \subseteq Files /\ missed' \in BOOLEAN /\ announced' \subseteq 1..lastStart'
    BY <1>1, <1>2, <1>4 DEF CpTypeOK
  <2>8. heard' \in 0..lastStart' BY <1>4 DEF Sending
  <2>9. shadowed' \subseteq Files BY <1>1, <1>4 DEF Sending, Publish, CpTypeOK
  <2> QED BY <1>4, <2>1, <2>2, <2>3, <2>4, <2>5, <2>6, <2>7, <2>8, <2>9, TypesFit
<1>6. OrderInv'
  <2>1. QueueIsShownInOrder'
    <3>1. heard' = heard \/ heard = lastStart BY <1>1 DEF Sending, WireInv
    <3> QED BY <1>1, <1>2, <3>1, OrderStays DEF OrderInv
  <2>2. BatchOrder' BY <1>1 DEF BatchOrder, OrderInv
  <2> QED BY <1>1, <1>2, <2>1, <2>2 DEF OrderInv
<1> QED BY <1>3, <1>5, <1>6 DEF CpInv

\* Steps that leave the page alone.
LEMMA QuietElsewhere ==
    ASSUME PageSized, CpInv, UNCHANGED <<lastStart, begun, said, shadowed, announced, page>>,
           ListOK(entries', begun), \A f \in Files : entries'[f] \in {entries[f], None},
           \/ UNCHANGED <<wire, heard>> /\ (online' = online \/ online' = TRUE)
           \/ wire' = {} /\ heard' = lastStart /\ online' \in BOOLEAN,
           worker' = worker \/ (worker' = None /\ \A f \in Files : entries'[f] # None => entries'[f].state # "running"),
           \A r \in removals' : r \in removals \/ (RemovalOK(r) /\ ~CActive(entries'[r.task.file])),
           \A l \in lists' : l \in lists \/ (ReadOK(l) /\ l.upTo = lastStart),
           \A u \in answers' : u \in answers \/ TaskOK(u, begun),
           batch' \in {batch, None} \/ (BatchOK(batch)' /\ BatchOrder'),
           rows' \subseteq Rows, cands' \subseteq Files,
           missed' \in BOOLEAN, missed' \/ (missed' = missed /\ heard' = heard)
    PROVE  CpInv'
<1>1. CpTypeOK /\ BegunOnce /\ RunInv /\ WireInv /\ EndInv /\ OrderInv BY DEF CpInv
<1>2. UNCHANGED <<shown, via, place, front, loaded>> BY DEF page
<1>3. Quiet
  <2>1. \A f \in Files : via'[f] = "event" => via[f] = "event" /\ shown'[f] = shown[f] BY <1>2
  <2> QED BY <2>1 DEF Quiet
<1>4. BegunOnce' /\ WireInv' /\ EndInv' BY <1>1, <1>3, QuietKeeps DEF RunInv
<1>5. RunInv' BY <1>1, <1>3, QuietRun
<1>6. lastStart \in Nat /\ said \in Nat /\ online \in BOOLEAN /\ heard \in 0..lastStart BY <1>1 DEF CpTypeOK
<1>7. CpTypeOK'
  <2>1. WorkerOK' /\ PageOK' /\ (\A r \in removals : RemovalOK(r)') /\ (\A e \in wire : EventOK(e)') /\ (\A l \in lists : ReadOK(l)')
        /\ (batch' \in {batch, None} => batch' = None \/ BatchOK(batch)')
    BY <1>1, <1>6, GrownStays
  <2>2. \A r : RemovalOK(r) => RemovalOK(r)' BY DEF RemovalOK
  <2>3. \A l : ReadOK(l) => ReadOK(l)' BY DEF ReadOK
  <2>4. \A u \in answers : TaskOK(u, begun) BY <1>1 DEF CpTypeOK
  <2>5. online' \in BOOLEAN /\ heard' \in 0..lastStart' /\ wire' \subseteq wire
    <3>1. CASE UNCHANGED <<wire, heard>> /\ (online' = online \/ online' = TRUE) BY <1>6, <3>1
    <3>2. CASE wire' = {} /\ heard' = lastStart /\ online' \in BOOLEAN BY <1>6, <3>2
    <3> QED BY <3>1, <3>2
  <2>6. begun' \subseteq [stamp : 1..lastStart', file : Files] /\ shadowed' \subseteq Files /\ announced' \subseteq 1..lastStart' BY <1>1 DEF CpTypeOK
  <2> QED BY <1>6, <2>1, <2>2, <2>3, <2>4, <2>5, <2>6, TypesFit
<1>8. OrderInv'
  <2>1. QueueIsShownInOrder' BY <1>1, <1>2, OrderStays DEF OrderInv
  <2>2. BatchOrder' BY <1>1 DEF BatchOrder, OrderInv
  <2>3. \A l \in lists', f \in Files : l.list[f] # None => l.list[f].stamp <= l.upTo
    <3>1. ASSUME NEW l \in lists', NEW f \in Files, l.list[f] # None, ReadOK(l), l.upTo = lastStart PROVE l.list[f].stamp <= l.upTo
      <4>1. TaskOK(l.list[f], begun) BY <3>1 DEF ReadOK, ListOK
      <4>2. [stamp |-> l.list[f].stamp, file |-> l.list[f].file] \in begun BY <4>1 DEF TaskOK
      <4>3. l.list[f].stamp \in 1..lastStart BY <1>1, <4>2 DEF CpTypeOK
      <4> QED BY <1>6, <3>1, <4>3
    <3> QED BY <1>1, <3>1 DEF OrderInv
  <2> QED BY <1>1, <1>2, <2>1, <2>2, <2>3 DEF OrderInv
<1> QED BY <1>4, <1>5, <1>7, <1>8 DEF CpInv

--------------------------------------------------------------------------------
(* Steps of the page.                                                           *)

\* A list or an answer is shown.
LEMMA PageStep ==
    ASSUME PageSized, CpInv, UNCHANGED <<server, online, feed, library, begun, heard, announced>>,
           PageOK', loaded', \A f \in Files : via'[f] = "event" => via[f] = "event" /\ shown'[f] = shown[f],
           QueueIsShownInOrder', \A f \in Files : place'[f] <= front',
           lists' \subseteq lists, answers' \subseteq answers, batch' \in {batch, None}, missed' \in BOOLEAN
    PROVE  CpInv'
<1>1. CpTypeOK /\ BegunOnce /\ RunInv /\ WireInv /\ EndInv /\ OrderInv BY DEF CpInv
<1>2. UNCHANGED <<entries, lastStart, worker, removals, wire, said, shadowed, rows, cands>> BY DEF server, feed, library
<1>3. ListOK(entries', begun) BY <1>1, <1>2 DEF CpTypeOK
<1>4. Quiet BY <1>2, <1>3 DEF Quiet
<1>5. BegunOnce' /\ WireInv' /\ EndInv' BY <1>1, <1>4, QuietKeeps DEF RunInv
<1>6. RunInv' BY <1>1, <1>2, <1>4, QuietRun
<1>7. lastStart \in Nat /\ said \in Nat /\ online \in BOOLEAN /\ heard \in 0..lastStart BY <1>1 DEF CpTypeOK
<1>8. CpTypeOK'
  <2>1. WorkerOK' /\ (\A r \in removals : RemovalOK(r)') /\ (\A e \in wire : EventOK(e)') /\ (\A l \in lists : ReadOK(l)')
        /\ (batch' = batch => batch' = None \/ BatchOK(batch)') /\ (\A u \in answers : TaskOK(u, begun'))
    BY <1>1, <1>2, <1>7, GrownStays
  <2>2. /\ begun' \subseteq [stamp : 1..lastStart', file : Files] /\ shadowed' \subseteq Files /\ announced' \subseteq 1..lastStart'
        /\ rows' \subseteq Rows /\ cands' \subseteq Files
    BY <1>1, <1>2 DEF CpTypeOK
  <2> QED BY <1>2, <1>3, <1>7, <2>1, <2>2, TypesFit
<1>9. OrderInv'
  <2>1. BatchOrder' BY <1>1 DEF BatchOrder, OrderInv
  <2> QED BY <1>1, <2>1 DEF OrderInv
<1> QED BY <1>5, <1>6, <1>8, <1>9 DEF CpInv

\* Who is shown otherwise, is so by an answer.
LEMMA AnswersKeepOrder ==
    ASSUME CpTypeOK, QueueIsShownInOrder, UNCHANGED <<heard, missed>>,
           \A f \in Files : via'[f] = "answer" \/ (shown'[f] = shown[f] /\ via'[f] = via[f] /\ place'[f] = place[f])
    PROVE  QueueIsShownInOrder'
<1>1. ASSUME ~missed', NEW f \in Files, NEW g \in Files,
             /\ shown'[f] # None /\ shown'[f].state = "queued" /\ via'[f] # "answer"
             /\ shown'[g] # None /\ shown'[g].state = "queued" /\ via'[g] # "answer"
             /\ shown'[f].stamp < shown'[g].stamp /\ shown'[g].stamp <= heard'
      PROVE  Leads(f, g)'
  <2>1. shown'[f] = shown[f] /\ via'[f] = via[f] /\ place'[f] = place[f] /\ shown'[g] = shown[g] /\ via'[g] = via[g] /\ place'[g] = place[g]
    BY <1>1
  <2>2. Leads(f, g) BY <1>1, <2>1 DEF QueueIsShownInOrder
  <2> QED BY <2>1, <2>2 DEF Leads
<1> QED BY <1>1 DEF QueueIsShownInOrder

LEMMA UpsertIs ==
    ASSUME CpTypeOK, NEW t, TaskOK(t, begun), NEW how \in {"event", "answer"}, Upsert(t, how), begun' = begun
    PROVE  /\ PageOK' /\ loaded' /\ front' = front + 1 /\ t.file \in Files
           /\ shown'[t.file] = t /\ place'[t.file] = front + 1 /\ via'[t.file] = how
           /\ \A f \in Files : f # t.file => shown'[f] = shown[f] /\ place'[f] = place[f] /\ via'[f] = via[f]
<1>1. t \in CTasks /\ t.file \in Files BY DEF TaskOK, CTasks
<1>2. /\ ListOK(shown, begun) /\ place \in [Files -> Nat] /\ front \in Nat /\ via \in [Files -> {"list", "event", "answer"}]
  BY DEF CpTypeOK
<1>3. shown \in [Files -> CTasks \cup {None}] BY <1>2 DEF ListOK
<1>4. /\ loaded' = TRUE /\ front' = front + 1
      /\ shown' = [shown EXCEPT ![t.file] = t] /\ place' = [place EXCEPT ![t.file] = front + 1]
      /\ via' = [via EXCEPT ![t.file] = how]
  BY DEF Upsert
<1>5. shown' \in [Files -> CTasks \cup {None}] /\ shown'[t.file] = t /\ \A f \in Files : f # t.file => shown'[f] = shown[f]
  BY <1>1, <1>3, <1>4
<1>6. place' \in [Files -> Nat] /\ place'[t.file] = front + 1 /\ \A f \in Files : f # t.file => place'[f] = place[f]
  BY <1>1, <1>2, <1>4
<1>7. via' \in [Files -> {"list", "event", "answer"}] /\ via'[t.file] = how /\ \A f \in Files : f # t.file => via'[f] = via[f]
  BY <1>1, <1>2, <1>4
<1>8. ListOK(shown', begun) BY <1>2, <1>5 DEF ListOK
<1> QED BY <1>1, <1>2, <1>4, <1>5, <1>6, <1>7, <1>8 DEF PageOK

LEMMA AnswerKeeps ==
    ASSUME PageSized, CpInv, NEW t \in answers, AnswerLands(t) PROVE CpInv'
<1>1. CpTypeOK /\ OrderInv BY DEF CpInv
<1>2. /\ Upsert(t, "answer") /\ answers' \subseteq answers
      /\ UNCHANGED <<server, online, feed, lists, batch, library, begun, heard, missed, announced>>
  BY DEF AnswerLands
<1>3. TaskOK(t, begun) /\ missed \in BOOLEAN /\ front \in Nat /\ place \in [Files -> Nat] BY <1>1 DEF CpTypeOK
<1>4. /\ PageOK' /\ loaded' /\ front' = front + 1 /\ t.file \in Files
      /\ shown'[t.file] = t /\ place'[t.file] = front + 1 /\ via'[t.file] = "answer"
      /\ \A f \in Files : f # t.file => shown'[f] = shown[f] /\ place'[f] = place[f] /\ via'[f] = via[f]
  BY <1>1, <1>2, <1>3, UpsertIs
<1>5. QueueIsShownInOrder' BY <1>1, <1>2, <1>4, AnswersKeepOrder DEF OrderInv
<1>6. \A f \in Files : place'[f] <= front' BY <1>1, <1>3, <1>4 DEF OrderInv
<1>7. \A f \in Files : via'[f] = "event" => via[f] = "event" /\ shown'[f] = shown[f] BY <1>4
<1> QED BY <1>2, <1>3, <1>4, <1>5, <1>6, <1>7, PageStep

LEMMA BatchKeeps ==
    ASSUME PageSized, CpInv, BatchLands PROVE CpInv'
<1>1. CpTypeOK /\ OrderInv BY DEF CpInv
<1>2. /\ batch # None /\ batch' = None /\ loaded' = TRUE /\ front' = front + batch.count + 1
      /\ shown' = [f \in Files |-> IF InBatch(f) = {} THEN shown[f] ELSE (CHOOSE g \in InBatch(f) : TRUE).task]
      /\ place' = [f \in Files |-> IF InBatch(f) = {} THEN place[f]
                                   ELSE front + batch.count + 1 - (CHOOSE g \in InBatch(f) : TRUE).nth]
      /\ via' = [f \in Files |-> IF InBatch(f) = {} THEN via[f] ELSE "answer"]
      /\ UNCHANGED <<server, online, feed, lists, answers, library, begun, heard, missed, announced>>
  BY DEF BatchLands
<1>3. /\ BatchOK(batch) /\ missed \in BOOLEAN /\ front \in Nat /\ place \in [Files -> Nat] /\ ListOK(shown, begun)
      /\ via \in [Files -> {"list", "event", "answer"}]
  BY <1>1, <1>2 DEF CpTypeOK
<1> DEFINE Got(f) == CHOOSE g \in InBatch(f) : TRUE
<1>4. batch.count \in Nat /\ \A g \in batch.got : g.nth \in 1..batch.count /\ TaskOK(g.task, begun) BY <1>3 DEF BatchOK
<1>5. \A f \in Files : InBatch(f) # {} => Got(f) \in batch.got /\ Got(f).task.file = f BY DEF InBatch
<1>6. \A f \in Files : shown'[f] = (IF InBatch(f) = {} THEN shown[f] ELSE Got(f).task) BY <1>2
<1>7. \A f \in Files : place'[f] = (IF InBatch(f) = {} THEN place[f] ELSE front + batch.count + 1 - Got(f).nth) BY <1>2
<1>8. \A f \in Files : via'[f] = (IF InBatch(f) = {} THEN via[f] ELSE "answer") BY <1>2
<1> HIDE DEF Got
<1>9. \A f \in Files : place'[f] \in Nat /\ place'[f] <= front'
  <2> TAKE f \in Files
  <2>1. CASE InBatch(f) = {} BY <1>1, <1>2, <1>3, <1>4, <1>7, <2>1 DEF OrderInv
  <2>2. CASE InBatch(f) # {}
    <3>1. Got(f).nth \in 1..batch.count BY <1>4, <1>5, <2>2
    <3> QED BY <1>2, <1>3, <1>4, <1>7, <2>2, <3>1
  <2> QED BY <2>1, <2>2
<1>10. ListOK(shown', begun)
  <2>1. \A f \in Files : shown'[f] \in CTasks \cup {None} /\ (shown'[f] # None => shown'[f].file = f /\ TaskOK(shown'[f], begun))
    <3> TAKE f \in Files
    <3>1. CASE InBatch(f) = {} BY <1>3, <1>6, <3>1 DEF ListOK
    <3>2. CASE InBatch(f) # {}
      <4>1. TaskOK(Got(f).task, begun) /\ Got(f).task.file = f /\ shown'[f] = Got(f).task BY <1>4, <1>5, <1>6, <3>2
      <4> QED BY <4>1 DEF TaskOK
    <3> QED BY <3>1, <3>2
  <2>2. shown' = [f \in Files |-> shown'[f]] BY <1>2
  <2> QED BY <2>1, <2>2 DEF ListOK
<1>11. PageOK'
  <2>1. place' = [f \in Files |-> place'[f]] /\ via' = [f \in Files |-> via'[f]] BY <1>2
  <2>2. place' \in [Files -> Nat] BY <1>9, <2>1
  <2>3. \A f \in Files : via'[f] \in {"list", "event", "answer"} BY <1>3, <1>8
  <2>4. via' \in [Files -> {"list", "event", "answer"}] BY <2>1, <2>3
  <2> QED BY <1>2, <1>3, <1>4, <1>10, <2>2, <2>4 DEF PageOK
<1>12. QueueIsShownInOrder' BY <1>1, <1>2, <1>6, <1>7, <1>8, AnswersKeepOrder DEF OrderInv
<1>13. \A f \in Files : via'[f] = "event" => via[f] = "event" /\ shown'[f] = shown[f] BY <1>6, <1>8
<1>14. lists' \subseteq lists /\ answers' \subseteq answers /\ batch' \in {batch, None} /\ missed' \in BOOLEAN /\ loaded' BY <1>2, <1>3
<1>15. UNCHANGED <<server, online, feed, library, begun, heard, announced>> BY <1>2
<1> QED BY <1>9, <1>11, <1>12, <1>13, <1>14, <1>15, PageStep

LEMMA ListKeeps ==
    ASSUME PageSized, CpInv, NEW l \in lists, ListLands(l) PROVE CpInv'
<1>1. CpTypeOK /\ OrderInv BY DEF CpInv
<1>2. /\ lists' \subseteq lists /\ loaded' = TRUE /\ shown' = l.list /\ front' = l.upTo
      /\ place' = [f \in Files |-> IF l.list[f] = None THEN 0 ELSE l.list[f].stamp]
      /\ via' = [f \in Files |-> "list"] /\ missed' = FALSE
      /\ UNCHANGED <<server, online, feed, answers, batch, library, begun, heard, announced>>
  BY DEF ListLands
<1>3. ListOK(l.list, begun) /\ l.upTo \in 0..lastStart /\ lastStart \in Nat BY <1>1 DEF CpTypeOK
<1>4. \A f \in Files : l.list[f] # None => l.list[f].stamp <= l.upTo /\ l.list[f].stamp \in Nat /\ place'[f] = l.list[f].stamp
  BY <1>1, <1>2, <1>3 DEF OrderInv, ListOK, TaskOK, CTasks
<1>5. \A f \in Files : place'[f] \in Nat /\ place'[f] <= front' BY <1>2, <1>3, <1>4
<1>6. PageOK'
  <2>1. place' \in [Files -> Nat] BY <1>2, <1>5
  <2>2. via' \in [Files -> {"list", "event", "answer"}] BY <1>2
  <2> QED BY <1>2, <1>3, <2>1, <2>2 DEF PageOK
<1>7. QueueIsShownInOrder' BY <1>2, <1>4 DEF QueueIsShownInOrder, Leads
<1>8. \A f \in Files : via'[f] = "event" => via[f] = "event" /\ shown'[f] = shown[f] BY <1>2
<1> QED BY <1>2, <1>5, <1>6, <1>7, <1>8, PageStep

\* The first of the events on their way, when it is of a start, is of the first start not heard of.
LEMMA NextHeard ==
    ASSUME CpTypeOK, WireInv, NEW e \in wire, \A d \in wire : e.n <= d.n, e.task.state = "queued"
    PROVE  e.task.stamp = heard + 1
<1>1. e.task.stamp \in Nat /\ e.task.stamp <= lastStart /\ e.n \in Nat /\ heard \in Nat BY EventsAre DEF CpTypeOK
<1>2. heard < e.task.stamp BY DEF WireInv
<1>3. heard + 1 \in Nat /\ heard < heard + 1 /\ heard + 1 <= lastStart BY <1>1, <1>2, EventsAre DEF CpTypeOK
<1>4. PICK d \in wire : d.task.state = "queued" /\ d.task.stamp = heard + 1 BY <1>3 DEF WireInv
<1>5. d.n \in Nat /\ e.n <= d.n BY EventsAre
<1>6. CASE d = e BY <1>4, <1>6
<1>7. CASE d # e
  <2>1. e.n < d.n BY <1>1, <1>5, <1>7 DEF WireInv
  <2>2. e.task.stamp < heard + 1 BY <1>4, <2>1 DEF WireInv
  <2> QED BY <1>1, <1>2, <2>2
<1> QED BY <1>6, <1>7

LEMMA EventKeepsWire ==
    ASSUME PageSized, CpInv, NEW e \in wire, EventLands(e) PROVE WireInv' /\ heard' \in Nat /\ heard' <= lastStart
<1>1. CpTypeOK /\ WireInv BY DEF CpInv
<1>2. /\ wire' = wire \ {e} /\ heard' = (IF e.task.state = "queued" THEN e.task.stamp ELSE heard)
      /\ UNCHANGED <<entries, lastStart, online, said, shadowed>> /\ \A d \in wire : e.n <= d.n
  BY DEF EventLands, server
<1>3. \A d \in wire : d.n \in Nat /\ d.task.stamp \in Nat /\ d.task.stamp <= lastStart BY <1>1, EventsAre
<1>4. heard \in Nat /\ lastStart \in Nat /\ heard <= lastStart BY <1>1 DEF CpTypeOK
<1>5. \A d \in wire : d # e => e.n < d.n BY <1>1, <1>2, <1>3 DEF WireInv
<1>6. online BY <1>1 DEF WireInv
<1>7. heard' \in Nat /\ heard' <= lastStart BY <1>2, <1>3, <1>4
<1>8. ASSUME NEW s \in Nat, heard' < s, s <= lastStart' PROVE \E d \in wire' : d.task.state = "queued" /\ d.task.stamp = s
  <2>1. heard < s BY <1>1, <1>2, <1>3, <1>4, <1>8 DEF WireInv
  <2>2. PICK d \in wire : d.task.state = "queued" /\ d.task.stamp = s BY <1>1, <1>2, <1>8, <2>1 DEF WireInv
  <2>3. d # e BY <1>2, <1>3, <1>8, <2>2
  <2> QED BY <1>2, <2>2, <2>3
<1>9. ASSUME NEW d \in wire', d.task.state = "queued" PROVE heard' < d.task.stamp
  <2>1. d \in wire /\ e.n < d.n BY <1>2, <1>5
  <2> QED BY <1>1, <1>2, <1>9, <2>1 DEF WireInv
<1>10. LastEventIsTheEntry'
  <2> SUFFICES ASSUME NEW d \in wire', d.task.file \notin shadowed', entries'[d.task.file] # None,
                      \A c \in wire' : c.task.file = d.task.file => c.n <= d.n
               PROVE  d.task = entries'[d.task.file]
    BY DEF LastEventIsTheEntry
  <2>1. d \in wire /\ e.n <= d.n BY <1>2
  <2>2. \A c \in wire : c.task.file = d.task.file => c.n <= d.n BY <1>2, <2>1
  <2> QED BY <1>1, <1>2, <2>1, <2>2 DEF WireInv, LastEventIsTheEntry
<1>11. /\ \A c, d \in wire' : c.n = d.n => c = d
       /\ \A c, d \in wire' : c.task.state = "queued" /\ d.task.state = "queued" /\ c.n < d.n => c.task.stamp < d.task.stamp
  BY <1>1, <1>2 DEF WireInv
<1> QED BY <1>2, <1>6, <1>7, <1>8, <1>9, <1>10, <1>11 DEF WireInv

LEMMA EventKeepsEnd ==
    ASSUME PageSized, CpInv, NEW e \in wire, EventLands(e) PROVE EndInv'
<1>1. CpTypeOK /\ BegunOnce /\ EndInv /\ WireInv BY DEF CpInv
<1>2. /\ wire' = wire \ {e} /\ UNCHANGED <<entries, begun>> /\ \A d \in wire : e.n <= d.n
      /\ IF loaded THEN /\ Upsert(e.task, "event")
                        /\ announced' = (IF Announces(e.task) THEN announced \cup {e.task.stamp} ELSE announced)
         ELSE UNCHANGED <<page, announced>>
  BY DEF EventLands, server
<1>3. \A d \in wire : d.n \in Nat /\ d.task.stamp \in Nat /\ d.task.file \in Files BY <1>1, EventsAre
<1>4. TaskOK(e.task, begun) /\ Of(e.task.stamp, e.task.file) BY <1>1, EventsAre
<1>5. \A d \in wire : d # e => e.n < d.n BY <1>1, <1>2, <1>3 DEF WireInv
<1>6. \A f \in Files : Of(e.task.stamp, f) => f = e.task.file
  <2> TAKE f \in Files
  <2>1. [stamp |-> e.task.stamp, file |-> f].stamp = [stamp |-> e.task.stamp, file |-> e.task.file].stamp OBVIOUS
  <2>2. Of(e.task.stamp, f) => [stamp |-> e.task.stamp, file |-> f] = [stamp |-> e.task.stamp, file |-> e.task.file]
    BY <1>1, <1>4, <2>1 DEF BegunOnce, Of
  <2> QED BY <2>2
<1>7. \A s \in announced' : s \in announced \/ (s = e.task.stamp /\ ~CActive(e.task))
  BY <1>2 DEF Announces, CActive
<1>8. \A s, f : Of(s, f)' <=> Of(s, f) BY <1>2 DEF Of
<1>9. ASSUME NEW f \in Files, CActive(entries'[f]), NEW s \in announced', Of(s, f)' PROVE s < entries'[f].stamp
  BY <1>1, <1>2, <1>6, <1>7, <1>8, <1>9 DEF EndInv
<1>10. ASSUME NEW d \in wire', CActive(d.task), NEW s \in announced', Of(s, d.task.file)' PROVE s < d.task.stamp
  <2>0. d \in wire /\ e.n < d.n /\ d.task.file \in Files BY <1>2, <1>3, <1>5
  <2>1. CASE s \in announced BY <1>1, <1>8, <1>10, <2>0, <2>1 DEF EndInv
  <2>2. CASE s = e.task.stamp /\ ~CActive(e.task)
    <3>1. d.task.file = e.task.file BY <1>6, <1>8, <1>10, <2>0, <2>2
    <3>2. ~(d.task.stamp <= e.task.stamp) BY <1>1, <1>10, <2>0, <2>2, <3>1 DEF EndInv
    <3> QED BY <1>3, <2>0, <2>2, <3>2
  <2> QED BY <1>7, <2>1, <2>2
<1>11. ASSUME NEW f \in Files, CActive(shown'[f]), via'[f] = "event", NEW s \in announced', Of(s, f)' PROVE s < shown'[f].stamp
  <2>1. CASE ~loaded
    <3>1. UNCHANGED <<shown, via, announced>> BY <1>2, <2>1 DEF page
    <3> QED BY <1>1, <1>8, <1>11, <3>1 DEF EndInv
  <2>2. CASE loaded
    <3>1. /\ shown'[e.task.file] = e.task
          /\ \A g \in Files : g # e.task.file => shown'[g] = shown[g] /\ via'[g] = via[g]
      BY <1>1, <1>2, <1>4, <2>2, UpsertIs
    <3>2. CASE f = e.task.file
      <4>1. s \in announced BY <1>7, <1>11, <3>1, <3>2
      <4> QED BY <1>1, <1>8, <1>11, <3>1, <3>2, <4>1 DEF EndInv
    <3>3. CASE f # e.task.file
      <4>1. shown'[f] = shown[f] /\ via'[f] = via[f] BY <3>1, <3>3
      <4>2. s \in announced BY <1>6, <1>7, <1>8, <1>11, <3>3
      <4> QED BY <1>1, <1>8, <1>11, <4>1, <4>2 DEF EndInv
    <3> QED BY <3>2, <3>3
  <2> QED BY <2>1, <2>2
<1>12. \A f \in Files : CActive(entries'[f]) => \A s \in announced' : Of(s, f)' => s < entries'[f].stamp BY <1>9
<1>13. \A d \in wire' : CActive(d.task) => \A s \in announced' : Of(s, d.task.file)' => s < d.task.stamp BY <1>10
<1>14. \A f \in Files : CActive(shown'[f]) /\ via'[f] = "event" => \A s \in announced' : Of(s, f)' => s < shown'[f].stamp BY <1>11
<1>15. /\ \A c, d \in wire' : c.task.file = d.task.file /\ c.n < d.n /\ ~CActive(c.task) /\ d.task.stamp <= c.task.stamp => ~CActive(d.task)
       /\ \A d \in wire' : ~CActive(d.task) /\ CActive(entries'[d.task.file]) => d.task.stamp < entries'[d.task.file].stamp
  BY <1>1, <1>2 DEF EndInv
<1> QED
  <2> HIDE DEF CActive, Of
  <2> QED BY <1>12, <1>13, <1>14, <1>15 DEF EndInv

LEMMA EventKeepsOrder ==
    ASSUME PageSized, CpInv, NEW e \in wire, EventLands(e) PROVE QueueIsShownInOrder'
<1>1. CpTypeOK /\ BegunOnce /\ OrderInv /\ WireInv BY DEF CpInv
<1>2. /\ heard' = (IF e.task.state = "queued" THEN e.task.stamp ELSE heard) /\ UNCHANGED missed
      /\ \A d \in wire : e.n <= d.n
      /\ IF loaded THEN Upsert(e.task, "event") ELSE UNCHANGED page
      /\ UNCHANGED begun
  BY DEF EventLands
<1>3. TaskOK(e.task, begun) /\ Of(e.task.stamp, e.task.file) /\ e.task.stamp \in Nat /\ e.task.file \in Files /\ heard \in Nat
  BY <1>1, EventsAre DEF CpTypeOK
<1>4. e.task.state = "queued" => e.task.stamp = heard + 1 BY <1>1, <1>2, NextHeard
<1>5. CASE ~loaded
  <2>1. \A f \in Files : shown'[f] = None BY <1>1, <1>2, <1>5 DEF OrderInv, page
  <2> QED BY <2>1 DEF QueueIsShownInOrder
<1>6. CASE loaded
  <2>1. /\ shown'[e.task.file] = e.task /\ place'[e.task.file] = front + 1
        /\ \A f \in Files : f # e.task.file => shown'[f] = shown[f] /\ place'[f] = place[f] /\ via'[f] = via[f]
    BY <1>1, <1>2, <1>3, <1>6, UpsertIs
  <2> SUFFICES ASSUME ~missed', NEW f \in Files, NEW g \in Files,
                      shown'[f] # None, shown'[f].state = "queued", via'[f] # "answer",
                      shown'[g] # None, shown'[g].state = "queued", via'[g] # "answer",
                      shown'[f].stamp < shown'[g].stamp, shown'[g].stamp <= heard'
               PROVE  Leads(f, g)'
    BY DEF QueueIsShownInOrder
  <2>2. \A h \in Files : shown[h] # None => shown[h].stamp \in Nat /\ Of(shown[h].stamp, h) BY <1>1, EntriesAre
  <2>3. Leads(f, g)' <=> place'[f] < place'[g] BY DEF Leads
  <2>4. CASE g = e.task.file
    <3>1. f # g BY <1>3, <2>1, <2>4
    <3>2. place[f] \in Nat /\ front \in Nat /\ place[f] <= front BY <1>1 DEF CpTypeOK, OrderInv
    <3> QED BY <2>1, <2>3, <2>4, <3>1, <3>2
  <2>5. CASE g # e.task.file
    <3>1. shown'[g] = shown[g] /\ via'[g] = via[g] /\ place'[g] = place[g] BY <2>1, <2>5
    <3>2. shown[g].stamp <= heard
      <4>1. CASE e.task.state = "queued"
        <5>1. shown[g].stamp # e.task.stamp
          <6>1. Of(shown[g].stamp, g) BY <2>2, <3>1
          <6>2. [stamp |-> shown[g].stamp, file |-> g] # [stamp |-> e.task.stamp, file |-> e.task.file] BY <2>5
          <6>3. [stamp |-> shown[g].stamp, file |-> g].stamp = shown[g].stamp /\ [stamp |-> e.task.stamp, file |-> e.task.file].stamp = e.task.stamp
            OBVIOUS
          <6> QED BY <1>1, <1>3, <6>1, <6>2, <6>3 DEF BegunOnce, Of
        <5> QED BY <1>2, <1>3, <1>4, <2>2, <3>1, <4>1, <5>1
      <4>2. CASE e.task.state # "queued" BY <1>2, <3>1, <4>2
      <4> QED BY <4>1, <4>2
    <3>3. f # e.task.file
      <4>1. ASSUME f = e.task.file PROVE FALSE
        <5>1. e.task.state = "queued" /\ e.task.stamp < shown[g].stamp BY <2>1, <3>1, <4>1
        <5> QED BY <1>3, <1>4, <2>2, <3>1, <3>2, <5>1
      <4> QED BY <4>1
    <3>4. shown'[f] = shown[f] /\ via'[f] = via[f] /\ place'[f] = place[f] BY <2>1, <3>3
    <3>5. Leads(f, g) BY <1>1, <1>2, <3>1, <3>2, <3>4 DEF OrderInv, QueueIsShownInOrder
    <3> QED BY <2>3, <3>1, <3>4, <3>5 DEF Leads
  <2> QED BY <2>4, <2>5
<1> QED BY <1>5, <1>6

LEMMA EventKeeps ==
    ASSUME PageSized, CpInv, NEW e \in wire, EventLands(e) PROVE CpInv'
<1>1. CpTypeOK /\ BegunOnce /\ RunInv /\ OrderInv BY DEF CpInv
<1>2. /\ wire' = wire \ {e} /\ UNCHANGED <<entries, lastStart, worker, removals, online, said, shadowed, lists, answers, batch, rows, cands, begun, missed>>
      /\ IF loaded THEN /\ Upsert(e.task, "event")
                        /\ announced' = (IF Announces(e.task) THEN announced \cup {e.task.stamp} ELSE announced)
         ELSE UNCHANGED <<page, announced>>
  BY DEF EventLands, server, asked, library
<1>3. WireInv' /\ EndInv' /\ QueueIsShownInOrder' /\ heard' \in Nat /\ heard' <= lastStart
  BY EventKeepsWire, EventKeepsEnd, EventKeepsOrder
<1>4. BegunOnce' /\ RunInv' BY <1>1, <1>2 DEF BegunOnce, RunInv, FinishedAreFew
<1>5. TaskOK(e.task, begun) /\ e.task.stamp \in Nat \ {0} /\ e.task.stamp <= lastStart /\ lastStart \in Nat /\ said \in Nat
  BY <1>1, EventsAre DEF CpTypeOK
<1>6. PageOK' /\ \A f \in Files : place'[f] <= front' /\ (~loaded' => shown'[f] = None)
  <2>1. CASE loaded
    <3>1. /\ PageOK' /\ loaded' /\ front' = front + 1 /\ place'[e.task.file] = front + 1
          /\ \A f \in Files : f # e.task.file => place'[f] = place[f]
      BY <1>1, <1>2, <1>5, <2>1, UpsertIs
    <3>2. front \in Nat /\ place \in [Files -> Nat] BY <1>1 DEF CpTypeOK
    <3> QED BY <1>1, <3>1, <3>2 DEF OrderInv
  <2>2. CASE ~loaded
    <3>1. UNCHANGED page BY <1>2, <2>2
    <3>2. PageOK' BY <1>1, <1>2, <1>5, <3>1, GrownStays
    <3> QED BY <1>1, <3>1, <3>2 DEF OrderInv, page
  <2> QED BY <2>1, <2>2
<1>7. CpTypeOK'
  <2>1. WorkerOK' /\ (\A r \in removals : RemovalOK(r)') /\ (\A d \in wire : EventOK(d)') /\ (\A l \in lists : ReadOK(l)')
        /\ (batch' = None \/ BatchOK(batch)') /\ (\A u \in answers : TaskOK(u, begun'))
    BY <1>1, <1>2, <1>5, GrownStays
  <2>2. announced' \subseteq 1..lastStart' BY <1>1, <1>2, <1>5 DEF CpTypeOK
  <2>3. /\ ListOK(entries', begun') /\ begun' \subseteq [stamp : 1..lastStart', file : Files] /\ shadowed' \subseteq Files
        /\ rows' \subseteq Rows /\ cands' \subseteq Files /\ online' \in BOOLEAN /\ missed' \in BOOLEAN
    BY <1>1, <1>2 DEF CpTypeOK
  <2>4. heard' \in 0..lastStart' BY <1>2, <1>3, <1>5
  <2> QED BY <1>2, <1>5, <1>6, <2>1, <2>2, <2>3, <2>4, TypesFit
<1>8. OrderInv'
  <2>1. BatchOrder' BY <1>1, <1>2 DEF BatchOrder, OrderInv
  <2> QED BY <1>1, <1>2, <1>3, <1>6, <2>1 DEF OrderInv
<1> QED BY <1>3, <1>4, <1>7, <1>8 DEF CpInv

--------------------------------------------------------------------------------
(* Every step keeps the invariant.                                              *)

\* A request of the batch: its task is new, or that of a file that has one under way.
LEMMA BatchGrows ==
    ASSUME PageSized, CpInv, NEW f \in Files, StartNext(f), begun \subseteq begun', TaskOK(Began(f), begun'), Began(f).file = f,
           ~CActive(entries[f]) => Began(f).stamp = lastStart + 1
    PROVE  BatchOK(batch)' /\ BatchOrder'
<1> DEFINE new == [nth |-> batch.count + 1, task |-> Began(f), new |-> ~CActive(entries[f])]
<1>1. CpTypeOK /\ OrderInv BY DEF CpInv
<1>2. /\ batch # None /\ f \in batch.left
      /\ batch' = [left |-> batch.left \ {f}, got |-> batch.got \cup {new}, count |-> batch.count + 1]
  BY DEF StartNext
<1>3. BatchOK(batch) /\ lastStart \in Nat BY <1>1, <1>2 DEF CpTypeOK
<1>4. new.nth = batch.count + 1 /\ new.task = Began(f) /\ new.new = ~CActive(entries[f])
  OBVIOUS
<1>5. new = [nth |-> new.nth, task |-> new.task, new |-> new.new] /\ new.new \in BOOLEAN
  OBVIOUS
<1> HIDE DEF new
<1>6. batch'.left = batch.left \ {f} /\ batch'.got = batch.got \cup {new} /\ batch'.count = batch.count + 1
      /\ batch' = [left |-> batch'.left, got |-> batch'.got, count |-> batch'.count]
  BY <1>2
<1>7. batch.left \subseteq Files /\ batch.count \in Nat
      /\ \A g \in batch.got : /\ g = [nth |-> g.nth, task |-> g.task, new |-> g.new] /\ g.new \in BOOLEAN
                              /\ g.nth \in 1..batch.count /\ TaskOK(g.task, begun) /\ g.task.file \notin batch.left
                              /\ \A h \in batch.got : g.task.file = h.task.file => g = h
  BY <1>3 DEF BatchOK
<1>8. \A g \in batch.got : g.nth < new.nth /\ g.task.file # f /\ g.nth \in 1..batch'.count /\ TaskOK(g.task, begun')
  BY <1>2, <1>4, <1>6, <1>7, TaskStays
<1>9. new.nth \in 1..batch'.count /\ new.task.file = f /\ TaskOK(new.task, begun') BY <1>4, <1>6, <1>7
<1>10. BatchOK(batch)'
  <2>1. ASSUME NEW g \in batch'.got
        PROVE  /\ g = [nth |-> g.nth, task |-> g.task, new |-> g.new] /\ g.new \in BOOLEAN
               /\ g.nth \in 1..batch'.count /\ TaskOK(g.task, begun') /\ g.task.file \notin batch'.left
    BY <1>5, <1>6, <1>7, <1>8, <1>9
  <2>2. \A g, h \in batch'.got : g.task.file = h.task.file => g = h BY <1>6, <1>7, <1>8, <1>9
  <2>3. batch'.left \subseteq Files /\ batch'.count \in Nat BY <1>6, <1>7
  <2> QED BY <1>6, <2>1, <2>2, <2>3 DEF BatchOK
<1>11. BatchOrder'
  <2>1. \A g \in batch.got : g.task.stamp <= lastStart /\ g.task.stamp \in Nat
    <3> TAKE g \in batch.got
    <3>0. TaskOK(g.task, begun) BY <1>7
    <3>1. [stamp |-> g.task.stamp, file |-> g.task.file] \in begun BY <3>0 DEF TaskOK
    <3>2. begun \subseteq [stamp : 1..lastStart, file : Files] BY <1>1 DEF CpTypeOK
    <3>3. g.task.stamp \in 1..lastStart BY <3>1, <3>2
    <3> QED BY <1>3, <3>3
  <2>2. new.new => new.task.stamp = lastStart + 1 BY <1>4
  <2>3. \A g, h \in batch.got : /\ g.nth = h.nth => g = h
                                /\ g.new /\ h.new /\ g.nth < h.nth => g.task.stamp < h.task.stamp
    BY <1>1, <1>2 DEF OrderInv, BatchOrder
  <2>4. \A g, h \in batch'.got : g.nth = h.nth => g = h BY <1>6, <1>7, <1>8, <2>3
  <2>5. ASSUME NEW g \in batch'.got, NEW h \in batch'.got, g.new, h.new, g.nth < h.nth PROVE g.task.stamp < h.task.stamp
    <3>1. g # new BY <1>6, <1>7, <1>8, <1>9, <2>5
    <3>2. CASE h = new
      <4>1. new.new BY <2>5, <3>2
      <4> QED BY <1>3, <1>6, <2>1, <2>2, <3>1, <3>2, <4>1
    <3>3. CASE h # new BY <1>6, <2>3, <2>5, <3>1, <3>3
    <3> QED BY <3>2, <3>3
  <2> QED BY <2>4, <2>5 DEF BatchOrder
<1> QED BY <1>10, <1>11

\* A start, whoever asked for it.
LEMMA RequestKeeps ==
    ASSUME PageSized, CpInv, NEW f \in Files, StartTask(f), UNCHANGED <<page, lists, library, missed, announced>>,
           \/ UNCHANGED batch /\ answers' \subseteq answers \cup {Began(f)}
           \/ StartNext(f) /\ UNCHANGED answers
    PROVE  CpInv'
<1>1. CpTypeOK /\ FinishedAreFew /\ RunInv BY DEF CpInv, RunInv
<1>2. CASE CActive(entries[f])
  <2>1. UNCHANGED <<entries, lastStart, begun, heard, wire, said, shadowed, worker, removals, online>> BY <1>2 DEF StartTask, feed
  <2>2. Began(f) = entries[f] /\ entries[f] # None BY <1>2 DEF Began, CActive
  <2>3. TaskOK(Began(f), begun) /\ Began(f).file = f BY <1>1, <2>2, EntriesAre
  <2>4. batch' \in {batch, None} \/ (BatchOK(batch)' /\ BatchOrder') BY <1>2, <2>1, <2>3, BatchGrows
  <2>5. \A u \in answers' : u \in answers \/ TaskOK(u, begun) BY <2>3
  <2>6. /\ ListOK(entries', begun) /\ rows' \subseteq Rows /\ cands' \subseteq Files /\ missed' \in BOOLEAN
    BY <1>1, <2>1 DEF CpTypeOK, library
  <2> QED BY <2>1, <2>4, <2>5, <2>6, QuietElsewhere
<1>3. CASE ~CActive(entries[f])
  <2>1. /\ Sending(NewTask(f)) /\ NewTask(f).state = "queued" /\ NewTask(f).file = f /\ NewTask(f).stamp = lastStart + 1
        /\ TaskOK(NewTask(f), begun') /\ UNCHANGED <<worker, removals, online>>
    BY <1>1, <1>3, StartSends
  <2>2. Began(f) = NewTask(f) BY <1>3 DEF Began
  <2>3. RunInv' BY <1>1, <2>1, SentRun
  <2>4. begun \subseteq begun' BY <1>1, <2>1, SentEntries
  <2>5. batch' = batch \/ (BatchOK(batch)' /\ BatchOrder') BY <2>1, <2>2, <2>4, BatchGrows
  <2>6. \A u \in answers' : u \in answers \/ TaskOK(u, begun') BY <2>1, <2>2
  <2> QED BY <2>1, <2>3, <2>5, <2>6, SentKeeps
<1> QED BY <1>2, <1>3

LEMMA CancelKeeps ==
    ASSUME PageSized, CpInv, NEW f \in Files, Cancel(f), UNCHANGED <<page, lists, batch, library, missed, announced>>,
           answers' \subseteq answers \cup {Stopped(f)}
    PROVE  CpInv'
<1>1. CpTypeOK /\ FinishedAreFew /\ RunInv BY DEF CpInv, RunInv
<1>2. CASE ~CActive(entries[f])
  <2>1. UNCHANGED <<entries, lastStart, begun, heard, wire, said, shadowed, worker, removals, online>> BY <1>2 DEF Cancel, feed
  <2>2. TaskOK(Stopped(f), begun) BY <1>1, <1>2, EntriesAre DEF Stopped, Cancel
  <2>3. /\ ListOK(entries', begun) /\ rows' \subseteq Rows /\ cands' \subseteq Files /\ missed' \in BOOLEAN
    BY <1>1, <2>1 DEF CpTypeOK, library
  <2>4. \A u \in answers' : u \in answers \/ TaskOK(u, begun) BY <2>2
  <2> QED BY <2>1, <2>3, <2>4, QuietElsewhere
<1>3. CASE CActive(entries[f])
  <2>1. /\ Sending(Stopped(f)) /\ Stopped(f).state = "cancelled" /\ TaskOK(Stopped(f), begun')
        /\ UNCHANGED <<lastStart, worker, removals, online, begun, heard>>
    BY <1>1, <1>3, CancelSends
  <2>2. RunInv' BY <1>1, <2>1, SentRun
  <2>3. \A u \in answers' : u \in answers \/ TaskOK(u, begun') BY <2>1
  <2> QED BY <2>1, <2>2, <2>3, SentKeeps
<1> QED BY <1>2, <1>3

\* The service.
LEMMA ServiceKeeps ==
    ASSUME PageSized, CpInv
    PROVE  /\ RunBegins => CpInv'
           /\ RunEnds => CpInv'
           /\ \A p \in Phases : Progress(p) => CpInv'
           /\ \A p \in {"compressing", "checking"} : LateProgress(p) => CpInv'
           /\ \A r \in removals : RemovalEnds(r) => CpInv'
<1>1. CpTypeOK /\ BegunOnce /\ FinishedAreFew /\ RunInv BY DEF CpInv, RunInv
<1>2. ASSUME RunBegins PROVE CpInv'
  <2>1. PICK t : /\ Sending(t) /\ t.state = "running" /\ worker' = [file |-> t.file, stamp |-> t.stamp] /\ TaskOK(t, begun)
                 /\ RunInv'
    BY <1>1, <1>2, RunBeginsSends
  <2>2. UNCHANGED <<page, lists, answers, batch, library, missed, announced, removals>> BY <1>2 DEF RunBegins, asked
  <2> QED BY <2>1, <2>2, SentKeeps
<1>3. ASSUME NEW p \in Phases, Progress(p) PROVE CpInv'
  <2>1. PICK t : Sending(t) /\ RunInv' BY <1>1, <1>3, ProgressSends
  <2>2. UNCHANGED <<page, lists, answers, batch, library, missed, announced, removals, worker>> BY <1>3 DEF Progress, asked
  <2> QED BY <2>1, <2>2, SentKeeps
<1>4. ASSUME NEW p \in {"compressing", "checking"}, LateProgress(p) PROVE CpInv'
  <2>1. PICK t : Sending(t) /\ RunInv' BY <1>1, <1>4, LateSends
  <2>2. UNCHANGED <<page, lists, answers, batch, library, missed, announced, removals, worker>> BY <1>4 DEF LateProgress, asked
  <2> QED BY <2>1, <2>2, SentKeeps
<1>5. ASSUME RunEnds PROVE CpInv'
  <2>1. /\ UNCHANGED <<page, lists, answers, batch, library, missed, announced, removals, rows, cands>> /\ worker' = None
        /\ UNCHANGED <<lastStart, online, begun, heard>>
    BY <1>5 DEF RunEnds, asked, library
  <2>2. CASE Running
    <3>1. PICK t : Sending(t) /\ RunInv' BY <1>1, <1>5, <2>2, EndOfRunSends
    <3> QED BY <2>1, <3>1, SentKeeps
  <2>3. CASE ~Running
    <3>1. UNCHANGED <<entries, wire, said, shadowed>> BY <1>5, <2>3 DEF RunEnds, feed
    <3>2. \A f \in Files : entries'[f] # None => entries'[f].state # "running" BY <1>1, <2>3, <3>1 DEF RunInv, Running
    <3>3. /\ ListOK(entries', begun) /\ rows' \subseteq Rows /\ cands' \subseteq Files /\ missed' \in BOOLEAN
      BY <1>1, <2>1, <3>1 DEF CpTypeOK
    <3> QED BY <2>1, <3>1, <3>2, <3>3, QuietElsewhere
  <2> QED BY <2>2, <2>3
<1>6. ASSUME NEW r \in removals, RemovalEnds(r) PROVE CpInv'
  <2> DEFINE t == [r.task EXCEPT !.result = "removed"]
  <2>1. Sending(t) /\ TaskOK(t, begun) /\ RunInv' BY <1>1, <1>6, RemovalSends
  <2>2. /\ UNCHANGED <<page, lists, batch, library, missed, announced, worker, begun>> /\ removals' \subseteq removals
        /\ answers' \subseteq answers \cup {t}
    BY <1>6 DEF RemovalEnds
  <2> HIDE DEF t
  <2> QED BY <2>1, <2>2, SentKeeps
<1> QED BY <1>2, <1>3, <1>4, <1>5, <1>6

\* What leaves the tasks and the page alone, or forgets tasks.
LEMMA OthersKeep ==
    ASSUME PageSized, CpInv
    PROVE  /\ \A f \in Files, here \in BOOLEAN : RemovalBegins(f, here) => CpInv'
           /\ \A r \in removals : RemovalRefused(r) => CpInv'
           /\ \A here \in BOOLEAN : Clear(here) => CpInv'
           /\ Restart => CpInv'
           /\ GoOffline => CpInv'
           /\ GoOnline => CpInv'
<1>1. CpTypeOK BY DEF CpInv
<1>2. /\ ListOK(entries, begun) /\ rows \subseteq Rows /\ cands \subseteq Files /\ missed \in BOOLEAN /\ lastStart \in Nat /\ online \in BOOLEAN
  BY <1>1 DEF CpTypeOK
<1>3. ASSUME NEW f \in Files, NEW here \in BOOLEAN, RemovalBegins(f, here) PROVE CpInv'
  <2> DEFINE new == [task |-> entries[f], here |-> here]
  <2>1. /\ entries[f] # None /\ entries[f].result = "kept" /\ removals' = removals \cup {new}
        /\ UNCHANGED <<entries, lastStart, worker, online, feed, page, asked, library, begun, heard, missed, announced>>
    BY <1>3 DEF RemovalBegins
  <2>2. TaskOK(entries[f], begun) /\ entries[f].file = f BY <1>1, <2>1, EntriesAre
  <2>3. new = [task |-> new.task, here |-> new.here] /\ new.task = entries[f] /\ new.here = here OBVIOUS
  <2> HIDE DEF new
  <2>4. "kept" # None BY DEF PageSized
  <2>5. ~CActive(entries[f]) BY <2>1, <2>2, <2>4 DEF CActive, TaskOK
  <2>6. RemovalOK(new) /\ ~CActive(entries'[new.task.file]) BY <2>1, <2>2, <2>3, <2>5 DEF RemovalOK
  <2>7. \A r \in removals' : r \in removals \/ (RemovalOK(r) /\ ~CActive(entries'[r.task.file])) BY <2>1, <2>6
  <2> QED BY <1>2, <2>1, <2>7, QuietElsewhere DEF feed, asked, library
<1>4. ASSUME NEW r \in removals, RemovalRefused(r) PROVE CpInv'
  <2>1. removals' \subseteq removals /\ UNCHANGED <<entries, lastStart, worker, online, feed, page, asked, library, begun, heard, missed, announced>>
    BY <1>4 DEF RemovalRefused
  <2> QED BY <1>2, <2>1, QuietElsewhere DEF feed, asked, library
<1>5. ASSUME NEW here \in BOOLEAN, Clear(here) PROVE CpInv'
  <2> DEFINE new == [list |-> Kept, upTo |-> lastStart]
  <2>1. /\ entries' = Kept /\ lists' \subseteq lists \cup {new}
        /\ UNCHANGED <<lastStart, worker, removals, online, feed, page, answers, batch, library, begun, heard, missed, announced>>
    BY <1>5 DEF Clear
  <2>2. new = [list |-> new.list, upTo |-> new.upTo] /\ new.list = Kept /\ new.upTo = lastStart OBVIOUS
  <2> HIDE DEF new
  <2>3. ListOK(Kept, begun) /\ \A f \in Files : Kept[f] \in {entries[f], None} BY <1>2 DEF Kept, ListOK
  <2>4. ReadOK(new) BY <1>2, <2>2, <2>3 DEF ReadOK
  <2>5. \A l \in lists' : l \in lists \/ (ReadOK(l) /\ l.upTo = lastStart) BY <2>1, <2>2, <2>4
  <2> QED BY <1>2, <2>1, <2>3, <2>5, QuietElsewhere DEF feed, library
<1>6. ASSUME Restart PROVE CpInv'
  <2>1. /\ entries' = [f \in Files |-> None] /\ worker' = None /\ removals' = {} /\ batch' = None
        /\ online' = FALSE /\ wire' = {} /\ heard' = lastStart /\ missed' = TRUE
        /\ UNCHANGED <<lastStart, said, shadowed, page, lists, answers, library, begun, announced>>
    BY <1>6 DEF Restart
  <2>2. ListOK(entries', begun) /\ \A f \in Files : entries'[f] \in {entries[f], None} BY <2>1 DEF ListOK
  <2> QED BY <1>2, <2>1, <2>2, QuietElsewhere DEF library
<1>7. ASSUME GoOffline PROVE CpInv'
  <2>1. /\ online' = FALSE /\ wire' = {} /\ heard' = lastStart /\ missed' = TRUE
        /\ UNCHANGED <<entries, lastStart, worker, removals, said, shadowed, page, lists, answers, batch, rows, cands, begun, announced>>
    BY <1>7 DEF GoOffline, server, asked, library
  <2> QED BY <1>2, <2>1, QuietElsewhere
<1>8. ASSUME GoOnline PROVE CpInv'
  <2>1. /\ online' = TRUE
        /\ UNCHANGED <<entries, lastStart, worker, removals, wire, said, shadowed, page, lists, answers, batch, rows, cands, begun, heard, missed, announced>>
    BY <1>8 DEF GoOnline, server, asked, library, feed
  <2> QED BY <1>2, <2>1, QuietElsewhere
<1> QED BY <1>3, <1>4, <1>5, <1>6, <1>7, <1>8

\* The requests of the page, and nothing.
LEMMA RequestsKeep ==
    ASSUME PageSized, CpInv
    PROVE  /\ LibraryChanges => CpInv'
           /\ CandidatesLand => CpInv'
           /\ StartAll => CpInv'
           /\ \A f \in Files : SkipNext(f) => CpInv'
           /\ ListIsRead => CpInv'
           /\ Lost => CpInv'
           /\ UNCHANGED cpVars => CpInv'
<1>1. CpTypeOK /\ OrderInv BY DEF CpInv
<1>2. /\ ListOK(entries, begun) /\ rows \subseteq Rows /\ cands \subseteq Files /\ missed \in BOOLEAN /\ lastStart \in Nat /\ online \in BOOLEAN
      /\ (batch = None \/ BatchOK(batch))
  BY <1>1 DEF CpTypeOK
<1> DEFINE StillThere == UNCHANGED <<entries, lastStart, worker, removals, online, wire, said, shadowed, page, begun, heard, missed, announced>>
<1>3. ASSUME LibraryChanges PROVE CpInv'
  <2>1. rows' \subseteq Rows /\ StillThere /\ UNCHANGED <<cands, lists, answers, batch>> BY <1>3 DEF LibraryChanges, server, feed, asked
  <2> QED BY <1>2, <2>1, QuietElsewhere
<1>4. ASSUME CandidatesLand PROVE CpInv'
  <2>1. cands' \subseteq Files /\ StillThere /\ UNCHANGED <<rows, lists, answers, batch>>
    BY <1>4 DEF CandidatesLand, Candidates, server, feed, asked
  <2> QED BY <1>2, <2>1, QuietElsewhere
<1>5. ASSUME StartAll PROVE CpInv'
  <2>1. batch' = [left |-> Waiting, got |-> {}, count |-> 0] /\ StillThere /\ UNCHANGED <<rows, cands, lists, answers>>
    BY <1>5 DEF StartAll, server, feed, library
  <2>2. batch'.left = Waiting /\ batch'.got = {} /\ batch'.count = 0 /\ batch' = [left |-> batch'.left, got |-> batch'.got, count |-> batch'.count]
    BY <2>1
  <2>3. Waiting \subseteq Files BY <1>2 DEF Waiting
  <2>4. BatchOK(batch)' BY <2>2, <2>3 DEF BatchOK
  <2>5. BatchOrder' BY <2>2 DEF BatchOrder
  <2> QED BY <1>2, <2>1, <2>4, <2>5, QuietElsewhere
<1>6. ASSUME NEW f \in Files, SkipNext(f) PROVE CpInv'
  <2>1. batch # None /\ batch' = [batch EXCEPT !.left = @ \ {f}] /\ StillThere /\ UNCHANGED <<rows, cands, lists, answers>>
    BY <1>6 DEF SkipNext, server, feed, library
  <2>2. BatchOK(batch) BY <1>2, <2>1
  <2>3. batch = [left |-> batch.left, got |-> batch.got, count |-> batch.count] BY <2>2 DEF BatchOK
  <2>4. batch'.left = batch.left \ {f} /\ batch'.got = batch.got /\ batch'.count = batch.count
        /\ batch' = [left |-> batch'.left, got |-> batch'.got, count |-> batch'.count]
    BY <2>1, <2>3
  <2>5. BatchOK(batch)'
    <3>1. \A g \in batch'.got : g.task.file \notin batch'.left BY <2>2, <2>4 DEF BatchOK
    <3>2. batch'.left \subseteq Files BY <2>2, <2>4 DEF BatchOK
    <3>3. UNCHANGED begun BY <2>1
    <3> QED BY <2>2, <2>4, <3>1, <3>2, <3>3 DEF BatchOK
  <2>6. BatchOrder' BY <1>1, <2>1, <2>4 DEF BatchOrder, OrderInv
  <2> QED BY <1>2, <2>1, <2>5, <2>6, QuietElsewhere
<1>7. ASSUME ListIsRead PROVE CpInv'
  <2> DEFINE new == [list |-> entries, upTo |-> lastStart]
  <2>1. lists' = lists \cup {new} /\ StillThere /\ UNCHANGED <<rows, cands, answers, batch>> BY <1>7 DEF ListIsRead, server, feed, library
  <2>2. new = [list |-> new.list, upTo |-> new.upTo] /\ new.list = entries /\ new.upTo = lastStart OBVIOUS
  <2> HIDE DEF new
  <2>3. ReadOK(new) BY <1>2, <2>2 DEF ReadOK
  <2>4. \A l \in lists' : l \in lists \/ (ReadOK(l) /\ l.upTo = lastStart) BY <2>1, <2>2, <2>3
  <2> QED BY <1>2, <2>1, <2>4, QuietElsewhere
<1>8. ASSUME Lost PROVE CpInv'
  <2>1. /\ lists' \subseteq lists /\ answers' \subseteq answers /\ batch' \in {batch, None} /\ StillThere /\ UNCHANGED <<rows, cands>>
    BY <1>8 DEF Lost, server, feed, library
  <2> QED BY <1>2, <2>1, QuietElsewhere
<1>9. ASSUME UNCHANGED cpVars PROVE CpInv'
  <2>1. StillThere /\ UNCHANGED <<rows, cands, lists, answers, batch>> BY <1>9 DEF cpVars, page
  <2> QED BY <1>2, <2>1, QuietElsewhere
<1> QED BY <1>3, <1>4, <1>5, <1>6, <1>7, <1>8, <1>9

LEMMA CpInitInv == ASSUME PageSized, CpInit PROVE CpInv
<1>1. \A f \in Files : entries[f] = None /\ shown[f] = None /\ place[f] = 0 /\ via[f] = "list" BY DEF CpInit
<1>2. entries \in [Files -> CTasks \cup {None}] /\ shown \in [Files -> CTasks \cup {None}] /\ place \in [Files -> Nat]
      /\ via \in [Files -> {"list", "event", "answer"}]
  BY DEF CpInit
<1>3. CpTypeOK
  <2>1. ListOK(entries, begun) /\ ListOK(shown, begun) BY <1>1, <1>2 DEF ListOK
  <2>2. place \in [Files -> Nat] BY DEF CpInit
  <2>3. /\ lastStart = 0 /\ worker = None /\ removals = {} /\ online = FALSE /\ wire = {} /\ said = 0 /\ loaded = FALSE /\ front = 0
        /\ lists = {} /\ answers = {} /\ batch = None /\ rows \subseteq Rows /\ cands = {}
        /\ begun = {} /\ heard = 0 /\ missed = TRUE /\ shadowed = {} /\ announced = {}
    BY DEF CpInit
  <2>4. PageOK BY <1>2, <2>1, <2>2, <2>3 DEF PageOK
  <2>5. WorkerOK /\ lastStart \in Nat /\ heard \in 0..lastStart /\ said \in Nat BY <2>3 DEF WorkerOK
  <2> QED BY <2>1, <2>3, <2>4, <2>5, TypeParts
<1>4. BegunOnce BY DEF CpInit, BegunOnce
<1>5. RunInv
  <2>1. Ended(entries) = {} BY <1>1 DEF Ended
  <2>2. Cardinality(Ended(entries)) = 0 BY <2>1, FS_EmptySet
  <2>3. FinishedAreFew BY <2>2 DEF FinishedAreFew, PageSized
  <2> QED BY <1>1, <2>3 DEF CpInit, RunInv
<1>6. WireInv BY DEF CpInit, WireInv, LastEventIsTheEntry
<1>7. EndInv BY <1>1 DEF CpInit, EndInv
<1>8. OrderInv BY <1>1 DEF CpInit, OrderInv, QueueIsShownInOrder, BatchOrder
<1> QED BY <1>3, <1>4, <1>5, <1>6, <1>7, <1>8 DEF CpInv

LEMMA CpStep == ASSUME PageSized, CpInv, [CpNext]_cpVars PROVE CpInv'
<1>1. CASE RunBegins \/ RunEnds BY <1>1, ServiceKeeps
<1>2. CASE Restart \/ GoOffline \/ GoOnline BY <1>2, OthersKeep
<1>3. CASE LibraryChanges \/ CandidatesLand \/ StartAll \/ ListIsRead \/ Lost \/ UNCHANGED cpVars BY <1>3, RequestsKeep
<1>4. CASE BatchLands BY <1>4, BatchKeeps
<1>5. CASE \E p \in Phases : Progress(p) BY <1>5, ServiceKeeps
<1>6. CASE \E p \in {"compressing", "checking"} : LateProgress(p) BY <1>6, ServiceKeeps
<1>7. ASSUME NEW f \in Files, StartHere(f) \/ StartElsewhere(f) \/ StartNext(f) PROVE CpInv'
  <2>1. StartTask(f) /\ UNCHANGED <<page, lists, library, missed, announced>>
    BY <1>7 DEF StartHere, StartElsewhere, StartNext, asked
  <2>2. \/ UNCHANGED batch /\ answers' \subseteq answers \cup {Began(f)}
        \/ StartNext(f) /\ UNCHANGED answers
    BY <1>7 DEF StartHere, StartElsewhere, StartNext, asked
  <2> QED BY <2>1, <2>2, RequestKeeps
<1>8. ASSUME NEW f \in Files, CancelHere(f) \/ CancelElsewhere(f) PROVE CpInv'
  <2>1. /\ Cancel(f) /\ UNCHANGED <<page, lists, batch, library, missed, announced>> /\ answers' \subseteq answers \cup {Stopped(f)}
    BY <1>8 DEF CancelHere, CancelElsewhere, asked
  <2> QED BY <2>1, CancelKeeps
<1>9. ASSUME NEW f \in Files, SkipNext(f) PROVE CpInv' BY <1>9, RequestsKeep
<1>10. CASE \E f \in Files : \/ StartHere(f) \/ StartElsewhere(f) \/ StartNext(f) \/ SkipNext(f)
                             \/ CancelHere(f) \/ CancelElsewhere(f)
  BY <1>7, <1>8, <1>9, <1>10
<1>11. CASE \E f \in Files, here \in BOOLEAN : RemovalBegins(f, here) BY <1>11, OthersKeep
<1>12. CASE \E r \in removals : RemovalEnds(r) \/ RemovalRefused(r) BY <1>12, ServiceKeeps, OthersKeep
<1>13. CASE \E here \in BOOLEAN : Clear(here) BY <1>13, OthersKeep
<1>14. CASE \E t \in answers : AnswerLands(t) BY <1>14, AnswerKeeps
<1>15. CASE \E l \in lists : ListLands(l) BY <1>15, ListKeeps
<1>16. CASE \E e \in wire : EventLands(e) BY <1>16, EventKeeps
<1> QED BY <1>1, <1>2, <1>3, <1>4, <1>5, <1>6, <1>10, <1>11, <1>12, <1>13, <1>14, <1>15, <1>16 DEF CpNext

--------------------------------------------------------------------------------
(* The theorems.                                                                *)

\* The service, what it publishes and what the page shows keep the invariant, however requests,
\* answers, lists and events cross.
THEOREM PageInvariant == ASSUME PageSized PROVE CpSpec => []CpInv
<1>1. CpInit => CpInv BY CpInitInv
<1>2. CpInv /\ [CpNext]_cpVars => CpInv' BY CpStep
<1> QED BY <1>1, <1>2, PTL DEF CpSpec

\* Every task, event, answer and list has its type.
THEOREM CompressPageIsTyped == ASSUME PageSized PROVE CpSpec => []CpTypeOK
<1>1. CpInv => CpTypeOK BY DEF CpInv
<1> QED BY <1>1, PageInvariant, PTL

\* One compression runs at a time, in the order in which they were started.
LEMMA QueueFollows == ASSUME CpInv PROVE QueueIsInOrder
<1>1. RunInv BY DEF CpInv
<1>2. ASSUME NEW f \in Files, NEW g \in Files, entries[f] # None, entries[g] # None, f # g, entries[f].state = "running"
      PROVE  entries[g].state # "running" /\ (entries[g].state = "queued" => entries[f].stamp < entries[g].stamp)
  <2>1. worker # None /\ worker.file = f /\ worker.stamp = entries[f].stamp BY <1>1, <1>2 DEF RunInv
  <2>2. entries[g].state = "running" => worker.file = g BY <1>1, <1>2 DEF RunInv
  <2>3. entries[g].state = "queued" => worker.stamp < entries[g].stamp BY <1>1, <1>2, <2>1 DEF RunInv
  <2> QED BY <1>2, <2>1, <2>2, <2>3
<1> QED BY <1>2 DEF QueueIsInOrder

\* One compression runs at a time, and those that wait were started after it.
THEOREM OneCompressionAtATime == ASSUME PageSized PROVE CpSpec => []QueueIsInOrder
<1>1. CpInv => QueueIsInOrder BY QueueFollows
<1> QED BY <1>1, PageInvariant, PTL

\* #trimFinished keeps the list short, though it drops one task at a time.
THEOREM TheListIsShort == ASSUME PageSized PROVE CpSpec => []FinishedAreFew
<1>1. CpInv => FinishedAreFew BY DEF CpInv, RunInv
<1> QED BY <1>1, PageInvariant, PTL

LEMMA HeadlinesFit == ASSUME CpInv PROVE HeadlinesAreTrue
<1>1. CpTypeOK BY DEF CpInv
<1>2. ASSUME NEW f \in Files, shown[f] # None, ~CActive(shown[f])
      PROVE  Headline(shown[f]) = "stopped" <=> shown[f].state = "cancelled"
  <2>1. TaskOK(shown[f], begun) /\ shown[f] \in CTasks BY <1>1, <1>2, EntriesAre
  <2>2. shown[f].state \in {"done", "failed", "cancelled"} BY <1>2, <2>1 DEF CTasks, States, CActive
  <2> QED BY <2>1, <2>2 DEF TaskOK, Headline
<1> QED BY <1>2 DEF HeadlinesAreTrue

\* The row of a task that ended says what became of it.
THEOREM TheHeadlinesAreTrue == ASSUME PageSized PROVE CpSpec => []HeadlinesAreTrue
<1>1. CpInv => HeadlinesAreTrue BY HeadlinesFit
<1> QED BY <1>1, PageInvariant, PTL

\* The page shows those that wait in the order in which they will run.
THEOREM TheQueueIsShownAsItRuns == ASSUME PageSized PROVE CpSpec => []QueueIsShownInOrder
<1>1. CpInv => QueueIsShownInOrder BY DEF CpInv, OrderInv
<1> QED BY <1>1, PageInvariant, PTL

\* The last event of a file on its way is what the service has.
THEOREM TheLastWordIsTrue == ASSUME PageSized PROVE CpSpec => []LastEventIsTheEntry
<1>1. CpInv => LastEventIsTheEntry BY DEF CpInv, WireInv
<1> QED BY <1>1, PageInvariant, PTL

\* What is shown of a file by an event was started after what was announced of it.
LEMMA SecondEnd ==
    ASSUME CpInv
    PROVE  \A e \in wire : wire' = wire \ {e} /\ loaded /\ Announces(e.task) /\ e.task.stamp \in announced =>
               via[e.task.file] # "event" \/ shown[e.task.file].stamp > e.task.stamp
<1> SUFFICES ASSUME NEW e \in wire, Announces(e.task), e.task.stamp \in announced, via[e.task.file] = "event"
             PROVE  shown[e.task.file].stamp > e.task.stamp
  OBVIOUS
<1>1. CpTypeOK /\ EndInv BY DEF CpInv
<1>2. e.task.file \in Files /\ Of(e.task.stamp, e.task.file) /\ e.task.stamp \in Nat BY <1>1, EventsAre
<1>3. CActive(shown[e.task.file]) BY DEF Announces
<1>4. shown[e.task.file].stamp \in Nat BY <1>1, <1>2, <1>3, EntriesAre DEF CActive
<1>5. e.task.stamp < shown[e.task.file].stamp BY <1>1, <1>2, <1>3 DEF EndInv
<1> QED BY <1>2, <1>4, <1>5

\* An end is announced once.
THEOREM AnEndIsAnnouncedOnce == ASSUME PageSized PROVE CpSpec => AnnouncedOnce
<1>1. CpInv /\ [CpNext]_cpVars => [\A e \in wire : wire' = wire \ {e} /\ loaded /\ Announces(e.task) /\ e.task.stamp \in announced =>
                                   via[e.task.file] # "event" \/ shown[e.task.file].stamp > e.task.stamp]_cpVars
  BY SecondEnd
<1> QED BY <1>1, PageInvariant, PTL DEF CpSpec, AnnouncedOnce

LEMMA Turned ==
    ASSUME CpInv, BatchLands
    PROVE  \A g, h \in batch.got : g.new /\ h.new /\ g.task.stamp < h.task.stamp =>
               place'[h.task.file] < place'[g.task.file]
<1> SUFFICES ASSUME NEW g \in batch.got, NEW h \in batch.got, g.new, h.new, g.task.stamp < h.task.stamp
             PROVE  place'[h.task.file] < place'[g.task.file]
  OBVIOUS
<1>1. CpTypeOK /\ OrderInv BY DEF CpInv
<1>2. batch # None /\ place' = [f \in Files |-> IF InBatch(f) = {} THEN place[f]
                                               ELSE front + batch.count + 1 - (CHOOSE i \in InBatch(f) : TRUE).nth]
  BY DEF BatchLands
<1>3. BatchOK(batch) /\ front \in Nat BY <1>1, <1>2 DEF CpTypeOK
<1>4. batch.count \in Nat /\ \A i \in batch.got : i.nth \in 1..batch.count /\ TaskOK(i.task, begun) BY <1>3 DEF BatchOK
<1>5. ASSUME NEW i \in batch.got PROVE place'[i.task.file] = front + batch.count + 1 - i.nth
  <2>1. i.task.file \in Files
    <3>1. TaskOK(i.task, begun) BY <1>4
    <3> QED BY <3>1 DEF TaskOK, CTasks
  <2>2. InBatch(i.task.file) = {i} BY <1>3 DEF BatchOK, InBatch
  <2>3. (CHOOSE j \in InBatch(i.task.file) : TRUE) = i BY <2>2
  <2> QED BY <1>2, <2>1, <2>2, <2>3
<1>6. g.task.stamp \in Nat /\ h.task.stamp \in Nat
  <2>1. TaskOK(g.task, begun) /\ TaskOK(h.task, begun) BY <1>4
  <2> QED BY <2>1 DEF TaskOK, CTasks
<1>7. g.nth \in Nat /\ h.nth \in Nat BY <1>4
<1>8. g.nth < h.nth
  <2>1. g.nth # h.nth BY <1>1, <1>2, <1>6 DEF OrderInv, BatchOrder
  <2>2. h.nth < g.nth => h.task.stamp < g.task.stamp BY <1>1, <1>2 DEF OrderInv, BatchOrder
  <2> QED BY <1>6, <1>7, <2>1, <2>2
<1>9. place'[g.task.file] = front + batch.count + 1 - g.nth /\ place'[h.task.file] = front + batch.count + 1 - h.nth BY <1>5
<1> QED BY <1>3, <1>4, <1>7, <1>8, <1>9

\* "Compress all" shows what it queued in the reverse of the order in which it will run.
THEOREM AllTurnsTheQueue == ASSUME PageSized PROVE CpSpec => BatchTurnsTheQueue
<1>1. CpInv /\ [CpNext]_cpVars => [BatchLands => \A g, h \in batch.got : g.new /\ h.new /\ g.task.stamp < h.task.stamp =>
                                   place'[h.task.file] < place'[g.task.file]]_cpVars
  BY Turned
<1> QED BY <1>1, PageInvariant, PTL DEF CpSpec, BatchTurnsTheQueue

\* More rows of NSZ files: what was packed still is, and the rows of an NSP file are the same.
LEMMA LessLeft ==
    ASSUME PageSized, CpTypeOK, rows \subseteq rows', \A r \in rows' \ rows : r.file \in NszFiles
    PROVE  Candidates' \subseteq Candidates
<1>1. \A f \in Files : RowsOf(f)' = RowsOf(f) BY DEF RowsOf, PageSized
<1>2. Packed \subseteq Packed' BY DEF Packed, Key
<1> QED BY <1>1, <1>2 DEF Candidates, Key

\* An NSZ that comes only takes away candidates.
THEOREM AnNszOnlyTakesAway == ASSUME PageSized PROVE CpSpec => NszOnlyTakesAway
<1>1. CpInv /\ [CpNext]_cpVars => [rows \subseteq rows' /\ (\A r \in rows' \ rows : r.file \in NszFiles) => Candidates' \subseteq Candidates]_cpVars
  BY LessLeft DEF CpInv
<1> QED BY <1>1, PageInvariant, PTL DEF CpSpec, NszOnlyTakesAway

--------------------------------------------------------------------------------
(* Who is trimmed.                                                              *)

OldestGoes == \A f \in Files : said' # said /\ entries[f] # None /\ entries'[f] = None =>
                  \A g \in Ended(entries') : entries[f].stamp < entries'[g].stamp

LEMMA FinishDropsOldest ==
    ASSUME PageSized, CpInv, NEW t, TaskOK(t, begun'), t # None, Finish(t), Sending(t),
           ~CActive(t) => entries[t.file] # None /\ entries[t.file].stamp = t.stamp
    PROVE  OldestGoes
<1>1. CpTypeOK /\ BegunOnce /\ FinishedAreFew BY DEF CpInv, RunInv
<1>2. begun \subseteq begun' /\ t.file \in Files /\ t.stamp \in Nat BY <1>1, SentEntries
<1>3. \A f \in Files : entries[f] # None /\ entries'[f] = None =>
          /\ f # t.file \/ ~CActive(t)
          /\ \A g \in Ended(entries') : /\ g # f /\ entries'[g] = (IF g = t.file THEN t ELSE entries[g])
                                        /\ (IF f = t.file THEN t ELSE entries[f]).stamp <= entries'[g].stamp
  <2>1. PICK b : b = begun' OBVIOUS
  <2>2. begun \subseteq b /\ TaskOK(t, b) BY <1>2, <2>1
  <2> HIDE DEF Finish
  <2>3. /\ ListOK(entries', b) /\ Spares(t) /\ Publish(t, entries') /\ Cardinality(Ended(entries')) <= Limit
        /\ entries'[t.file] = t \/ entries'[t.file] = None
        /\ CActive(t) => entries'[t.file] = t
        /\ \A f \in Files : entries[f] # None /\ entries'[f] = None =>
               /\ f # t.file \/ ~CActive(t)
               /\ \A g \in Ended(entries') : /\ g # f /\ entries'[g] = (IF g = t.file THEN t ELSE entries[g])
                                             /\ (IF f = t.file THEN t ELSE entries[f]).stamp <= entries'[g].stamp
    BY <1>1, <2>2, FinishIs
  <2> QED BY <2>3
<1>4. BegunOnce' /\ ListOK(entries', begun') BY <1>1, SentOnce DEF Sending
<1> SUFFICES ASSUME NEW f \in Files, entries[f] # None, entries'[f] = None, NEW g \in Ended(entries')
             PROVE  entries[f].stamp < entries'[g].stamp
  BY DEF OldestGoes
<1>5. g \in Files /\ g # f /\ entries'[g] # None /\ (IF f = t.file THEN t ELSE entries[f]).stamp <= entries'[g].stamp
  BY <1>3 DEF Ended
<1>6. entries[f].stamp = (IF f = t.file THEN t ELSE entries[f]).stamp BY <1>3
<1>7. entries[f].stamp \in Nat /\ Of(entries[f].stamp, f) BY <1>1, EntriesAre
<1>8. TaskOK(entries'[g], begun') /\ entries'[g].file = g BY <1>4, <1>5 DEF ListOK
<1>9. entries'[g].stamp \in Nat /\ [stamp |-> entries'[g].stamp, file |-> g] \in begun' BY <1>8 DEF TaskOK, CTasks
<1>10. entries'[g].stamp # entries[f].stamp
  <2>1. [stamp |-> entries'[g].stamp, file |-> g] # [stamp |-> entries[f].stamp, file |-> f] BY <1>5
  <2>2. [stamp |-> entries'[g].stamp, file |-> g].stamp = entries'[g].stamp /\ [stamp |-> entries[f].stamp, file |-> f].stamp = entries[f].stamp
    OBVIOUS
  <2>3. [stamp |-> entries[f].stamp, file |-> f] \in begun' BY <1>2, <1>7 DEF Of
  <2> QED BY <1>4, <1>9, <2>1, <2>2, <2>3 DEF BegunOnce
<1> QED BY <1>5, <1>6, <1>7, <1>9, <1>10

\* Nothing is forgotten by what is published where it is, or of a task whose entry is another.
LEMMA UpdateDropsNone ==
    ASSUME NEW t, CpTypeOK, TaskOK(t, begun), t # None, Update(t) PROVE \A f \in Files : entries[f] # None => entries'[f] # None
<1>1. t.file \in Files BY DEF TaskOK, CTasks
<1>2. entries' = [entries EXCEPT ![t.file] = t] /\ DOMAIN entries = Files BY DEF Update, CpTypeOK, ListOK
<1> QED BY <1>1, <1>2

\* Those that publish none.
LEMMA SilentSteps ==
    ASSUME \/ Restart \/ LibraryChanges \/ CandidatesLand \/ StartAll \/ BatchLands \/ ListIsRead \/ Lost \/ GoOffline \/ GoOnline
           \/ \E f \in Files : SkipNext(f)
           \/ \E f \in Files, here \in BOOLEAN : RemovalBegins(f, here)
           \/ \E r \in removals : RemovalRefused(r)
           \/ \E here \in BOOLEAN : Clear(here)
           \/ \E t \in answers : AnswerLands(t)
           \/ \E l \in lists : ListLands(l)
           \/ \E e \in wire : EventLands(e)
           \/ UNCHANGED cpVars
    PROVE  said' = said
<1>1. CASE Restart \/ LibraryChanges \/ CandidatesLand \/ StartAll \/ BatchLands
  BY <1>1 DEF Restart, LibraryChanges, CandidatesLand, StartAll, BatchLands, feed
<1>2. CASE ListIsRead \/ Lost \/ GoOffline \/ GoOnline \/ UNCHANGED cpVars
  BY <1>2 DEF ListIsRead, Lost, GoOffline, GoOnline, feed, cpVars
<1>3. CASE \E f \in Files : SkipNext(f) BY <1>3 DEF SkipNext, feed
<1>4. CASE \E f \in Files, here \in BOOLEAN : RemovalBegins(f, here) BY <1>4 DEF RemovalBegins, feed
<1>5. CASE \E r \in removals : RemovalRefused(r) BY <1>5 DEF RemovalRefused, feed
<1>6. CASE \E here \in BOOLEAN : Clear(here) BY <1>6 DEF Clear, feed
<1>7. CASE \E t \in answers : AnswerLands(t) BY <1>7 DEF AnswerLands, feed
<1>8. CASE \E l \in lists : ListLands(l) BY <1>8 DEF ListLands, feed
<1>9. CASE \E e \in wire : EventLands(e) BY <1>9 DEF EventLands
<1> QED BY <1>1, <1>2, <1>3, <1>4, <1>5, <1>6, <1>7, <1>8, <1>9

LEMMA StartDropsOldest ==
    ASSUME PageSized, CpInv, NEW f \in Files, StartTask(f) PROVE OldestGoes
<1>1. CpTypeOK /\ FinishedAreFew BY DEF CpInv, RunInv
<1>2. CASE CActive(entries[f]) BY <1>2 DEF StartTask, feed, OldestGoes
<1>3. CASE ~CActive(entries[f])
  <2> DEFINE t == NewTask(f)
  <2>1. Sending(t) /\ t.state = "queued" /\ TaskOK(t, begun') BY <1>1, <1>3, StartSends
  <2>2. Finish(t) BY <1>3 DEF StartTask
  <2> HIDE DEF t
  <2>3. t # None /\ CActive(t) BY <1>1, <2>1, SentEntries
  <2> QED BY <2>1, <2>2, <2>3, FinishDropsOldest
<1> QED BY <1>2, <1>3

LEMMA CancelDropsOldest ==
    ASSUME PageSized, CpInv, NEW f \in Files, Cancel(f) PROVE OldestGoes
<1>1. CpTypeOK /\ FinishedAreFew BY DEF CpInv, RunInv
<1>2. CASE ~CActive(entries[f]) BY <1>2 DEF Cancel, feed, OldestGoes
<1>3. CASE CActive(entries[f])
  <2> DEFINE t == Stopped(f)
  <2>1. Sending(t) /\ t.state = "cancelled" /\ TaskOK(t, begun') BY <1>1, <1>3, CancelSends
  <2>2. Finish(t) BY <1>3 DEF Cancel
  <2>3. t.file = f /\ t.stamp = entries[f].stamp BY <1>3 DEF Stopped, CTask
  <2> HIDE DEF t
  <2>4. t # None BY <1>1, <2>1, SentEntries
  <2>5. entries[f] # None BY <1>3 DEF CActive
  <2> QED BY <2>1, <2>2, <2>3, <2>4, <2>5, FinishDropsOldest
<1> QED BY <1>2, <1>3

LEMMA EndDropsOldest ==
    ASSUME PageSized, CpInv, RunEnds PROVE OldestGoes
<1>1. CpTypeOK /\ FinishedAreFew BY DEF CpInv, RunInv
<1>2. CASE ~Running BY <1>2 DEF RunEnds, feed, OldestGoes
<1>3. CASE Running
  <2>1. worker # None /\ entries[worker.file] # None /\ entries[worker.file].stamp = worker.stamp BY <1>3 DEF Running
  <2>2. worker \in [file : Files, stamp : Nat \ {0}] /\ [stamp |-> worker.stamp, file |-> worker.file] \in begun
    BY <1>1, <2>1 DEF CpTypeOK
  <2>3. PICK t : Finish(t) /\ TaskOK(t, begun) /\ t # None /\ t.file = worker.file /\ t.stamp = worker.stamp /\ t.state \in {"done", "failed"}
    <3>1. worker.file \in Files /\ worker.stamp \in Nat \ {0} BY <2>2
    <3>2. CASE \E result \in {"kept", "removed"} : Finish(DoneTask(worker, result))
      <4>1. PICK result \in {"kept", "removed"} : Finish(DoneTask(worker, result)) BY <3>2
      <4>2. PICK t : t = DoneTask(worker, result) OBVIOUS
      <4>3. Finish(t) BY <4>1, <4>2
      <4> HIDE DEF Finish
      <4> QED BY <2>2, <3>1, <4>2, <4>3, DoneIs
    <3>3. CASE \E error \in {"setup", "other"} : Finish(FailedTask(worker, error))
      <4>1. PICK error \in {"setup", "other"} : Finish(FailedTask(worker, error)) BY <3>3
      <4>2. PICK t : t = FailedTask(worker, error) OBVIOUS
      <4>3. Finish(t) BY <4>1, <4>2
      <4> HIDE DEF Finish
      <4> QED BY <2>2, <3>1, <4>2, <4>3, FailedIs
    <3> HIDE DEF Finish
    <3> QED BY <1>3, <3>2, <3>3 DEF RunEnds
  <2>4. UNCHANGED <<lastStart, online, begun, heard>> BY DEF RunEnds
  <2>5. Sending(t) /\ ~CActive(t) BY <1>1, <2>3, <2>4, EndSends DEF CActive
  <2> QED BY <2>1, <2>3, <2>4, <2>5, FinishDropsOldest
<1> QED BY <1>2, <1>3

\* Those that publish a task where it is.
LEMMA UpdatesDropNone ==
    ASSUME PageSized, CpInv,
           \/ RunBegins \/ (\E p \in Phases : Progress(p)) \/ (\E p \in {"compressing", "checking"} : LateProgress(p))
           \/ \E r \in removals : RemovalEnds(r)
    PROVE  \A f \in Files : entries[f] # None => entries'[f] # None
<1>1. CpTypeOK BY DEF CpInv
<1>2. ASSUME RunBegins PROVE \A f \in Files : entries[f] # None => entries'[f] # None
  <2>1. PICK f \in Files : entries[f] # None /\ Update(CTask(f, entries[f].stamp, "running", "compressing")) BY <1>2 DEF RunBegins
  <2>2. entries[f].stamp \in Nat \ {0} /\ Of(entries[f].stamp, f) BY <1>1, <2>1, EntriesAre
  <2>3. "compressing" \in Phases /\ "compressing" # None BY DEF Phases, PageSized
  <2>4. PICK t : t = CTask(f, entries[f].stamp, "running", "compressing") OBVIOUS
  <2>5. TaskOK(t, begun) /\ t # None BY <2>2, <2>3, <2>4, CTaskIs DEF Of
  <2>6. Update(t) BY <2>1, <2>4
  <2> QED BY <1>1, <2>5, <2>6, UpdateDropsNone
<1>3. ASSUME NEW p \in Phases, worker # None, NEW t, t = CTask(worker.file, worker.stamp, "running", p) \/ t = CTask(worker.file, worker.stamp, "cancelled", p)
      PROVE  TaskOK(t, begun) /\ t # None
  <2>1. worker \in [file : Files, stamp : Nat \ {0}] /\ [stamp |-> worker.stamp, file |-> worker.file] \in begun BY <1>1, <1>3 DEF CpTypeOK
  <2>2. worker.file \in Files /\ worker.stamp \in Nat \ {0} /\ p # None BY <2>1 DEF PageSized
  <2> QED BY <1>3, <2>1, <2>2, CTaskIs
<1>4. ASSUME NEW p \in Phases, Progress(p) PROVE \A f \in Files : entries[f] # None => entries'[f] # None
  <2>1. worker # None /\ Update(CTask(worker.file, worker.stamp, "running", p)) BY <1>4 DEF Progress, Running
  <2>2. PICK t : t = CTask(worker.file, worker.stamp, "running", p) OBVIOUS
  <2>3. Update(t) BY <2>1, <2>2
  <2>4. TaskOK(t, begun) /\ t # None BY <1>3, <2>1, <2>2
  <2> QED BY <1>1, <2>3, <2>4, UpdateDropsNone
<1>5. ASSUME NEW p \in {"compressing", "checking"}, LateProgress(p) PROVE \A f \in Files : entries[f] # None => entries'[f] # None
  <2> DEFINE t == CTask(worker.file, worker.stamp, "cancelled", p)
  <2>1. /\ worker # None
        /\ IF entries[t.file] # None /\ entries[t.file].stamp = t.stamp THEN Update(t) ELSE UNCHANGED entries
    BY <1>5 DEF LateProgress
  <2>2. p \in Phases BY DEF Phases
  <2>3. TaskOK(t, begun) /\ t # None BY <1>3, <2>1, <2>2
  <2> HIDE DEF t
  <2> QED BY <1>1, <2>1, <2>3, UpdateDropsNone
<1>6. ASSUME NEW r \in removals, RemovalEnds(r) PROVE \A f \in Files : entries[f] # None => entries'[f] # None
  <2> DEFINE t == [r.task EXCEPT !.result = "removed"]
  <2>1. IF entries[t.file] # None /\ entries[t.file].stamp = t.stamp THEN Update(t) ELSE UNCHANGED entries
    BY <1>6 DEF RemovalEnds
  <2>2. TaskOK(r.task, begun) /\ r.task.result = "kept" BY <1>1 DEF CpTypeOK
  <2>3. TaskOK(t, begun) /\ t # None BY <2>2, RemovedIs
  <2> HIDE DEF t
  <2> QED BY <1>1, <2>1, <2>3, UpdateDropsNone
<1> QED BY <1>2, <1>4, <1>5, <1>6

LEMMA OldestStep == ASSUME PageSized, CpInv, [CpNext]_cpVars PROVE OldestGoes
<1>1. CASE RunEnds BY <1>1, EndDropsOldest
<1>2. CASE \/ RunBegins \/ (\E p \in Phases : Progress(p)) \/ (\E p \in {"compressing", "checking"} : LateProgress(p))
           \/ \E r \in removals : RemovalEnds(r)
  BY <1>2, UpdatesDropNone DEF OldestGoes
<1>3. CASE \E f \in Files : StartHere(f) \/ StartElsewhere(f) \/ StartNext(f)
  BY <1>3, StartDropsOldest DEF StartHere, StartElsewhere, StartNext
<1>4. CASE \E f \in Files : CancelHere(f) \/ CancelElsewhere(f)
  BY <1>4, CancelDropsOldest DEF CancelHere, CancelElsewhere
<1>5. ASSUME \/ Restart \/ LibraryChanges \/ CandidatesLand \/ StartAll \/ BatchLands \/ ListIsRead \/ Lost \/ GoOffline \/ GoOnline
             \/ \E f \in Files : SkipNext(f)
             \/ \E f \in Files, here \in BOOLEAN : RemovalBegins(f, here)
             \/ \E r \in removals : RemovalRefused(r)
             \/ \E here \in BOOLEAN : Clear(here)
             \/ \E t \in answers : AnswerLands(t)
             \/ \E l \in lists : ListLands(l)
             \/ \E e \in wire : EventLands(e)
             \/ UNCHANGED cpVars
      PROVE  OldestGoes
  <2>1. said' = said BY <1>5, SilentSteps
  <2> QED BY <2>1 DEF OldestGoes
<1> QED BY <1>1, <1>2, <1>3, <1>4, <1>5 DEF CpNext

\* A task that ended is forgotten only for tasks that were started after it.
THEOREM TheOldestGoFirst == ASSUME PageSized PROVE CpSpec => OldestGoFirst
<1>1. CpInv /\ [CpNext]_cpVars => [\A f \in Files : said' # said /\ entries[f] # None /\ entries'[f] = None =>
                                       \A g \in Ended(entries') : entries[f].stamp < entries'[g].stamp]_cpVars
  BY OldestStep DEF OldestGoes
<1> QED BY <1>1, PageInvariant, PTL DEF CpSpec, OldestGoFirst
================================================================================
