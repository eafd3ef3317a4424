--------------------------- MODULE InstallEngine ---------------------------
(***************************************************************************)
(* What the console app does to the content of one game: install titles    *)
(* of a container, uninstall and move copies (install/engine.cpp,          *)
(* installed/manage.cpp, install/app_record.cpp), keep the placeholder     *)
(* journal, and replace files on the SD card, its own .nro among them.     *)
(*                                                                         *)
(* The work is done by one thread, one system call at a time.  Every call  *)
(* is a step; it may fail, and the console may lose power between any two. *)
(* What calls do is the system's side: content storages, content meta      *)
(* databases and the application record of ns.                             *)
(***************************************************************************)
EXTENDS AtomicFile, HomeRecord, Integers

CONSTANTS
    NcaCount,       \* NCAs of a title; the first is its meta NCA
    MaxHolders,     \* bound: ids of placeholders in existence or journaled
    MaxTasks,       \* bound: things the user asks for
    MaxTrouble      \* bound: calls that fail and crashes, together

ASSUME EngineAssumption ==
    /\ NcaCount \in Nat \ {0}
    /\ MaxHolders \in Nat /\ MaxTasks \in Nat /\ MaxTrouble \in Nat
    /\ Base \notin Patches
    /\ Absent \notin {"v1", "v2"}
    /\ \A noted \in SUBSET [at : Storages, id : 1..MaxHolders] : Absent # noted

VARIABLES
    content,    \* NCAs registered, per storage
    holders,    \* placeholders in the storages
    metas,      \* titles in the committed content meta database, per storage
    files,      \* journal, app (nslibrary.nro) and homebrew on the SD card
    task,       \* what the thread is doing, and where it stands
    saving,     \* the replacement of a file in progress
    rb,         \* Rollback / CopyRollback of the title at hand
    promised,   \* history: copies finished and not uninstalled since
    excuses,    \* history: what happened of the cases the properties name
    bare,       \* history: files whose replacement began without one in place
    spent       \* history: tasks and troubles so far

disk == <<content, holders, metas, listed, files>>
history == <<promised, excuses, bare, spent>>
vars == <<disk, task, saving, rb, history>>

-----------------------------------------------------------------------------

Parts == 1..NcaCount
Ncas == Titles \X Parts
NcasOf(t) == {t} \X Parts
Holders == [at : Storages, id : 1..MaxHolders]
FileNames == {"journal", "app", "homebrew"}

NoRollback == [holders |-> {}, ncas |-> {}, meta |-> FALSE]
NoSave == [file |-> "journal", step |-> "none", new |-> Absent]
Idle == [kind |-> "none", pc |-> "idle", todo |-> {}, t |-> Base, from |-> "nowhere", at |-> "nowhere",
         part |-> 1, had |-> FALSE, existing |-> {}, stale |-> {}]
Down == [Idle EXCEPT !.pc = "down"]

Journaled(f) == IF f.dest = Absent THEN {} ELSE f.dest    \* load()
HeldIn(s, p) == \E h \in holders : h.at = s /\ h.id = p

At(pc) == task.pc = pc /\ saving.step = "none"
Go(pc) == task' = [task EXCEPT !.pc = pc]
Excuse(e) == excuses' = excuses \cup {e}
Trouble == spent.trouble < MaxTrouble /\ spent' = [spent EXCEPT !.trouble = @ + 1]
DoubleTrouble == spent.trouble + 2 <= MaxTrouble /\ spent' = [spent EXCEPT !.trouble = @ + 2]

(* A copy HOME can start: its meta entry and all of its NCAs are there. *)
IsWhole(c) == c.t \in metas[c.at] /\ NcasOf(c.t) \subseteq content[c.at]

Init ==
    /\ content = [s \in Storages |-> {}]
    /\ holders = {}
    /\ metas = [s \in Storages |-> {}]
    /\ listed = {}
    /\ files = [f \in FileNames |-> IF f = "journal" THEN NoFile ELSE [NoFile EXCEPT !.dest = "v1"]]
    /\ task = Idle
    /\ saving = NoSave
    /\ rb = NoRollback
    /\ promised = {} /\ excuses = {} /\ bare = {}
    /\ spent = [tasks |-> 0, trouble |-> 0]

-----------------------------------------------------------------------------
(* Replacing files.                                                        *)

StartSave(f, new) == saving' = [file |-> f, step |-> "write", new |-> new]

(* PlaceholderJournal.save: an empty journal is simply removed. *)
SaveJournal(entries) ==
    IF entries = {}
    THEN files' = [files EXCEPT !["journal"].dest = Absent] /\ UNCHANGED saving
    ELSE StartSave("journal", entries) /\ UNCHANGED files

SaveStep ==
    LET f == saving.file
        next == NextStep(files[f], saving.step) IN
    /\ saving.step # "none"
    /\ files' = [files EXCEPT ![f] = AfterStep(@, saving.step, saving.new)]
    /\ saving' = IF next = "done" THEN NoSave ELSE [saving EXCEPT !.step = next]
    /\ bare' = IF saving.step = "clear" /\ files[f].dest = Absent THEN bare \cup {f} ELSE bare
    /\ task' = IF next = "done" /\ task.kind = "replace" THEN Idle ELSE task
    /\ UNCHANGED <<content, holders, metas, listed, rb, promised, excuses, spent>>

(* A failing call; putting the old copy back may fail as well.  The journal's
   caller carries on without it; a failing removal is not noticed. *)
SaveFails ==
    /\ saving.step \in {"write", "park", "swap"}
    /\ saving.step = "park" => files[saving.file].dest # Absent
    /\ \/ /\ Trouble
          /\ files' = [files EXCEPT ![saving.file] = AfterFailure(@, saving.step)]
          /\ IF saving.file = "journal" THEN Excuse("journalFailed") ELSE UNCHANGED excuses
       \/ /\ saving.step = "swap" /\ HadDest(files[saving.file])
          /\ DoubleTrouble
          /\ files' = [files EXCEPT ![saving.file].part = Absent]
          /\ Excuse(IF saving.file = "journal" THEN "journalFailed" ELSE "notRestored")
    /\ saving' = NoSave
    /\ task' = IF task.kind = "replace" THEN Idle ELSE task
    /\ UNCHANGED <<content, holders, metas, listed, rb, promised, bare>>

-----------------------------------------------------------------------------
(* What the user asks for.                                                 *)

Begin(new) ==
    /\ At("idle")
    /\ spent.tasks < MaxTasks
    /\ spent' = [spent EXCEPT !.tasks = @ + 1]
    /\ task' = new
    /\ rb' = NoRollback

(* InstallEngine::install of a container holding `titles`; tickets and the
   choice of the storage change nothing modelled here. *)
StartInstall(titles, s) ==
    /\ Begin([Idle EXCEPT !.kind = "install", !.pc = "title", !.at = s, !.from = s,
                          !.todo = {[t |-> t, at |-> s] : t \in titles}])
    /\ UNCHANGED <<disk, saving, promised, excuses, bare>>

(* The game's row brings everything the record lists (metasFor). *)
MetasFor(c) == IF c.t = Base THEN listed \cup {c} ELSE {c}

(* The record knows this title id on this storage under another version. *)
MistakenFor(c) == c \notin listed /\ \E r \in listed : SameId(r.t, c.t) /\ r.at = c.at

(* moveTitle: planMove reads every content list before anything changes. *)
StartMove(c, to) ==
    /\ c.t \in metas[c.at] /\ c.at # to
    /\ \A m \in MetasFor(c) : m.at # to => m.t \in metas[m.at]
    /\ Begin([Idle EXCEPT !.kind = "move", !.pc = "title", !.at = to, !.todo = {m \in MetasFor(c) : m.at # to}])
    /\ excuses' = IF MistakenFor(c) THEN excuses \cup {"otherVersion"} ELSE excuses
    /\ UNCHANGED <<disk, saving, promised, bare>>

(* uninstallTitle *)
StartUninstall(c) ==
    /\ c.t \in metas[c.at]
    /\ Begin([Idle EXCEPT !.kind = "uninstall", !.t = c.t, !.from = c.at, !.at = c.at,
                          !.pc = IF c.t # Base THEN "list" ELSE IF listed # {} THEN "complete" ELSE "unmeta"])
    /\ promised' = IF c.t = Base THEN {} ELSE promised \ {c}
    /\ excuses' = IF MistakenFor(c) THEN excuses \cup {"otherVersion"} ELSE excuses
    /\ UNCHANGED <<disk, saving, bare>>

(* installVerifiedNro and installNro, once the new file has been received. *)
StartReplace(f) ==
    /\ Begin([Idle EXCEPT !.kind = "replace", !.pc = "replace"])
    /\ StartSave(f, "v2")
    /\ UNCHANGED <<disk, promised, excuses, bare>>

-----------------------------------------------------------------------------
(* Installing and moving one title: its NCAs, its meta entry, its record.  *)

NextTitle(c) ==
    /\ At("title") /\ c \in task.todo
    /\ task' = [task EXCEPT !.todo = @ \ {c}, !.t = c.t, !.from = c.at, !.part = 1, !.pc = "nca"]
    /\ UNCHANGED <<disk, saving, rb, history>>

AllTitlesDone ==
    /\ At("title") /\ task.todo = {}
    /\ task' = Idle
    /\ UNCHANGED <<disk, saving, rb, history>>

Nca == <<task.t, task.part>>

(* Content the storage already has is not fetched or copied again. *)
SkipNca ==
    /\ At("nca") /\ task.part \in Parts
    /\ Nca \in content[task.at]
    /\ task' = [task EXCEPT !.part = @ + 1]
    /\ UNCHANGED <<disk, saving, rb, history>>

(* Faulty variant of NoteHolder: the journal is written after the placeholder exists. *)
NoteHolderLater(h) ==
    /\ holders' = holders \cup {h}
    /\ UNCHANGED <<files, saving>>

(* The journal entry comes first, and holds whatever load() finds there. *)
NoteHolder(h) ==
    /\ SaveJournal(Journaled(files["journal"]) \cup {h})
    /\ UNCHANGED holders

(* createPlaceholder up to journal.add: a fresh id (a random UUID;
   here the least unused one). *)
GenerateHolder(h) ==
    /\ At("nca") /\ task.part \in Parts
    /\ Nca \notin content[task.at]
    /\ h.at = task.at
    /\ LET used == {g.id : g \in holders \cup Journaled(files["journal"])} IN
       h.id \notin used /\ 1..(h.id - 1) \subseteq used
    /\ rb' = [rb EXCEPT !.holders = @ \cup {h}]
    /\ NoteHolder(h)
    /\ Go("create")
    /\ UNCHANGED <<content, metas, listed, history>>

CreateHolder ==
    /\ At("create")
    /\ holders' = holders \cup rb.holders
    /\ Go("stream")
    /\ UNCHANGED <<content, metas, listed, files, saving, rb, history>>

(* Faulty variant of ForgetHolder: the finished NCA is not written down for the rollback. *)
ForgetHolderOnly == [rb EXCEPT !.holders = {}]

ForgetHolder == [rb EXCEPT !.holders = {}, !.ncas = @ \cup {Nca}]

(* The data has arrived and matches: Flush and Register, then forgetPlaceholder.
   A move reads its data from the other storage. *)
RegisterNca ==
    /\ At("stream")
    /\ task.kind = "move" => Nca \in content[task.from]
    /\ content' = [content EXCEPT ![task.at] = @ \cup {Nca}]
    /\ holders' = holders \ rb.holders
    /\ rb' = ForgetHolder
    /\ SaveJournal(Journaled(files["journal"]) \ rb.holders)
    /\ task' = [task EXCEPT !.part = @ + 1, !.pc = "nca"]
    /\ UNCHANGED <<metas, listed, history>>

(* Faulty variant of UndoesMeta: a move treats an entry it found as its own. *)
AlwaysUndoesMeta == TRUE

(* An install takes the entry back out whether or not it was there before; a
   move only if it was not. *)
UndoesMeta == task.kind = "install" \/ task.t \notin metas[task.at]

(* ncmContentMetaDatabaseSet and Commit *)
SetMeta ==
    /\ At("nca") /\ task.part = NcaCount + 1
    /\ metas' = [metas EXCEPT ![task.at] = @ \cup {task.t}]
    /\ rb' = [rb EXCEPT !.meta = UndoesMeta]
    /\ task' = [task EXCEPT !.had = task.t \in metas[task.at], !.pc = "list"]
    /\ UNCHANGED <<content, holders, listed, files, saving, history>>

-----------------------------------------------------------------------------
(* rewriteRecords.                                                         *)

(* Faulty variants of Merged: an older version stays listed; only the new title is. *)
MergedBeside(r, c) == r \cup {c}
MergedAlone(r, c) == {c}

Merged(r, c) == {x \in r : ~SameId(x.t, c.t)} \cup {c}    \* mergeMetaRecord
Removed(r, c) == {x \in r : ~(SameId(x.t, c.t) /\ x.at = c.at)}    \* removeMetaRecord
Moved(r, c, to) ==    \* moveMetaRecord
    {IF SameId(x.t, c.t) /\ x.at = c.at THEN [x EXCEPT !.at = to] ELSE x : x \in r}

Changed(r) ==
    LET from == [t |-> task.t, at |-> task.from] IN
    CASE task.kind = "install"   -> Merged(r, [t |-> task.t, at |-> task.at])
      [] task.kind = "uninstall" -> Removed(r, from)
      [] task.kind = "move"      -> Moved(r, from, task.at)

(* The record can only be replaced by deleting it and pushing the new one. *)
DeleteRecord ==
    /\ At("list")
    /\ listed' = {}
    /\ task' = [task EXCEPT !.existing = listed, !.pc = "push"]
    /\ UNCHANGED <<content, holders, metas, files, saving, rb, history>>

(* titleCommitted / committed, with what follows the record in each task. *)
AfterRecord ==
    CASE task.kind = "install"   -> "title"
      [] task.kind = "uninstall" -> "unmeta"
      [] task.kind = "move"      -> "unmeta"

PushRecord ==
    /\ At("push")
    /\ listed' = Changed(task.existing)
    /\ rb' = NoRollback
    /\ LET old == [t |-> task.t, at |-> task.from]
           new == [t |-> task.t, at |-> task.at] IN
       promised' = IF task.kind = "install" THEN {p \in promised : ~SameId(p.t, task.t)} \cup {new}
                   ELSE IF old \in promised THEN (promised \ {old}) \cup {new} ELSE promised
    /\ task' = [task EXCEPT !.pc = AfterRecord, !.existing = {}, !.part = 1]
    /\ UNCHANGED <<content, holders, metas, files, saving, excuses, bare, spent>>

(* A failing push: the previous record is put back, unless that fails too. *)
PushFails ==
    /\ At("push") /\ Changed(task.existing) # {}
    /\ \/ /\ Trouble
          /\ listed' = task.existing
          /\ UNCHANGED excuses
       \/ /\ task.existing # {}
          /\ DoubleTrouble
          /\ Excuse("recordLost") /\ UNCHANGED listed
    /\ task' = [task EXCEPT !.pc = "undo", !.existing = {}]
    /\ UNCHANGED <<content, holders, metas, files, saving, rb, promised, bare>>

-----------------------------------------------------------------------------
(* Failures, and what is undone.                                           *)

(* Any other call of an install, a move or a rewrite fails, the server is not
   reached, a hash does not match, or the user cancels. *)
Fails ==
    /\ \E pc \in {"title", "nca", "create", "stream", "list", "complete"} : At(pc)
    /\ ~(task.pc = "title" /\ task.todo = {})
    /\ Trouble
    /\ Go("undo")
    /\ UNCHANGED <<disk, saving, rb, promised, excuses, bare>>

(* A move whose source lacks the NCA: reading it fails. *)
SourceMissing ==
    /\ At("stream") /\ task.kind = "move"
    /\ Nca \notin content[task.from]
    /\ Go("undo")
    /\ UNCHANGED <<disk, saving, rb, history>>

(* The rollback's own calls are not checked: one that fails leaves its part. *)
UndoHolder(h) ==
    /\ At("undo") /\ h \in rb.holders
    /\ \/ holders' = holders \ {h} /\ UNCHANGED <<excuses, spent>>
       \/ h \in holders /\ Trouble /\ Excuse("undoFailed") /\ UNCHANGED holders
    /\ rb' = [rb EXCEPT !.holders = @ \ {h}]
    /\ SaveJournal(Journaled(files["journal"]) \ {h})
    /\ UNCHANGED <<content, metas, listed, task, promised, bare>>

UndoNca(n) ==
    /\ At("undo") /\ rb.holders = {} /\ n \in rb.ncas
    /\ \/ content' = [content EXCEPT ![task.at] = @ \ {n}] /\ UNCHANGED <<excuses, spent>>
       \/ Trouble /\ Excuse("undoFailed") /\ UNCHANGED content
    /\ rb' = [rb EXCEPT !.ncas = @ \ {n}]
    /\ UNCHANGED <<holders, metas, listed, files, saving, task, promised, bare>>

UndoMeta ==
    /\ At("undo") /\ rb.holders = {} /\ rb.ncas = {} /\ rb.meta
    /\ \/ /\ metas' = [metas EXCEPT ![task.at] = @ \ {task.t}]
          /\ excuses' = IF task.had /\ task.kind = "install" THEN excuses \cup {"reinstall"} ELSE excuses
          /\ UNCHANGED spent
       \/ Trouble /\ Excuse("undoFailed") /\ UNCHANGED metas
    /\ rb' = [rb EXCEPT !.meta = FALSE]
    /\ UNCHANGED <<content, holders, listed, files, saving, task, promised, bare>>

Undone ==
    /\ At("undo") /\ rb = NoRollback
    /\ task' = Idle
    /\ UNCHANGED <<disk, saving, rb, history>>

-----------------------------------------------------------------------------
(* deleteMeta and the whole game.                                          *)

AfterDelete == IF task.kind = "move" THEN [task EXCEPT !.pc = "title"] ELSE Idle

(* The content list is read before the entry goes: without an entry there is
   nothing more to delete.  An entry that cannot be removed does not stop the
   deletion of its content. *)
UnMeta ==
    /\ At("unmeta")
    /\ \/ metas' = [metas EXCEPT ![task.from] = @ \ {task.t}] /\ UNCHANGED <<excuses, spent>>
       \/ Trouble /\ Excuse("undoFailed") /\ UNCHANGED metas
    /\ task' = IF task.t \in metas[task.from] THEN [task EXCEPT !.pc = "unnca", !.part = 1] ELSE AfterDelete
    /\ UNCHANGED <<content, holders, listed, files, saving, rb, promised, bare>>

UnNcaBody ==
    /\ \/ content' = [content EXCEPT ![task.from] = @ \ {Nca}] /\ UNCHANGED <<excuses, spent>>
       \/ Nca \in content[task.from] /\ Trouble /\ Excuse("undoFailed") /\ UNCHANGED content
    /\ task' = [task EXCEPT !.part = @ + 1]
    /\ UNCHANGED <<holders, metas, listed, files, saving, rb, promised, bare>>

(* Faulty variant of UnNca: the loop over the content list runs past its end. *)
UnNcaPastEnd == At("unnca") /\ task.part \in Parts \cup {NcaCount + 1} /\ UnNcaBody

UnNca == At("unnca") /\ task.part \in Parts /\ UnNcaBody

Deleted ==
    /\ At("unnca") /\ task.part = NcaCount + 1
    /\ task' = AfterDelete
    /\ UNCHANGED <<disk, saving, rb, history>>

(* nsDeleteApplicationCompletely removes what the record lists; a copy of the
   game the record forgot is removed after it. *)
DeleteCompletely ==
    /\ At("complete")
    /\ content' = [s \in Storages |-> {n \in content[s] : [t |-> n[1], at |-> s] \notin listed}]
    /\ metas' = [s \in Storages |-> {t \in metas[s] : [t |-> t, at |-> s] \notin listed}]
    /\ listed' = {}
    /\ task' = IF task.t \in metas'[task.from] THEN [task EXCEPT !.pc = "unmeta"] ELSE Idle
    /\ UNCHANGED <<holders, files, saving, rb, history>>

-----------------------------------------------------------------------------
(* Crashes and the next start.                                             *)

(* The moment at which a crash costs more than the title at hand. *)
RecordInHand == task.pc = "push" /\ task.existing # {} /\ Changed(task.existing) # {}

Crash ==
    /\ task.pc # "down"
    /\ Trouble
    /\ task' = Down /\ saving' = NoSave /\ rb' = NoRollback
    /\ excuses' = excuses \cup {"crashed"} \cup (IF RecordInHand THEN {"recordLost"} ELSE {})
    /\ UNCHANGED <<disk, promised, bare>>

(* main: the app's own file, then cleanupStalePlaceholders loads the journal. *)
Start ==
    /\ At("down")
    /\ files' = [files EXCEPT !["app"] = Recovered(@)]
    /\ task' = IF Journaled(files["journal"]) = {} THEN Idle
               ELSE [Down EXCEPT !.pc = "clean", !.stale = Journaled(files["journal"])]
    /\ UNCHANGED <<content, holders, metas, listed, saving, rb, history>>

(* A storage that does not open, or a deletion that fails, is passed over. *)
CleanHolder(h) ==
    /\ At("clean") /\ h \in task.stale
    /\ \/ holders' = holders \ {h} /\ UNCHANGED <<excuses, spent>>
       \/ h \in holders /\ Trouble /\ Excuse("cleanupFailed") /\ UNCHANGED holders
    /\ task' = [task EXCEPT !.stale = @ \ {h}]
    /\ UNCHANGED <<content, metas, listed, files, saving, rb, promised, bare>>

ClearJournal ==
    /\ At("clean") /\ task.stale = {}
    /\ files' = [files EXCEPT !["journal"].dest = Absent]
    /\ task' = Idle
    /\ UNCHANGED <<content, holders, metas, listed, saving, rb, history>>

-----------------------------------------------------------------------------

User ==
    \/ \E s \in Storages, titles \in {{t} : t \in Titles} \cup {{Base, p} : p \in Patches} : StartInstall(titles, s)
    \/ \E c \in Copies : StartUninstall(c) \/ \E to \in Storages : StartMove(c, to)
    \/ \E f \in {"app", "homebrew"} : StartReplace(f)

Work ==
    \/ SaveStep \/ SaveFails
    \/ \E c \in Copies : NextTitle(c)
    \/ AllTitlesDone \/ SkipNca
    \/ \E h \in Holders : GenerateHolder(h) \/ UndoHolder(h) \/ CleanHolder(h)
    \/ CreateHolder \/ RegisterNca \/ SetMeta
    \/ DeleteRecord \/ PushRecord \/ PushFails
    \/ Fails \/ SourceMissing
    \/ \E n \in Ncas : UndoNca(n)
    \/ UndoMeta \/ Undone
    \/ UnMeta \/ UnNca \/ Deleted \/ DeleteCompletely
    \/ ClearJournal

(* Nothing is asked of the app, or it is not started. *)
Rest == task.pc \in {"idle", "down"} /\ UNCHANGED vars

EngineNext == User \/ Work \/ Crash \/ Start \/ Rest
EngineSpec == Init /\ [][EngineNext]_vars
-----------------------------------------------------------------------------
(* Properties.                                                             *)

TypeOK ==
    /\ content \in [Storages -> SUBSET Ncas]
    /\ holders \subseteq Holders
    /\ metas \in [Storages -> SUBSET Titles]
    /\ listed \subseteq Copies
    /\ \A f \in FileNames, n \in {"part", "dest", "old"} :
         files[f][n] = Absent \/ IF f = "journal" THEN files[f][n] \subseteq Holders
                                                 ELSE files[f][n] \in {"v1", "v2"}
    /\ saving.file \in FileNames /\ saving.step \in Steps \cup {"none"}
    /\ rb.holders \subseteq Holders /\ rb.ncas \subseteq Ncas /\ rb.meta \in BOOLEAN
    /\ task.todo \subseteq Copies /\ task.existing \subseteq Copies /\ task.stale \subseteq Holders
    /\ task.part \in 1..(NcaCount + 1)
    /\ promised \subseteq Copies /\ bare \subseteq FileNames

Resting == task.pc \in {"idle", "down"}

(* What HOME lists can be started, at every moment: its meta entry and all its
   NCAs are on the storage the record names ("so HOME never points at content
   that is already gone", manage.cpp).  Two cases break it: undoing a failed
   reinstall takes out the entry the title already had, and moving another
   version of an update relocates the record of the one in use. *)
RecordedIsWhole ==
    excuses \cap {"reinstall", "otherVersion"} = {} => \A c \in listed : IsWhole(c)

(* A title whose installation or move finished stays listed until it is
   uninstalled or replaced ("so a game is never left without one",
   app_record.cpp), except after a crash between deleting and pushing the
   record, a push that fails twice, or a removal meant for another version. *)
InstalledIsListed ==
    Resting /\ excuses \cap {"recordLost", "otherVersion"} = {} => promised \subseteq listed

(* Whatever failed or was cancelled, the storages hold exactly the content of
   the titles in their databases and no placeholder, unless the console
   crashed or the undoing itself failed (docs/switch.md: a failed install is
   rolled back). *)
UndoLeavesNothing ==
    task.pc = "idle" /\ excuses \cap {"crashed", "undoFailed", "reinstall"} = {} =>
        /\ holders = {}
        /\ \A s \in Storages : content[s] = UNION {NcasOf(t) : t \in metas[s]}

(* The journal finds every placeholder a crash leaves, and the next start
   deletes it (docs/switch.md), unless the journal could not be written or a
   deletion failed.  A crash in the middle of replacing the journal costs no
   entry of a placeholder that exists, although nothing recovers its `.old`. *)
PlaceholdersAreKnown ==
    excuses \cap {"journalFailed", "cleanupFailed", "undoFailed"} = {} =>
        /\ task.pc = "down" => holders \subseteq Journaled(files["journal"])
        /\ task.pc = "idle" => holders = {}

(* "A crash never leaves neither file behind" (atomic_file.hpp), nor does a
   failure: of a file once there, the old or the new copy remains, unless the
   replacement began with the file already missing; and the app's own file is in
   place after a start, and after a replacement unless putting it back failed. *)
OneCopyRemains ==
    \A f \in {"app", "homebrew"} \ bare :
        /\ {files[f].dest, files[f].old} # {Absent}
        /\ f = "app" /\ task.pc \in {"idle", "clean"} /\ "notRestored" \notin excuses =>
               files[f].dest # Absent

(* The record as HOME should see it: between deleting and pushing it, what it
   was.  The app's steps implement HomeRecord. *)
Home == INSTANCE HomeRecord WITH listed <- IF task.pc = "push" THEN task.existing ELSE listed
RecordChangesWhole == Home!HomeSpec
=============================================================================
