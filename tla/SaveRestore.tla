------------------------------ MODULE SaveRestore ------------------------------
(***************************************************************************)
(* A restore of a console save (saves/console.cpp restoreConsoleSave and   *)
(* saves/archive.cpp): the staged archive is listed and checked, what is   *)
(* there is backed up, and the save is cleared and written anew, in as     *)
(* many commits as its journal needs.  Any call may fail, the person may   *)
(* cancel, and the console may go off between any two of them.             *)
(***************************************************************************)
EXTENDS Integers, Sequences

CONSTANTS
    SavePaths,       \* relative paths saveArchivePathProblem accepts
    Above,       \* the folders a path is in, from its own parent up
    BadPath, RootPath,  \* a path it refuses, and "./"
    Archives,    \* the files a download may stage, as sequences of tar blocks
    BlockBytes,  \* kTarBlock
    CopyChunk,   \* kCopyChunk
    Journal,     \* journalBytes; 0 when unknown
    MaxEntries,  \* kSaveArchiveMaxEntries
    Capacity     \* the save's total space

VARIABLES
    stage,      \* "off", "listing", "listed", "fits", "backed", "folders", "file" or "over"
    tar,        \* the staged archive
    listedTo,   \* offset: the blocks listed
    entries,    \* listing.entries
    amount,     \* listing.dataSize
    entryNo,    \* the entry being restored
    dirsMade,   \* folders made
    unsaved,    \* pending: the bytes written since the last commit
    live,       \* the mounted save, with what is not committed
    disk,       \* the save as committed
    version,    \* which save that is: "old" or "new"
    committed,  \* FsSaveWriter::committed_
    report,     \* how the restore ended: "none", "done", "failed" or "incomplete"
    kept,       \* whether the server has the save as it was
    clash       \* history: something was created where something is, or outside a folder

listVars == <<tar, listedTo, entries, amount>>
writeVars == <<entryNo, dirsMade, unsaved, live>>
saveVars == <<disk, version, committed, report>>
restoreVars == <<stage, listVars, writeVars, saveVars, kept, clash>>

\* A block is a good header (path, folder or file, size), all zeros, or anything else.
Blocks == [kind : {"header"}, path : SavePaths \cup {BadPath, RootPath}, dir : {"dir", "file"}, size : Nat]
          \cup [kind : {"zero", "data"}]

RestoreSized ==
    /\ Above \in [SavePaths -> SUBSET SavePaths]
    /\ \A p \in SavePaths : p \notin Above[p] /\ \A q \in Above[p] : Above[q] \subseteq Above[p]
    /\ BadPath \notin SavePaths /\ RootPath \notin SavePaths
    /\ Archives \subseteq Seq(Blocks)
    /\ BlockBytes \in Nat \ {0} /\ CopyChunk \in Nat \ {0} /\ Journal \in Nat
    /\ MaxEntries \in Nat /\ Capacity \in Nat

ArchiveEntries == [path : SavePaths, dir : {"dir", "file"}, size : Nat, offset : Nat]
Nodes == [kind : {"absent", "dir", "file"}, from : Nat, filled : Nat]
Nothing == [p \in SavePaths |-> [kind |-> "absent", from |-> 0, filled |-> 0]]

RestoreTypeOK ==
    /\ stage \in {"off", "listing", "listed", "fits", "backed", "folders", "file", "over"}
    /\ tar \in Seq(Blocks) /\ listedTo \in Nat /\ entries \in Seq(ArchiveEntries) /\ amount \in Nat
    /\ entryNo \in Nat \ {0} /\ dirsMade \subseteq SavePaths /\ unsaved \in Nat
    /\ live \in [SavePaths -> Nodes] /\ disk \in [SavePaths -> Nodes] /\ version \in {"old", "new"}
    /\ committed \in BOOLEAN /\ report \in {"none", "done", "failed", "incomplete"}
    /\ kept \in BOOLEAN /\ clash \in BOOLEAN

RestoreInit ==
    /\ stage = "off" /\ tar = <<>> /\ listedTo = 0 /\ entries = <<>> /\ amount = 0
    /\ entryNo = 1 /\ dirsMade = {} /\ unsaved = 0 /\ live = Nothing /\ disk = Nothing /\ version = "old"
    /\ committed = FALSE /\ report = "none" /\ kept = FALSE /\ clash = FALSE

--------------------------------------------------------------------------------
(* Staging and listing.                                                         *)

\* The backup is on the SD card, whole and with the hash the server named.
Staged(archive) ==
    /\ stage \in {"off", "over"} /\ stage' = "listing" /\ tar' = archive /\ listedTo' = 0 /\ entries' = <<>> /\ amount' = 0
    /\ entryNo' = 1 /\ dirsMade' = {} /\ unsaved' = 0 /\ live' = Nothing
    /\ version' = "old" /\ committed' = FALSE /\ report' = "none" /\ kept' = FALSE /\ UNCHANGED <<disk, clash>>

Here == tar[listedTo + 1]
Padded(size) == (size + BlockBytes - 1) \div BlockBytes
HeaderSize(header) == IF header.dir = "dir" THEN 0 ELSE header.size

ListRoot ==
    /\ stage = "listing" /\ listedTo < Len(tar) /\ Here.kind = "header" /\ Here.dir = "dir" /\ Here.path = RootPath
    /\ listedTo' = listedTo + 1
    /\ UNCHANGED <<stage, tar, entries, amount, writeVars, saveVars, kept, clash>>

ListEntry ==
    /\ stage = "listing" /\ listedTo < Len(tar) /\ Here.kind = "header" /\ Here.path \in SavePaths
    /\ \A i \in 1 .. Len(entries) : entries[i].path # Here.path
    /\ Padded(HeaderSize(Here)) <= Len(tar) - (listedTo + 1) /\ Len(entries) < MaxEntries
    /\ entries' = Append(entries, [path |-> Here.path, dir |-> Here.dir, size |-> HeaderSize(Here), offset |-> listedTo + 1])
    /\ amount' = amount + HeaderSize(Here) /\ listedTo' = listedTo + 1 + Padded(HeaderSize(Here))
    /\ UNCHANGED <<stage, tar, writeVars, saveVars, kept, clash>>

\* Two zero blocks, zeros up to the end, and nothing inside a file.
ListEnds ==
    /\ stage = "listing" /\ listedTo + 2 <= Len(tar) /\ \A i \in listedTo + 1 .. Len(tar) : tar[i].kind = "zero"
    /\ \A i, j \in 1 .. Len(entries) : entries[i].path \in Above[entries[j].path] => entries[i].dir = "dir"
    /\ stage' = "listed" /\ UNCHANGED <<listVars, writeVars, saveVars, kept, clash>>

Fits ==
    /\ stage = "listed" /\ (Capacity > 0 => amount <= Capacity)
    /\ stage' = "fits" /\ UNCHANGED <<listVars, writeVars, saveVars, kept, clash>>

\* backupConsoleSave: uploaded, or the server had it.
KeepsOld ==
    /\ stage = "fits" /\ stage' = "backed" /\ kept' = TRUE
    /\ UNCHANGED <<listVars, writeVars, saveVars, clash>>

--------------------------------------------------------------------------------
(* Writing.                                                                     *)

Clears ==
    /\ stage = "backed" /\ stage' = "folders" /\ live' = Nothing
    /\ UNCHANGED <<listVars, entryNo, dirsMade, unsaved, saveVars, kept, clash>>

Entry == entries[entryNo]
Needed(e) == Above[e.path] \cup (IF e.dir = "dir" THEN {e.path} ELSE {})
Clashes(p) == live[p].kind # "absent" \/ \E q \in Above[p] : live[q].kind # "dir"

\* ensureDir: the folders an entry needs, from the top.
MakesFolder(d) ==
    /\ stage = "folders" /\ entryNo <= Len(entries) /\ d \in Needed(Entry) \ dirsMade /\ Above[d] \subseteq dirsMade
    /\ dirsMade' = dirsMade \cup {d} /\ live' = [live EXCEPT ![d] = [kind |-> "dir", from |-> 0, filled |-> 0]]
    /\ clash' = (clash \/ Clashes(d))
    /\ UNCHANGED <<stage, listVars, entryNo, unsaved, saveVars, kept>>

FolderDone ==
    /\ stage = "folders" /\ entryNo <= Len(entries) /\ Entry.dir = "dir" /\ Needed(Entry) \subseteq dirsMade
    /\ entryNo' = entryNo + 1
    /\ UNCHANGED <<stage, listVars, dirsMade, unsaved, live, saveVars, kept, clash>>

\* Created at its full size, opened, and filled from the archive.
BeginsFile ==
    /\ stage = "folders" /\ entryNo <= Len(entries) /\ Entry.dir = "file" /\ Needed(Entry) \subseteq dirsMade
    /\ stage' = "file" /\ live' = [live EXCEPT ![Entry.path] = [kind |-> "file", from |-> Entry.offset, filled |-> 0]]
    /\ clash' = (clash \/ Clashes(Entry.path))
    /\ UNCHANGED <<listVars, entryNo, dirsMade, unsaved, saveVars, kept>>

\* Three quarters of the journal; 0 commits after each file instead.
Budget == IF Journal = 0 THEN 0 ELSE IF (Journal \div 4) * 3 > 1 THEN (Journal \div 4) * 3 ELSE 1
ChunkSize == IF Budget # 0 /\ Budget < CopyChunk THEN Budget ELSE CopyChunk
Filled == live[Entry.path].filled
Piece == IF ChunkSize < Entry.size - Filled THEN ChunkSize ELSE Entry.size - Filled
IsFull == Budget # 0 /\ unsaved > 0 /\ unsaved + Piece > Budget

\* The file is closed, so that what it has is part of the commit, and reopened.
Commits == disk' = live /\ version' = "new" /\ committed' = TRUE /\ unsaved' = 0

CommitsPart ==
    /\ stage = "file" /\ Filled < Entry.size /\ IsFull /\ Commits
    /\ UNCHANGED <<stage, listVars, entryNo, dirsMade, live, report, kept, clash>>

Writes ==
    /\ stage = "file" /\ Filled < Entry.size /\ ~IsFull
    /\ live' = [live EXCEPT ![Entry.path] = [kind |-> "file", from |-> Entry.offset, filled |-> Filled + Piece]]
    /\ unsaved' = unsaved + Piece
    /\ UNCHANGED <<stage, listVars, entryNo, dirsMade, saveVars, kept, clash>>

EndsFile ==
    /\ stage = "file" /\ Filled >= Entry.size /\ stage' = "folders" /\ entryNo' = entryNo + 1
    /\ IF Budget = 0 THEN Commits ELSE UNCHANGED <<unsaved, disk, version, committed>>
    /\ UNCHANGED <<listVars, dirsMade, live, report, kept, clash>>

CommitsAll ==
    /\ stage = "folders" /\ entryNo > Len(entries) /\ Commits /\ report' = "done" /\ stage' = "over"
    /\ UNCHANGED <<listVars, entryNo, dirsMade, live, kept, clash>>

--------------------------------------------------------------------------------
(* Failing.                                                                     *)

\* A check or a call fails, or progress is cancelled. Closing the mount drops what is not committed;
\* the message says whether the save is incomplete.
RestoreFails ==
    /\ stage \notin {"off", "over"} /\ stage' = "over" /\ live' = disk
    /\ report' = IF committed THEN "incomplete" ELSE "failed"
    /\ UNCHANGED <<listVars, entryNo, dirsMade, unsaved, disk, version, committed, kept, clash>>

ConsoleOff ==
    /\ stage' = "off" /\ live' = disk /\ report' = "none"
    /\ UNCHANGED <<listVars, entryNo, dirsMade, unsaved, disk, version, committed, kept, clash>>

RestoreNext ==
    \/ \E archive \in Archives : Staged(archive)
    \/ ListRoot \/ ListEntry \/ ListEnds \/ Fits \/ KeepsOld
    \/ Clears \/ \E d \in SavePaths : MakesFolder(d)
    \/ FolderDone \/ BeginsFile \/ CommitsPart \/ Writes \/ EndsFile \/ CommitsAll
    \/ RestoreFails \/ ConsoleOff

RestoreSpec == RestoreInit /\ [][RestoreNext]_restoreVars

--------------------------------------------------------------------------------
(* Properties.                                                                  *)

\* What the listing of a damaged or foreign archive lets through: entries inside the archive that do
\* not overlap, each path once, and nothing inside a file.
ListingIsSound ==
    /\ \A i \in 1 .. Len(entries) : entries[i].offset + Padded(entries[i].size) <= Len(tar)
    /\ \A i, j \in 1 .. Len(entries) : i < j =>
          /\ entries[i].path # entries[j].path
          /\ entries[i].offset + Padded(entries[i].size) < entries[j].offset

\* Every folder and file of any archive listed is created in a folder that is there, under a name
\* that is not, whatever its entries leave out and in whatever order they come.
NothingClashes == ~clash

\* No commit is of more file data than the journal holds (archive.hpp: journalBytes).
JournalHolds == Journal # 0 => unsaved <= Journal

\* A failure reported without a warning left the save as it was; one with it did not
\* (saves/console.cpp:513).
ReportsAreTrue ==
    /\ report = "failed" => version = "old"
    /\ report = "incomplete" => version = "new"

\* Once any of the old save is gone, the server has it.
OldIsKept == version = "new" => kept

\* A restore that reports success left every file of the archive whole, from its own place in it, and
\* nothing the archive does not need.
DoneIsWhole ==
    report = "done" =>
        /\ \A i \in 1 .. Len(entries) :
              disk[entries[i].path] = [kind |-> entries[i].dir,
                                       from |-> IF entries[i].dir = "dir" THEN 0 ELSE entries[i].offset,
                                       filled |-> entries[i].size]
        /\ \A p \in SavePaths : disk[p].kind # "absent" =>
              \E i \in 1 .. Len(entries) : p = entries[i].path \/ p \in Above[entries[i].path]
================================================================================
