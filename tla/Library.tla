------------------------------- MODULE Library -------------------------------
(***************************************************************************)
(* One library folder: the files on the disk, their rows in the database   *)
(* (library/repository.ts) and LibraryScanner (library/scanner.ts), which  *)
(* keeps the rows up to date from full scans and from chokidar's events.   *)
(*                                                                         *)
(* Between its awaits the scanner holds pictures of the disk that others   *)
(* overtake: a scan's walk, a batch of events, a located file, a file      *)
(* being read.  People change the folder at any time.                      *)
(***************************************************************************)
EXTENDS Integers, FiniteSets, Functions

CONSTANTS
    Paths,          \* paths in the folder, relative to it
    Stamps,         \* what a path can hold; one size and mtime each
    Nothing,        \* nothing there
    Flushes,        \* batches of events handled at a time
    MaxKeys,        \* bound: key uploads
    MaxFiles,       \* bound: files in a folder just added to the library
    MaxEvents       \* bound: changes to the folder, key uploads, errors, restarts, pauses, purges

ASSUME LibraryAssumption ==
    /\ Nothing \notin Stamps
    /\ IsFiniteSet(Paths)
    /\ MaxKeys \in Nat /\ MaxFiles \in Nat /\ MaxEvents \in Nat

VARIABLES
    disk,       \* what each path holds
    rows,       \* the files table
    lastFileId, \* AUTOINCREMENT
    told,       \* what chokidar last told of each path
    batch,      \* #watchBatches: the newest event of each path
    flush,      \* #flushWatchEvents under way
    scan,       \* #runScan under way
    parsing,    \* #parsing: the inspections queued or under way
    paused,     \* #paused
    keys,       \* the keys in use
    passed,     \* history: files missing, or being read with the old keys, when new ones came
    events      \* history: how many of the events counted by MaxEvents so far

tables == <<rows, lastFileId>>
libraryHistory == <<passed, events>>
libraryVars == <<disk, rows, lastFileId, told, batch, flush, scan, parsing, paused, keys, passed, events>>

FileIds == Nat \ {0}
Contents == Stamps \cup {Nothing}
Events == {"none", "seen", "unlink"}
Rows == [id : FileIds, path : Paths, ver : Stamps, missing : BOOLEAN,
         parse : {"pending", "ok", "error"}, meta : Contents, keys : 0..MaxKeys]

Scans == [phase : {"idle", "walking", "parsing"}, left : SUBSET Paths, seen : [Paths -> Contents],
          skipped : SUBSET Paths, waits : SUBSET FileIds]
Inspections == [id : FileIds, pc : {"queued", "opening", "reading"}, path : Paths \cup {Nothing},
                ver : Contents, keys : 0..MaxKeys]

\* A row as an insert leaves it.
NewRow(i, p, v) ==
    [id |-> i, path |-> p, ver |-> v, missing |-> FALSE, parse |-> "pending", meta |-> Nothing, keys |-> 0]

NoEvents == [p \in Paths |-> "none"]
NoFlush == [left |-> {}, at |-> {}, found |-> Nothing]
NoScan == [phase |-> "idle", left |-> {}, seen |-> [p \in Paths |-> Nothing], skipped |-> {}, waits |-> {}]

LibraryInit ==
    /\ disk \in {d \in [Paths -> Contents] : Cardinality({p \in Paths : d[p] # Nothing}) <= MaxFiles}
    /\ rows = {} /\ lastFileId = 0
    /\ told = disk
    /\ batch = NoEvents
    /\ flush = [f \in Flushes |-> NoFlush]
    /\ scan = NoScan
    /\ parsing = {}
    /\ paused = FALSE
    /\ keys = 0 /\ passed = {} /\ events = 0

RowAt(p) == {r \in rows : r.path = p}
RowOf(i) == {r \in rows : r.id = i}
Happens == events < MaxEvents /\ events' = events + 1

--------------------------------------------------------------------------------
(* The repository: each operation is one transaction.                         *)

MarkMissing(rs, ps) == {IF r.path \in ps THEN [r EXCEPT !.missing = TRUE] ELSE r : r \in rs}

\* isStale.
Stale(r) == r.parse = "pending"

\* A row whose file turns up at p again, by its size and mtime.
MovedTo(r, p) == [r EXCEPT !.path = p, !.parse = "pending", !.missing = FALSE]

\* Mutant: only a size or mtime that differs brings a missing row back.
SeenAsChanged(r, v) == IF r.ver = v THEN r ELSE [r EXCEPT !.ver = v, !.parse = "pending", !.missing = FALSE]

\* A row whose path was found to hold v.
SeenAs(r, v) ==
    IF r.ver = v THEN [r EXCEPT !.missing = FALSE]
    ELSE [r EXCEPT !.ver = v, !.parse = "pending", !.missing = FALSE]

\* #parse for each of these files; one already being inspected keeps its job.
Parse(ids) ==
    parsing \cup {[id |-> i, pc |-> "queued", path |-> Nothing, ver |-> Nothing, keys |-> 0] :
                      i \in ids \ {j.id : j \in parsing}}

\* Mutant: the row keeps the size and mtime it had before the file was read.
SaveUnderOldStamp(j, outcome) ==
    rows' = {IF r.id # j.id THEN r
             ELSE [r EXCEPT !.parse = outcome,
                            !.meta = IF outcome = "ok" THEN j.ver ELSE Nothing,
                            !.keys = IF outcome = "ok" THEN j.keys ELSE @] : r \in rows}

\* Writes what became of the inspection of a file; a file forgotten meanwhile is left out.
\* One that never read the file has no version to tell.
SaveInspection(j, outcome) ==
    rows' = {IF r.id # j.id THEN r
             ELSE [r EXCEPT !.ver = IF j.ver = Nothing THEN @ ELSE j.ver,
                            !.parse = outcome,
                            !.meta = IF outcome = "ok" THEN j.ver ELSE Nothing,
                            !.keys = IF outcome = "ok" THEN j.keys ELSE @] : r \in rows}

(* The rows a walk leaves, with the files to inspect.  A vanished row goes to the first unknown *)
(* path with its size and mtime; a second vanished row with them makes it unclear which moved.   *)
Reconciled(seen, skipped, order) ==
    LET present == {p \in Paths : seen[p] # Nothing}
        matched == {r \in rows : r.path \in present}
        vanished == {r \in rows : r.path \notin present /\ r.path \notin skipped}
        unmatched == {p \in present : RowAt(p) = {}}
        moves == {m \in vanished \X unmatched :
                      /\ m[1].ver = seen[m[2]]
                      /\ \A r \in vanished : r.ver = m[1].ver => r = m[1]
                      /\ \A p \in unmatched : seen[p] = seen[m[2]] => order[m[2]] <= order[p]}
        moved == {MovedTo(m[1], m[2]) : m \in moves}
        fresh == unmatched \ {m[2] : m \in moves}
        next(p) == lastFileId + Cardinality({q \in fresh : order[q] <= order[p]})
        inserted == {NewRow(next(p), p, seen[p]) : p \in fresh}
        resaw == {SeenAs(r, seen[r.path]) : r \in matched}
        kept == rows \ (matched \cup {m[1] : m \in moves})
    IN [rows |-> resaw \cup moved \cup inserted \cup MarkMissing(kept, Paths \ (present \cup skipped)),
        lastFileId |-> lastFileId + Cardinality(fresh),
        toParse |-> {r.id : r \in {s \in resaw : Stale(s)} \cup moved \cup inserted}]

\* Mutant: a missing row with the size and mtime is taken before one at the path itself.
UpsertedByStamp(p, v) ==
    LET known == {r \in rows : r.ver = v /\ r.missing}
    IN [rows |-> (rows \ known) \cup (IF known = {} THEN {NewRow(lastFileId + 1, p, v)} ELSE {MovedTo(r, p) : r \in known}),
        lastFileId |-> lastFileId + (IF known = {} THEN 1 ELSE 0),
        toParse |-> IF known = {} THEN {lastFileId + 1} ELSE {r.id : r \in known}]

(* What upsertSeenFile leaves after path p was found to hold v.                                  *)
Upserted(p, v) ==
    LET candidates == {r \in rows : r.missing /\ r.ver = v}
        result(rs, i, id, needs) == [rows |-> rs, lastFileId |-> i, toParse |-> IF needs THEN {id} ELSE {}]
    IN IF RowAt(p) # {} THEN
           LET r == CHOOSE x \in RowAt(p) : TRUE
           IN result((rows \ {r}) \cup {SeenAs(r, v)}, lastFileId, r.id, Stale(SeenAs(r, v)))
       ELSE IF Cardinality(candidates) = 1 THEN
           LET r == CHOOSE x \in candidates : TRUE
           IN result((rows \ {r}) \cup {MovedTo(r, p)}, lastFileId, r.id, TRUE)
       ELSE result(rows \cup {NewRow(lastFileId + 1, p, v)}, lastFileId + 1, lastFileId + 1, TRUE)

--------------------------------------------------------------------------------
(* Scans.                                                                      *)

\* scanRoot: a scan that is running is shared.
ScanRoot ==
    /\ scan.phase = "idle"
    /\ scan' = [NoScan EXCEPT !.phase = "walking", !.left = Paths]
    /\ UNCHANGED <<disk, tables, told, batch, flush, parsing, paused, keys, libraryHistory>>

\* periodicRescan, and the scan of a starting server.
PeriodicScan == ~paused /\ ScanRoot

\* #walk comes to a path.
WalkPath ==
    /\ scan.phase = "walking"
    /\ \E p \in scan.left :
           scan' = [scan EXCEPT !.left = @ \ {p}, !.seen[p] = disk[p]]
    /\ UNCHANGED <<disk, tables, told, batch, flush, parsing, paused, keys, libraryHistory>>

\* A subfolder can't be read: its paths are left alone.
SkipPath ==
    /\ scan.phase = "walking" /\ Happens
    /\ \E p \in scan.left :
           scan' = [scan EXCEPT !.left = @ \ {p}, !.skipped = @ \cup {p}]
    /\ UNCHANGED <<disk, tables, told, batch, flush, parsing, paused, keys, passed>>

\* The folder can't be reached: nothing is changed.
ScanFails ==
    /\ scan.phase = "walking" /\ Happens
    /\ scan' = NoScan
    /\ UNCHANGED <<disk, tables, told, batch, flush, parsing, paused, keys, passed>>

\* The walk is over: reconcileScan, then the inspections the scan waits for.
Reconcile ==
    /\ scan.phase = "walking" /\ scan.left = {}
    /\ \E order \in Injection(Paths, 1..Cardinality(Paths)) :
           LET result == Reconciled(scan.seen, scan.skipped, order)
           IN /\ rows' = result.rows
              /\ lastFileId' = result.lastFileId
              /\ parsing' = Parse(result.toParse)
              /\ scan' = [NoScan EXCEPT !.phase = "parsing", !.waits = result.toParse]
    /\ UNCHANGED <<disk, told, batch, flush, paused, keys, libraryHistory>>

ScanEnds ==
    /\ scan.phase = "parsing" /\ scan.waits = {}
    /\ scan' = NoScan
    /\ UNCHANGED <<disk, tables, told, batch, flush, parsing, paused, keys, libraryHistory>>

--------------------------------------------------------------------------------
(* Inspections (#parseNow).                                                    *)

\* The inspection of file i is over.
Settle(j) ==
    /\ parsing' = parsing \ {j}
    /\ scan' = [scan EXCEPT !.waits = @ \ {j.id}]

\* Looks up the file's path; a file forgotten since is nothing to inspect.
ParseBegins ==
    /\ \E j \in {k \in parsing : k.pc = "queued"} :
           \/ /\ RowOf(j.id) = {}
              /\ Settle(j)
           \/ /\ \E r \in RowOf(j.id) :
                     parsing' = (parsing \ {j}) \cup {[j EXCEPT !.pc = "opening", !.path = r.path]}
              /\ UNCHANGED scan
    /\ UNCHANGED <<disk, tables, told, batch, flush, paused, keys, libraryHistory>>

\* Locates and opens it; from here on the file read is the one opened, with the keys of now.
ParseOpens ==
    /\ \E j \in {k \in parsing : k.pc = "opening"} :
           \/ /\ disk[j.path] # Nothing
              /\ parsing' = (parsing \ {j}) \cup
                     {[j EXCEPT !.pc = "reading", !.ver = disk[j.path], !.keys = keys]}
              /\ UNCHANGED <<rows, scan>>
           \/ /\ disk[j.path] = Nothing
              /\ rows' = MarkMissing(rows, {j.path})
              /\ Settle(j)
    /\ UNCHANGED <<disk, lastFileId, told, batch, flush, paused, keys, libraryHistory>>

\* It can't be opened: the error is saved, with the size and mtime the row has.
OpenFails ==
    /\ Happens
    /\ \E j \in {k \in parsing : k.pc = "opening"} :
           /\ disk[j.path] # Nothing
           /\ SaveInspection(j, "error")
           /\ Settle(j)
    /\ UNCHANGED <<disk, lastFileId, told, batch, flush, paused, keys, passed>>

ParseEnds ==
    /\ \E j \in {k \in parsing : k.pc = "reading"} :
           /\ SaveInspection(j, "ok")
           /\ Settle(j)
    /\ UNCHANGED <<disk, lastFileId, told, batch, flush, paused, keys, libraryHistory>>

InspectionFails ==
    /\ Happens
    /\ \E j \in {k \in parsing : k.pc = "reading"} :
           /\ SaveInspection(j, "error")
           /\ Settle(j)
    /\ UNCHANGED <<disk, lastFileId, told, batch, flush, paused, keys, passed>>

--------------------------------------------------------------------------------
(* Watching.                                                                   *)

\* #queueWatchEvent: the newest event of a path replaces the ones before it.
Notice ==
    /\ ~paused
    /\ \E p \in Paths :
           /\ told[p] # disk[p]
           /\ told' = [told EXCEPT ![p] = disk[p]]
           /\ batch' = [batch EXCEPT ![p] = IF disk[p] = Nothing THEN "unlink" ELSE "seen"]
    /\ UNCHANGED <<disk, tables, flush, scan, parsing, paused, keys, libraryHistory>>

\* The batch's timer: removals first, before anything is awaited.
FlushBegins ==
    /\ batch # NoEvents
    /\ \E f \in Flushes :
           /\ flush[f] = NoFlush
           /\ flush' = [flush EXCEPT ![f].left = {p \in Paths : batch[p] = "seen"}]
    /\ batch' = NoEvents
    /\ rows' = MarkMissing(rows, {p \in Paths : batch[p] = "unlink"})
    /\ UNCHANGED <<disk, lastFileId, told, scan, parsing, paused, keys, libraryHistory>>

FlushLocates ==
    /\ \E f \in Flushes :
           /\ flush[f].at = {}
           /\ \E p \in flush[f].left :
                  flush' = [flush EXCEPT ![f] = [left |-> @.left \ {p}, at |-> {p}, found |-> disk[p]]]
    /\ UNCHANGED <<disk, tables, told, batch, scan, parsing, paused, keys, libraryHistory>>

FlushApplies ==
    /\ \E f \in Flushes : \E p \in flush[f].at :
           /\ flush' = [flush EXCEPT ![f].at = {}, ![f].found = Nothing]
           /\ \/ /\ flush[f].found = Nothing
                 /\ rows' = MarkMissing(rows, {p})
                 /\ UNCHANGED <<lastFileId, parsing>>
              \/ /\ flush[f].found # Nothing
                 /\ LET result == Upserted(p, flush[f].found)
                    IN /\ rows' = result.rows
                       /\ lastFileId' = result.lastFileId
                       /\ parsing' = Parse(result.toParse)
    /\ UNCHANGED <<disk, told, batch, scan, paused, keys, libraryHistory>>

\* setPaused(true): watchers close and events not yet handled are dropped.
Pause ==
    /\ ~paused /\ Happens
    /\ paused' = TRUE
    /\ batch' = NoEvents
    /\ UNCHANGED <<disk, tables, told, flush, scan, parsing, keys, passed>>

\* setPaused(false): new watchers, which tell nothing of what is already there.
Resume ==
    /\ paused
    /\ paused' = FALSE
    /\ told' = disk
    /\ UNCHANGED <<disk, tables, batch, flush, scan, parsing, keys, libraryHistory>>

--------------------------------------------------------------------------------
(* Keys, retention, restarts, and the people who change the folder.            *)

\* PUT /keys: reparseAll makes every present file stale and shares a running scan.
UploadKeys ==
    /\ keys < MaxKeys /\ Happens
    /\ keys' = keys + 1
    /\ passed' = passed \cup {j.id : j \in {k \in parsing : k.pc = "reading"}}
                       \cup {r.id : r \in {s \in rows : s.missing}}
    /\ rows' = {IF r.missing THEN r ELSE [r EXCEPT !.parse = "pending"] : r \in rows}
    /\ scan' = IF scan.phase = "idle" THEN [NoScan EXCEPT !.phase = "walking", !.left = Paths] ELSE scan
    /\ UNCHANGED <<disk, lastFileId, told, batch, flush, parsing, paused>>

\* purgeMissing: files missing for 30 days.
PurgeMissing ==
    /\ Happens
    /\ \E r \in rows : r.missing /\ rows' = rows \ {r}
    /\ UNCHANGED <<disk, lastFileId, told, batch, flush, scan, parsing, paused, keys, passed>>

\* The server stops and starts again: only the database and the disk remain.
LibraryRestart ==
    /\ Happens
    /\ told' = disk
    /\ batch' = NoEvents
    /\ flush' = [f \in Flushes |-> NoFlush]
    /\ scan' = NoScan
    /\ parsing' = {}
    /\ paused' = FALSE
    /\ UNCHANGED <<disk, tables, keys, passed>>

Change(p, v) ==
    /\ Happens
    /\ disk[p] # v /\ disk' = [disk EXCEPT ![p] = v]
    /\ UNCHANGED <<tables, told, batch, flush, scan, parsing, paused, keys, passed>>

\* Someone writes, replaces or removes a file.
Write == \E p \in Paths, v \in Contents : Change(p, v)

\* Someone renames a file; its size and mtime stay.
Rename ==
    /\ Happens
    /\ \E p, q \in Paths :
           /\ p # q /\ disk[p] # Nothing
           /\ disk' = [disk EXCEPT ![p] = Nothing, ![q] = disk[p]]
    /\ UNCHANGED <<tables, told, batch, flush, scan, parsing, paused, keys, passed>>

--------------------------------------------------------------------------------

Inspect == ParseBegins \/ ParseOpens \/ ParseEnds
Flush == FlushBegins \/ FlushLocates \/ FlushApplies

LibraryNext ==
    \/ ScanRoot \/ WalkPath \/ SkipPath \/ ScanFails \/ Reconcile \/ ScanEnds
    \/ Inspect \/ OpenFails \/ InspectionFails
    \/ Notice \/ Flush \/ Pause \/ Resume
    \/ UploadKeys \/ PurgeMissing \/ LibraryRestart
    \/ Write \/ Rename

LibrarySpec == LibraryInit /\ [][LibraryNext]_libraryVars

(* The rescan timer fires again and again; what the process has begun goes on.  Nothing makes *)
(* chokidar tell of a change, and nobody has to resume a paused scanner.                      *)
FairSpec ==
    /\ LibrarySpec
    /\ WF_libraryVars(PeriodicScan) /\ WF_libraryVars(WalkPath) /\ WF_libraryVars(Reconcile) /\ WF_libraryVars(ScanEnds)
    /\ WF_libraryVars(ParseBegins) /\ WF_libraryVars(ParseOpens) /\ WF_libraryVars(ParseEnds)
    /\ WF_libraryVars(FlushBegins) /\ WF_libraryVars(FlushLocates) /\ WF_libraryVars(FlushApplies)

--------------------------------------------------------------------------------

\* Folder, database, watcher, scan and inspections keep their types; no two rows have one id or
\* path, no file is inspected twice at once, and a scan waits only for inspections under way.
LibraryTypeOK ==
    /\ disk \in [Paths -> Contents] /\ told \in [Paths -> Contents]
    /\ rows \subseteq Rows /\ lastFileId \in Nat
    /\ \A r, o \in rows : r # o => r.id # o.id /\ r.path # o.path
    /\ batch \in [Paths -> Events]
    /\ flush \in [Flushes -> [left : SUBSET Paths, at : SUBSET Paths, found : Contents]]
    /\ scan \in Scans /\ parsing \subseteq Inspections
    /\ \A i \in scan.waits : \E j \in parsing : j.id = i
    /\ \A j, k \in parsing : j.id = k.id => j = k
    /\ passed \subseteq FileIds
    /\ paused \in BOOLEAN /\ keys \in 0..MaxKeys
    /\ events \in 0..MaxEvents

(* A row that says its file was inspected tells what an inspection found of exactly the size   *)
(* and mtime the row shows, with the keys in use, whatever replaced or renamed the file, moved *)
(* the row or brought new keys between the inspection's steps (saveInspection stores the stat  *)
(* of the file it read).  Only files missing, or being read, as new keys came may tell older   *)
(* keys' findings (reparseAll, #parse).                                                        *)
OkIsTold == \A r \in rows : r.parse = "ok" => r.meta = r.ver /\ (r.keys = keys \/ r.id \in passed)

\* Row r is what an inspection of version v with the keys in use tells.
Shows(r, v) ==
    /\ ~r.missing /\ r.ver = v
    /\ \/ r.parse = "error"
       \/ r.parse = "ok" /\ r.meta = v /\ (r.keys = keys \/ r.id \in passed)

\* The rows show the folder as it is.
Agrees ==
    /\ \A p \in Paths : disk[p] # Nothing => \E r \in RowAt(p) : Shows(r, disk[p])
    /\ \A r \in rows : disk[r.path] = Nothing => r.missing

(* Whatever is overtaken on the way, once people leave the folder alone the library comes to   *)
(* show it as it is and goes on doing so, even if the watcher says nothing: stale walks, stale *)
(* events, shared inspections, lost batches, new keys and restarts are all made good by the    *)
(* next scans.  Two kinds of file may keep what the old keys told: one that was being read     *)
(* when new keys came, whose inspection takes back the mark that asks for another (#parse,     *)
(* #parseNow), and one that was missing then and comes back unchanged (reparseAll).            *)
LibraryConverges == <>[]~paused => <>[]Agrees

================================================================================
