----------------------------- MODULE SaveBackups -----------------------------
(***************************************************************************)
(* Save backups, end to end: SaveService of saves/service.ts keeping the   *)
(* backups of one save, and the console that makes and restores them       *)
(* (saves/console.cpp, ui/saves_tab.cpp).                                  *)
(*                                                                         *)
(* The server's handlers interleave where they await the disk.  Rows live  *)
(* in the database, archives on the disk; a backup is a row and its        *)
(* archive.  An upload may be worked on after its console gave it up.      *)
(***************************************************************************)
EXTENDS Integers, FiniteSets, FiniteSetsExt

CONSTANTS
    Contents,       \* what the game can leave in the save
    Mixed,          \* what an interrupted restore leaves in it
    Nothing,        \* no archive, no upload, no cached backup
    Uploads,        \* uploads the server can be working on at a time
    Settings,       \* the settings request, as a worker that prunes
    Keeps,          \* values of the retention setting; 0 keeps everything
    MaxIds,         \* bound: backups ever stored
    MaxEdits,       \* bound: changes made in the web UI
    MaxTroubles     \* bound: crashes, failing renames, lost archives, given up uploads

ASSUME SaveBackupsAssumption ==
    /\ Mixed \notin Contents /\ Nothing \notin Contents \cup {Mixed} \cup Uploads
    /\ Settings \notin Uploads /\ IsFiniteSet(Uploads)
    /\ Keeps \subseteq Nat /\ MaxIds \in Nat /\ MaxEdits \in Nat /\ MaxTroubles \in Nat

VARIABLES
    rows,       \* save_backups of this save
    files,      \* the archives under <dataDir>/saves
    lastId,     \* AUTOINCREMENT
    keep,       \* saveBackupsKeep
    upload,     \* each store() call
    prune,      \* where each #prune() stands
    removing,   \* delete(): row gone, archive about to be
    save,       \* the save on the console
    console,    \* what the console is doing
    seen,       \* newest manual backup in the console's list
    deleted,    \* history: backups the user deleted, or that an outdated prune list held
    lost,       \* history: backups whose archive was lost, until their bytes come again
    stray,      \* history: archives whose row went while they were being placed or removed
    overtaken,  \* history: an upload that was given up changed the rows
    edits,      \* history: how many changes in the web UI so far
    troubles    \* history: how many troubles so far

server == <<rows, files, lastId, keep, upload, prune, removing>>
history == <<deleted, lost, stray, overtaken, edits, troubles>>
vars == <<rows, files, lastId, keep, upload, prune, removing, save, console,
          seen, deleted, lost, stray, overtaken, edits, troubles>>

Ids == 1..MaxIds
Workers == Uploads \cup {Settings}
Shas == Contents \cup {Mixed}
Origins == {"manual", "pre-restore"}
Rows == [id : Ids, sha : Shas, origin : Origins, pinned : BOOLEAN]

NoUpload == [pc |-> "free", sha |-> Nothing, origin |-> "manual", id |-> 0, given |-> FALSE]
Start == [phase |-> "start", keep |-> 0, left |-> {}, file |-> 0]
NoPrune == [phase |-> "none", keep |-> 0, left |-> {}, file |-> 0]
AtRest == [pc |-> "idle", upload |-> Nothing, from |-> Nothing, before |-> Nothing, undo |-> 0]
Failed == [AtRest EXCEPT !.pc = "failed"]

Init ==
    /\ rows = {} /\ lastId = 0
    /\ files = [i \in Ids |-> Nothing]
    /\ keep \in Keeps
    /\ upload = [u \in Uploads |-> NoUpload]
    /\ prune = [w \in Workers |-> NoPrune]
    /\ removing = {}
    /\ save \in Contents
    /\ console = AtRest
    /\ seen = Nothing
    /\ deleted = {} /\ lost = {} /\ stray = {} /\ overtaken = FALSE /\ edits = 0 /\ troubles = 0

Edit == edits < MaxEdits /\ edits' = edits + 1
Spend == troubles < MaxTroubles /\ troubles' = troubles + 1

RowIds == {r.id : r \in rows}
Newest == {r \in rows : \A o \in rows : o.id <= r.id}
Without(i) == {r \in rows : r.id # i}

(* The row of backup i goes while another upload v is about to place its archive. *)
Strayed(i, except) ==
    stray' = IF \E v \in Uploads \ except : upload[v].id = i /\ upload[v].pc \in {"exists", "place", "putBack"}
             THEN stray \cup {i} ELSE stray

-----------------------------------------------------------------------------
(* #prune and #remove: per origin, the unpinned backups beyond the newest    *)
(* `keep`; each row is deleted, then its archive.                            *)

(* Backups a running prune still has on its list, drawn up before it first waited. *)
Doomed == UNION {prune[w].left : w \in Workers}

(* The lists that are outdated once backup i goes: they counted on the newest one. *)
Outdated(i) == IF \A r \in rows : r.id <= i THEN Doomed ELSE {}

(* Faulty variant of Excess: pinned backups are pruned with the others. *)
ExcessOfAll(R, origin, k) ==
    {r.id : r \in {r \in R : r.origin = origin /\ Cardinality({o \in R : o.origin = origin /\ o.id > r.id}) >= k}}

Excess(R, origin, k) ==
    LET unpinned == {r \in R : r.origin = origin /\ ~r.pinned}
    IN  {r.id : r \in {r \in unpinned : Cardinality({o \in unpinned : o.id > r.id}) >= k}}

(* What prune p of rows R goes on with: the rest of its list, or the excess of
   the next origin; the setting is read when it starts. *)
Advanced(R, p) ==
    LET k == IF p.phase = "start" THEN keep ELSE p.keep
        next(origin) == [p EXCEPT !.phase = origin, !.keep = k, !.left = IF k = 0 THEN {} ELSE Excess(R, origin, k)]
    IN  CASE p.left # {} -> p
          [] p.left = {} /\ p.phase = "start" /\ next("manual").left # {} -> next("manual")
          [] p.left = {} /\ p.phase = "pre-restore" -> p
          [] OTHER -> next("pre-restore")

(* Worker w deletes the next row, of rows R; once there is none the prune is over. *)
PruneFrom(w, R, start) ==
    LET p == Advanced(R, start)
    IN  IF p.left = {}
        THEN /\ rows' = R
             /\ prune' = [prune EXCEPT ![w] = NoPrune]
             /\ UNCHANGED <<deleted, stray, overtaken>>
        ELSE LET i == Max(p.left)
             IN  /\ rows' = {r \in R : r.id # i}
                 /\ Strayed(i, {})
                 /\ deleted' = deleted \cup Outdated(i)
                 /\ prune' = [prune EXCEPT ![w] = [p EXCEPT !.left = @ \ {i}, !.file = i]]
                 /\ overtaken' = (overtaken \/ (w \in Uploads /\ upload[w].given))

PruneRow(w) ==
    /\ prune[w].phase # "none" /\ prune[w].file = 0
    /\ PruneFrom(w, rows, prune[w])
    /\ UNCHANGED <<files, lastId, keep, upload, removing, save, console, seen, lost, troubles, edits>>

PruneFile(w) ==
    /\ prune[w].file # 0
    /\ files' = [files EXCEPT ![prune[w].file] = Nothing]
    /\ prune' = [prune EXCEPT ![w].file = 0]
    /\ UNCHANGED <<rows, lastId, keep, upload, removing, save, console, seen, history>>

-----------------------------------------------------------------------------
(* store().                                                                *)

Goes(u, p) == upload' = [upload EXCEPT ![u].pc = p]

(* The body arrived whole and is a valid archive; now the newest row decides,
   and a new row is inserted before its archive is in place. *)
Decide(u) ==
    /\ upload[u].pc = "received"
    /\ \/ /\ \E r \in Newest :
                /\ r.sha = upload[u].sha
                /\ upload' = [upload EXCEPT ![u].pc = "exists", ![u].id = r.id]
          /\ lost' = {i \in lost : \A r \in Newest : r.id # i}
          /\ UNCHANGED <<rows, lastId, overtaken>>
       \/ /\ \A r \in Newest : r.sha # upload[u].sha
          /\ lastId' = lastId + 1
          /\ rows' = rows \cup {[id |-> lastId', sha |-> upload[u].sha, origin |-> upload[u].origin, pinned |-> FALSE]}
          /\ upload' = [upload EXCEPT ![u].pc = "place", ![u].id = lastId']
          /\ overtaken' = (overtaken \/ upload[u].given)
          /\ UNCHANGED lost
    /\ UNCHANGED <<files, keep, prune, removing, save, console, seen, deleted, stray, troubles, edits>>

(* Faulty variant of CheckExists: the row is enough. *)
CheckNothing(u) ==
    /\ upload[u].pc = "exists"
    /\ Goes(u, "promote")
    /\ UNCHANGED <<rows, files, lastId, keep, prune, removing, save, console, seen, history>>

(* The newest backup already has these bytes: is its archive there? *)
CheckExists(u) ==
    /\ upload[u].pc = "exists"
    /\ Goes(u, IF files[upload[u].id] = Nothing THEN "putBack" ELSE "promote")
    /\ UNCHANGED <<rows, files, lastId, keep, prune, removing, save, console, seen, history>>

PutBack(u) ==
    /\ upload[u].pc = "putBack"
    /\ files' = [files EXCEPT ![upload[u].id] = upload[u].sha]
    /\ Goes(u, "promote")
    /\ UNCHANGED <<rows, lastId, keep, prune, removing, save, console, seen, history>>

(* Faulty variant of Promote: the backup made before the restore stays as well. *)
PromoteBeside(u) ==
    /\ upload[u].pc = "promote"
    /\ LET mine == {r \in rows : r.id = upload[u].id /\ r.origin = "pre-restore"}
           promoted == rows \cup {[r EXCEPT !.origin = "manual"] : r \in mine}
       IN  IF upload[u].origin = "manual" /\ mine # {}
           THEN PruneFrom(u, promoted, Start)
           ELSE UNCHANGED <<rows, prune, deleted, stray, overtaken>>
    /\ Goes(u, "finish")
    /\ UNCHANGED <<files, lastId, keep, removing, save, console, seen, lost, edits, troubles>>

(* A manual backup with the bytes of one made before a restore makes it manual,
   and prunes. *)
Promote(u) ==
    /\ upload[u].pc = "promote"
    /\ LET mine == {r \in rows : r.id = upload[u].id /\ r.origin = "pre-restore"}
           promoted == (rows \ mine) \cup {[r EXCEPT !.origin = "manual"] : r \in mine}
       IN  IF upload[u].origin = "manual" /\ mine # {}
           THEN PruneFrom(u, promoted, Start)
           ELSE UNCHANGED <<rows, prune, deleted, stray, overtaken>>
    /\ Goes(u, "finish")
    /\ UNCHANGED <<files, lastId, keep, removing, save, console, seen, lost, troubles, edits>>

(* The archive is moved into place; only a manual backup prunes. *)
Place(u) ==
    /\ upload[u].pc = "place"
    /\ files' = [files EXCEPT ![upload[u].id] = upload[u].sha]
    /\ prune' = [prune EXCEPT ![u] = IF upload[u].origin = "pre-restore" THEN @ ELSE Start]
    /\ Goes(u, "finish")
    /\ UNCHANGED <<rows, lastId, keep, removing, save, console, seen, history>>

(* Faulty variant of PlaceFails: the row of an upload whose archive could not
   be moved stays. *)
PlaceFailsKeepingRow(u) ==
    /\ upload[u].pc \in {"place", "putBack"} /\ Spend
    /\ Goes(u, "failed")
    /\ UNCHANGED <<rows, files, lastId, keep, prune, removing, save, console, seen, deleted,
                   lost, stray, overtaken, edits>>

(* The disk refuses the rename: the row goes again, whether or not an upload of
   the same bytes has put the archive there in the meantime. *)
PlaceFails(u) ==
    /\ upload[u].pc \in {"place", "putBack"} /\ Spend
    /\ Goes(u, "failed")
    /\ IF upload[u].pc = "place"
       THEN /\ rows' = Without(upload[u].id)
            /\ IF files[upload[u].id] # Nothing THEN stray' = stray \cup {upload[u].id}
                                               ELSE Strayed(upload[u].id, {u})
            /\ deleted' = deleted \cup Outdated(upload[u].id)
            /\ overtaken' = (overtaken \/ upload[u].given)
            /\ UNCHANGED lost
       ELSE /\ lost' = lost \cup {upload[u].id}
            /\ UNCHANGED <<rows, deleted, stray, overtaken>>
    /\ UNCHANGED <<files, lastId, keep, prune, removing, save, console, seen, edits>>

(* Once its pruning is over the upload is answered. *)
Finish(u) ==
    /\ upload[u].pc = "finish" /\ prune[u].phase = "none"
    /\ Goes(u, "stored")
    /\ UNCHANGED <<rows, files, lastId, keep, prune, removing, save, console, seen, history>>

(* Nobody waits for the answer of an upload that was given up. *)
Discard(u) ==
    /\ upload[u].pc \in {"stored", "failed"} /\ upload[u].given
    /\ upload' = [upload EXCEPT ![u] = NoUpload]
    /\ UNCHANGED <<rows, files, lastId, keep, prune, removing, save, console, seen, history>>

-----------------------------------------------------------------------------
(* The web UI and what happens to the data folder.                         *)

SetPinned(r) ==
    /\ Edit
    /\ rows' = (rows \ {r}) \cup {[r EXCEPT !.pinned = ~@]}
    /\ UNCHANGED <<files, lastId, keep, upload, prune, removing, save, console, seen, deleted,
                   lost, stray, overtaken, troubles>>

DeleteRow(r) ==
    /\ Edit
    /\ rows' = rows \ {r}
    /\ Strayed(r.id, {})
    /\ removing' = removing \cup {r.id}
    /\ deleted' = deleted \cup {r.id} \cup Outdated(r.id)
    /\ UNCHANGED <<files, lastId, keep, upload, prune, save, console, seen, lost, overtaken, troubles>>

DeleteFile(i) ==
    /\ i \in removing
    /\ files' = [files EXCEPT ![i] = Nothing]
    /\ removing' = removing \ {i}
    /\ UNCHANGED <<rows, lastId, keep, upload, prune, save, console, seen, history>>

(* PUT /settings: the new limit applies at once (pruneAll, one save after the other). *)
SetKeep(k) ==
    /\ Edit /\ prune[Settings].phase = "none"
    /\ keep' = k
    /\ prune' = [prune EXCEPT ![Settings] = Start]
    /\ UNCHANGED <<rows, files, lastId, upload, removing, save, console, seen, deleted, lost,
                   stray, overtaken, troubles>>

(* Someone removes an archive from the data folder. *)
LoseFile(i) ==
    /\ files[i] # Nothing /\ Spend
    /\ files' = [files EXCEPT ![i] = Nothing]
    /\ lost' = lost \cup {i}
    /\ UNCHANGED <<rows, lastId, keep, upload, prune, removing, save, console, seen, deleted, stray, overtaken, edits>>

(* The server dies and starts again: init() clears what was coming in. *)
Crash ==
    /\ Spend
    /\ upload' = [u \in Uploads |-> IF upload[u].pc = "free" \/ upload[u].given THEN NoUpload
                                    ELSE [upload[u] EXCEPT !.pc = "failed"]]
    /\ prune' = [w \in Workers |-> NoPrune]
    /\ removing' = {}
    /\ lost' = lost \cup {i \in RowIds : files[i] = Nothing}
    /\ stray' = stray \cup {i \in Ids \ RowIds : files[i] # Nothing}
    /\ UNCHANGED <<rows, files, lastId, keep, save, console, seen, deleted, overtaken, edits>>

-----------------------------------------------------------------------------
(* The console.                                                            *)

(* The game runs and saves. *)
Play(c) ==
    /\ console.pc = "idle" /\ save # c
    /\ save' = c
    /\ UNCHANGED <<server, console, seen, history>>

(* What the list tells of this save: its newest backup, if that is a manual one. *)
Listed ==
    IF \E r \in Newest : r.origin = "manual"
    THEN CHOOSE l \in {[id |-> r.id, sha |-> r.sha] : r \in Newest} : TRUE
    ELSE Nothing

(* The user has the list of backups fetched again. *)
Reload ==
    /\ console.pc = "idle"
    /\ seen' = Listed
    /\ UNCHANGED <<server, save, console, history>>

(* The save is packed and its upload reaches the server. *)
Send(u, origin) ==
    /\ upload[u] = NoUpload
    /\ lastId + Cardinality({v \in Uploads : upload[v].pc = "received"}) < MaxIds
    /\ upload' = [upload EXCEPT ![u] = [NoUpload EXCEPT !.pc = "received", !.sha = save, !.origin = origin]]

Backup(u) ==
    /\ console.pc = "idle"
    /\ Send(u, "manual")
    /\ console' = [AtRest EXCEPT !.pc = "backup", !.upload = u]
    /\ UNCHANGED <<rows, files, lastId, keep, prune, removing, save, seen, history>>

(* "Back up every save" skips a save whose newest backup, in the list the
   console has, is a manual one of the same bytes. *)
SkipBackup ==
    /\ console.pc = "idle"
    /\ seen # Nothing /\ seen.sha = save
    /\ console' = [AtRest EXCEPT !.pc = "skipped", !.undo = seen.id]
    /\ UNCHANGED <<server, save, seen, history>>

(* A restore: the archive is downloaded and checked, then what is there now is
   backed up. *)
Restore(u, r) ==
    /\ console.pc = "idle" /\ files[r.id] = r.sha
    /\ Send(u, "pre-restore")
    /\ console' = [AtRest EXCEPT !.pc = "restore", !.upload = u, !.from = r.sha, !.before = save]
    /\ UNCHANGED <<rows, files, lastId, keep, prune, removing, save, seen, history>>

(* Faulty variant of Answered: a restore goes on when its backup failed. *)
AnsweredAnyway ==
    /\ console.pc \in {"backup", "restore"}
    /\ upload[console.upload].pc \in {"stored", "failed"}
    /\ upload' = [upload EXCEPT ![console.upload] = NoUpload]
    /\ console' = IF console.pc = "backup" /\ upload[console.upload].pc = "failed" THEN Failed
                  ELSE [console EXCEPT !.pc = IF console.pc = "restore" THEN "writing" ELSE "reported",
                                       !.upload = Nothing, !.undo = upload[console.upload].id]
    /\ UNCHANGED <<rows, files, lastId, keep, prune, removing, save, seen, history>>

(* The upload is answered.  A restore starts writing only when the save as it
   was is stored. *)
Answered ==
    /\ console.pc \in {"backup", "restore"}
    /\ upload[console.upload].pc \in {"stored", "failed"}
    /\ upload' = [upload EXCEPT ![console.upload] = NoUpload]
    /\ console' = IF upload[console.upload].pc = "failed" THEN Failed
                  ELSE [console EXCEPT !.pc = IF console.pc = "restore" THEN "writing" ELSE "reported",
                                       !.upload = Nothing, !.undo = upload[console.upload].id]
    /\ UNCHANGED <<rows, files, lastId, keep, prune, removing, save, seen, history>>

(* The console gives the upload up: cancelled, a timeout, the link gone.  What
   had arrived whole, the server goes on with. *)
GiveUp(arrived) ==
    /\ console.pc \in {"backup", "restore"} /\ Spend
    /\ arrived \/ upload[console.upload].pc = "received"
    /\ upload' = IF arrived THEN [upload EXCEPT ![console.upload].given = TRUE]
                 ELSE [upload EXCEPT ![console.upload] = NoUpload]
    /\ console' = Failed
    /\ UNCHANGED <<rows, files, lastId, keep, prune, removing, save, seen, deleted, lost, stray, overtaken, edits>>

(* A save bigger than its journal is committed in parts. *)
CommitPart ==
    /\ console.pc \in {"writing", "partly"}
    /\ save' = Mixed
    /\ console' = [console EXCEPT !.pc = "partly"]
    /\ UNCHANGED <<server, seen, history>>

CommitLast ==
    /\ console.pc \in {"writing", "partly"}
    /\ save' = console.from
    /\ console' = [console EXCEPT !.pc = "restored"]
    /\ UNCHANGED <<server, seen, history>>

(* Writing fails, or the console loses power: what was committed stays. *)
WriteFails ==
    /\ console.pc \in {"writing", "partly"} /\ Spend
    /\ console' = IF console.pc = "writing" THEN Failed ELSE [console EXCEPT !.pc = "restored"]
    /\ UNCHANGED <<server, save, seen, deleted, lost, stray, overtaken, edits>>

(* However it went, the list is fetched again.  (When that fails it is emptied,
   and nothing is skipped.) *)
Acknowledge ==
    /\ console.pc \in {"reported", "skipped", "restored", "failed"}
    /\ console' = AtRest
    /\ seen' = Listed
    /\ UNCHANGED <<server, save, history>>

-----------------------------------------------------------------------------

Serve ==
    \/ \E w \in Workers : PruneRow(w) \/ PruneFile(w)
    \/ \E u \in Uploads :
          \/ Decide(u) \/ CheckExists(u) \/ PutBack(u) \/ Promote(u) \/ Place(u)
          \/ PlaceFails(u) \/ Finish(u) \/ Discard(u)

Manage ==
    \/ \E r \in rows : SetPinned(r) \/ DeleteRow(r)
    \/ \E i \in Ids : DeleteFile(i) \/ LoseFile(i)
    \/ \E k \in Keeps : SetKeep(k)

Use ==
    \/ \E c \in Contents : Play(c)
    \/ \E u \in Uploads : Backup(u) \/ \E r \in rows : Restore(u, r)
    \/ \E arrived \in BOOLEAN : GiveUp(arrived)
    \/ Reload \/ SkipBackup \/ Answered \/ CommitPart \/ CommitLast \/ WriteFails \/ Acknowledge

Next == Serve \/ Manage \/ Use \/ Crash
Spec == Init /\ [][Next]_vars

-----------------------------------------------------------------------------
(* Properties.                                                             *)

TypeOK ==
    /\ rows \subseteq Rows /\ Cardinality(RowIds) = Cardinality(rows)
    /\ \A i \in RowIds : i <= lastId
    /\ files \in [Ids -> Shas \cup {Nothing}] /\ lastId \in 0..MaxIds /\ keep \in Keeps
    /\ \A u \in Uploads : upload[u].sha \in Shas \cup {Nothing} /\ upload[u].id \in 0..lastId
    /\ \A w \in Workers : prune[w].left \subseteq Ids /\ prune[w].file \in 0..MaxIds
    /\ removing \subseteq Ids /\ deleted \cup lost \cup stray \subseteq Ids
    /\ save \in Shas /\ console.from \in Shas \cup {Nothing} /\ console.before \in Shas \cup {Nothing}
    /\ seen \in [id : Ids, sha : Shas] \cup {Nothing}

Placing(i) == \E u \in Uploads : upload[u].id = i /\ upload[u].pc \in {"exists", "place", "putBack"}
Pruning(i) == \E w \in Workers : prune[w].file = i

(* Every backup listed can be restored: its archive is there with the bytes its
   row promises, or an upload is about to put it there. *)
RowsHaveArchives == \A r \in rows : files[r.id] = r.sha \/ Placing(r.id) \/ r.id \in lost

(* No archive is left behind on the disk without its row. *)
ArchivesHaveRows == \A i \in Ids : files[i] # Nothing => i \in RowIds \cup removing \cup stray \/ Pruning(i)

(* A backup is a row with its archive, and stays so while uploads, prunes and
   deletions of the same save interleave between row and archive. *)
BackupsAreWhole == RowsHaveArchives /\ ArchivesHaveRows

(* "backs up the save as it is now, so the restore can be undone" (docs/saves.md):
   once a restore has begun to write, the server has the save as it was, if only
   its archive is being put back. *)
RestoreCanBeUndone ==
    console.pc \in {"writing", "partly", "restored"} =>
        \/ \E r \in rows : r.sha = console.before /\ (files[r.id] = r.sha \/ Placing(r.id))
        \/ console.undo \in deleted \cup lost \/ overtaken

(* When the console reports a save as backed up, as stored or as unchanged, the
   server has a backup of it, if only its archive is still to be moved into place. *)
ReportedIsStored ==
    [][console'.pc # console.pc /\ console'.pc \in {"reported", "skipped"} =>
          \/ \E r \in rows : r.id = console'.undo /\ r.sha = save /\ (files[r.id] = save \/ Placing(r.id))
          \/ console'.undo \in deleted \cup lost \/ overtaken]_vars

(* "Pinned backups are always kept" (docs/saves.md): no prune deletes one, unless
   it was pinned only after the prune had drawn up its list. *)
PinnedIsKept ==
    [][\A r \in rows : r.pinned /\ r.id \in RowIds \ {o.id : o \in rows'} =>
            edits' # edits \/ troubles' # troubles \/ r.id \in Doomed]_vars
=============================================================================
