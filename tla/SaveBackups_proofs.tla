-------------------------- MODULE SaveBackups_proofs --------------------------
(***************************************************************************)
(* Proofs about SaveBackups: a backup stays whole while the handlers of    *)
(* one save interleave, a pinned one is not pruned, and what the console   *)
(* reports or relies on is on the server, for every number of uploads,     *)
(* contents, settings and troubles.                                        *)
(*                                                                         *)
(* The argument has two layers.  Whose() says what each handler knows of   *)
(* the row it works on although others may have removed it; DiskInv joins  *)
(* rows and archives with it.  Kept() is the second layer: the row the     *)
(* console counts on is the newest one, and no prune's list, however old,  *)
(* names the newest row unless the history says that it was outdated.      *)
(*                                                                         *)
(* The last sections are about the page of the library (LibraryPage) and   *)
(* about the account and its sessions (Accounts).                          *)
(***************************************************************************)
EXTENDS SaveBackups, FiniteSetTheorems, WellFoundedInduction, LibraryPage, Accounts, TLAPS

UploadPcs == {"free", "received", "exists", "putBack", "promote", "place", "finish", "stored", "failed"}
ConsolePcs == {"idle", "backup", "restore", "writing", "partly", "restored", "reported", "skipped", "failed"}
Decided == {"exists", "putBack", "promote", "place", "finish", "stored"}
AnUpload == [pc : UploadPcs, sha : Shas \cup {Nothing}, origin : Origins, id : 0..MaxIds, given : BOOLEAN]
APrune == [phase : {"none", "start", "manual", "pre-restore"}, keep : Nat, left : SUBSET Ids, file : 0..MaxIds]
AConsole == [pc : ConsolePcs, upload : Uploads \cup {Nothing}, from : Shas \cup {Nothing},
             before : Shas \cup {Nothing}, undo : 0..MaxIds]
ABackup == [id : Ids, sha : Shas]

Received == {v \in Uploads : upload[v].pc = "received"}

(* What each variable is. *)
Shapes ==
    /\ rows \in SUBSET Rows /\ files \in [Ids -> Shas \cup {Nothing}]
    /\ lastId \in 0..MaxIds /\ keep \in Keeps
    /\ upload \in [Uploads -> AnUpload] /\ prune \in [Workers -> APrune]
    /\ removing \in SUBSET Ids /\ deleted \in SUBSET Ids /\ lost \in SUBSET Ids /\ stray \in SUBSET Ids
    /\ save \in Shas /\ console \in AConsole /\ seen \in ABackup \cup {Nothing}
    /\ overtaken \in BOOLEAN /\ edits \in Nat /\ troubles \in Nat

(* There are ids left for every upload still to be decided on. *)
RoomForReceived == lastId + Cardinality(Received) <= MaxIds

Unique(R) == \A r \in R, o \in R : r.id = o.id => r = o

(* An id is never used twice: nothing anywhere is ahead of the last one. *)
IdsAreUsedOnce ==
    /\ Unique(rows)
    /\ \A r \in rows : r.id <= lastId
    /\ \A i \in Ids : i > lastId => files[i] = Nothing
    /\ \A u \in Uploads : upload[u].id <= lastId
    /\ \A w \in Workers : prune[w].file <= lastId /\ \A i \in prune[w].left : i <= lastId
    /\ \A i \in removing : i <= lastId

(* An upload that has decided knows the bytes of its row, if the row is still
   there; while it has yet to place them, the row is there or is named as gone. *)
UploadsKnowTheirRow ==
    /\ \A u \in Uploads : upload[u].pc = "received" => upload[u].sha \in Shas
    /\ \A u \in Uploads : upload[u].pc \in Decided =>
          /\ upload[u].id # 0 /\ upload[u].sha \in Shas
          /\ \A r \in rows : r.id = upload[u].id => r.sha = upload[u].sha
    /\ \A u \in Uploads : upload[u].pc \in {"exists", "putBack", "place"} =>
          upload[u].id \in RowIds \cup stray

(* Archives that are about to be removed belong to no row. *)
RemovedHaveNoRow ==
    /\ \A w \in Workers : prune[w].file \notin RowIds
    /\ \A i \in removing : i \notin RowIds

(* A prune that is over, or not yet begun, holds nothing; an upload prunes last. *)
PrunesStartFresh ==
    /\ \A w \in Workers : prune[w].phase = "none" => prune[w] = NoPrune
    /\ \A u \in Uploads : upload[u].pc # "finish" => prune[u] = NoPrune

(* An archive is its row's. *)
NoForeignBytes == \A r \in rows : files[r.id] \in {Nothing, r.sha}

DiskInv ==
    /\ IdsAreUsedOnce /\ UploadsKnowTheirRow /\ RemovedHaveNoRow /\ PrunesStartFresh /\ NoForeignBytes
    /\ RowsHaveArchives /\ ArchivesHaveRows

NewestOf(R) == {r \in R : \A o \in R : o.id <= r.id}

(* The newest row is on no list, unless the list was outdated. *)
NewestIsSpared == \A r \in Newest : r.id \in Doomed => r.id \in deleted

(* The console's own upload is the only one that somebody waits for. *)
Waiting == console.pc \in {"backup", "restore"}
OneIsAwaited ==
    /\ Waiting => console.upload \in Uploads
    /\ \A u \in Uploads : Waiting /\ console.upload = u => upload[u].pc # "free" /\ ~upload[u].given
    /\ \A u \in Uploads : upload[u].pc # "free" /\ ~upload[u].given => Waiting /\ console.upload = u

(* The row of backup i, with these bytes, is the newest, unless the history says
   who may have removed it or stored another. *)
KeptIn(R, gone, over, i, sha) == over \/ i \in gone \/ \E r \in NewestOf(R) : r.id = i /\ r.sha = sha
Kept(i, sha) == KeptIn(rows, deleted, overtaken, i, sha)

CountedOn ==
    /\ Waiting => upload[console.upload].sha = save
    /\ console.pc = "restore" => console.before = save
    /\ console.pc \in {"restore", "writing", "partly"} => console.from \in Shas
    /\ Waiting /\ upload[console.upload].pc \in Decided => Kept(upload[console.upload].id, save)
    /\ console.pc \in {"writing", "partly", "restored"} => Kept(console.undo, console.before)
    /\ console.pc = "idle" /\ seen # Nothing => Kept(seen.id, seen.sha)

ConsoleInv == NewestIsSpared /\ OneIsAwaited /\ CountedOn

BackupsInv == Shapes /\ RoomForReceived /\ DiskInv /\ ConsoleInv

-----------------------------------------------------------------------------
(* Rows.                                                                     *)

(* A set of numbers none of which is above a bound has a greatest one. *)
LEMMA BoundedHasGreatest ==
    ASSUME NEW S, S \subseteq Int, S # {}, NEW N \in Int, \A x \in S : x <= N
    PROVE  \E x \in S : \A y \in S : x >= y
<1> DEFINE T == {N - x : x \in S}
<1> DEFINE R == {ss \in Nat \X Nat : ss[1] < ss[2]}
<1>1. T \subseteq Nat /\ T # {}
  <2>1. \A x \in S : N - x \in Nat OBVIOUS
  <2>2. QED BY <2>1
<1>2. IsWellFoundedOn(R, Nat) BY NatLessThanWellFounded DEF OpToRel
<1> HIDE DEF T
<1>3. PICK m \in T : \A n \in T : ~ (<<n, m>> \in R) BY <1>1, <1>2, WFMin
<1>4. \A n \in T : ~(n < m)
  <2>1. SUFFICES ASSUME NEW n \in T, n < m PROVE FALSE OBVIOUS
  <2>2. <<n, m>> \in R BY <2>1, <1>1
  <2>3. QED BY <2>2, <1>3
<1> USE DEF T
<1>5. PICK x \in S : m = N - x OBVIOUS
<1>6. \A y \in S : x >= y
  <2>1. SUFFICES ASSUME NEW y \in S, y > x PROVE FALSE OBVIOUS
  <2>2. N - y \in T /\ N - y < m BY <2>1, <1>5
  <2>3. QED BY <2>2, <1>4
<1>7. QED BY <1>6

(* The next row of a prune is one of its list. *)
LEMMA GreatestIsListed == ASSUME NEW S \in SUBSET Ids, S # {} PROVE Max(S) \in S
<1>1. S \subseteq Int /\ MaxIds \in Int /\ \A x \in S : x <= MaxIds BY SaveBackupsAssumption DEF Ids
<1>2. \E x \in S : \A y \in S : x >= y BY <1>1, BoundedHasGreatest
<1>3. QED BY <1>2 DEF Max

(* Rows with ids of their own are as many as their ids. *)
LEMMA UniqueRowsAreCounted ==
    ASSUME NEW R \in SUBSET Rows, Unique(R)
    PROVE  IsFiniteSet(R) /\ Cardinality({r.id : r \in R}) = Cardinality(R)
<1> DEFINE I == {r.id : r \in R}
           f == [r \in R |-> r.id]
<1>1. I \in SUBSET Ids BY DEF Rows
<1>2. IsFiniteSet(Ids) BY FS_Interval, SaveBackupsAssumption DEF Ids
<1>3. IsFiniteSet(I) BY <1>1, <1>2, FS_Subset
<1>4. f \in Injection(R, I) /\ f \in Surjection(R, I) BY DEF Unique, Injection, Surjection, IsInjective
<1>5. QED BY <1>3, <1>4, FS_Injection

(* S is R, with other origins and pins, less the row of backup i. *)
Drops(R, S, i) ==
    /\ S \in SUBSET Rows /\ Unique(S)
    /\ \A o \in S : o.id # i /\ \E r \in R : r.id = o.id /\ r.sha = o.sha
    /\ \A r \in R : r.id = i \/ \E o \in S : o.id = r.id /\ o.sha = r.sha

LEMMA DroppedRow ==
    ASSUME NEW R \in SUBSET Rows, Unique(R), NEW i
    PROVE  /\ Drops(R, {r \in R : r.id # i}, i)
           /\ Drops(R, R, 0)
<1>1. 0 \notin Ids BY DEF Ids
<1>2. QED BY <1>1 DEF Drops, Unique, Rows

LEMMA DropAfterChange ==
    ASSUME NEW R \in SUBSET Rows, NEW S, Drops(R, S, 0), NEW i
    PROVE  Drops(R, {r \in S : r.id # i}, i)
<1>1. 0 \notin Ids BY DEF Ids
<1>2. QED BY <1>1 DEF Drops, Unique, Rows

(* Changing the pin or the origin of some rows drops none. *)
LEMMA ChangedRows ==
    ASSUME NEW R \in SUBSET Rows, Unique(R), NEW M \in SUBSET R, NEW N \in SUBSET Rows,
           \A o \in N : \E r \in M : o.id = r.id /\ o.sha = r.sha,
           \A r \in M : \E o \in N : o.id = r.id /\ o.sha = r.sha,
           \A o \in N, p \in N : o.id = p.id => o = p
    PROVE  Drops(R, (R \ M) \cup N, 0)
<1> DEFINE S == (R \ M) \cup N
<1>1. 0 \notin Ids BY DEF Ids
<1>2. S \in SUBSET Rows OBVIOUS
<1>3. Unique(S)
  <2>1. SUFFICES ASSUME NEW o \in S, NEW p \in S, o.id = p.id PROVE o = p BY DEF Unique
  <2>2. \A q \in R \ M, n \in N : q.id # n.id BY DEF Unique
  <2>3. QED BY <2>1, <2>2 DEF Unique
<1>4. \A o \in S : o.id # 0 BY <1>1, <1>2 DEF Rows
<1>5. \A o \in S : \E r \in R : r.id = o.id /\ r.sha = o.sha OBVIOUS
<1>6. \A r \in R : \E o \in S : o.id = r.id /\ o.sha = r.sha
  <2>1. SUFFICES ASSUME NEW r \in R PROVE \E o \in S : o.id = r.id /\ o.sha = r.sha OBVIOUS
  <2>2. CASE r \in M BY <2>2
  <2>3. CASE r \notin M BY <2>3
  <2>4. QED BY <2>2, <2>3
<1> HIDE DEF S
<1>7. Drops(R, S, 0) BY <1>2, <1>3, <1>4, <1>5, <1>6 DEF Drops
<1>8. QED BY <1>7 DEF S

(* The newest row stays the newest when another one goes. *)
LEMMA NewestStays ==
    ASSUME NEW R \in SUBSET Rows, NEW S, NEW i \in Int, Drops(R, S, i)
    PROVE  /\ \A r \in NewestOf(R) : r.id = i \/ \E o \in NewestOf(S) : o.id = r.id /\ o.sha = r.sha
           /\ (\E r \in R : r.id > i) => \A o \in NewestOf(S) : \E r \in NewestOf(R) : r.id = o.id
<1>1. \A r \in R : r.id \in Int BY DEF Rows, Ids
<1>2. \A o \in S : o.id \in Int BY DEF Rows, Ids, Drops
<1>3. ASSUME NEW r \in NewestOf(R), r.id # i
      PROVE  \E o \in NewestOf(S) : o.id = r.id /\ o.sha = r.sha
  <2>1. PICK o \in S : o.id = r.id /\ o.sha = r.sha BY <1>3 DEF Drops, NewestOf
  <2>2. \A p \in S : p.id <= o.id BY <2>1, <1>3 DEF Drops, NewestOf
  <2>3. QED BY <2>1, <2>2 DEF NewestOf
<1>4. ASSUME NEW b \in R, b.id > i, NEW o \in NewestOf(S) PROVE \E r \in NewestOf(R) : r.id = o.id
  <2>1. PICK r \in R : r.id = o.id BY <1>4 DEF Drops, NewestOf
  <2>2. \A p \in R : p.id = i \/ p.id <= o.id BY <1>4 DEF Drops, NewestOf
  <2>3. b.id <= o.id BY <2>2, <1>4, <1>1
  <2>4. \A p \in R : p.id <= r.id BY <2>1, <2>2, <2>3, <1>4, <1>1
  <2>5. QED BY <2>1, <2>4 DEF NewestOf
<1>5. QED BY <1>3, <1>4

-----------------------------------------------------------------------------
(* Prunes.                                                                   *)

(* A pinned backup is no excess, nor is the newest of all. *)
LEMMA ExcessIsOldAndUnpinned ==
    ASSUME NEW R \in SUBSET Rows, NEW origin, NEW k \in Nat, k # 0, NEW i \in Excess(R, origin, k)
    PROVE  \E r \in R : r.id = i /\ ~r.pinned /\ \E o \in R : o.id > i
<1> DEFINE unpinned == {r \in R : r.origin = origin /\ ~r.pinned}
           newer(r) == {o \in unpinned : o.id > r.id}
<1>1. PICK r \in unpinned : Cardinality(newer(r)) >= k /\ r.id = i BY DEF Excess
<1>2. newer(r) # {}
  <2>1. SUFFICES ASSUME newer(r) = {} PROVE FALSE OBVIOUS
  <2>2. Cardinality(newer(r)) = 0 BY <2>1, FS_EmptySet
  <2>3. QED BY <2>2, <1>1
<1>3. QED BY <1>1, <1>2

(* A prune goes on with its list; only once that is empty it draws up another. *)
LEMMA AdvancedGoesOn ==
    ASSUME NEW R \in SUBSET Rows, NEW p \in APrune, keep \in Nat
    PROVE  /\ Advanced(R, p) \in APrune
           /\ Advanced(R, p).file = p.file
           /\ p.phase # "none" => Advanced(R, p).phase # "none"
           /\ p.left # {} => Advanced(R, p).left = p.left
           /\ p.left = {} => \A i \in Advanced(R, p).left :
                \E r \in R : r.id = i /\ ~r.pinned /\ \E o \in R : o.id > i
<1> DEFINE k == IF p.phase = "start" THEN keep ELSE p.keep
           list(origin) == IF k = 0 THEN {} ELSE Excess(R, origin, k)
           next(origin) == [p EXCEPT !.phase = origin, !.keep = k, !.left = list(origin)]
<1>1. k \in Nat BY DEF APrune
<1>2. ASSUME NEW origin \in Origins
      PROVE  /\ list(origin) \in SUBSET Ids
             /\ \A i \in list(origin) : \E r \in R : r.id = i /\ ~r.pinned /\ \E o \in R : o.id > i
  <2>1. CASE k = 0 BY <2>1
  <2>2. CASE k # 0
    <3>1. list(origin) = Excess(R, origin, k) BY <2>2
    <3>2. \A i \in list(origin) : \E r \in R : r.id = i /\ ~r.pinned /\ \E o \in R : o.id > i
      BY <1>1, <2>2, <3>1, ExcessIsOldAndUnpinned
    <3>3. QED BY <3>2 DEF Rows
  <2>3. QED BY <2>1, <2>2
<1> HIDE DEF k, list
<1>3. ASSUME NEW origin \in Origins
      PROVE  next(origin) \in APrune /\ next(origin).file = p.file /\ next(origin).phase = origin
             /\ next(origin).left = list(origin)
  BY <1>1, <1>2, <1>3 DEF APrune, Origins
<1>4. "manual" \in Origins /\ "pre-restore" \in Origins BY DEF Origins
<1> HIDE DEF next
<1>5. \/ Advanced(R, p) = p /\ (p.left # {} \/ p.phase = "pre-restore")
      \/ p.left = {} /\ Advanced(R, p) = next("manual")
      \/ p.left = {} /\ Advanced(R, p) = next("pre-restore")
  BY DEF Advanced, next, list, k
<1>6. QED BY <1>2, <1>3, <1>4, <1>5

(* Worker w deletes row i of rows R and goes on with p. *)
PrunesOne(w, R, i, p) ==
    /\ i \in Ids /\ p \in APrune /\ p.file = i /\ p.phase # "none"
    /\ \/ p.left \cup {i} \subseteq prune[w].left
       \/ \A j \in p.left \cup {i} : \E r \in R : r.id = j /\ ~r.pinned /\ \E o \in R : o.id > j
    /\ rows' = {r \in R : r.id # i} /\ Drops(rows, rows', i)
    /\ prune' = [prune EXCEPT ![w] = p]
    /\ Strayed(i, {})
    /\ deleted' = deleted \cup Outdated(i)
    /\ overtaken' = (overtaken \/ (w \in Uploads /\ upload[w].given))

PruneEnds(w, R) ==
    /\ rows' = R /\ Drops(rows, rows', 0)
    /\ prune' = [prune EXCEPT ![w] = NoPrune]
    /\ UNCHANGED <<deleted, stray, overtaken>>

LEMMA PruneFromDoes ==
    ASSUME rows \in SUBSET Rows, keep \in Nat, NEW w \in Workers, NEW R, Drops(rows, R, 0),
           NEW start \in APrune, start.phase # "none",
           start.left \subseteq prune[w].left, PruneFrom(w, R, start)
    PROVE  PruneEnds(w, R) \/ \E i, p : PrunesOne(w, R, i, p)
<1> DEFINE a == Advanced(R, start)
           i == Max(a.left)
           p == [a EXCEPT !.left = @ \ {i}, !.file = i]
<1>1. R \in SUBSET Rows BY DEF Drops
<1>2. a \in APrune /\ a.phase # "none"
      /\ \/ a.left \subseteq prune[w].left
         \/ \A j \in a.left : \E r \in R : r.id = j /\ ~r.pinned /\ \E o \in R : o.id > j
  BY <1>1, AdvancedGoesOn
<1>3. CASE a.left = {} BY <1>3 DEF PruneFrom, PruneEnds
<1>4. CASE a.left # {}
  <2>1. rows' = {r \in R : r.id # i} /\ Strayed(i, {}) /\ deleted' = deleted \cup Outdated(i)
        /\ prune' = [prune EXCEPT ![w] = p]
        /\ overtaken' = (overtaken \/ (w \in Uploads /\ upload[w].given))
    BY <1>4 DEF PruneFrom
  <2> HIDE DEF a
  <2>2. i \in a.left BY <1>2, <1>4, GreatestIsListed DEF APrune
  <2>3. i \in Ids /\ i \in 0..MaxIds BY <1>2, <2>2, SaveBackupsAssumption DEF APrune, Ids
  <2> HIDE DEF i
  <2>4. p \in APrune /\ p.file = i /\ p.phase = a.phase /\ p.left = a.left \ {i} BY <1>2, <2>3 DEF APrune
  <2>5. \A j \in p.left \cup {i} : j \in a.left BY <2>2, <2>4
  <2>6. Drops(rows, rows', i) BY <2>1, DropAfterChange
  <2> HIDE DEF p
  <2>7. PrunesOne(w, R, i, p) BY <1>2, <2>1, <2>3, <2>4, <2>5, <2>6 DEF PrunesOne
  <2>8. QED BY <2>7
<1>5. QED BY <1>3, <1>4

-----------------------------------------------------------------------------
(* Rows and archives.                                                        *)

ToPlace == {"exists", "place", "putBack"}

(* A row goes, or none: whoever was about to place its archive is named, and the
   archive that is there is somebody's to remove, or is named. *)
RowGoesFor(i) ==
    /\ Drops(rows, rows', i) /\ UNCHANGED <<files, lastId, lost>> /\ stray \subseteq stray'
    /\ \A v \in Uploads :
          /\ upload'[v].id = upload[v].id /\ upload'[v].sha = upload[v].sha
          /\ \/ upload'[v].pc = upload[v].pc
             \/ upload'[v].pc = "failed" /\ (upload[v].pc \in ToPlace => upload[v].id = i)
             \/ upload'[v].pc = "finish" /\ upload[v].pc = "promote"
          /\ upload'[v].pc \in ToPlace /\ upload[v].id = i => i \in stray'
    /\ \A w \in Workers :
          /\ prune'[w].file \in {prune[w].file, i} /\ (prune[w].file # 0 => prune'[w].file = prune[w].file)
          /\ \A j \in prune'[w].left : j <= lastId
    /\ removing \subseteq removing' /\ removing' \subseteq removing \cup {i}
    /\ i # 0 /\ files[i] # Nothing => i \in removing' \cup stray' \/ \E w \in Workers : prune'[w].file = i
    /\ PrunesStartFresh'

LEMMA RowGoes ==
    ASSUME Shapes, DiskInv, NEW i \in 0..MaxIds, i <= lastId, RowGoesFor(i)
    PROVE  DiskInv'
<1> USE DEF RowGoesFor
<1>1. IdsAreUsedOnce /\ UploadsKnowTheirRow /\ RemovedHaveNoRow /\ NoForeignBytes
      /\ RowsHaveArchives /\ ArchivesHaveRows
  BY DEF DiskInv
<1>2. \A o \in rows' : o.id # i /\ \E r \in rows : r.id = o.id /\ r.sha = o.sha BY DEF Drops
<1>3. \A r \in rows : r.id = i \/ \E o \in rows' : o.id = r.id /\ o.sha = r.sha BY DEF Drops
<1>4. RowIds' \subseteq RowIds /\ i \notin RowIds' /\ \A j \in RowIds : j = i \/ j \in RowIds'
  BY <1>2, <1>3 DEF RowIds
<1>5. IdsAreUsedOnce'
  <2>1. Unique(rows') BY DEF Drops
  <2>2. \A r \in rows' : r.id <= lastId BY <1>1, <1>2 DEF IdsAreUsedOnce
  <2>3. \A j \in Ids : j > lastId => files[j] = Nothing BY <1>1 DEF IdsAreUsedOnce
  <2>4. \A u \in Uploads : upload'[u].id <= lastId BY <1>1 DEF IdsAreUsedOnce
  <2>5. \A w \in Workers : prune'[w].file <= lastId /\ \A j \in prune'[w].left : j <= lastId
    BY <1>1 DEF IdsAreUsedOnce
  <2>6. \A j \in removing' : j <= lastId BY <1>1 DEF IdsAreUsedOnce
  <2>7. QED BY <2>1, <2>2, <2>3, <2>4, <2>5, <2>6 DEF IdsAreUsedOnce
<1>6. UploadsKnowTheirRow'
  <2>1. \A u \in Uploads : upload'[u].pc = "received" => upload'[u].sha \in Shas
    BY <1>1 DEF UploadsKnowTheirRow
  <2>2. ASSUME NEW u \in Uploads, upload'[u].pc \in Decided
        PROVE  /\ upload'[u].id # 0 /\ upload'[u].sha \in Shas
               /\ \A r \in rows' : r.id = upload'[u].id => r.sha = upload'[u].sha
    <3>1. upload[u].pc \in Decided BY <2>2 DEF Decided
    <3>2. QED BY <1>1, <1>2, <3>1 DEF UploadsKnowTheirRow
  <2>3. ASSUME NEW u \in Uploads, upload'[u].pc \in ToPlace PROVE upload'[u].id \in RowIds' \cup stray'
    <3>1. upload[u].pc \in ToPlace BY <2>3 DEF ToPlace
    <3>2. upload[u].id \in RowIds \cup stray BY <1>1, <3>1 DEF UploadsKnowTheirRow, ToPlace
    <3>3. QED BY <1>4, <2>3, <3>2
  <2>4. QED BY <2>1, <2>2, <2>3 DEF UploadsKnowTheirRow, ToPlace
<1>7. RemovedHaveNoRow'
  <2>1. \A w \in Workers : prune'[w].file \notin RowIds' BY <1>1, <1>4 DEF RemovedHaveNoRow
  <2>2. \A j \in removing' : j \notin RowIds' BY <1>1, <1>4 DEF RemovedHaveNoRow
  <2>3. QED BY <2>1, <2>2 DEF RemovedHaveNoRow
<1>8. NoForeignBytes' BY <1>1, <1>2 DEF NoForeignBytes
<1>9. RowsHaveArchives'
  <2>1. ASSUME NEW j, Placing(j), j # i PROVE Placing(j)' BY <2>1 DEF Placing, ToPlace
  <2>2. \A o \in rows' : files'[o.id] = o.sha \/ Placing(o.id) \/ o.id \in lost'
    BY <1>1, <1>2 DEF RowsHaveArchives
  <2>3. QED BY <1>2, <2>1, <2>2 DEF RowsHaveArchives
<1>10. ArchivesHaveRows'
  <2>1. ASSUME NEW j \in Ids, files[j] # Nothing
        PROVE  j \in RowIds' \cup removing' \cup stray' \/ Pruning(j)'
    <3>1. j # 0 BY DEF Ids
    <3>2. CASE j = i BY <2>1, <3>1, <3>2 DEF Pruning
    <3>3. CASE j # i
      <4>1. j \in RowIds \cup removing \cup stray \/ Pruning(j) BY <1>1, <2>1 DEF ArchivesHaveRows
      <4>2. Pruning(j) => Pruning(j)' BY <3>1 DEF Pruning
      <4>3. QED BY <1>4, <3>3, <4>1, <4>2
    <3>4. QED BY <3>2, <3>3
  <2>2. QED BY <2>1 DEF ArchivesHaveRows
<1>11. QED BY <1>5, <1>6, <1>7, <1>8, <1>9, <1>10 DEF DiskInv

LEMMA StrayGrows == ASSUME NEW i, NEW S, Strayed(i, S) PROVE stray \subseteq stray'
BY DEF Strayed

(* One turn of a prune, by itself or in the step that begins it. *)
LEMMA PruneKeepsDisk ==
    ASSUME Shapes, DiskInv, NEW w \in Workers, NEW R, Drops(rows, R, 0), prune[w].file = 0,
           PruneEnds(w, R) \/ \E i, p : PrunesOne(w, R, i, p),
           UNCHANGED <<files, lastId, lost, removing>>,
           \A v \in Uploads :
              /\ upload'[v].id = upload[v].id /\ upload'[v].sha = upload[v].sha
              /\ upload'[v].pc = upload[v].pc \/ (upload'[v].pc = "finish" /\ upload[v].pc = "promote"),
           w \in Uploads => upload'[w].pc = "finish"
    PROVE  DiskInv'
<1>1. prune \in [Workers -> APrune] /\ lastId \in 0..MaxIds BY DEF Shapes
<1>2. IdsAreUsedOnce /\ PrunesStartFresh BY DEF DiskInv
<1>3. NoPrune.phase = "none" /\ NoPrune.file = 0 /\ NoPrune.left = {} BY DEF NoPrune
<1>4. CASE PruneEnds(w, R)
  <2>1. \A v \in Workers : prune'[v] = IF v = w THEN NoPrune ELSE prune[v] BY <1>1, <1>4 DEF PruneEnds
  <2>2. PrunesStartFresh' BY <1>2, <2>1 DEF PrunesStartFresh, Workers
  <2>3. \A v \in Workers : /\ prune'[v].file = prune[v].file
                           /\ \A j \in prune'[v].left : j <= lastId
    BY <1>2, <1>3, <2>1 DEF IdsAreUsedOnce
  <2>4. RowGoesFor(0)
    <3>1. \A v \in Uploads : upload[v].id = 0 => upload[v].pc \notin ToPlace
      BY DEF DiskInv, UploadsKnowTheirRow, ToPlace, Decided
    <3>2. \A v \in Uploads : upload'[v].pc \in ToPlace => upload[v].pc \in ToPlace BY DEF ToPlace
    <3>3. UNCHANGED stray /\ Drops(rows, rows', 0) BY <1>4 DEF PruneEnds
    <3>4. QED BY <2>2, <2>3, <3>1, <3>2, <3>3 DEF RowGoesFor
  <2>5. 0 <= lastId /\ 0 \in 0..MaxIds BY <1>1, SaveBackupsAssumption
  <2>6. QED BY <2>4, <2>5, RowGoes
<1>5. CASE \E i, p : PrunesOne(w, R, i, p)
  <2>1. PICK i, p : PrunesOne(w, R, i, p) BY <1>5
  <2>2. i \in Ids /\ p \in APrune /\ p.file = i /\ p.phase # "none" /\ Drops(rows, rows', i) BY <2>1 DEF PrunesOne
  <2>3. \A v \in Workers : prune'[v] = IF v = w THEN p ELSE prune[v] BY <1>1, <2>1 DEF PrunesOne
  <2>4. \A r \in R : r.id <= lastId BY <1>2 DEF IdsAreUsedOnce, Drops
  <2>5. \A j \in p.left \cup {i} : j <= lastId BY <1>2, <2>1, <2>4 DEF IdsAreUsedOnce, PrunesOne
  <2>6. PrunesStartFresh' BY <1>2, <2>2, <2>3 DEF PrunesStartFresh, Workers
  <2>7. RowGoesFor(i)
    <3>1. stray \subseteq stray' BY <2>1, StrayGrows DEF PrunesOne
    <3>2. \A v \in Uploads : upload'[v].pc \in ToPlace => upload[v].pc \in ToPlace BY DEF ToPlace
    <3>3. \A v \in Uploads : upload[v].pc \in ToPlace /\ upload[v].id = i => i \in stray'
      BY <2>1 DEF PrunesOne, Strayed, ToPlace
    <3>4. prune'[w].file = i BY <2>2, <2>3
    <3>5. \A v \in Workers : /\ prune'[v].file \in {prune[v].file, i}
                             /\ prune[v].file # 0 => prune'[v].file = prune[v].file
                             /\ \A j \in prune'[v].left : j <= lastId
      BY <1>2, <2>2, <2>3, <2>5 DEF IdsAreUsedOnce
    <3>6. QED BY <2>2, <2>6, <3>1, <3>2, <3>3, <3>4, <3>5 DEF RowGoesFor
  <2>8. i <= lastId /\ i \in 0..MaxIds BY <2>2, <2>5, SaveBackupsAssumption DEF Ids
  <2>9. QED BY <2>7, <2>8, RowGoes
<1>6. QED BY <1>4, <1>5

LEMMA PruneRowFacts ==
    ASSUME Shapes, DiskInv, NEW w \in Workers, PruneRow(w)
    PROVE  PruneEnds(w, rows) \/ \E i, p : PrunesOne(w, rows, i, p)
<1>1. rows \in SUBSET Rows /\ keep \in Nat /\ prune[w] \in APrune
  BY SaveBackupsAssumption DEF Shapes
<1>2. Drops(rows, rows, 0) BY <1>1, DroppedRow DEF DiskInv, IdsAreUsedOnce
<1>3. prune[w].phase # "none" /\ PruneFrom(w, rows, prune[w]) BY DEF PruneRow
<1>4. QED BY <1>1, <1>2, <1>3, PruneFromDoes

LEMMA PruneRowDisk == ASSUME Shapes, DiskInv, NEW w \in Workers, PruneRow(w) PROVE DiskInv'
<1>1. PruneEnds(w, rows) \/ \E i, p : PrunesOne(w, rows, i, p) BY PruneRowFacts
<1>2. rows \in SUBSET Rows BY DEF Shapes
<1>3. Drops(rows, rows, 0) BY <1>2, DroppedRow DEF DiskInv, IdsAreUsedOnce
<1>4. UNCHANGED <<files, lastId, lost, removing, upload>> /\ prune[w].file = 0 /\ prune[w].phase # "none"
  BY DEF PruneRow
<1>5. w \in Uploads => upload[w].pc = "finish" BY <1>4 DEF DiskInv, PrunesStartFresh, NoPrune
<1>6. QED BY <1>1, <1>3, <1>4, <1>5, PruneKeepsDisk

(* A row that becomes manual stays the row it is. *)
Mine(u) == {r \in rows : r.id = upload[u].id /\ r.origin = "pre-restore"}
Promoted(u) == (rows \ Mine(u)) \cup {[r EXCEPT !.origin = "manual"] : r \in Mine(u)}

LEMMA PromotedRows ==
    ASSUME Shapes, DiskInv, NEW u
    PROVE  Drops(rows, Promoted(u), 0)
<1> DEFINE manual(r) == [r EXCEPT !.origin = "manual"]
           N == {manual(r) : r \in Mine(u)}
<1>1. rows \in SUBSET Rows /\ Unique(rows) BY DEF Shapes, DiskInv, IdsAreUsedOnce
<1>2. Mine(u) \in SUBSET rows BY DEF Mine
<1>3. \A r \in Rows : manual(r) \in Rows /\ manual(r).id = r.id /\ manual(r).sha = r.sha BY DEF Rows, Origins
<1> HIDE DEF manual
<1>4. N \in SUBSET Rows BY <1>1, <1>2, <1>3
<1>5. \A o \in N : \E r \in Mine(u) : o.id = r.id /\ o.sha = r.sha BY <1>1, <1>2, <1>3
<1>6. \A r \in Mine(u) : \E o \in N : o.id = r.id /\ o.sha = r.sha BY <1>1, <1>2, <1>3
<1>7. \A o \in N, p \in N : o.id = p.id => o = p
  <2>1. \A r \in Mine(u), q \in Mine(u) : r.id = q.id => r = q BY <1>1, <1>2 DEF Unique
  <2>2. QED BY <2>1, <1>1, <1>2, <1>3
<1> HIDE DEF N
<1>8. Drops(rows, (rows \ Mine(u)) \cup N, 0) BY <1>1, <1>2, <1>4, <1>5, <1>6, <1>7, ChangedRows
<1>9. QED BY <1>8 DEF Promoted, N, manual

LEMMA PromoteFacts ==
    ASSUME Shapes, DiskInv, NEW u \in Uploads, Promote(u)
    PROVE  \/ rows' = rows /\ UNCHANGED <<prune, deleted, stray, overtaken>>
           \/ PruneEnds(u, Promoted(u))
           \/ \E i, p : PrunesOne(u, Promoted(u), i, p)
<1>1. rows \in SUBSET Rows /\ keep \in Nat /\ prune[u] \in APrune
  BY SaveBackupsAssumption DEF Shapes, Workers
<1>2. Drops(rows, Promoted(u), 0) BY PromotedRows
<1>3. Start \in APrune /\ Start.phase # "none" /\ Start.left = {} BY SaveBackupsAssumption DEF Start, APrune
<1>4. \/ rows' = rows /\ UNCHANGED <<prune, deleted, stray, overtaken>>
      \/ PruneFrom(u, Promoted(u), Start)
  BY DEF Promote, Promoted, Mine
<1>5. u \in Workers BY DEF Workers
<1>6. QED BY <1>1, <1>2, <1>3, <1>4, <1>5, PruneFromDoes

LEMMA UploadIsTyped ==
    ASSUME Shapes, NEW u \in Uploads
    PROVE  /\ upload[u] \in AnUpload /\ upload \in [Uploads -> AnUpload]
           /\ upload[u].pc \in UploadPcs /\ upload[u].sha \in Shas \cup {Nothing} /\ upload[u].id \in 0..MaxIds
BY DEF Shapes, AnUpload

(* What Goes(u, p) does to each upload. *)
LEMMA GoesTo ==
    ASSUME Shapes, NEW u \in Uploads, NEW p, Goes(u, p)
    PROVE  \A v \in Uploads :
              /\ upload'[v].id = upload[v].id /\ upload'[v].sha = upload[v].sha
              /\ upload'[v].given = upload[v].given /\ upload'[v].origin = upload[v].origin
              /\ upload'[v].pc = IF v = u THEN p ELSE upload[v].pc
<1>1. upload \in [Uploads -> AnUpload] BY DEF Shapes
<1>2. ASSUME NEW v \in Uploads PROVE upload'[v] = IF v = u THEN [upload[v] EXCEPT !.pc = p] ELSE upload[v]
  BY <1>1 DEF Goes
<1>3. ASSUME NEW v \in Uploads
      PROVE  [upload[v] EXCEPT !.pc = p].pc = p /\ [upload[v] EXCEPT !.pc = p].id = upload[v].id
             /\ [upload[v] EXCEPT !.pc = p].sha = upload[v].sha
             /\ [upload[v] EXCEPT !.pc = p].given = upload[v].given
             /\ [upload[v] EXCEPT !.pc = p].origin = upload[v].origin
  <2>1. upload[v] \in AnUpload BY <1>1
  <2>2. QED BY <2>1 DEF AnUpload
<1>4. QED BY <1>2, <1>3

(* An upload that is moved on, begun or given up, while rows and archives rest. *)
UploadMovesTo(u, x) ==
    /\ UNCHANGED <<rows, files, lastId, prune, removing, stray>> /\ lost \subseteq lost'
    /\ \A v \in Uploads \ {u} : upload'[v] = upload[v]
    /\ upload'[u] = x /\ x \in AnUpload
    /\ x.id <= lastId
    /\ x.pc = "received" => x.sha \in Shas
    /\ x.pc \in Decided => upload[u].pc \in Decided /\ x.id = upload[u].id /\ x.sha = upload[u].sha
    /\ x.pc \in ToPlace => upload[u].pc \in ToPlace
    /\ upload[u].pc \in ToPlace /\ x.pc \notin ToPlace =>
          files[upload[u].id] # Nothing \/ upload[u].id \in lost'
    /\ x.pc # "finish" => prune[u] = NoPrune

LEMMA UploadMoves ==
    ASSUME Shapes, DiskInv, NEW u \in Uploads, NEW x,
           UploadMovesTo(u, x)
    PROVE  DiskInv'
<1> USE DEF UploadMovesTo
<1>1. IdsAreUsedOnce /\ UploadsKnowTheirRow /\ RemovedHaveNoRow /\ PrunesStartFresh /\ NoForeignBytes
      /\ RowsHaveArchives /\ ArchivesHaveRows
  BY DEF DiskInv
<1>2. RowIds' = RowIds BY DEF RowIds
<1>3. IdsAreUsedOnce'
  <2>1. \A v \in Uploads : upload'[v].id <= lastId BY <1>1 DEF IdsAreUsedOnce
  <2>2. QED BY <1>1, <2>1 DEF IdsAreUsedOnce
<1>4. UploadsKnowTheirRow'
  <2>1. \A v \in Uploads : upload'[v].pc = "received" => upload'[v].sha \in Shas
    BY <1>1 DEF UploadsKnowTheirRow
  <2>2. ASSUME NEW v \in Uploads, upload'[v].pc \in Decided
        PROVE  /\ upload'[v].id # 0 /\ upload'[v].sha \in Shas
               /\ \A r \in rows : r.id = upload'[v].id => r.sha = upload'[v].sha
    <3>1. upload[v].pc \in Decided /\ upload'[v].id = upload[v].id /\ upload'[v].sha = upload[v].sha BY <2>2
    <3>2. QED BY <1>1, <3>1 DEF UploadsKnowTheirRow
  <2>3. ASSUME NEW v \in Uploads, upload'[v].pc \in ToPlace PROVE upload'[v].id \in RowIds \cup stray
    <3>1. upload'[v].pc \in Decided BY <2>3 DEF ToPlace, Decided
    <3>2. upload[v].pc \in ToPlace /\ upload'[v].id = upload[v].id BY <2>3, <3>1
    <3>3. QED BY <1>1, <3>2 DEF UploadsKnowTheirRow, ToPlace
  <2>4. QED BY <1>2, <2>1, <2>2, <2>3 DEF UploadsKnowTheirRow, ToPlace
<1>5. RemovedHaveNoRow' BY <1>1, <1>2 DEF RemovedHaveNoRow
<1>6. PrunesStartFresh'
  <2>1. \A v \in Uploads : upload'[v].pc # "finish" => prune[v] = NoPrune BY <1>1 DEF PrunesStartFresh
  <2>2. QED BY <1>1, <2>1 DEF PrunesStartFresh
<1>7. NoForeignBytes' BY <1>1 DEF NoForeignBytes
<1>8. RowsHaveArchives'
  <2>1. ASSUME NEW r \in rows PROVE files[r.id] = r.sha \/ Placing(r.id)' \/ r.id \in lost'
    <3>1. files[r.id] \in {Nothing, r.sha} BY <1>1 DEF NoForeignBytes
    <3>2. CASE files[r.id] = r.sha BY <3>2
    <3>3. CASE r.id \in lost BY <3>3
    <3>4. CASE files[r.id] = Nothing /\ Placing(r.id)
      <4>1. PICK v \in Uploads : upload[v].id = r.id /\ upload[v].pc \in ToPlace BY <3>4 DEF Placing, ToPlace
      <4>2. CASE v # u BY <4>1, <4>2 DEF Placing, ToPlace
      <4>3. CASE v = u /\ r.id \notin lost'
        <5>1. x.pc \in ToPlace BY <3>4, <4>1, <4>3
        <5>2. x.id = r.id BY <4>1, <4>3, <5>1 DEF ToPlace, Decided
        <5>3. QED BY <5>1, <5>2 DEF Placing, ToPlace
      <4>4. QED BY <4>2, <4>3
    <3>5. QED BY <1>1, <3>1, <3>2, <3>3, <3>4 DEF RowsHaveArchives
  <2>2. QED BY <2>1 DEF RowsHaveArchives
<1>9. ArchivesHaveRows' BY <1>1, <1>2 DEF ArchivesHaveRows, Pruning
<1>10. QED BY <1>3, <1>4, <1>5, <1>6, <1>7, <1>8, <1>9 DEF DiskInv

(* An archive goes that belongs to no row, or is named as lost. *)
ArchiveGoesFor(i) ==
    /\ UNCHANGED <<rows, lastId, upload, stray>>
    /\ files' = [files EXCEPT ![i] = Nothing] /\ (i \in RowIds => i \in lost') /\ lost \subseteq lost'
    /\ removing' \subseteq removing /\ \A j \in removing : j = i \/ j \in removing'
    /\ \A w \in Workers :
          /\ prune'[w].left = prune[w].left /\ prune'[w].file \in {prune[w].file, 0}
          /\ prune'[w].file = prune[w].file \/ prune[w].file = i
    /\ PrunesStartFresh'

LEMMA ArchiveGoes ==
    ASSUME Shapes, DiskInv, NEW i \in Ids, ArchiveGoesFor(i)
    PROVE  DiskInv'
<1> USE DEF ArchiveGoesFor
<1>1. IdsAreUsedOnce /\ UploadsKnowTheirRow /\ RemovedHaveNoRow /\ NoForeignBytes
      /\ RowsHaveArchives /\ ArchivesHaveRows
  BY DEF DiskInv
<1>2. RowIds' = RowIds BY DEF RowIds
<1>3. files \in [Ids -> Shas \cup {Nothing}] /\ lastId \in 0..MaxIds /\ rows \in SUBSET Rows BY DEF Shapes
<1>4. \A j \in Ids : files'[j] = IF j = i THEN Nothing ELSE files[j] BY <1>3
<1>5. \A r \in rows : r.id \in Ids BY <1>3 DEF Rows
<1>6. IdsAreUsedOnce'
  <2>1. \A j \in Ids : j > lastId => files'[j] = Nothing BY <1>1, <1>4 DEF IdsAreUsedOnce
  <2>2. \A w \in Workers : prune'[w].file <= lastId /\ \A j \in prune'[w].left : j <= lastId
    BY <1>1, <1>3, SaveBackupsAssumption DEF IdsAreUsedOnce
  <2>3. \A j \in removing' : j <= lastId BY <1>1 DEF IdsAreUsedOnce
  <2>4. QED BY <1>1, <2>1, <2>2, <2>3 DEF IdsAreUsedOnce
<1>7. UploadsKnowTheirRow' BY <1>1, <1>2 DEF UploadsKnowTheirRow
<1>8. RemovedHaveNoRow'
  <2>1. 0 \notin RowIds BY <1>5 DEF RowIds, Ids
  <2>2. \A w \in Workers : prune'[w].file \notin RowIds BY <1>1, <2>1 DEF RemovedHaveNoRow
  <2>3. \A j \in removing' : j \notin RowIds BY <1>1 DEF RemovedHaveNoRow
  <2>4. QED BY <1>2, <2>2, <2>3 DEF RemovedHaveNoRow
<1>9. NoForeignBytes' BY <1>1, <1>4, <1>5 DEF NoForeignBytes
<1>10. RowsHaveArchives'
  <2>1. ASSUME NEW r \in rows PROVE files'[r.id] = r.sha \/ Placing(r.id) \/ r.id \in lost'
    <3>1. CASE r.id = i BY <3>1 DEF RowIds
    <3>2. CASE r.id # i BY <1>1, <1>4, <1>5, <3>2 DEF RowsHaveArchives
    <3>3. QED BY <3>1, <3>2
  <2>2. QED BY <2>1 DEF RowsHaveArchives, Placing
<1>11. ArchivesHaveRows'
  <2>1. ASSUME NEW j \in Ids, files'[j] # Nothing
        PROVE  j \in RowIds \cup removing' \cup stray \/ Pruning(j)'
    <3>1. j # i /\ files[j] # Nothing BY <1>4, <2>1
    <3>2. j \in RowIds \cup removing \cup stray \/ Pruning(j) BY <1>1, <2>1, <3>1 DEF ArchivesHaveRows
    <3>3. Pruning(j) => Pruning(j)' BY <3>1 DEF Pruning
    <3>4. QED BY <3>1, <3>2, <3>3
  <2>2. QED BY <1>2, <2>1 DEF ArchivesHaveRows
<1>12. QED BY <1>6, <1>7, <1>8, <1>9, <1>10, <1>11 DEF DiskInv

(* An upload's archive comes into place, whether or not its row is still there. *)
ArchiveComesFor(u) ==
    /\ UNCHANGED <<rows, lastId, removing, lost, stray>>
    /\ upload[u].pc \in {"place", "putBack"}
    /\ files' = [files EXCEPT ![upload[u].id] = upload[u].sha]
    /\ \A v \in Uploads :
          /\ upload'[v].id = upload[v].id /\ upload'[v].sha = upload[v].sha
          /\ v # u => upload'[v].pc = upload[v].pc
    /\ upload'[u].pc \in {"promote", "finish"}
    /\ \A w \in Workers : prune'[w].file = prune[w].file /\ prune'[w].left = prune[w].left
    /\ PrunesStartFresh'

LEMMA ArchiveComes ==
    ASSUME Shapes, DiskInv, NEW u \in Uploads, ArchiveComesFor(u)
    PROVE  DiskInv'
<1> USE DEF ArchiveComesFor
<1> DEFINE i == upload[u].id
           sha == upload[u].sha
<1>1. IdsAreUsedOnce /\ UploadsKnowTheirRow /\ RemovedHaveNoRow /\ NoForeignBytes
      /\ RowsHaveArchives /\ ArchivesHaveRows
  BY DEF DiskInv
<1>2. RowIds' = RowIds BY DEF RowIds
<1>3. files \in [Ids -> Shas \cup {Nothing}] /\ lastId \in 0..MaxIds /\ rows \in SUBSET Rows BY DEF Shapes
<1>4. upload[u].pc \in Decided /\ upload[u].pc \in ToPlace BY DEF Decided, ToPlace
<1>5. i \in Ids /\ i <= lastId /\ sha \in Shas /\ (\A r \in rows : r.id = i => r.sha = sha) /\ i \in RowIds \cup stray
  <2>1. i \in 0..MaxIds BY UploadIsTyped
  <2>2. i # 0 /\ sha \in Shas /\ (\A r \in rows : r.id = i => r.sha = sha) /\ i \in RowIds \cup stray
    BY <1>1, <1>4 DEF UploadsKnowTheirRow, ToPlace
  <2>3. i <= lastId BY <1>1 DEF IdsAreUsedOnce
  <2>4. QED BY <2>1, <2>2, <2>3 DEF Ids
<1>6. files' = [files EXCEPT ![i] = sha] OBVIOUS
<1>7. ASSUME NEW v \in Uploads, upload'[v].pc \in ToPlace
      PROVE  upload[v].pc \in ToPlace /\ v # u
  BY <1>7 DEF ToPlace
<1>8. ASSUME NEW v \in Uploads, upload'[v].pc \in Decided PROVE upload[v].pc \in Decided
  BY <1>4, <1>8
<1> HIDE DEF i, sha
<1>9. \A j \in Ids : files'[j] = IF j = i THEN sha ELSE files[j] BY <1>3, <1>5, <1>6
<1>10. \A r \in rows : r.id \in Ids BY <1>3 DEF Rows
<1>11. IdsAreUsedOnce'
  <2>1. \A j \in Ids : j > lastId => files'[j] = Nothing BY <1>1, <1>3, <1>5, <1>9 DEF IdsAreUsedOnce, Ids
  <2>2. \A v \in Uploads : upload'[v].id <= lastId BY <1>1 DEF IdsAreUsedOnce
  <2>3. QED BY <1>1, <2>1, <2>2 DEF IdsAreUsedOnce
<1>12. UploadsKnowTheirRow'
  <2>1. \A v \in Uploads : upload'[v].pc = "received" => upload'[v].sha \in Shas
    BY <1>1 DEF UploadsKnowTheirRow
  <2>2. \A v \in Uploads : upload'[v].pc \in Decided =>
          /\ upload'[v].id # 0 /\ upload'[v].sha \in Shas
          /\ \A r \in rows : r.id = upload'[v].id => r.sha = upload'[v].sha
    BY <1>1, <1>8 DEF UploadsKnowTheirRow
  <2>3. \A v \in Uploads : upload'[v].pc \in ToPlace => upload'[v].id \in RowIds \cup stray
    BY <1>1, <1>7 DEF UploadsKnowTheirRow, ToPlace
  <2>4. QED BY <1>2, <2>1, <2>2, <2>3 DEF UploadsKnowTheirRow, ToPlace
<1>13. RemovedHaveNoRow' BY <1>1, <1>2 DEF RemovedHaveNoRow
<1>14. NoForeignBytes' BY <1>1, <1>5, <1>9, <1>10 DEF NoForeignBytes
<1>15. RowsHaveArchives'
  <2>1. ASSUME NEW r \in rows PROVE files'[r.id] = r.sha \/ Placing(r.id)' \/ r.id \in lost
    <3>1. CASE r.id = i BY <1>5, <1>9, <1>10, <3>1
    <3>2. CASE r.id # i
      <4>1. Placing(r.id) => Placing(r.id)' BY <3>2 DEF Placing, i
      <4>2. QED BY <1>1, <1>9, <1>10, <3>2, <4>1 DEF RowsHaveArchives
    <3>3. QED BY <3>1, <3>2
  <2>2. QED BY <2>1 DEF RowsHaveArchives
<1>16. ArchivesHaveRows'
  <2>1. ASSUME NEW j \in Ids, files'[j] # Nothing
        PROVE  j \in RowIds \cup removing \cup stray \/ Pruning(j)'
    <3>1. CASE j = i BY <1>5, <3>1
    <3>2. CASE j # i
      <4>1. Pruning(j) => Pruning(j)' BY DEF Pruning
      <4>2. QED BY <1>1, <1>9, <2>1, <3>2, <4>1 DEF ArchivesHaveRows
    <3>3. QED BY <3>1, <3>2
  <2>2. QED BY <1>2, <2>1 DEF ArchivesHaveRows
<1>17. QED BY <1>11, <1>12, <1>13, <1>14, <1>15, <1>16 DEF DiskInv

(* The actions, one by one. *)

LEMMA PromoteDisk == ASSUME Shapes, DiskInv, NEW u \in Uploads, Promote(u) PROVE DiskInv'
<1>1. Goes(u, "finish") /\ upload[u].pc = "promote" /\ UNCHANGED <<files, lastId, lost, removing>> BY DEF Promote
<1>2. \A v \in Uploads :
        /\ upload'[v].id = upload[v].id /\ upload'[v].sha = upload[v].sha
        /\ upload'[v].pc = IF v = u THEN "finish" ELSE upload[v].pc
  BY <1>1, GoesTo
<1>3. prune[u] = NoPrune BY <1>1 DEF DiskInv, PrunesStartFresh
<1>4. u \in Workers /\ prune[u].file = 0 BY <1>3 DEF Workers, NoPrune
<1>5. CASE PruneEnds(u, Promoted(u)) \/ \E i, p : PrunesOne(u, Promoted(u), i, p)
  <2>1. Drops(rows, Promoted(u), 0) BY PromotedRows
  <2>2. QED BY <1>1, <1>2, <1>4, <1>5, <2>1, PruneKeepsDisk
<1>6. CASE rows' = rows /\ UNCHANGED <<prune, deleted, stray, overtaken>>
  <2>1. UploadMovesTo(u, upload'[u])
    <3>1. upload'[u] \in AnUpload BY <1>1, UploadIsTyped DEF Goes, AnUpload, UploadPcs
    <3>2. \A v \in Uploads \ {u} : upload'[v] = upload[v] BY <1>1, UploadIsTyped DEF Goes
    <3>3. upload[u].id <= lastId BY DEF DiskInv, IdsAreUsedOnce
    <3>4. QED BY <1>1, <1>2, <1>6, <3>1, <3>2, <3>3 DEF UploadMovesTo, ToPlace, Decided
  <2>2. QED BY <2>1, UploadMoves
<1>7. QED BY <1>5, <1>6, PromoteFacts

LEMMA DeleteRowDisk == ASSUME Shapes, DiskInv, NEW r \in rows, DeleteRow(r) PROVE DiskInv'
<1>1. rows \in SUBSET Rows /\ Unique(rows) BY DEF Shapes, DiskInv, IdsAreUsedOnce
<1>2. r.id \in Ids /\ r.id \in 0..MaxIds BY <1>1, SaveBackupsAssumption DEF Rows, Ids
<1>3. rows' = {o \in rows : o.id # r.id} BY <1>1 DEF DeleteRow, Unique
<1>4. Drops(rows, rows', r.id) BY <1>1, <1>3, DroppedRow
<1>5. Strayed(r.id, {}) /\ UNCHANGED <<files, lastId, lost, upload, prune>>
      /\ removing' = removing \cup {r.id}
  BY DEF DeleteRow
<1>6. r.id <= lastId BY DEF DiskInv, IdsAreUsedOnce
<1>7. RowGoesFor(r.id)
  <2>1. stray \subseteq stray' BY <1>5, StrayGrows
  <2>2. \A v \in Uploads : upload[v].pc \in ToPlace /\ upload[v].id = r.id => r.id \in stray'
    BY <1>5 DEF Strayed, ToPlace
  <2>3. \A w \in Workers : \A j \in prune[w].left : j <= lastId BY DEF DiskInv, IdsAreUsedOnce
  <2>4. PrunesStartFresh' BY <1>5 DEF DiskInv, PrunesStartFresh
  <2>5. QED BY <1>4, <1>5, <2>1, <2>2, <2>3, <2>4 DEF RowGoesFor
<1>8. QED BY <1>2, <1>6, <1>7, RowGoes

LEMMA SetPinnedRows ==
    ASSUME Shapes, DiskInv, NEW r \in rows, SetPinned(r) PROVE Drops(rows, rows', 0)
<1> DEFINE o == [r EXCEPT !.pinned = ~@]
<1>1. rows \in SUBSET Rows /\ Unique(rows) BY DEF Shapes, DiskInv, IdsAreUsedOnce
<1>2. o \in Rows /\ o.id = r.id /\ o.sha = r.sha BY <1>1 DEF Rows
<1>3. rows' = (rows \ {r}) \cup {o} BY DEF SetPinned
<1> HIDE DEF o
<1>4. Drops(rows, (rows \ {r}) \cup {o}, 0) BY <1>1, <1>2, ChangedRows
<1>5. QED BY <1>3, <1>4

LEMMA SetPinnedDisk == ASSUME Shapes, DiskInv, NEW r \in rows, SetPinned(r) PROVE DiskInv'
<1>1. Drops(rows, rows', 0) BY SetPinnedRows
<1>2. UNCHANGED <<files, lastId, lost, upload, prune, removing, stray>> BY DEF SetPinned
<1>3. RowGoesFor(0)
  <2>1. \A v \in Uploads : upload[v].pc \in ToPlace => upload[v].id # 0
    BY DEF DiskInv, UploadsKnowTheirRow, ToPlace, Decided
  <2>2. \A w \in Workers : \A j \in prune[w].left : j <= lastId BY DEF DiskInv, IdsAreUsedOnce
  <2>3. PrunesStartFresh' BY <1>2 DEF DiskInv, PrunesStartFresh
  <2>4. QED BY <1>1, <1>2, <2>1, <2>2, <2>3 DEF RowGoesFor
<1>4. 0 <= lastId /\ 0 \in 0..MaxIds BY SaveBackupsAssumption DEF Shapes
<1>5. QED BY <1>3, <1>4, RowGoes

LEMMA PlaceFailsDisk == ASSUME Shapes, DiskInv, NEW u \in Uploads, PlaceFails(u) PROVE DiskInv'
<1> DEFINE i == upload[u].id
<1>1. Goes(u, "failed") /\ upload[u].pc \in {"place", "putBack"} /\ UNCHANGED <<files, lastId, prune, removing>>
  BY DEF PlaceFails
<1>2. \A v \in Uploads :
        /\ upload'[v].id = upload[v].id /\ upload'[v].sha = upload[v].sha
        /\ upload'[v].pc = IF v = u THEN "failed" ELSE upload[v].pc
  BY <1>1, GoesTo
<1>3. prune[u] = NoPrune BY <1>1 DEF DiskInv, PrunesStartFresh
<1>4. i <= lastId /\ i \in 0..MaxIds BY UploadIsTyped DEF DiskInv, IdsAreUsedOnce
<1>5. PrunesStartFresh' BY <1>1, <1>2, <1>3 DEF DiskInv, PrunesStartFresh
<1>6. CASE upload[u].pc = "place"
  <2>1. rows' = {r \in rows : r.id # i} /\ UNCHANGED lost
        /\ IF files[i] # Nothing THEN stray' = stray \cup {i} ELSE Strayed(i, {u})
    BY <1>6 DEF PlaceFails, Without
  <2>2. Drops(rows, rows', i) BY <2>1, DroppedRow DEF Shapes, DiskInv, IdsAreUsedOnce
  <2>3. stray \subseteq stray' BY <2>1, StrayGrows
  <2>4. \A v \in Uploads : upload'[v].pc \in ToPlace => upload[v].pc \in ToPlace /\ v # u
    BY <1>2 DEF ToPlace
  <2>5. \A v \in Uploads : upload'[v].pc \in ToPlace /\ upload[v].id = i => i \in stray'
    BY <2>1, <2>4 DEF Strayed, ToPlace
  <2>6. \A w \in Workers : \A j \in prune[w].left : j <= lastId BY DEF DiskInv, IdsAreUsedOnce
  <2>7. files[i] # Nothing => i \in stray' BY <2>1
  <2>8. RowGoesFor(i) BY <1>1, <1>2, <1>5, <2>1, <2>2, <2>3, <2>5, <2>6, <2>7 DEF RowGoesFor
  <2>9. QED BY <1>4, <2>8, RowGoes
<1>7. CASE upload[u].pc = "putBack"
  <2>1. UNCHANGED <<rows, stray>> /\ lost' = lost \cup {i} BY <1>7 DEF PlaceFails
  <2>2. UploadMovesTo(u, upload'[u])
    <3>1. upload'[u] \in AnUpload BY <1>1, UploadIsTyped DEF Goes, AnUpload, UploadPcs
    <3>2. \A v \in Uploads \ {u} : upload'[v] = upload[v] BY <1>1, UploadIsTyped DEF Goes
    <3>3. QED BY <1>1, <1>2, <1>3, <1>4, <2>1, <3>1, <3>2 DEF UploadMovesTo, ToPlace, Decided
  <2>3. QED BY <2>2, UploadMoves
<1>8. QED BY <1>1, <1>6, <1>7

LEMMA CheckExistsDisk == ASSUME Shapes, DiskInv, NEW u \in Uploads, CheckExists(u) PROVE DiskInv'
<1> DEFINE p == IF files[upload[u].id] = Nothing THEN "putBack" ELSE "promote"
<1>1. Goes(u, p) /\ upload[u].pc = "exists" BY DEF CheckExists
<1>2. UNCHANGED <<rows, files, lastId, prune, removing, lost, stray>> BY DEF CheckExists, history
<1>3. \A v \in Uploads :
        /\ upload'[v].id = upload[v].id /\ upload'[v].sha = upload[v].sha
        /\ upload'[v].pc = IF v = u THEN p ELSE upload[v].pc
  BY <1>1, GoesTo
<1>4. UploadMovesTo(u, upload'[u])
  <2>1. upload'[u] \in AnUpload BY <1>1, UploadIsTyped DEF Goes, AnUpload, UploadPcs
  <2>2. \A v \in Uploads \ {u} : upload'[v] = upload[v] BY <1>1, UploadIsTyped DEF Goes
  <2>3. upload[u].id <= lastId /\ prune[u] = NoPrune BY <1>1 DEF DiskInv, IdsAreUsedOnce, PrunesStartFresh
  <2>4. QED BY <1>1, <1>2, <1>3, <2>1, <2>2, <2>3 DEF UploadMovesTo, ToPlace, Decided
<1>5. QED BY <1>4, UploadMoves

LEMMA PutBackDisk == ASSUME Shapes, DiskInv, NEW u \in Uploads, PutBack(u) PROVE DiskInv'
<1>1. Goes(u, "promote") /\ upload[u].pc = "putBack" BY DEF PutBack
<1>2. UNCHANGED <<rows, lastId, prune, removing, lost, stray>>
      /\ files' = [files EXCEPT ![upload[u].id] = upload[u].sha]
  BY DEF PutBack, history
<1>3. \A v \in Uploads :
        /\ upload'[v].id = upload[v].id /\ upload'[v].sha = upload[v].sha
        /\ upload'[v].pc = IF v = u THEN "promote" ELSE upload[v].pc
  BY <1>1, GoesTo
<1>4. PrunesStartFresh' BY <1>1, <1>2, <1>3 DEF DiskInv, PrunesStartFresh
<1>5. ArchiveComesFor(u) BY <1>1, <1>2, <1>3, <1>4 DEF ArchiveComesFor
<1>6. QED BY <1>5, ArchiveComes

LEMMA PlaceDisk == ASSUME Shapes, DiskInv, NEW u \in Uploads, Place(u) PROVE DiskInv'
<1>1. Goes(u, "finish") /\ upload[u].pc = "place" BY DEF Place
<1>2. UNCHANGED <<rows, lastId, removing, lost, stray>>
      /\ files' = [files EXCEPT ![upload[u].id] = upload[u].sha]
  BY DEF Place, history
<1>3. \A v \in Uploads :
        /\ upload'[v].id = upload[v].id /\ upload'[v].sha = upload[v].sha
        /\ upload'[v].pc = IF v = u THEN "finish" ELSE upload[v].pc
  BY <1>1, GoesTo
<1>4. prune[u] = NoPrune BY <1>1 DEF DiskInv, PrunesStartFresh
<1>5. \A w \in Workers : prune'[w] = prune[w] \/ (w = u /\ prune'[w] = Start)
  BY DEF Place, Shapes
<1>6. \A w \in Workers : prune'[w].file = prune[w].file /\ prune'[w].left = prune[w].left
  BY <1>4, <1>5 DEF NoPrune, Start
<1>7. PrunesStartFresh'
  <2>1. Start.phase = "start" BY DEF Start
  <2>2. QED BY <1>1, <1>3, <1>5, <2>1 DEF DiskInv, PrunesStartFresh, Workers
<1>8. ArchiveComesFor(u) BY <1>1, <1>2, <1>3, <1>6, <1>7 DEF ArchiveComesFor
<1>9. QED BY <1>8, ArchiveComes

LEMMA FinishDisk == ASSUME Shapes, DiskInv, NEW u \in Uploads, Finish(u) PROVE DiskInv'
<1>1. Goes(u, "stored") /\ upload[u].pc = "finish" /\ prune[u].phase = "none" BY DEF Finish
<1>2. UNCHANGED <<rows, files, lastId, prune, removing, lost, stray>> BY DEF Finish, history
<1>3. \A v \in Uploads :
        /\ upload'[v].id = upload[v].id /\ upload'[v].sha = upload[v].sha
        /\ upload'[v].pc = IF v = u THEN "stored" ELSE upload[v].pc
  BY <1>1, GoesTo
<1>4. UploadMovesTo(u, upload'[u])
  <2>1. upload'[u] \in AnUpload BY <1>1, UploadIsTyped DEF Goes, AnUpload, UploadPcs
  <2>2. \A v \in Uploads \ {u} : upload'[v] = upload[v] BY <1>1, UploadIsTyped DEF Goes
  <2>3. upload[u].id <= lastId /\ prune[u] = NoPrune
    BY <1>1 DEF DiskInv, IdsAreUsedOnce, PrunesStartFresh, Workers
  <2>4. QED BY <1>1, <1>2, <1>3, <2>1, <2>2, <2>3 DEF UploadMovesTo, ToPlace, Decided
<1>5. QED BY <1>4, UploadMoves

(* An upload that is over, or of which the body never came whole, is forgotten;
   one that is begun waits for the decision. *)
LEMMA UploadEndsOrBegins ==
    ASSUME Shapes, DiskInv, NEW u \in Uploads, NEW x \in AnUpload,
           upload[u].pc \in {"free", "received", "stored", "failed"},
           x.id = 0, x.pc = "free" \/ (x.pc = "received" /\ x.sha \in Shas),
           upload' = [upload EXCEPT ![u] = x],
           UNCHANGED <<rows, files, lastId, prune, removing, lost, stray>>
    PROVE  DiskInv'
<1>1. upload'[u] = x /\ \A v \in Uploads \ {u} : upload'[v] = upload[v] BY UploadIsTyped
<1>2. 0 <= lastId BY SaveBackupsAssumption DEF Shapes
<1>3. prune[u] = NoPrune BY DEF DiskInv, PrunesStartFresh
<1>4. UploadMovesTo(u, x) BY <1>1, <1>2, <1>3 DEF UploadMovesTo, ToPlace, Decided
<1>5. QED BY <1>4, UploadMoves

LEMMA NoUploadIsTyped == NoUpload \in AnUpload /\ NoUpload.id = 0 /\ NoUpload.pc = "free" /\ ~NoUpload.given
BY SaveBackupsAssumption DEF NoUpload, AnUpload, UploadPcs, Origins

LEMMA DiscardDisk == ASSUME Shapes, DiskInv, NEW u \in Uploads, Discard(u) PROVE DiskInv'
<1>1. upload[u].pc \in {"free", "received", "stored", "failed"} /\ upload' = [upload EXCEPT ![u] = NoUpload]
      /\ UNCHANGED <<rows, files, lastId, prune, removing, lost, stray>>
  BY DEF Discard, history
<1>2. QED BY <1>1, NoUploadIsTyped, UploadEndsOrBegins

Sent(u, origin) == [NoUpload EXCEPT !.pc = "received", !.sha = save, !.origin = origin]

LEMMA SentIsTyped ==
    ASSUME Shapes, NEW u, NEW origin \in Origins
    PROVE  Sent(u, origin) \in AnUpload /\ Sent(u, origin).id = 0 /\ Sent(u, origin).pc = "received"
           /\ Sent(u, origin).sha = save /\ ~Sent(u, origin).given
<1>1. save \in Shas /\ "received" \in UploadPcs BY DEF Shapes, UploadPcs
<1>2. QED BY <1>1, NoUploadIsTyped DEF AnUpload, Sent

LEMMA SendDisk ==
    ASSUME Shapes, DiskInv, NEW u \in Uploads, NEW origin \in Origins, Send(u, origin),
           UNCHANGED <<rows, files, lastId, prune, removing, lost, stray>>
    PROVE  DiskInv'
<1>1. upload[u].pc = "free" /\ upload' = [upload EXCEPT ![u] = Sent(u, origin)] BY NoUploadIsTyped DEF Send, Sent
<1>2. save \in Shas BY DEF Shapes
<1>3. QED BY <1>1, <1>2, SentIsTyped, UploadEndsOrBegins

LEMMA PruneFileDisk == ASSUME Shapes, DiskInv, NEW w \in Workers, PruneFile(w) PROVE DiskInv'
<1> DEFINE i == prune[w].file
<1>1. prune \in [Workers -> APrune] /\ lastId \in 0..MaxIds BY DEF Shapes
<1>2. i # 0 /\ files' = [files EXCEPT ![i] = Nothing] /\ prune' = [prune EXCEPT ![w].file = 0]
      /\ UNCHANGED <<rows, lastId, upload, removing, lost, stray>>
  BY DEF PruneFile, history
<1>3. i \in Ids /\ i \notin RowIds
  <2>1. i \in 0..MaxIds BY <1>1 DEF APrune
  <2>2. QED BY <1>2, <2>1 DEF Ids, DiskInv, RemovedHaveNoRow
<1>4. \A v \in Workers :
        /\ prune'[v].left = prune[v].left /\ prune'[v].phase = prune[v].phase
        /\ prune'[v].file = IF v = w THEN 0 ELSE prune[v].file
        /\ v # w => prune'[v] = prune[v]
  BY <1>1, <1>2 DEF APrune
<1>5. prune[w].phase # "none" /\ (w \in Uploads => upload[w].pc = "finish")
  BY <1>2 DEF DiskInv, PrunesStartFresh, NoPrune
<1>6. PrunesStartFresh' BY <1>2, <1>4, <1>5 DEF DiskInv, PrunesStartFresh, Workers
<1>7. ArchiveGoesFor(i) BY <1>2, <1>3, <1>4, <1>6 DEF ArchiveGoesFor
<1>8. QED BY <1>3, <1>7, ArchiveGoes

LEMMA DeleteFileDisk == ASSUME Shapes, DiskInv, NEW i \in Ids, DeleteFile(i) PROVE DiskInv'
<1>1. i \in removing /\ files' = [files EXCEPT ![i] = Nothing] /\ removing' = removing \ {i}
      /\ UNCHANGED <<rows, lastId, upload, prune, lost, stray>>
  BY DEF DeleteFile, history
<1>2. i \notin RowIds BY <1>1 DEF DiskInv, RemovedHaveNoRow
<1>3. PrunesStartFresh' BY <1>1 DEF DiskInv, PrunesStartFresh
<1>4. ArchiveGoesFor(i) BY <1>1, <1>2, <1>3 DEF ArchiveGoesFor
<1>5. QED BY <1>4, ArchiveGoes

LEMMA LoseFileDisk == ASSUME Shapes, DiskInv, NEW i \in Ids, LoseFile(i) PROVE DiskInv'
<1>1. files' = [files EXCEPT ![i] = Nothing] /\ lost' = lost \cup {i}
      /\ UNCHANGED <<rows, lastId, upload, prune, removing, stray>>
  BY DEF LoseFile
<1>2. PrunesStartFresh' BY <1>1 DEF DiskInv, PrunesStartFresh
<1>3. ArchiveGoesFor(i) BY <1>1, <1>2 DEF ArchiveGoesFor
<1>4. QED BY <1>3, ArchiveGoes

(* The decision on an upload: u goes on with row i, the newest one, that holds its bytes. *)
DecidesOn(u, i, p) ==
    /\ upload[u].pc = "received" /\ p \in {"exists", "place"}
    /\ upload' = [upload EXCEPT ![u].pc = p, ![u].id = i]
    /\ i \in RowIds' /\ (\A r \in rows' : r.id = i => r.sha = upload[u].sha)
    /\ \A r \in rows' : r.id <= i
    /\ UNCHANGED <<files, keep, prune, removing, save, console, seen, deleted, stray, troubles, edits>>

DecidesExists(u, i) ==
    /\ DecidesOn(u, i, "exists") /\ UNCHANGED <<rows, lastId, overtaken>>
    /\ lost' \subseteq lost /\ \A j \in lost : j = i \/ j \in lost'

DecidesInsert(u, i) ==
    /\ DecidesOn(u, i, "place") /\ UNCHANGED lost
    /\ lastId' = lastId + 1 /\ i = lastId + 1 /\ i <= MaxIds
    /\ \E r \in Rows : r.id = i /\ r.sha = upload[u].sha /\ rows' = rows \cup {r}
    /\ overtaken' = (overtaken \/ upload[u].given)

LEMMA DecideFacts ==
    ASSUME Shapes, RoomForReceived, DiskInv, NEW u \in Uploads, Decide(u)
    PROVE  \E i \in Ids : DecidesExists(u, i) \/ DecidesInsert(u, i)
<1>1. rows \in SUBSET Rows /\ lastId \in 0..MaxIds /\ upload[u].pc = "received" BY DEF Shapes, Decide
<1>2. Unique(rows) /\ \A r \in rows : r.id <= lastId BY DEF DiskInv, IdsAreUsedOnce
<1>3. upload[u].sha \in Shas BY <1>1 DEF DiskInv, UploadsKnowTheirRow
<1>4. ASSUME NEW r \in Newest, r.sha = upload[u].sha,
             upload' = [upload EXCEPT ![u].pc = "exists", ![u].id = r.id],
             lost' = {i \in lost : \A o \in Newest : o.id # i}, UNCHANGED <<rows, lastId, overtaken>>
      PROVE  r.id \in Ids /\ DecidesExists(u, r.id)
  <2>1. r \in rows /\ r.id \in Ids /\ \A o \in rows : o.id <= r.id BY <1>1 DEF Newest, Rows
  <2>2. \A o \in Newest : o.id <= r.id /\ r.id <= o.id /\ o.id \in Ids BY <1>1, <2>1 DEF Newest, Rows
  <2>3. \A o \in Newest : o.id = r.id BY <2>1, <2>2 DEF Ids
  <2>4. r.id \in RowIds' /\ \A o \in rows' : o.id = r.id => o.sha = upload[u].sha
    BY <1>2, <1>4, <2>1 DEF RowIds, Unique
  <2>5. DecidesOn(u, r.id, "exists") BY <1>1, <1>4, <2>1, <2>4 DEF DecidesOn, Decide
  <2>6. QED BY <1>4, <2>1, <2>3, <2>5 DEF DecidesExists
<1>5. ASSUME lastId' = lastId + 1,
             rows' = rows \cup {[id |-> lastId', sha |-> upload[u].sha, origin |-> upload[u].origin, pinned |-> FALSE]},
             upload' = [upload EXCEPT ![u].pc = "place", ![u].id = lastId'],
             overtaken' = (overtaken \/ upload[u].given), UNCHANGED lost
      PROVE  lastId + 1 \in Ids /\ DecidesInsert(u, lastId + 1)
  <2> DEFINE r == [id |-> lastId', sha |-> upload[u].sha, origin |-> upload[u].origin, pinned |-> FALSE]
  <2>1. lastId + 1 <= MaxIds
    <3>1. IsFiniteSet(Received) BY FS_Subset, SaveBackupsAssumption DEF Received
    <3>2. Cardinality(Received) \in Nat /\ Cardinality(Received) # 0
      BY <1>1, <3>1, FS_EmptySet, FS_CardinalityType DEF Received
    <3>3. QED BY <1>1, <3>2, SaveBackupsAssumption DEF RoomForReceived
  <2>2. lastId' \in Ids /\ lastId' = lastId + 1 BY <1>1, <1>5, <2>1 DEF Ids
  <2>3. upload[u].origin \in Origins BY UploadIsTyped DEF AnUpload
  <2>4. r \in Rows /\ r.id = lastId' /\ r.sha = upload[u].sha BY <1>3, <2>2, <2>3 DEF Rows
  <2>5. rows' = rows \cup {r} BY <1>5
  <2> HIDE DEF r
  <2>6. \A o \in rows : o.id # lastId' /\ o.id <= lastId' BY <1>1, <1>2, <2>2 DEF Rows, Ids
  <2>7. lastId' \in RowIds' /\ \A o \in rows' : o.id = lastId' => o.sha = upload[u].sha
    BY <2>4, <2>5, <2>6 DEF RowIds
  <2>8. \A o \in rows' : o.id <= lastId' BY <2>2, <2>4, <2>5, <2>6 DEF Ids
  <2>9. DecidesOn(u, lastId + 1, "place") BY <1>1, <1>5, <2>2, <2>7, <2>8 DEF DecidesOn, Decide
  <2>10. QED BY <1>5, <2>1, <2>2, <2>4, <2>5, <2>9 DEF DecidesInsert
<1>6. QED BY <1>4, <1>5 DEF Decide

LEMMA DecidedUpload ==
    ASSUME Shapes, NEW u \in Uploads, NEW i \in Ids, NEW p \in {"exists", "place"}, DecidesOn(u, i, p)
    PROVE  /\ upload' \in [Uploads -> AnUpload]
           /\ \A v \in Uploads \ {u} : upload'[v] = upload[v]
           /\ upload'[u].pc = p /\ upload'[u].id = i /\ upload'[u].sha = upload[u].sha
           /\ upload'[u].given = upload[u].given
<1> DEFINE x == [upload[u] EXCEPT !.pc = p, !.id = i]
<1>1. i \in 0..MaxIds BY SaveBackupsAssumption DEF Ids
<1>2. upload \in [Uploads -> AnUpload] /\ upload[u] \in AnUpload BY UploadIsTyped
<1>3. x \in AnUpload /\ x.pc = p /\ x.id = i /\ x.sha = upload[u].sha /\ x.given = upload[u].given
  BY <1>1, <1>2 DEF AnUpload, UploadPcs
<1>4. upload' = [upload EXCEPT ![u] = x] BY <1>2 DEF DecidesOn
<1> HIDE DEF x
<1>5. QED BY <1>2, <1>3, <1>4

LEMMA DecideDisk ==
    ASSUME Shapes, DiskInv, NEW u \in Uploads, NEW i \in Ids, DecidesExists(u, i) \/ DecidesInsert(u, i)
    PROVE  DiskInv'
<1> DEFINE p == IF DecidesExists(u, i) THEN "exists" ELSE "place"
<1>1. IdsAreUsedOnce /\ UploadsKnowTheirRow /\ RemovedHaveNoRow /\ PrunesStartFresh /\ NoForeignBytes
      /\ RowsHaveArchives /\ ArchivesHaveRows
  BY DEF DiskInv
<1>2. p \in {"exists", "place"} /\ DecidesOn(u, i, p) BY DEF DecidesExists, DecidesInsert
<1> HIDE DEF p
<1>3. UNCHANGED <<files, prune, removing, stray>> /\ upload[u].pc = "received"
      /\ i \in RowIds' /\ (\A r \in rows' : r.id = i => r.sha = upload[u].sha)
  BY <1>2 DEF DecidesOn
<1>4. /\ \A v \in Uploads \ {u} : upload'[v] = upload[v]
      /\ upload'[u].pc = p /\ upload'[u].id = i /\ upload'[u].sha = upload[u].sha
  BY <1>2, DecidedUpload
<1>5. lastId \in 0..MaxIds /\ rows \in SUBSET Rows BY DEF Shapes
<1>6. \/ rows' = rows /\ lastId' = lastId /\ \E r \in rows : r.id = i
      \/ lastId' = lastId + 1 /\ i = lastId + 1 /\ \E r \in Rows : r.id = i /\ rows' = rows \cup {r}
  BY <1>3 DEF DecidesExists, DecidesInsert, RowIds
<1>7. i <= lastId' /\ lastId <= lastId' /\ lastId' \in Int
      /\ \A r \in rows' : r \in rows \/ (r.id = i /\ i > lastId)
  BY <1>1, <1>5, <1>6 DEF IdsAreUsedOnce, Ids
<1>8. rows \subseteq rows' /\ RowIds \subseteq RowIds' BY <1>6 DEF RowIds
<1>9. \A r \in rows : r.id <= lastId BY <1>1 DEF IdsAreUsedOnce
<1>10. IdsAreUsedOnce'
  <2>1. Unique(rows') BY <1>1, <1>5, <1>6, <1>9 DEF IdsAreUsedOnce, Unique, Rows, Ids
  <2>2. \A r \in rows' : r.id <= lastId' BY <1>5, <1>7, <1>9 DEF Rows, Ids
  <2>3. \A j \in Ids : j > lastId' => files[j] = Nothing BY <1>1, <1>5, <1>7 DEF IdsAreUsedOnce, Ids
  <2>4. \A v \in Uploads : upload'[v].id <= lastId'
    <3>1. \A v \in Uploads : upload[v].id <= lastId /\ upload[v].id \in Int
      BY <1>1, UploadIsTyped DEF IdsAreUsedOnce
    <3>2. QED BY <1>4, <1>5, <1>7, <3>1
  <2>5. \A w \in Workers : prune[w].file <= lastId' /\ \A j \in prune[w].left : j <= lastId'
    <3>1. \A w \in Workers : prune[w].file \in 0..MaxIds /\ prune[w].left \in SUBSET Ids
      BY DEF Shapes, APrune
    <3>2. QED BY <1>1, <1>5, <1>7, <3>1, SaveBackupsAssumption DEF IdsAreUsedOnce, Ids
  <2>6. \A j \in removing : j <= lastId'
    <3>1. removing \in SUBSET Ids BY DEF Shapes
    <3>2. \A j \in removing : j <= lastId /\ j \in Int
      BY <1>1, <3>1, SaveBackupsAssumption DEF IdsAreUsedOnce, Ids
    <3>3. lastId \in Int BY <1>5, SaveBackupsAssumption
    <3> QED BY <1>7, <3>2, <3>3
  <2>7. QED BY <1>3, <2>1, <2>2, <2>3, <2>4, <2>5, <2>6 DEF IdsAreUsedOnce
<1>11. UploadsKnowTheirRow'
  <2>1. \A v \in Uploads : upload'[v].pc = "received" => upload'[v].sha \in Shas
    BY <1>1, <1>4, <1>2 DEF UploadsKnowTheirRow
  <2>2. ASSUME NEW v \in Uploads, upload'[v].pc \in Decided
        PROVE  /\ upload'[v].id # 0 /\ upload'[v].sha \in Shas
               /\ \A r \in rows' : r.id = upload'[v].id => r.sha = upload'[v].sha
    <3>1. CASE v = u BY <1>1, <1>3, <1>4, <3>1 DEF UploadsKnowTheirRow, Ids
    <3>2. CASE v # u
      <4>1. upload[v].pc \in Decided /\ upload'[v] = upload[v] BY <1>4, <2>2, <3>2
      <4>2. upload[v].id <= lastId BY <1>1 DEF IdsAreUsedOnce
      <4>3. \A r \in rows' : r.id = upload[v].id => r \in rows
        BY <1>5, <1>7, <4>2, UploadIsTyped DEF Ids
      <4>4. QED BY <1>1, <4>1, <4>3 DEF UploadsKnowTheirRow
    <3>3. QED BY <3>1, <3>2
  <2>3. ASSUME NEW v \in Uploads, upload'[v].pc \in ToPlace PROVE upload'[v].id \in RowIds' \cup stray
    <3>1. CASE v = u BY <1>3, <1>4, <3>1
    <3>2. CASE v # u BY <1>1, <1>4, <1>8, <2>3, <3>2 DEF UploadsKnowTheirRow, ToPlace
    <3>3. QED BY <3>1, <3>2
  <2>4. QED BY <1>3, <2>1, <2>2, <2>3 DEF UploadsKnowTheirRow, ToPlace
<1>12. RemovedHaveNoRow'
  <2>1. \A j \in RowIds' : j \in RowIds \/ j > lastId BY <1>7 DEF RowIds
  <2>2. \A w \in Workers : prune[w].file <= lastId /\ prune[w].file \in 0..MaxIds
    BY <1>1 DEF IdsAreUsedOnce, Shapes, APrune
  <2>3. \A j \in removing : j <= lastId /\ j \in Ids BY <1>1 DEF IdsAreUsedOnce, Shapes
  <2>4. \A w \in Workers : prune[w].file \notin RowIds' BY <1>1, <1>5, <2>1, <2>2 DEF RemovedHaveNoRow
  <2>5. \A j \in removing : j \notin RowIds' BY <1>1, <1>5, <2>1, <2>3 DEF RemovedHaveNoRow, Ids
  <2>6. QED BY <1>3, <2>4, <2>5 DEF RemovedHaveNoRow
<1>13. PrunesStartFresh' BY <1>1, <1>2, <1>3, <1>4 DEF PrunesStartFresh
<1>14. NoForeignBytes'
  <2>1. \A r \in rows' : r \notin rows => files[r.id] = Nothing BY <1>1, <1>7 DEF IdsAreUsedOnce
  <2>2. QED BY <1>1, <1>3, <2>1 DEF NoForeignBytes
<1>15. RowsHaveArchives'
  <2>1. Placing(i)' BY <1>2, <1>4 DEF Placing
  <2>2. ASSUME NEW j, Placing(j) PROVE Placing(j)'
    <3>1. PICK v \in Uploads : upload[v].id = j /\ upload[v].pc \in ToPlace BY <2>2 DEF Placing, ToPlace
    <3>2. v # u BY <1>3, <3>1 DEF ToPlace
    <3>3. QED BY <1>4, <3>1, <3>2 DEF Placing, ToPlace
  <2>3. \A j \in lost : j = i \/ j \in lost' BY DEF DecidesExists, DecidesInsert
  <2>4. ASSUME NEW r \in rows' PROVE files[r.id] = r.sha \/ Placing(r.id)' \/ r.id \in lost'
    <3>1. CASE r.id = i BY <2>1, <3>1
    <3>2. CASE r.id # i
      <4>1. r \in rows BY <1>7, <3>2
      <4>2. QED BY <1>1, <2>2, <2>3, <3>2, <4>1 DEF RowsHaveArchives
    <3>3. QED BY <3>1, <3>2
  <2>5. QED BY <1>3, <2>4 DEF RowsHaveArchives
<1>16. ArchivesHaveRows' BY <1>1, <1>3, <1>8 DEF ArchivesHaveRows, Pruning
<1>17. QED BY <1>10, <1>11, <1>12, <1>13, <1>14, <1>15, <1>16 DEF DiskInv

LEMMA SetKeepDisk == ASSUME Shapes, DiskInv, NEW k \in Keeps, SetKeep(k) PROVE DiskInv'
<1>1. prune' = [prune EXCEPT ![Settings] = Start] /\ prune[Settings].phase = "none"
      /\ UNCHANGED <<rows, files, lastId, upload, removing, lost, stray>>
  BY DEF SetKeep
<1>2. Settings \in Workers /\ Settings \notin Uploads BY SaveBackupsAssumption DEF Workers
<1>3. prune[Settings] = NoPrune BY <1>1, <1>2 DEF DiskInv, PrunesStartFresh
<1>4. \A w \in Workers : prune'[w] = IF w = Settings THEN Start ELSE prune[w] BY <1>1 DEF Shapes
<1>5. PrunesStartFresh'
  <2>1. Start.phase = "start" BY DEF Start
  <2>2. QED BY <1>1, <1>2, <1>4, <2>1 DEF DiskInv, PrunesStartFresh, Workers
<1>6. \A w \in Workers : prune'[w].file = prune[w].file /\ prune'[w].left = prune[w].left
  BY <1>3, <1>4 DEF NoPrune, Start
<1>7. RowGoesFor(0)
  <2>1. Drops(rows, rows', 0) BY <1>1, DroppedRow DEF Shapes, DiskInv, IdsAreUsedOnce
  <2>2. \A v \in Uploads : upload[v].pc \in ToPlace => upload[v].id # 0
    BY DEF DiskInv, UploadsKnowTheirRow, ToPlace, Decided
  <2>3. \A w \in Workers : \A j \in prune[w].left : j <= lastId BY DEF DiskInv, IdsAreUsedOnce
  <2>4. QED BY <1>1, <1>5, <1>6, <2>1, <2>2, <2>3 DEF RowGoesFor
<1>8. 0 <= lastId /\ 0 \in 0..MaxIds BY SaveBackupsAssumption DEF Shapes
<1>9. QED BY <1>7, <1>8, RowGoes

LEMMA AnsweredDisk == ASSUME Shapes, DiskInv, OneIsAwaited, Answered PROVE DiskInv'
<1>1. console.upload \in Uploads BY DEF Answered, OneIsAwaited, Waiting
<1>2. upload[console.upload].pc \in {"free", "received", "stored", "failed"}
      /\ upload' = [upload EXCEPT ![console.upload] = NoUpload]
      /\ UNCHANGED <<rows, files, lastId, prune, removing, lost, stray>>
  BY DEF Answered, history
<1>3. QED BY <1>1, <1>2, NoUploadIsTyped, UploadEndsOrBegins

LEMMA GiveUpDisk == ASSUME Shapes, DiskInv, OneIsAwaited, NEW arrived \in BOOLEAN, GiveUp(arrived) PROVE DiskInv'
<1> DEFINE u == console.upload
           x == [upload[u] EXCEPT !.given = TRUE]
<1>1. u \in Uploads BY DEF GiveUp, OneIsAwaited, Waiting
<1>2. UNCHANGED <<rows, files, lastId, prune, removing, lost, stray>>
      /\ (arrived \/ upload[u].pc = "received")
      /\ upload' = IF arrived THEN [upload EXCEPT ![u].given = TRUE] ELSE [upload EXCEPT ![u] = NoUpload]
  BY DEF GiveUp
<1>3. CASE ~arrived BY <1>1, <1>2, <1>3, NoUploadIsTyped, UploadEndsOrBegins
<1>4. CASE arrived
  <2>1. upload[u] \in AnUpload /\ upload \in [Uploads -> AnUpload] BY <1>1, UploadIsTyped
  <2>2. x \in AnUpload /\ x.pc = upload[u].pc /\ x.id = upload[u].id /\ x.sha = upload[u].sha
    BY <2>1 DEF AnUpload
  <2>3. upload' = [upload EXCEPT ![u] = x] BY <1>2, <1>4
  <2>4. upload[u].id <= lastId /\ (upload[u].pc # "finish" => prune[u] = NoPrune)
        /\ (upload[u].pc = "received" => upload[u].sha \in Shas)
    BY <1>1 DEF DiskInv, IdsAreUsedOnce, PrunesStartFresh, UploadsKnowTheirRow
  <2> HIDE DEF x, u
  <2>5. upload'[u] = x /\ \A v \in Uploads \ {u} : upload'[v] = upload[v] BY <1>1, <2>1, <2>3
  <2>6. UploadMovesTo(u, x) BY <1>2, <2>2, <2>4, <2>5 DEF UploadMovesTo
  <2>7. QED BY <1>1, <2>6, UploadMoves
<1>5. QED BY <1>3, <1>4

LEMMA CrashDisk == ASSUME Shapes, DiskInv, Crash PROVE DiskInv'
<1>1. /\ UNCHANGED <<rows, files, lastId>> /\ removing' = {}
      /\ lost' = lost \cup {i \in RowIds : files[i] = Nothing}
      /\ stray' = stray \cup {i \in Ids \ RowIds : files[i] # Nothing}
      /\ prune' = [w \in Workers |-> NoPrune]
  BY DEF Crash
<1>2. IdsAreUsedOnce /\ NoForeignBytes BY DEF DiskInv
<1>3. \A w \in Workers : prune'[w] = NoPrune BY <1>1
<1>4. \A w \in Workers : prune'[w].file = 0 /\ prune'[w].left = {} BY <1>3 DEF NoPrune
<1>5. \A u \in Uploads : /\ upload'[u].pc \in {"free", "failed"}
                         /\ upload'[u].id \in {0, upload[u].id}
  <2>1. ASSUME NEW u \in Uploads
        PROVE  upload'[u] = NoUpload \/ upload'[u] = [upload[u] EXCEPT !.pc = "failed"]
    BY DEF Crash
  <2>2. ASSUME NEW u \in Uploads
        PROVE  [upload[u] EXCEPT !.pc = "failed"].pc = "failed" /\ [upload[u] EXCEPT !.pc = "failed"].id = upload[u].id
    BY UploadIsTyped DEF AnUpload
  <2>3. QED BY <2>1, <2>2, NoUploadIsTyped
<1>6. lastId \in 0..MaxIds /\ rows \in SUBSET Rows /\ RowIds' = RowIds /\ RowIds \subseteq Ids
  BY <1>1 DEF Shapes, RowIds, Rows
<1>7. IdsAreUsedOnce'
  <2>1. 0 <= lastId BY <1>6, SaveBackupsAssumption
  <2>2. QED BY <1>1, <1>2, <1>4, <1>5, <2>1 DEF IdsAreUsedOnce
<1>8. UploadsKnowTheirRow' BY <1>5 DEF UploadsKnowTheirRow, Decided
<1>9. RemovedHaveNoRow'
  <2>1. 0 \notin RowIds BY <1>6 DEF Ids
  <2>2. QED BY <1>1, <1>4, <1>6, <2>1 DEF RemovedHaveNoRow
<1>10. PrunesStartFresh' BY <1>3, Zenon DEF PrunesStartFresh, Workers
<1>11. NoForeignBytes' BY <1>1, <1>2 DEF NoForeignBytes
<1>12. RowsHaveArchives'
  <2>1. \A r \in rows : files[r.id] = r.sha \/ r.id \in lost' BY <1>1, <1>2 DEF NoForeignBytes, RowIds
  <2>2. QED BY <1>1, <2>1 DEF RowsHaveArchives
<1>13. ArchivesHaveRows' BY <1>1, <1>6 DEF ArchivesHaveRows
<1>14. QED BY <1>7, <1>8, <1>9, <1>10, <1>11, <1>12, <1>13 DEF DiskInv

LEMMA DiskRests ==
    ASSUME DiskInv, UNCHANGED <<rows, files, lastId, upload, prune, removing, lost, stray>>
    PROVE  DiskInv'
<1>1. RowIds' = RowIds BY DEF RowIds
<1>2. IdsAreUsedOnce' BY DEF DiskInv, IdsAreUsedOnce
<1>3. UploadsKnowTheirRow' BY <1>1 DEF DiskInv, UploadsKnowTheirRow
<1>4. RemovedHaveNoRow' BY <1>1 DEF DiskInv, RemovedHaveNoRow
<1>5. PrunesStartFresh' BY DEF DiskInv, PrunesStartFresh
<1>6. NoForeignBytes' BY DEF DiskInv, NoForeignBytes
<1>7. RowsHaveArchives' BY DEF DiskInv, RowsHaveArchives, Placing
<1>8. ArchivesHaveRows' BY <1>1 DEF DiskInv, ArchivesHaveRows, Pruning
<1>9. QED BY <1>2, <1>3, <1>4, <1>5, <1>6, <1>7, <1>8 DEF DiskInv

LEMMA DiskNext == BackupsInv /\ [Next]_vars => DiskInv'
<1>1. SUFFICES ASSUME BackupsInv, [Next]_vars PROVE DiskInv' OBVIOUS
<1>2. Shapes /\ RoomForReceived /\ DiskInv /\ OneIsAwaited BY <1>1 DEF BackupsInv, ConsoleInv
<1>3. CASE Serve
  <2>1. ASSUME NEW w \in Workers, PruneRow(w) PROVE DiskInv' BY <1>2, <2>1, PruneRowDisk
  <2>2. ASSUME NEW w \in Workers, PruneFile(w) PROVE DiskInv' BY <1>2, <2>2, PruneFileDisk
  <2>3. ASSUME NEW u \in Uploads, Decide(u) PROVE DiskInv'
    <3>1. PICK i \in Ids : DecidesExists(u, i) \/ DecidesInsert(u, i) BY <1>2, <2>3, DecideFacts
    <3>2. QED BY <1>2, <3>1, DecideDisk
  <2>4. ASSUME NEW u \in Uploads, CheckExists(u) PROVE DiskInv' BY <1>2, <2>4, CheckExistsDisk
  <2>5. ASSUME NEW u \in Uploads, PutBack(u) PROVE DiskInv' BY <1>2, <2>5, PutBackDisk
  <2>6. ASSUME NEW u \in Uploads, Promote(u) PROVE DiskInv' BY <1>2, <2>6, PromoteDisk
  <2>7. ASSUME NEW u \in Uploads, Place(u) PROVE DiskInv' BY <1>2, <2>7, PlaceDisk
  <2>8. ASSUME NEW u \in Uploads, PlaceFails(u) PROVE DiskInv' BY <1>2, <2>8, PlaceFailsDisk
  <2>9. ASSUME NEW u \in Uploads, Finish(u) PROVE DiskInv' BY <1>2, <2>9, FinishDisk
  <2>10. ASSUME NEW u \in Uploads, Discard(u) PROVE DiskInv' BY <1>2, <2>10, DiscardDisk
  <2>11. QED BY <1>3, <2>1, <2>2, <2>3, <2>4, <2>5, <2>6, <2>7, <2>8, <2>9, <2>10, Zenon DEF Serve
<1>4. CASE Manage
  <2>1. ASSUME NEW r \in rows, SetPinned(r) PROVE DiskInv' BY <1>2, <2>1, SetPinnedDisk
  <2>2. ASSUME NEW r \in rows, DeleteRow(r) PROVE DiskInv' BY <1>2, <2>2, DeleteRowDisk
  <2>3. ASSUME NEW i \in Ids, DeleteFile(i) PROVE DiskInv' BY <1>2, <2>3, DeleteFileDisk
  <2>4. ASSUME NEW i \in Ids, LoseFile(i) PROVE DiskInv' BY <1>2, <2>4, LoseFileDisk
  <2>5. ASSUME NEW k \in Keeps, SetKeep(k) PROVE DiskInv' BY <1>2, <2>5, SetKeepDisk
  <2>6. QED BY <1>4, <2>1, <2>2, <2>3, <2>4, <2>5, Zenon DEF Manage
<1>5. CASE Use
  <2>1. ASSUME NEW u \in Uploads, Backup(u) PROVE DiskInv'
    <3>1. Send(u, "manual") /\ UNCHANGED <<rows, files, lastId, prune, removing, lost, stray>>
      BY <2>1 DEF Backup, history
    <3>2. QED BY <1>2, <3>1, SendDisk DEF Origins
  <2>2. ASSUME NEW u \in Uploads, NEW r \in rows, Restore(u, r) PROVE DiskInv'
    <3>1. Send(u, "pre-restore") /\ UNCHANGED <<rows, files, lastId, prune, removing, lost, stray>>
      BY <2>2 DEF Restore, history
    <3>2. QED BY <1>2, <3>1, SendDisk DEF Origins
  <2>3. ASSUME NEW arrived \in BOOLEAN, GiveUp(arrived) PROVE DiskInv' BY <1>2, <2>3, GiveUpDisk
  <2>4. CASE Answered BY <1>2, <2>4, AnsweredDisk
  <2>5. ASSUME UNCHANGED <<server, lost, stray>> PROVE DiskInv' BY <1>2, <2>5, DiskRests DEF server
  <2>6. (\E c \in Contents : Play(c)) \/ Reload \/ SkipBackup \/ CommitPart \/ CommitLast \/ WriteFails \/ Acknowledge
        => UNCHANGED <<server, lost, stray>>
    BY DEF Play, Reload, SkipBackup, CommitPart, CommitLast, WriteFails, Acknowledge, history
  <2>7. QED BY <1>5, <2>1, <2>2, <2>3, <2>4, <2>5, <2>6, Zenon DEF Use
<1>6. CASE Crash BY <1>2, <1>6, CrashDisk
<1>7. CASE UNCHANGED vars BY <1>2, <1>7, DiskRests DEF vars
<1>8. QED BY <1>1, <1>3, <1>4, <1>5, <1>6, <1>7, Zenon DEF Next

-----------------------------------------------------------------------------
(* What each variable is.                                                    *)

ServerShapes ==
    /\ rows \in SUBSET Rows /\ files \in [Ids -> Shas \cup {Nothing}]
    /\ lastId \in 0..MaxIds /\ keep \in Keeps
WorkShapes == upload \in [Uploads -> AnUpload] /\ prune \in [Workers -> APrune] /\ removing \in SUBSET Ids
HistoryShapes ==
    /\ deleted \in SUBSET Ids /\ lost \in SUBSET Ids /\ stray \in SUBSET Ids
    /\ overtaken \in BOOLEAN /\ edits \in Nat /\ troubles \in Nat
ConsoleShapes == save \in Shas /\ console \in AConsole /\ seen \in ABackup \cup {Nothing}

LEMMA ShapesAreParts == Shapes <=> ServerShapes /\ WorkShapes /\ HistoryShapes /\ ConsoleShapes
BY DEF Shapes, ServerShapes, WorkShapes, HistoryShapes, ConsoleShapes

LEMMA PartsMakeShapes == ASSUME ServerShapes', WorkShapes', HistoryShapes', ConsoleShapes' PROVE Shapes'
BY DEF Shapes, ServerShapes, WorkShapes, HistoryShapes, ConsoleShapes

LEMMA DoomedAreIds == ASSUME WorkShapes, NEW i PROVE Doomed \subseteq Ids /\ Outdated(i) \subseteq Doomed
<1>1. \A w \in Workers : prune[w].left \subseteq Ids BY DEF WorkShapes, APrune
<1>2. QED BY <1>1 DEF Doomed, Outdated

LEMMA StrayedIsTyped ==
    ASSUME HistoryShapes, NEW i \in Ids, NEW S, Strayed(i, S) PROVE stray' \in SUBSET Ids
BY DEF HistoryShapes, Strayed

LEMMA StartIsTyped == Start \in APrune /\ NoPrune \in APrune
BY SaveBackupsAssumption DEF Start, NoPrune, APrune

LEMMA MovedIsTyped ==
    ASSUME WorkShapes, NEW u \in Uploads, NEW p \in UploadPcs, Goes(u, p) PROVE upload' \in [Uploads -> AnUpload]
<1>1. [upload[u] EXCEPT !.pc = p] \in AnUpload BY DEF WorkShapes, AnUpload
<1>2. QED BY <1>1 DEF WorkShapes, Goes

LEMMA PruneTyped ==
    ASSUME Shapes, NEW w \in Workers, NEW R, PruneEnds(w, R) \/ \E i, p : PrunesOne(w, R, i, p)
    PROVE  rows' \in SUBSET Rows /\ prune' \in [Workers -> APrune] /\ deleted' \in SUBSET Ids
           /\ stray' \in SUBSET Ids /\ overtaken' \in BOOLEAN
<1>1. WorkShapes /\ HistoryShapes BY ShapesAreParts
<1>2. CASE PruneEnds(w, R)
  <2>1. rows' \in SUBSET Rows BY <1>2 DEF PruneEnds, Drops
  <2>2. prune' \in [Workers -> APrune] BY <1>1, <1>2, StartIsTyped DEF WorkShapes, PruneEnds
  <2>3. QED BY <1>1, <1>2, <2>1, <2>2 DEF PruneEnds, HistoryShapes
<1>3. CASE \E i, p : PrunesOne(w, R, i, p)
  <2>1. PICK i, p : PrunesOne(w, R, i, p) BY <1>3
  <2>2. rows' \in SUBSET Rows BY <2>1 DEF PrunesOne, Drops
  <2>3. prune' \in [Workers -> APrune] BY <1>1, <2>1 DEF WorkShapes, PrunesOne
  <2>4. deleted' \in SUBSET Ids BY <1>1, <2>1, DoomedAreIds DEF HistoryShapes, PrunesOne
  <2>5. stray' \in SUBSET Ids BY <1>1, <2>1, StrayedIsTyped DEF PrunesOne
  <2>6. upload \in [Uploads -> AnUpload] BY <1>1 DEF WorkShapes
  <2>7. overtaken' \in BOOLEAN
    <3>1. overtaken' = (overtaken \/ (w \in Uploads /\ upload[w].given)) BY <2>1 DEF PrunesOne
    <3>2. QED BY <3>1, Zenon
  <2>8. QED BY <2>2, <2>3, <2>4, <2>5, <2>7
<1>4. QED BY <1>2, <1>3

LEMMA ServeTyped ==
    ASSUME Shapes, RoomForReceived, DiskInv, Serve PROVE Shapes'
<1>1. ServerShapes /\ WorkShapes /\ HistoryShapes /\ ConsoleShapes BY ShapesAreParts
<1>2. Serve => UNCHANGED <<keep, save, console, seen, edits>>
  BY ZenonT(40) DEF Serve, PruneRow, PruneFile, Decide, CheckExists, PutBack, Promote, Place, PlaceFails, Finish, Discard, history
<1>3. ConsoleShapes' /\ edits' \in Nat BY <1>1, <1>2 DEF ConsoleShapes, HistoryShapes
<1> DEFINE G == rows' \in SUBSET Rows /\ files' \in [Ids -> Shas \cup {Nothing}] /\ lastId' \in 0..MaxIds
                /\ WorkShapes' /\ deleted' \in SUBSET Ids /\ lost' \in SUBSET Ids /\ stray' \in SUBSET Ids
                /\ overtaken' \in BOOLEAN /\ troubles' \in Nat
<1>4. ASSUME NEW w \in Workers, PruneRow(w) PROVE G
  <2>1. UNCHANGED <<files, lastId, upload, removing, lost, troubles>> BY <1>4 DEF PruneRow
  <2>2. PruneEnds(w, rows) \/ \E i, p : PrunesOne(w, rows, i, p) BY <1>4, PruneRowFacts
  <2>3. QED BY <1>1, <2>1, <2>2, PruneTyped DEF ServerShapes, WorkShapes, HistoryShapes
<1>5. ASSUME NEW w \in Workers, PruneFile(w) PROVE G
  <2>1. UNCHANGED <<rows, lastId, upload, removing, history>>
        /\ files' = [files EXCEPT ![prune[w].file] = Nothing] /\ prune' = [prune EXCEPT ![w].file = 0]
    BY <1>5 DEF PruneFile
  <2>2. files' \in [Ids -> Shas \cup {Nothing}] BY <1>1, <2>1 DEF ServerShapes
  <2>3. prune' \in [Workers -> APrune] BY <1>1, <2>1, SaveBackupsAssumption DEF WorkShapes, APrune
  <2>4. QED BY <1>1, <2>1, <2>2, <2>3 DEF ServerShapes, WorkShapes, HistoryShapes, history
<1>6. ASSUME NEW u \in Uploads, Decide(u) PROVE G
  <2>1. PICK i \in Ids : DecidesExists(u, i) \/ DecidesInsert(u, i) BY <1>6, DecideFacts
  <2>2. upload' \in [Uploads -> AnUpload] /\ UNCHANGED <<files, prune, removing, deleted, stray, troubles>>
    BY <2>1, DecidedUpload DEF DecidesExists, DecidesInsert, DecidesOn
  <2>3. rows' \in SUBSET Rows /\ lastId' \in 0..MaxIds /\ lost' \in SUBSET Ids
    BY <1>1, <2>1, SaveBackupsAssumption DEF DecidesExists, DecidesInsert, ServerShapes, HistoryShapes
  <2>4. overtaken' \in BOOLEAN
    BY <1>1, <2>1, Zenon DEF DecidesExists, DecidesInsert, HistoryShapes
  <2>5. QED BY <1>1, <2>2, <2>3, <2>4 DEF ServerShapes, WorkShapes, HistoryShapes
<1>7. ASSUME NEW u \in Uploads, NEW p \in UploadPcs, Goes(u, p),
             UNCHANGED <<rows, files, lastId, prune, removing, history>>
      PROVE  G
  <2>1. upload' \in [Uploads -> AnUpload] BY <1>1, <1>7, MovedIsTyped
  <2>2. QED BY <1>1, <1>7, <2>1 DEF ServerShapes, WorkShapes, HistoryShapes, history
<1>8. ASSUME NEW u \in Uploads, CheckExists(u) \/ Finish(u) PROVE G
  <2>1. \E p \in UploadPcs : Goes(u, p) BY <1>8 DEF CheckExists, Finish, UploadPcs
  <2>2. QED BY <1>7, <1>8, <2>1 DEF CheckExists, Finish
<1>9. ASSUME NEW u \in Uploads, PutBack(u) \/ Place(u) PROVE G
  <2>1. \E p \in UploadPcs : Goes(u, p) BY <1>9 DEF PutBack, Place, UploadPcs
  <2>2. upload' \in [Uploads -> AnUpload] BY <1>1, <2>1, MovedIsTyped
  <2>3. files' = [files EXCEPT ![upload[u].id] = upload[u].sha] BY <1>9 DEF PutBack, Place
  <2>4. upload[u].sha \in Shas \cup {Nothing} BY UploadIsTyped
  <2>5. files' \in [Ids -> Shas \cup {Nothing}] BY <1>1, <2>3, <2>4 DEF ServerShapes
  <2>6. prune' \in [Workers -> APrune]
    <3>1. u \in Workers /\ prune[u] \in APrune BY <1>1 DEF WorkShapes, Workers
    <3>2. QED BY <1>1, <1>9, <3>1, StartIsTyped DEF PutBack, Place, WorkShapes
  <2>7. UNCHANGED <<rows, lastId, removing, history>> BY <1>9 DEF PutBack, Place
  <2>8. QED BY <1>1, <2>2, <2>5, <2>6, <2>7 DEF ServerShapes, WorkShapes, HistoryShapes, history
<1>10. ASSUME NEW u \in Uploads, Promote(u) PROVE G
  <2>1. Goes(u, "finish") /\ UNCHANGED <<files, lastId, removing, lost, troubles>> BY <1>10 DEF Promote
  <2>2. upload' \in [Uploads -> AnUpload] BY <1>1, <2>1, MovedIsTyped DEF UploadPcs
  <2>3. u \in Workers BY DEF Workers
  <2>4. \/ rows' = rows /\ UNCHANGED <<prune, deleted, stray, overtaken>>
        \/ PruneEnds(u, Promoted(u)) \/ \E i, p : PrunesOne(u, Promoted(u), i, p)
    BY <1>10, PromoteFacts
  <2>5. rows' \in SUBSET Rows /\ prune' \in [Workers -> APrune] /\ deleted' \in SUBSET Ids
        /\ stray' \in SUBSET Ids /\ overtaken' \in BOOLEAN
    <3>1. CASE PruneEnds(u, Promoted(u)) \/ \E i, p : PrunesOne(u, Promoted(u), i, p)
      BY <2>3, <3>1, PruneTyped
    <3>2. CASE rows' = rows /\ UNCHANGED <<prune, deleted, stray, overtaken>>
      BY <1>1, <3>2 DEF ServerShapes, WorkShapes, HistoryShapes
    <3>3. QED BY <2>4, <3>1, <3>2
  <2>6. QED BY <1>1, <2>1, <2>2, <2>5 DEF ServerShapes, WorkShapes, HistoryShapes
<1>11. ASSUME NEW u \in Uploads, PlaceFails(u) PROVE G
  <2>1. Goes(u, "failed") /\ UNCHANGED <<files, lastId, prune, removing>> /\ troubles' = troubles + 1
        /\ upload[u].pc \in {"place", "putBack"}
    BY <1>11 DEF PlaceFails, Spend
  <2>2. upload' \in [Uploads -> AnUpload] BY <1>1, <2>1, MovedIsTyped DEF UploadPcs
  <2>3. upload[u].id \in Ids
    <3>1. upload[u].id # 0 BY <2>1 DEF DiskInv, UploadsKnowTheirRow, Decided
    <3>2. QED BY <3>1, UploadIsTyped DEF Ids
  <2>4. rows' \in SUBSET Rows /\ deleted' \in SUBSET Ids /\ lost' \in SUBSET Ids
    BY <1>1, <1>11, <2>3, DoomedAreIds DEF PlaceFails, Without, ServerShapes, HistoryShapes
  <2>5. stray' \in SUBSET Ids
    <3>1. \/ stray' = stray \/ stray' = stray \cup {upload[u].id} \/ Strayed(upload[u].id, {u})
      BY <1>11 DEF PlaceFails
    <3>2. QED BY <1>1, <2>3, <3>1, StrayedIsTyped DEF HistoryShapes
  <2>6. overtaken' \in BOOLEAN
    <3>1. overtaken' = overtaken \/ overtaken' = (overtaken \/ upload[u].given) BY <1>11 DEF PlaceFails
    <3>2. QED BY <1>1, <3>1, Zenon DEF HistoryShapes
  <2>7. QED BY <1>1, <2>1, <2>2, <2>4, <2>5, <2>6 DEF ServerShapes, WorkShapes, HistoryShapes
<1>12. ASSUME NEW u \in Uploads, Discard(u) PROVE G
  <2>1. upload' = [upload EXCEPT ![u] = NoUpload] /\ UNCHANGED <<rows, files, lastId, prune, removing, history>>
    BY <1>12 DEF Discard
  <2>2. QED BY <1>1, <2>1, NoUploadIsTyped DEF ServerShapes, WorkShapes, HistoryShapes, history
<1>13. G
  <2> HIDE DEF G
  <2>1. QED BY <1>4, <1>5, <1>6, <1>8, <1>9, <1>10, <1>11, <1>12, Zenon DEF Serve
<1>14. ServerShapes' /\ HistoryShapes' BY <1>1, <1>2, <1>3, <1>13 DEF ServerShapes, HistoryShapes
<1>15. QED BY <1>3, <1>13, <1>14, PartsMakeShapes

LEMMA ManageTyped == ASSUME Shapes, DiskInv, Manage PROVE Shapes'
<1>1. ServerShapes /\ WorkShapes /\ HistoryShapes /\ ConsoleShapes BY ShapesAreParts
<1>2. Manage => UNCHANGED <<lastId, upload, overtaken, save, console, seen>>
  BY DEF Manage, SetPinned, DeleteRow, DeleteFile, LoseFile, SetKeep, history
<1>3. ConsoleShapes' BY <1>1, <1>2 DEF ConsoleShapes
<1> DEFINE G == rows' \in SUBSET Rows /\ files' \in [Ids -> Shas \cup {Nothing}] /\ keep' \in Keeps
                /\ prune' \in [Workers -> APrune] /\ removing' \in SUBSET Ids /\ deleted' \in SUBSET Ids
                /\ lost' \in SUBSET Ids /\ stray' \in SUBSET Ids /\ edits' \in Nat /\ troubles' \in Nat
<1>4. ASSUME NEW r \in rows, SetPinned(r) PROVE G
  <2>1. rows' \in SUBSET Rows BY <1>4, SetPinnedRows DEF Drops
  <2>2. edits' = edits + 1 /\ UNCHANGED <<files, keep, prune, removing, deleted, lost, stray, troubles>>
    BY <1>4 DEF SetPinned, Edit
  <2>3. QED BY <1>1, <2>1, <2>2 DEF ServerShapes, WorkShapes, HistoryShapes
<1>5. ASSUME NEW r \in rows, DeleteRow(r) PROVE G
  <2>1. r.id \in Ids BY <1>1 DEF ServerShapes, Rows
  <2>2. rows' = rows \ {r} /\ Strayed(r.id, {}) /\ removing' = removing \cup {r.id}
        /\ deleted' = deleted \cup {r.id} \cup Outdated(r.id)
        /\ edits' = edits + 1 /\ UNCHANGED <<files, keep, prune, lost, troubles>>
    BY <1>5 DEF DeleteRow, Edit
  <2>3. deleted' \in SUBSET Ids BY <1>1, <2>1, <2>2, DoomedAreIds DEF HistoryShapes
  <2>4. stray' \in SUBSET Ids BY <1>1, <2>1, <2>2, StrayedIsTyped
  <2>5. QED BY <1>1, <2>1, <2>2, <2>3, <2>4 DEF ServerShapes, WorkShapes, HistoryShapes
<1>6. ASSUME NEW i \in Ids, DeleteFile(i) PROVE G
  <2>1. files' = [files EXCEPT ![i] = Nothing] /\ removing' = removing \ {i}
        /\ UNCHANGED <<rows, keep, prune, history>>
    BY <1>6 DEF DeleteFile
  <2>2. QED BY <1>1, <2>1 DEF ServerShapes, WorkShapes, HistoryShapes, history
<1>7. ASSUME NEW i \in Ids, LoseFile(i) PROVE G
  <2>1. files' = [files EXCEPT ![i] = Nothing] /\ lost' = lost \cup {i} /\ troubles' = troubles + 1
        /\ UNCHANGED <<rows, keep, prune, removing, deleted, stray, edits>>
    BY <1>7 DEF LoseFile, Spend
  <2>2. QED BY <1>1, <2>1 DEF ServerShapes, WorkShapes, HistoryShapes
<1>8. ASSUME NEW k \in Keeps, SetKeep(k) PROVE G
  <2>1. keep' = k /\ prune' = [prune EXCEPT ![Settings] = Start] /\ edits' = edits + 1
        /\ UNCHANGED <<rows, files, removing, deleted, lost, stray, troubles>>
    BY <1>8 DEF SetKeep, Edit
  <2>2. prune' \in [Workers -> APrune] BY <1>1, <2>1, StartIsTyped DEF WorkShapes
  <2>3. QED BY <1>1, <2>1, <2>2 DEF ServerShapes, WorkShapes, HistoryShapes
<1>9. G
  <2> HIDE DEF G
  <2>1. QED BY <1>4, <1>5, <1>6, <1>7, <1>8, Zenon DEF Manage
<1>10. ServerShapes' /\ WorkShapes' /\ HistoryShapes'
  BY <1>1, <1>2, <1>9 DEF ServerShapes, WorkShapes, HistoryShapes
<1>11. QED BY <1>3, <1>10, PartsMakeShapes

LEMMA ListedIsTyped == ASSUME ServerShapes PROVE Listed \in ABackup \cup {Nothing}
<1> DEFINE L == {[id |-> r.id, sha |-> r.sha] : r \in Newest}
<1>1. L \subseteq ABackup BY DEF ServerShapes, Newest, Rows, ABackup
<1>2. CASE \E r \in Newest : r.origin = "manual"
  <2>1. L # {} BY <1>2
  <2>2. Listed = CHOOSE l \in L : TRUE BY <1>2 DEF Listed
  <2> HIDE DEF L
  <2>3. QED BY <1>1, <2>1, <2>2
<1>3. CASE ~\E r \in Newest : r.origin = "manual" BY <1>3 DEF Listed
<1>4. QED BY <1>2, <1>3

LEMMA AtRestIsTyped ==
    /\ AtRest \in AConsole /\ AtRest.pc = "idle" /\ AtRest.upload = Nothing
    /\ AtRest.from = Nothing /\ AtRest.before = Nothing /\ AtRest.undo = 0
    /\ Failed \in AConsole /\ Failed.pc = "failed" /\ Failed.upload = Nothing
BY SaveBackupsAssumption DEF AtRest, Failed, AConsole, ConsolePcs

(* What the console does. *)
LEMMA UseLeavesServer ==
    Use => UNCHANGED <<rows, files, lastId, keep, prune, removing, deleted, lost, stray, overtaken, edits>>
<1> DEFINE U == UNCHANGED <<rows, files, lastId, keep, prune, removing, deleted, lost, stray, overtaken, edits>>
<1>1. ASSUME NEW c \in Contents, Play(c) PROVE U BY <1>1 DEF Play, server, history
<1>2. ASSUME NEW u \in Uploads, Backup(u) PROVE U BY <1>2 DEF Backup, history
<1>3. ASSUME NEW u \in Uploads, NEW r \in rows, Restore(u, r) PROVE U BY <1>3 DEF Restore, history
<1>4. ASSUME NEW arrived \in BOOLEAN, GiveUp(arrived) PROVE U BY <1>4 DEF GiveUp
<1>5. Reload \/ SkipBackup \/ CommitPart \/ CommitLast \/ Acknowledge => U
  BY DEF Reload, SkipBackup, CommitPart, CommitLast, Acknowledge, server, history
<1>6. Answered \/ WriteFails => U BY DEF Answered, WriteFails, server, history
<1> HIDE DEF U
<1>7. Use => U BY <1>1, <1>2, <1>3, <1>4, <1>5, <1>6, Zenon DEF Use
<1>8. QED BY <1>7 DEF U

LEMMA UseTyped == ASSUME Shapes, DiskInv, OneIsAwaited, CountedOn, Use PROVE Shapes'
<1>1. ServerShapes /\ WorkShapes /\ HistoryShapes /\ ConsoleShapes BY ShapesAreParts
<1>2. UNCHANGED <<rows, files, lastId, keep, prune, removing, deleted, lost, stray, overtaken, edits>>
  BY UseLeavesServer
<1>3. ServerShapes' BY <1>1, <1>2 DEF ServerShapes
<1> DEFINE G == upload' \in [Uploads -> AnUpload] /\ troubles' \in Nat /\ ConsoleShapes'
<1>4. save \in Shas /\ console \in AConsole /\ seen \in ABackup \cup {Nothing} /\ troubles \in Nat
      /\ upload \in [Uploads -> AnUpload]
  BY <1>1 DEF ConsoleShapes, HistoryShapes, WorkShapes
<1>5. ASSUME NEW c \in Contents, Play(c) PROVE G
  BY <1>4, <1>5 DEF Play, server, history, ConsoleShapes, Shas
<1>6. ASSUME NEW u \in Uploads, NEW origin \in Origins, Send(u, origin) PROVE upload' \in [Uploads -> AnUpload]
  <2>1. upload' = [upload EXCEPT ![u] = Sent(u, origin)] BY <1>6 DEF Send, Sent
  <2>2. Sent(u, origin) \in AnUpload BY SentIsTyped
  <2>3. QED BY <1>4, <2>1, <2>2
<1>7. ASSUME NEW u \in Uploads, Backup(u) PROVE G
  <2>1. Send(u, "manual") /\ console' = [AtRest EXCEPT !.pc = "backup", !.upload = u]
        /\ UNCHANGED <<save, seen, troubles>>
    BY <1>7 DEF Backup, history
  <2>2. console' \in AConsole BY <2>1, AtRestIsTyped DEF AConsole, ConsolePcs
  <2>3. upload' \in [Uploads -> AnUpload] BY <1>6, <2>1 DEF Origins
  <2>4. QED BY <1>4, <2>1, <2>2, <2>3 DEF ConsoleShapes
<1>8. ASSUME NEW u \in Uploads, NEW r \in rows, Restore(u, r) PROVE G
  <2>1. Send(u, "pre-restore") /\ UNCHANGED <<save, seen, troubles>>
        /\ console' = [AtRest EXCEPT !.pc = "restore", !.upload = u, !.from = r.sha, !.before = save]
    BY <1>8 DEF Restore, history
  <2>2. r.sha \in Shas BY <1>1 DEF ServerShapes, Rows
  <2>3. console' \in AConsole BY <1>4, <2>1, <2>2, AtRestIsTyped DEF AConsole, ConsolePcs
  <2>4. upload' \in [Uploads -> AnUpload] BY <1>6, <2>1 DEF Origins
  <2>5. QED BY <1>4, <2>1, <2>3, <2>4 DEF ConsoleShapes
<1>9. ASSUME NEW arrived \in BOOLEAN, GiveUp(arrived) PROVE G
  <2>1. console.upload \in Uploads BY <1>9 DEF GiveUp, OneIsAwaited, Waiting
  <2>2. console' = Failed /\ UNCHANGED <<save, seen>> /\ troubles' = troubles + 1
        /\ upload' = IF arrived THEN [upload EXCEPT ![console.upload].given = TRUE]
                     ELSE [upload EXCEPT ![console.upload] = NoUpload]
    BY <1>9 DEF GiveUp, Spend
  <2>3. [upload[console.upload] EXCEPT !.given = TRUE] \in AnUpload BY <1>4, <2>1 DEF AnUpload
  <2>4. upload' \in [Uploads -> AnUpload] BY <1>4, <2>1, <2>2, <2>3, NoUploadIsTyped
  <2>5. QED BY <1>4, <2>2, <2>4, AtRestIsTyped DEF ConsoleShapes
<1>10. ASSUME Reload \/ Acknowledge PROVE G
  <2>1. seen' = Listed /\ UNCHANGED <<upload, save, troubles>> /\ console' \in {console, AtRest}
    BY <1>10 DEF Reload, Acknowledge, server, history
  <2>2. QED BY <1>1, <1>4, <2>1, ListedIsTyped, AtRestIsTyped DEF ConsoleShapes
<1>11. ASSUME SkipBackup PROVE G
  <2>1. UNCHANGED <<upload, save, seen, troubles>> /\ seen # Nothing
        /\ console' = [AtRest EXCEPT !.pc = "skipped", !.undo = seen.id]
    BY <1>11 DEF SkipBackup, server, history
  <2>2. seen.id \in 0..MaxIds BY <1>4, <2>1, SaveBackupsAssumption DEF ABackup, Ids
  <2>3. console' \in AConsole BY <2>1, <2>2, AtRestIsTyped DEF AConsole, ConsolePcs
  <2>4. QED BY <1>4, <2>1, <2>3 DEF ConsoleShapes
<1>12. ASSUME Answered PROVE G
  <2> DEFINE u == console.upload
  <2>1. u \in Uploads BY <1>12 DEF Answered, OneIsAwaited, Waiting
  <2> DEFINE told(pc) == [console EXCEPT !.pc = pc, !.upload = Nothing, !.undo = upload[u].id]
  <2>2. upload' = [upload EXCEPT ![u] = NoUpload] /\ UNCHANGED <<save, seen, troubles>>
        /\ console' \in {Failed, told("writing"), told("reported")}
    BY <1>12 DEF Answered, history
  <2>3. upload[u].id \in 0..MaxIds BY <2>1, UploadIsTyped
  <2> HIDE DEF u
  <2>4. told("writing") \in AConsole /\ told("reported") \in AConsole
    BY <1>4, <2>3 DEF AConsole, ConsolePcs
  <2> HIDE DEF told
  <2>5. upload' \in [Uploads -> AnUpload] BY <1>4, <2>1, <2>2, NoUploadIsTyped
  <2>6. QED BY <1>4, <2>2, <2>4, <2>5, AtRestIsTyped DEF ConsoleShapes
<1>13. ASSUME CommitPart PROVE G
  <2>1. console' = [console EXCEPT !.pc = "partly"] /\ save' = Mixed /\ UNCHANGED <<upload, seen, troubles>>
    BY <1>13 DEF CommitPart, server, history
  <2>2. console' \in AConsole BY <1>4, <2>1 DEF AConsole, ConsolePcs
  <2>3. QED BY <1>4, <2>1, <2>2 DEF ConsoleShapes, Shas
<1>14. ASSUME CommitLast PROVE G
  <2>1. console' = [console EXCEPT !.pc = "restored"] /\ save' = console.from /\ UNCHANGED <<upload, seen, troubles>>
    BY <1>14 DEF CommitLast, server, history
  <2>2. console.from \in Shas BY <1>14 DEF CommitLast, CountedOn
  <2>3. console' \in AConsole BY <1>4, <2>1 DEF AConsole, ConsolePcs
  <2>4. QED BY <1>4, <2>1, <2>2, <2>3 DEF ConsoleShapes
<1>15. ASSUME WriteFails PROVE G
  <2>1. console' \in {Failed, [console EXCEPT !.pc = "restored"]} /\ UNCHANGED <<upload, save, seen>>
        /\ troubles' = troubles + 1
    BY <1>15 DEF WriteFails, server, Spend
  <2>2. [console EXCEPT !.pc = "restored"] \in AConsole BY <1>4 DEF AConsole, ConsolePcs
  <2>3. QED BY <1>4, <2>1, <2>2, AtRestIsTyped DEF ConsoleShapes
<1>16. G
  <2> HIDE DEF G
  <2>1. QED BY <1>5, <1>7, <1>8, <1>9, <1>10, <1>11, <1>12, <1>13, <1>14, <1>15, Zenon DEF Use
<1>17. WorkShapes' /\ HistoryShapes' BY <1>1, <1>2, <1>16 DEF WorkShapes, HistoryShapes
<1>18. QED BY <1>3, <1>16, <1>17, PartsMakeShapes

(* The server moves uploads on; it begins none, and forgets only what was given up. *)
ServedUpload(v) ==
    \/ /\ upload'[v].given = upload[v].given
       /\ upload'[v].pc = "free" <=> upload[v].pc = "free"
       /\ upload'[v].pc = "received" => upload[v].pc = "received"
    \/ upload[v].given /\ upload'[v] = NoUpload

LEMMA ServeUploads == ASSUME Shapes, RoomForReceived, DiskInv, Serve PROVE \A v \in Uploads : ServedUpload(v)
<1> DEFINE G == \A v \in Uploads : ServedUpload(v)
<1>1. ASSUME UNCHANGED upload PROVE G BY <1>1 DEF ServedUpload
<1>2. ASSUME NEW w \in Workers, PruneRow(w) \/ PruneFile(w) PROVE G
  <2>1. UNCHANGED upload BY <1>2 DEF PruneRow, PruneFile
  <2>2. QED BY <1>1, <2>1
<1>3. ASSUME NEW u \in Uploads, NEW p \in UploadPcs \ {"free", "received"}, Goes(u, p), upload[u].pc # "free" PROVE G
  <2>1. \A v \in Uploads : /\ upload'[v].given = upload[v].given
                           /\ upload'[v].pc = IF v = u THEN p ELSE upload[v].pc
    BY <1>3, GoesTo
  <2>2. QED BY <1>3, <2>1 DEF ServedUpload
<1>4. ASSUME NEW u \in Uploads,
             CheckExists(u) \/ PutBack(u) \/ Promote(u) \/ Place(u) \/ PlaceFails(u) \/ Finish(u)
      PROVE  G
  <2>1. upload[u].pc # "free" /\ \E p \in UploadPcs \ {"free", "received"} : Goes(u, p)
    BY <1>4 DEF CheckExists, PutBack, Promote, Place, PlaceFails, Finish, UploadPcs
  <2>2. QED BY <1>3, <2>1
<1>5. ASSUME NEW u \in Uploads, Decide(u) PROVE G
  <2>1. PICK i \in Ids : DecidesExists(u, i) \/ DecidesInsert(u, i) BY <1>5, DecideFacts
  <2>2. PICK p \in {"exists", "place"} : DecidesOn(u, i, p) BY <2>1 DEF DecidesExists, DecidesInsert
  <2>3. upload[u].pc = "received" BY <2>2 DEF DecidesOn
  <2>4. \A v \in Uploads : upload'[v].given = upload[v].given /\ (v # u => upload'[v] = upload[v])
    BY <2>2, DecidedUpload
  <2>5. upload'[u].pc \in {"exists", "place"} BY <2>2, DecidedUpload
  <2>6. QED BY <2>3, <2>4, <2>5 DEF ServedUpload
<1>6. ASSUME NEW u \in Uploads, Discard(u) PROVE G
  <2>1. upload[u].given /\ upload' = [upload EXCEPT ![u] = NoUpload] BY <1>6 DEF Discard
  <2>2. \A v \in Uploads : upload'[v] = IF v = u THEN NoUpload ELSE upload[v] BY <2>1, UploadIsTyped
  <2>3. QED BY <2>1, <2>2 DEF ServedUpload
<1> HIDE DEF G
<1>7. G BY <1>2, <1>4, <1>5, <1>6, Zenon DEF Serve
<1>8. QED BY <1>7 DEF G

LEMMA CrashedUploads ==
    ASSUME Shapes, Crash
    PROVE  /\ upload' \in [Uploads -> AnUpload]
           /\ \A v \in Uploads :
                \/ upload'[v] = NoUpload /\ (upload[v].pc = "free" \/ upload[v].given)
                \/ /\ upload'[v].pc = "failed" /\ upload[v].pc # "free" /\ ~upload[v].given /\ ~upload'[v].given
                   /\ upload'[v].sha = upload[v].sha
<1> DEFINE x(u) == [upload[u] EXCEPT !.pc = "failed"]
<1>1. \A u \in Uploads : x(u) \in AnUpload /\ x(u).pc = "failed" /\ x(u).given = upload[u].given /\ x(u).sha = upload[u].sha
  BY UploadIsTyped DEF AnUpload, UploadPcs
<1>2. upload' = [u \in Uploads |-> IF upload[u].pc = "free" \/ upload[u].given THEN NoUpload ELSE x(u)]
  BY DEF Crash
<1> HIDE DEF x
<1>3. QED BY <1>1, <1>2, NoUploadIsTyped

LEMMA CrashTyped == ASSUME Shapes, Crash PROVE Shapes'
<1>1. ServerShapes /\ WorkShapes /\ HistoryShapes /\ ConsoleShapes BY ShapesAreParts
<1>2. UNCHANGED <<rows, files, lastId, keep, save, console, seen, deleted, overtaken, edits>>
      /\ prune' = [w \in Workers |-> NoPrune] /\ removing' = {} /\ troubles' = troubles + 1
      /\ lost' = lost \cup {i \in RowIds : files[i] = Nothing}
      /\ stray' = stray \cup {i \in Ids \ RowIds : files[i] # Nothing}
  BY DEF Crash, Spend
<1>3. RowIds \subseteq Ids BY <1>1 DEF ServerShapes, RowIds, Rows
<1>4. WorkShapes' BY <1>2, CrashedUploads, StartIsTyped DEF WorkShapes
<1>5. ServerShapes' /\ ConsoleShapes' BY <1>1, <1>2 DEF ServerShapes, ConsoleShapes
<1>6. HistoryShapes' BY <1>1, <1>2, <1>3 DEF HistoryShapes
<1>7. QED BY <1>4, <1>5, <1>6, PartsMakeShapes

LEMMA ShapesNext == BackupsInv /\ [Next]_vars => Shapes'
<1>1. SUFFICES ASSUME BackupsInv, [Next]_vars PROVE Shapes' OBVIOUS
<1>2. Shapes /\ RoomForReceived /\ DiskInv /\ OneIsAwaited /\ CountedOn BY <1>1 DEF BackupsInv, ConsoleInv
<1>3. CASE Serve BY <1>2, <1>3, ServeTyped
<1>4. CASE Manage BY <1>2, <1>4, ManageTyped
<1>5. CASE Use BY <1>2, <1>5, UseTyped
<1>6. CASE Crash BY <1>2, <1>6, CrashTyped
<1>7. CASE UNCHANGED vars BY <1>2, <1>7 DEF vars, Shapes
<1>8. QED BY <1>1, <1>3, <1>4, <1>5, <1>6, <1>7, Zenon DEF Next

-----------------------------------------------------------------------------
(* Room for what was received.                                               *)

LEMMA RoomIsLeft ==
    ASSUME Shapes, RoomForReceived, lastId' = lastId,
           \A v \in Uploads : upload'[v].pc = "received" => upload[v].pc = "received"
    PROVE  RoomForReceived'
<1>1. IsFiniteSet(Received) BY FS_Subset, SaveBackupsAssumption DEF Received
<1>2. Received' \subseteq Received BY DEF Received
<1>3. Cardinality(Received') <= Cardinality(Received) /\ Cardinality(Received) \in Nat
      /\ Cardinality(Received') \in Nat
  BY <1>1, <1>2, FS_Subset, FS_CardinalityType
<1>4. lastId \in Int BY DEF Shapes
<1>5. QED BY <1>3, <1>4, SaveBackupsAssumption DEF RoomForReceived

LEMMA RoomWhenDecided ==
    ASSUME Shapes, RoomForReceived, DiskInv, NEW u \in Uploads, Decide(u) PROVE RoomForReceived'
<1>1. PICK i \in Ids : DecidesExists(u, i) \/ DecidesInsert(u, i) BY DecideFacts
<1>2. PICK p \in {"exists", "place"} : DecidesOn(u, i, p) BY <1>1 DEF DecidesExists, DecidesInsert
<1>3. u \in Received BY <1>2 DEF DecidesOn, Received
<1>4. Received' = Received \ {u} BY <1>2, DecidedUpload DEF Received
<1>5. IsFiniteSet(Received) BY FS_Subset, SaveBackupsAssumption DEF Received
<1>6. Cardinality(Received') = Cardinality(Received) - 1 /\ Cardinality(Received) \in Nat
  BY <1>3, <1>4, <1>5, FS_RemoveElement, FS_CardinalityType
<1>7. lastId' \in {lastId, lastId + 1} BY <1>1 DEF DecidesExists, DecidesInsert
<1>8. lastId \in Int BY DEF Shapes
<1>9. QED BY <1>6, <1>7, <1>8, SaveBackupsAssumption DEF RoomForReceived

LEMMA RoomWhenSent ==
    ASSUME Shapes, RoomForReceived, NEW u \in Uploads, NEW origin \in Origins, Send(u, origin), lastId' = lastId
    PROVE RoomForReceived'
<1>1. upload' = [upload EXCEPT ![u] = Sent(u, origin)] /\ upload[u] = NoUpload
      /\ lastId + Cardinality(Received) < MaxIds
  BY DEF Send, Sent, Received
<1>2. upload'[u].pc = "received" /\ \A v \in Uploads \ {u} : upload'[v] = upload[v]
  BY <1>1, UploadIsTyped, SentIsTyped
<1>3. Received' = Received \cup {u} /\ u \notin Received BY <1>1, <1>2, NoUploadIsTyped DEF Received
<1>4. IsFiniteSet(Received) BY FS_Subset, SaveBackupsAssumption DEF Received
<1>5. Cardinality(Received') = Cardinality(Received) + 1 /\ Cardinality(Received) \in Nat
  BY <1>3, <1>4, FS_AddElement, FS_CardinalityType
<1>6. lastId \in Int BY DEF Shapes
<1>7. QED BY <1>1, <1>5, <1>6, SaveBackupsAssumption DEF RoomForReceived

LEMMA RoomNext == BackupsInv /\ [Next]_vars => RoomForReceived'
<1>1. SUFFICES ASSUME BackupsInv, [Next]_vars PROVE RoomForReceived' OBVIOUS
<1>2. Shapes /\ RoomForReceived /\ DiskInv /\ OneIsAwaited BY <1>1 DEF BackupsInv, ConsoleInv
<1>3. CASE Serve
  <2>1. CASE \E u \in Uploads : Decide(u) BY <1>2, <2>1, RoomWhenDecided
  <2>2. CASE ~\E u \in Uploads : Decide(u)
    <3>1. lastId' = lastId
      BY <1>3, <2>2 DEF Serve, PruneRow, PruneFile, CheckExists, PutBack, Promote, Place, PlaceFails, Finish, Discard
    <3>2. \A v \in Uploads : upload'[v].pc = "received" => upload[v].pc = "received"
      BY <1>2, <1>3, ServeUploads, NoUploadIsTyped DEF ServedUpload
    <3>3. QED BY <1>2, <3>1, <3>2, RoomIsLeft
  <2>3. QED BY <2>1, <2>2
<1>4. CASE Manage
  <2>1. UNCHANGED <<lastId, upload>> BY <1>4 DEF Manage, SetPinned, DeleteRow, DeleteFile, LoseFile, SetKeep
  <2>2. QED BY <1>2, <2>1, RoomIsLeft
<1>5. CASE Use
  <2>1. lastId' = lastId BY <1>5, UseLeavesServer
  <2>2. ASSUME NEW u \in Uploads, Backup(u) \/ \E r \in rows : Restore(u, r) PROVE RoomForReceived'
    <3>1. Send(u, "manual") \/ Send(u, "pre-restore") BY <2>2, Zenon DEF Backup, Restore
    <3>2. "manual" \in Origins /\ "pre-restore" \in Origins BY DEF Origins
    <3>3. QED BY <1>2, <2>1, <3>1, <3>2, RoomWhenSent
  <2>3. ASSUME NEW arrived \in BOOLEAN, GiveUp(arrived) PROVE RoomForReceived'
    <3>1. console.upload \in Uploads BY <1>2, <2>3 DEF GiveUp, OneIsAwaited, Waiting
    <3>2. upload' = IF arrived THEN [upload EXCEPT ![console.upload].given = TRUE]
                    ELSE [upload EXCEPT ![console.upload] = NoUpload]
      BY <2>3 DEF GiveUp
    <3>3. [upload[console.upload] EXCEPT !.given = TRUE].pc = upload[console.upload].pc
      BY <1>2, <3>1, UploadIsTyped DEF AnUpload
    <3>4. \A v \in Uploads : upload'[v].pc = "received" => upload[v].pc = "received"
      BY <1>2, <3>1, <3>2, <3>3, UploadIsTyped, NoUploadIsTyped
    <3>5. QED BY <1>2, <2>1, <3>4, RoomIsLeft
  <2>4. ASSUME Answered PROVE RoomForReceived'
    <3>1. upload' = [upload EXCEPT ![console.upload] = NoUpload] BY <2>4 DEF Answered
    <3>2. \A v \in Uploads : upload'[v].pc = "received" => upload[v].pc = "received"
      BY <1>2, <3>1, UploadIsTyped, NoUploadIsTyped
    <3>3. QED BY <1>2, <2>1, <3>2, RoomIsLeft
  <2>5. ASSUME UNCHANGED upload PROVE RoomForReceived' BY <1>2, <2>1, <2>5, RoomIsLeft
  <2>6. (\E c \in Contents : Play(c)) \/ Reload \/ SkipBackup \/ CommitPart \/ CommitLast \/ WriteFails \/ Acknowledge
        => UNCHANGED upload
    BY DEF Play, Reload, SkipBackup, CommitPart, CommitLast, WriteFails, Acknowledge, server
  <2>7. QED BY <1>5, <2>2, <2>3, <2>4, <2>5, <2>6, Zenon DEF Use
<1>6. CASE Crash
  <2>1. lastId' = lastId BY <1>6 DEF Crash
  <2>2. \A v \in Uploads : upload'[v].pc = "received" => upload[v].pc = "received"
    BY <1>2, <1>6, CrashedUploads, NoUploadIsTyped
  <2>3. QED BY <1>2, <2>1, <2>2, RoomIsLeft
<1>7. CASE UNCHANGED vars BY <1>2, <1>7, RoomIsLeft DEF vars
<1>8. QED BY <1>1, <1>3, <1>4, <1>5, <1>6, <1>7, Zenon DEF Next

-----------------------------------------------------------------------------
(* What the console counts on.                                               *)

(* Nothing newer than the newest row is ever on a list. *)
LEMMA SparedWhenRowGoes ==
    ASSUME Shapes, NewestIsSpared, NEW i \in Int, Drops(rows, rows', i), deleted \subseteq deleted',
           \A j \in Doomed' : j \in Doomed \/ ((\E o \in rows : o.id > j) /\ (\E o \in rows : o.id > i)),
           i # 0 /\ (\A r \in rows : r.id <= i) => Doomed \subseteq deleted'
    PROVE  NewestIsSpared'
<1>1. rows \in SUBSET Rows /\ \A r \in rows : r.id \in Int /\ r.id > 0 BY DEF Shapes, Rows, Ids
<1>2. Newest = NewestOf(rows) /\ Newest' = NewestOf(rows') BY DEF Newest, NewestOf
<1>3. rows' # {} => rows # {} BY DEF Drops
<1>4. ASSUME NEW r \in Newest', r.id \in Doomed' PROVE r.id \in deleted'
  <2>1. rows # {} BY <1>2, <1>3, <1>4 DEF NewestOf
  <2>2. CASE \A b \in rows : b.id <= i
    <3>1. i # 0 BY <1>1, <2>1, <2>2
    <3>2. \A b \in rows : ~(b.id > i) BY <1>1, <2>2
    <3>3. r.id \in Doomed BY <1>4, <3>2
    <3>4. QED BY <2>2, <3>1, <3>3
  <2>3. CASE \E b \in rows : b.id > i
    <3>1. PICK n \in Newest : n.id = r.id BY <1>1, <1>2, <1>4, <2>3, NewestStays
    <3>2. \A o \in rows : o.id <= r.id BY <3>1 DEF Newest
    <3>3. ~\E o \in rows : o.id > r.id
      <4>1. r.id \in Int BY <1>1, <3>1 DEF Newest
      <4>2. QED BY <1>1, <3>2, <4>1
    <3>4. r.id \in Doomed BY <1>4, <3>3
    <3>5. QED BY <3>1, <3>4 DEF NewestIsSpared
  <2>4. QED BY <1>1, <2>2, <2>3
<1>5. QED BY <1>4 DEF NewestIsSpared

LEMMA KeptWhenRowGoes ==
    ASSUME NEW R \in SUBSET Rows, NEW S, NEW i \in Int, Drops(R, S, i), NEW gone, NEW went, NEW over, NEW now,
           gone \subseteq went, over => now,
           \A r \in NewestOf(R) : r.id = i => i \in went \/ now
    PROVE  \A j, sha : KeptIn(R, gone, over, j, sha) => KeptIn(S, went, now, j, sha)
<1>1. \A r \in NewestOf(R) : r.id = i \/ \E o \in NewestOf(S) : o.id = r.id /\ o.sha = r.sha BY NewestStays
<1>2. SUFFICES ASSUME NEW j, NEW sha, KeptIn(R, gone, over, j, sha) PROVE KeptIn(S, went, now, j, sha)
  OBVIOUS
<1>3. CASE over BY <1>3, Zenon DEF KeptIn
<1>4. CASE j \in gone BY <1>4, Zenon DEF KeptIn
<1>5. CASE \E r \in NewestOf(R) : r.id = j /\ r.sha = sha
  <2>1. PICK r \in NewestOf(R) : r.id = j /\ r.sha = sha BY <1>5
  <2>2. CASE r.id = i BY <2>1, <2>2, Zenon DEF KeptIn
  <2>3. CASE r.id # i BY <1>1, <2>1, <2>3, Zenon DEF KeptIn
  <2>4. QED BY <2>2, <2>3
<1>6. QED BY <1>2, <1>3, <1>4, <1>5, Zenon DEF KeptIn

LEMMA DoomedRests == ASSUME UNCHANGED prune PROVE Doomed' = Doomed
BY DEF Doomed

KeptStays == \A j, sha : KeptIn(rows, deleted, overtaken, j, sha) => KeptIn(rows', deleted', overtaken', j, sha)

LEMMA PruneSpares ==
    ASSUME Shapes, NewestIsSpared, NEW w \in Workers, NEW R, Drops(rows, R, 0),
           PruneEnds(w, R) \/ \E i, p : PrunesOne(w, R, i, p)
    PROVE  NewestIsSpared' /\ KeptStays
<1>1. prune \in [Workers -> APrune] /\ rows \in SUBSET Rows BY DEF Shapes
<1>2. Newest = NewestOf(rows) BY DEF Newest, NewestOf
<1>3. \A o \in R : \E r \in rows : r.id = o.id BY DEF Drops
<1>4. CASE PruneEnds(w, R)
  <2>1. Drops(rows, rows', 0) /\ UNCHANGED <<deleted, overtaken>> BY <1>4 DEF PruneEnds
  <2>2. \A v \in Workers : prune'[v].left \subseteq prune[v].left BY <1>1, <1>4 DEF PruneEnds, NoPrune
  <2>3. Doomed' \subseteq Doomed BY <2>2 DEF Doomed
  <2>4. NewestIsSpared' BY <2>1, <2>3, SparedWhenRowGoes
  <2>5. \A r \in NewestOf(rows) : r.id # 0 BY <1>1 DEF NewestOf, Rows, Ids
  <2>6. KeptStays BY <1>1, <2>1, <2>5, KeptWhenRowGoes DEF KeptStays
  <2>7. QED BY <2>4, <2>6
<1>5. CASE \E i, p : PrunesOne(w, R, i, p)
  <2>1. PICK i, p : PrunesOne(w, R, i, p) BY <1>5
  <2>2. i \in Ids /\ i \in Int /\ i # 0 /\ Drops(rows, rows', i) BY <2>1 DEF PrunesOne, Ids
  <2>3. deleted' = deleted \cup Outdated(i) BY <2>1 DEF PrunesOne
  <2>4. \A v \in Workers : prune'[v] = IF v = w THEN p ELSE prune[v] BY <1>1, <2>1 DEF PrunesOne
  <2>5. \A j \in Doomed' : j \in Doomed \/ j \in p.left BY <2>4 DEF Doomed
  <2>6. \/ p.left \cup {i} \subseteq Doomed
        \/ \A j \in p.left \cup {i} : \E o \in rows : o.id > j
    <3>1. CASE p.left \cup {i} \subseteq prune[w].left BY <3>1 DEF Doomed
    <3>2. CASE \A j \in p.left \cup {i} : \E r \in R : r.id = j /\ ~r.pinned /\ \E o \in R : o.id > j
      BY <1>3, <3>2
    <3>3. QED BY <2>1, <3>1, <3>2 DEF PrunesOne
  <2>7. \A j \in Doomed' : j \in Doomed \/ ((\E o \in rows : o.id > j) /\ (\E o \in rows : o.id > i))
    BY <2>5, <2>6
  <2>8. (\A r \in rows : r.id <= i) => Doomed \subseteq deleted' BY <2>3 DEF Outdated
  <2>9. NewestIsSpared' BY <2>2, <2>3, <2>7, <2>8, SparedWhenRowGoes
  <2>10. \A r \in NewestOf(rows) : r.id = i => i \in deleted'
    <3>1. SUFFICES ASSUME NEW r \in NewestOf(rows), r.id = i PROVE i \in deleted' OBVIOUS
    <3>2. \A o \in rows : o.id <= i BY <3>1 DEF NewestOf
    <3>3. CASE i \in Doomed BY <2>8, <3>2, <3>3
    <3>4. CASE \E o \in rows : o.id > i BY <1>1, <2>2, <3>2, <3>4 DEF Rows, Ids
    <3>5. QED BY <2>6, <3>3, <3>4
  <2>11. overtaken => overtaken' BY <2>1, Zenon DEF PrunesOne
  <2>12. KeptStays BY <1>1, <2>2, <2>3, <2>10, <2>11, KeptWhenRowGoes DEF KeptStays
  <2>13. QED BY <2>9, <2>12
<1>6. QED BY <1>4, <1>5

LEMMA RestsSpares ==
    ASSUME Shapes, DiskInv, NewestIsSpared, UNCHANGED <<rows, deleted, overtaken>>, Doomed' \subseteq Doomed
    PROVE  NewestIsSpared' /\ KeptStays
<1>1. Newest' = Newest BY DEF Newest
<1>2. NewestIsSpared' BY <1>1 DEF NewestIsSpared
<1>3. KeptStays BY DEF KeptStays
<1>4. QED BY <1>2, <1>3

LEMMA SetPinnedSpares ==
    ASSUME Shapes, DiskInv, NewestIsSpared, NEW r \in rows, SetPinned(r) PROVE NewestIsSpared' /\ KeptStays
<1>1. Drops(rows, rows', 0) BY SetPinnedRows
<1>2. UNCHANGED <<prune, deleted, overtaken>> BY DEF SetPinned
<1>3. Doomed' = Doomed BY <1>2, DoomedRests
<1>4. NewestIsSpared' BY <1>1, <1>2, <1>3, SparedWhenRowGoes
<1>5. rows \in SUBSET Rows /\ \A o \in NewestOf(rows) : o.id # 0 BY DEF Shapes, NewestOf, Rows, Ids
<1>6. KeptStays BY <1>1, <1>2, <1>5, KeptWhenRowGoes DEF KeptStays
<1>7. QED BY <1>4, <1>6

LEMMA DeleteRowSpares ==
    ASSUME Shapes, DiskInv, NewestIsSpared, NEW r \in rows, DeleteRow(r) PROVE NewestIsSpared' /\ KeptStays
<1>1. rows \in SUBSET Rows /\ Unique(rows) BY DEF Shapes, DiskInv, IdsAreUsedOnce
<1>2. r.id \in Int BY <1>1 DEF Rows, Ids
<1>3. rows' = {o \in rows : o.id # r.id} BY <1>1 DEF DeleteRow, Unique
<1>4. Drops(rows, rows', r.id) BY <1>1, <1>3, DroppedRow
<1>5. UNCHANGED <<prune, overtaken>> /\ deleted' = deleted \cup {r.id} \cup Outdated(r.id) BY DEF DeleteRow
<1>6. Doomed' = Doomed BY <1>5, DoomedRests
<1>7. (\A o \in rows : o.id <= r.id) => Doomed \subseteq deleted' BY <1>5 DEF Outdated
<1>8. NewestIsSpared' BY <1>2, <1>4, <1>5, <1>6, <1>7, SparedWhenRowGoes
<1>9. KeptStays
  <2>1. deleted \subseteq deleted' /\ r.id \in deleted' BY <1>5
  <2>2. QED BY <1>1, <1>2, <1>4, <1>5, <2>1, KeptWhenRowGoes DEF KeptStays
<1>10. QED BY <1>8, <1>9

(* The row that is taken back counts as somebody's only if its upload was given up. *)
LEMMA PlaceFailsSpares ==
    ASSUME Shapes, DiskInv, NewestIsSpared, NEW u \in Uploads, PlaceFails(u)
    PROVE  NewestIsSpared' /\ (upload[u].given \/ upload[u].pc = "putBack" => KeptStays)
<1> DEFINE i == upload[u].id
<1>1. UNCHANGED prune BY DEF PlaceFails
<1>2. Doomed' = Doomed BY <1>1, DoomedRests
<1>3. CASE upload[u].pc # "place"
  <2>1. UNCHANGED <<rows, deleted, overtaken>> BY <1>3 DEF PlaceFails
  <2>2. QED BY <1>2, <2>1, RestsSpares
<1>4. CASE upload[u].pc = "place"
  <2>1. rows' = {r \in rows : r.id # i} /\ deleted' = deleted \cup Outdated(i)
        /\ overtaken' = (overtaken \/ upload[u].given)
    BY <1>4 DEF PlaceFails, Without
  <2>2. Drops(rows, rows', i) BY <2>1, DroppedRow DEF Shapes, DiskInv, IdsAreUsedOnce
  <2>3. i \in Int BY UploadIsTyped
  <2>4. (\A o \in rows : o.id <= i) => Doomed \subseteq deleted' BY <2>1 DEF Outdated
  <2>5. deleted \subseteq deleted' BY <2>1
  <2>6. NewestIsSpared' BY <1>2, <2>2, <2>3, <2>4, <2>5, SparedWhenRowGoes
  <2>7. ASSUME upload[u].given PROVE KeptStays
    <3>1. overtaken' BY <2>1, <2>7, Zenon
    <3>2. rows \in SUBSET Rows BY DEF Shapes
    <3>3. KeptStays BY <2>2, <2>3, <2>5, <3>1, <3>2, KeptWhenRowGoes DEF KeptStays
    <3>4. QED BY <3>3
  <2>8. QED BY <1>4, <2>6, <2>7
<1>5. QED BY <1>3, <1>4

(* An upload that finds its bytes, or stores them: its row is the newest. *)
LEMMA DecideSpares ==
    ASSUME Shapes, DiskInv, NewestIsSpared, NEW u \in Uploads, NEW i \in Ids, DecidesExists(u, i) \/ DecidesInsert(u, i)
    PROVE  /\ NewestIsSpared' /\ (upload[u].given \/ DecidesExists(u, i) => KeptStays)
           /\ KeptIn(rows', deleted', overtaken', i, upload[u].sha)
<1>1. i \in RowIds' /\ (\A r \in rows' : r.id = i => r.sha = upload[u].sha) /\ (\A r \in rows' : r.id <= i)
      /\ UNCHANGED <<prune, deleted>>
  BY DEF DecidesExists, DecidesInsert, DecidesOn
<1>2. Doomed' = Doomed BY <1>1, DoomedRests
<1>3. \E r \in NewestOf(rows') : r.id = i /\ r.sha = upload[u].sha BY <1>1 DEF NewestOf, RowIds
<1>4. KeptIn(rows', deleted', overtaken', i, upload[u].sha) BY <1>3, Zenon DEF KeptIn
<1>5. CASE DecidesExists(u, i)
  <2>1. UNCHANGED <<rows, deleted, overtaken>> BY <1>1, <1>5 DEF DecidesExists
  <2>2. QED BY <1>2, <1>4, <2>1, RestsSpares
<1>6. CASE DecidesInsert(u, i)
  <2>1. i = lastId + 1 /\ lastId \in Int BY <1>6 DEF DecidesInsert, Shapes
  <2>2. \A j \in Doomed : j <= lastId BY DEF Doomed, DiskInv, IdsAreUsedOnce
  <2>3. \A r \in Newest' : r.id = i
    <3>1. PICK n \in rows' : n.id = i BY <1>1 DEF RowIds
    <3>2. \A r \in Newest' : i <= r.id /\ r.id <= i BY <1>1, <3>1 DEF Newest
    <3>3. rows' \in SUBSET Rows BY <1>6 DEF Shapes, DecidesInsert
    <3>4. QED BY <2>1, <3>2, <3>3 DEF Newest, Rows, Ids
  <2>4. i \notin Doomed BY <2>1, <2>2
  <2>5. NewestIsSpared' BY <1>2, <2>3, <2>4 DEF NewestIsSpared
  <2>6. ASSUME upload[u].given PROVE KeptStays
    <3>1. overtaken' BY <1>6, <2>6, Zenon DEF DecidesInsert
    <3>2. QED BY <3>1, Zenon DEF KeptStays, KeptIn
  <2>7. ~DecidesExists(u, i)
    <3>1. upload'[u].pc = "place" BY <1>6, DecidedUpload DEF DecidesInsert
    <3>2. DecidesExists(u, i) => upload'[u].pc = "exists" BY DecidedUpload DEF DecidesExists
    <3>3. QED BY <3>1, <3>2
  <2>8. QED BY <1>4, <2>5, <2>6, <2>7
<1>7. QED BY <1>5, <1>6

LEMMA SetKeepSpares == ASSUME Shapes, DiskInv, NewestIsSpared, NEW k \in Keeps, SetKeep(k) PROVE NewestIsSpared' /\ KeptStays
<1>1. UNCHANGED <<rows, deleted, overtaken>> /\ prune' = [prune EXCEPT ![Settings] = Start] BY DEF SetKeep
<1>2. \A w \in Workers : prune'[w].left \subseteq prune[w].left BY <1>1 DEF Shapes, Start
<1>3. Doomed' \subseteq Doomed BY <1>2 DEF Doomed
<1>4. QED BY <1>1, <1>3, RestsSpares

LEMMA FileSpares ==
    ASSUME Shapes, DiskInv, NewestIsSpared, NEW w \in Workers, PruneFile(w)
    PROVE  NewestIsSpared' /\ KeptStays
<1>1. UNCHANGED <<rows, deleted, overtaken>> BY DEF PruneFile, history
<1>2. prune \in [Workers -> APrune] BY DEF Shapes
<1>3. \A v \in Workers : prune'[v].left = prune[v].left BY <1>2 DEF PruneFile, APrune
<1>4. Doomed' \subseteq Doomed BY <1>3 DEF Doomed
<1>5. QED BY <1>1, <1>4, RestsSpares

LEMMA WorkSpares ==
    ASSUME Shapes, DiskInv, NewestIsSpared, NEW u \in Uploads,
           CheckExists(u) \/ PutBack(u) \/ Place(u) \/ Finish(u) \/ Discard(u)
    PROVE  NewestIsSpared' /\ KeptStays
<1>1. UNCHANGED <<rows, deleted, overtaken>>
  BY DEF CheckExists, PutBack, Place, Finish, Discard, history
<1>2. Doomed' \subseteq Doomed
  <2>1. CASE Place(u)
    <3>1. \A v \in Workers : prune'[v].left \subseteq prune[v].left BY <2>1 DEF Place, Start, Shapes
    <3>2. QED BY <3>1 DEF Doomed
  <2>2. CASE CheckExists(u) \/ PutBack(u) \/ Finish(u) \/ Discard(u)
    <3>1. UNCHANGED prune BY <2>2 DEF CheckExists, PutBack, Finish, Discard
    <3>2. QED BY <3>1, DoomedRests
  <2>3. QED BY <2>1, <2>2
<1>3. QED BY <1>1, <1>2, RestsSpares

AwaitedIsKept(v) ==
    upload[v].pc # "free" /\ ~upload[v].given =>
        /\ upload'[v].sha = upload[v].sha
        /\ upload'[v].pc \in Decided => KeptIn(rows', deleted', overtaken', upload'[v].id, upload[v].sha)

(* As long as what was kept stays kept, what the console counts on does; while it
   waits for an answer it counts on nothing but that. *)
LEMMA CountedOnStays ==
    ASSUME OneIsAwaited, CountedOn, UNCHANGED <<console, save, seen>>, KeptStays \/ Waiting,
           \A v \in Uploads : AwaitedIsKept(v)
    PROVE  CountedOn'
<1> DEFINE u == console.upload
<1>1. Waiting' = Waiting BY DEF Waiting
<1>2. Waiting => u \in Uploads /\ upload[u].pc # "free" /\ ~upload[u].given /\ upload[u].sha = save
  BY DEF OneIsAwaited, CountedOn
<1>3. Waiting => upload'[u].sha = save BY <1>2 DEF AwaitedIsKept
<1>4. Waiting /\ upload'[u].pc \in Decided => KeptIn(rows', deleted', overtaken', upload'[u].id, save)
  BY <1>2 DEF AwaitedIsKept
<1>5. console.pc \in {"writing", "partly", "restored"} => KeptIn(rows', deleted', overtaken', console.undo, console.before)
  BY DEF CountedOn, Kept, KeptStays, Waiting
<1>6. console.pc = "idle" /\ seen # Nothing => KeptIn(rows', deleted', overtaken', seen.id, seen.sha)
  BY DEF CountedOn, Kept, KeptStays, Waiting
<1>7. QED BY <1>1, <1>3, <1>4, <1>5, <1>6 DEF CountedOn, Kept

LEMMA AwaitedStays ==
    ASSUME OneIsAwaited, CountedOn, KeptStays, NEW v \in Uploads,
           upload'[v].id = upload[v].id, upload'[v].sha = upload[v].sha,
           upload'[v].pc \in Decided => upload[v].pc \in Decided
    PROVE  AwaitedIsKept(v)
<1>1. SUFFICES ASSUME upload[v].pc # "free", ~upload[v].given, upload'[v].pc \in Decided
               PROVE  KeptIn(rows', deleted', overtaken', upload'[v].id, upload[v].sha)
  BY DEF AwaitedIsKept
<1>2. Waiting /\ console.upload = v BY <1>1 DEF OneIsAwaited
<1>3. Kept(upload[v].id, save) /\ upload[v].sha = save BY <1>1, <1>2 DEF CountedOn
<1>4. QED BY <1>3 DEF Kept, KeptStays

LEMMA ServeCounts ==
    ASSUME Shapes, RoomForReceived, DiskInv, ConsoleInv, Serve PROVE NewestIsSpared' /\ CountedOn'
<1> DEFINE G == NewestIsSpared' /\ CountedOn'
<1>1. NewestIsSpared /\ OneIsAwaited /\ CountedOn BY DEF ConsoleInv
<1>2. UNCHANGED <<console, save, seen>>
  BY DEF Serve, PruneRow, PruneFile, Decide, CheckExists, PutBack, Promote, Place, PlaceFails, Finish, Discard
<1>3. ASSUME NEW u \in Uploads, NEW p, Goes(u, p), p \in Decided => upload[u].pc \in Decided,
             NewestIsSpared' /\ KeptStays
      PROVE  G
  <2>1. \A v \in Uploads : /\ upload'[v].id = upload[v].id /\ upload'[v].sha = upload[v].sha
                           /\ upload'[v].pc = IF v = u THEN p ELSE upload[v].pc
    BY <1>3, GoesTo
  <2>2. \A v \in Uploads : AwaitedIsKept(v) BY <1>1, <1>3, <2>1, AwaitedStays
  <2>3. QED BY <1>1, <1>2, <1>3, <2>2, CountedOnStays
<1>4. ASSUME NewestIsSpared' /\ KeptStays, UNCHANGED upload PROVE G
  <2>1. \A v \in Uploads : AwaitedIsKept(v) BY <1>1, <1>4, AwaitedStays
  <2>2. QED BY <1>1, <1>2, <1>4, <2>1, CountedOnStays
<1>5. ASSUME NEW w \in Workers, PruneRow(w) PROVE G
  <2>1. PruneEnds(w, rows) \/ \E i, p : PrunesOne(w, rows, i, p) BY <1>5, PruneRowFacts
  <2>2. Drops(rows, rows, 0) BY DroppedRow DEF Shapes, DiskInv, IdsAreUsedOnce
  <2>3. NewestIsSpared' /\ KeptStays BY <1>1, <2>1, <2>2, PruneSpares
  <2>4. UNCHANGED upload BY <1>5 DEF PruneRow
  <2>5. QED BY <1>4, <2>3, <2>4
<1>6. ASSUME NEW w \in Workers, PruneFile(w) PROVE G
  <2>1. NewestIsSpared' /\ KeptStays BY <1>1, <1>6, FileSpares
  <2>2. UNCHANGED upload BY <1>6 DEF PruneFile
  <2>3. QED BY <1>4, <2>1, <2>2
<1>7. ASSUME NEW u \in Uploads, CheckExists(u) \/ PutBack(u) \/ Place(u) \/ Finish(u) PROVE G
  <2>1. NewestIsSpared' /\ KeptStays BY <1>1, <1>7, WorkSpares
  <2>2. upload[u].pc \in Decided /\ \E p \in Decided : Goes(u, p)
    BY <1>7 DEF CheckExists, PutBack, Place, Finish, Decided
  <2>3. QED BY <1>3, <2>1, <2>2
<1>8. ASSUME NEW u \in Uploads, Promote(u) PROVE G
  <2>1. Goes(u, "finish") /\ upload[u].pc \in Decided BY <1>8 DEF Promote, Decided
  <2>2. u \in Workers /\ Drops(rows, Promoted(u), 0) BY PromotedRows DEF Workers
  <2>3. NewestIsSpared' /\ KeptStays
    <3>1. CASE PruneEnds(u, Promoted(u)) \/ \E i, p : PrunesOne(u, Promoted(u), i, p)
      BY <1>1, <2>2, <3>1, PruneSpares
    <3>2. CASE rows' = rows /\ UNCHANGED <<prune, deleted, stray, overtaken>>
      BY <1>1, <3>2, DoomedRests, RestsSpares
    <3>3. QED BY <1>8, <3>1, <3>2, PromoteFacts
  <2>4. QED BY <1>3, <2>1, <2>3
<1>9. ASSUME NEW u \in Uploads, PlaceFails(u) PROVE G
  <2>1. Goes(u, "failed") /\ upload[u].pc # "free" BY <1>9 DEF PlaceFails
  <2>2. NewestIsSpared' /\ (upload[u].given \/ upload[u].pc = "putBack" => KeptStays)
    BY <1>1, <1>9, PlaceFailsSpares
  <2>3. CASE KeptStays BY <1>3, <2>1, <2>2, <2>3 DEF Decided
  <2>4. CASE ~upload[u].given
    <3>1. Waiting /\ console.upload = u BY <1>1, <2>1, <2>4 DEF OneIsAwaited
    <3>2. \A v \in Uploads : AwaitedIsKept(v)
      <4>1. SUFFICES ASSUME NEW v \in Uploads, upload[v].pc # "free", ~upload[v].given
                     PROVE  upload'[v].sha = upload[v].sha /\ upload'[v].pc \notin Decided
        BY DEF AwaitedIsKept
      <4>2. v = u BY <1>1, <3>1, <4>1 DEF OneIsAwaited
      <4>3. QED BY <2>1, <4>2, GoesTo DEF Decided
    <3>3. QED BY <1>1, <1>2, <2>2, <3>1, <3>2, CountedOnStays
  <2>5. QED BY <2>2, <2>3, <2>4
<1>10. ASSUME NEW u \in Uploads, Decide(u) PROVE G
  <2>1. PICK i \in Ids : DecidesExists(u, i) \/ DecidesInsert(u, i) BY <1>10, DecideFacts
  <2>2. PICK p \in {"exists", "place"} : DecidesOn(u, i, p) BY <2>1 DEF DecidesExists, DecidesInsert
  <2>3. NewestIsSpared' /\ (upload[u].given \/ DecidesExists(u, i) => KeptStays)
        /\ KeptIn(rows', deleted', overtaken', i, upload[u].sha)
    BY <1>1, <2>1, DecideSpares
  <2>4. upload'[u].id = i /\ upload'[u].sha = upload[u].sha /\ \A v \in Uploads \ {u} : upload'[v] = upload[v]
    BY <2>2, DecidedUpload
  <2>5. AwaitedIsKept(u) BY <2>3, <2>4 DEF AwaitedIsKept
  <2>6. CASE upload[u].given
    <3>1. \A v \in Uploads : AwaitedIsKept(v)
      <4>1. \A v \in Uploads \ {u} : AwaitedIsKept(v) BY <1>1, <2>3, <2>4, <2>6, AwaitedStays
      <4>2. QED BY <2>5, <4>1
    <3>2. QED BY <1>1, <1>2, <2>3, <2>6, <3>1, CountedOnStays
  <2>7. CASE ~upload[u].given
    <3>1. upload[u].pc = "received" BY <2>2 DEF DecidesOn
    <3>2. Waiting /\ console.upload = u BY <1>1, <2>7, <3>1 DEF OneIsAwaited
    <3>3. \A v \in Uploads : AwaitedIsKept(v)
      <4>1. \A v \in Uploads \ {u} : ~(upload[v].pc # "free" /\ ~upload[v].given) BY <1>1, <3>2 DEF OneIsAwaited
      <4>2. QED BY <2>5, <4>1 DEF AwaitedIsKept
    <3>4. QED BY <1>1, <1>2, <2>3, <3>2, <3>3, CountedOnStays
  <2>8. QED BY <2>6, <2>7
<1>11. ASSUME NEW u \in Uploads, Discard(u) PROVE G
  <2>1. NewestIsSpared' /\ KeptStays BY <1>1, <1>11, WorkSpares
  <2>2. upload[u].given /\ upload' = [upload EXCEPT ![u] = NoUpload] BY <1>11 DEF Discard
  <2>3. \A v \in Uploads \ {u} : upload'[v] = upload[v] BY <2>2, UploadIsTyped
  <2>4. \A v \in Uploads \ {u} : AwaitedIsKept(v) BY <1>1, <2>1, <2>3, AwaitedStays
  <2>5. AwaitedIsKept(u) BY <2>2 DEF AwaitedIsKept
  <2>6. \A v \in Uploads : AwaitedIsKept(v) BY <2>4, <2>5
  <2>7. QED BY <1>1, <1>2, <2>1, <2>6, CountedOnStays
<1> HIDE DEF G
<1>12. G BY <1>5, <1>6, <1>7, <1>8, <1>9, <1>10, <1>11, Zenon DEF Serve
<1>13. QED BY <1>12 DEF G

LEMMA ManageCounts == ASSUME Shapes, DiskInv, ConsoleInv, Manage PROVE ConsoleInv'
<1> DEFINE G == NewestIsSpared' /\ KeptStays
<1>1. NewestIsSpared /\ OneIsAwaited /\ CountedOn BY DEF ConsoleInv
<1>2. UNCHANGED <<console, save, seen, upload>>
  BY DEF Manage, SetPinned, DeleteRow, DeleteFile, LoseFile, SetKeep
<1>3. ASSUME NEW r \in rows, SetPinned(r) PROVE G BY <1>1, <1>3, SetPinnedSpares
<1>4. ASSUME NEW r \in rows, DeleteRow(r) PROVE G BY <1>1, <1>4, DeleteRowSpares
<1>5. ASSUME NEW i \in Ids, DeleteFile(i) \/ LoseFile(i) PROVE G
  <2>1. UNCHANGED <<rows, deleted, overtaken, prune>> BY <1>5 DEF DeleteFile, LoseFile, history
  <2>2. QED BY <1>1, <2>1, DoomedRests, RestsSpares
<1>6. ASSUME NEW k \in Keeps, SetKeep(k) PROVE G BY <1>1, <1>6, SetKeepSpares
<1> HIDE DEF G
<1>7. G BY <1>3, <1>4, <1>5, <1>6, Zenon DEF Manage
<1> USE DEF G
<1>8. \A v \in Uploads : AwaitedIsKept(v) BY <1>1, <1>2, <1>7, AwaitedStays
<1>9. CountedOn' BY <1>1, <1>2, <1>7, <1>8, CountedOnStays
<1>10. OneIsAwaited' BY <1>1, <1>2 DEF OneIsAwaited, Waiting
<1>11. QED BY <1>7, <1>9, <1>10 DEF ConsoleInv

LEMMA ServeAwaits ==
    ASSUME Shapes, RoomForReceived, DiskInv, OneIsAwaited, Serve PROVE OneIsAwaited'
<1>1. UNCHANGED console
  BY DEF Serve, PruneRow, PruneFile, Decide, CheckExists, PutBack, Promote, Place, PlaceFails, Finish, Discard
<1>2. Waiting' = Waiting BY <1>1 DEF Waiting
<1>3. \A v \in Uploads : ServedUpload(v) BY ServeUploads
<1>4. ASSUME NEW v \in Uploads
      PROVE  upload'[v].pc # "free" /\ ~upload'[v].given <=> upload[v].pc # "free" /\ ~upload[v].given
  <2>1. CASE upload'[v].given = upload[v].given /\ (upload'[v].pc = "free" <=> upload[v].pc = "free")
    BY <2>1, Zenon
  <2>2. CASE upload[v].given /\ upload'[v] = NoUpload
    <3>1. upload'[v].pc = "free" BY <2>2, NoUploadIsTyped
    <3>2. QED BY <2>2, <3>1, Zenon
  <2>3. QED BY <1>3, <2>1, <2>2, Zenon DEF ServedUpload
<1>5. QED BY <1>1, <1>2, <1>4, Zenon DEF OneIsAwaited

LEMMA CrashCounts == ASSUME Shapes, DiskInv, ConsoleInv, Crash PROVE ConsoleInv'
<1>1. NewestIsSpared /\ OneIsAwaited /\ CountedOn BY DEF ConsoleInv
<1>2. UNCHANGED <<console, save, seen, rows, deleted, overtaken>> /\ prune' = [w \in Workers |-> NoPrune]
  BY DEF Crash
<1>3. Doomed' \subseteq Doomed BY <1>2 DEF Doomed, NoPrune
<1>4. NewestIsSpared' /\ KeptStays BY <1>1, <1>2, <1>3, RestsSpares
<1>5. Waiting' = Waiting BY <1>2 DEF Waiting
<1>6. ASSUME NEW v \in Uploads
      PROVE  /\ upload'[v].pc # "free" /\ ~upload'[v].given <=> upload[v].pc # "free" /\ ~upload[v].given
             /\ AwaitedIsKept(v)
  <2>1. CASE upload'[v] = NoUpload /\ (upload[v].pc = "free" \/ upload[v].given)
    BY <2>1, NoUploadIsTyped DEF AwaitedIsKept
  <2>2. CASE upload'[v].pc = "failed" /\ upload[v].pc # "free" /\ ~upload[v].given /\ ~upload'[v].given
             /\ upload'[v].sha = upload[v].sha
    BY <2>2 DEF AwaitedIsKept, Decided
  <2>3. QED BY <2>1, <2>2, CrashedUploads
<1>7. OneIsAwaited' BY <1>1, <1>2, <1>5, <1>6, Zenon DEF OneIsAwaited
<1>8. CountedOn' BY <1>1, <1>2, <1>4, <1>6, CountedOnStays
<1>9. QED BY <1>4, <1>7, <1>8 DEF ConsoleInv

(* What the list shows of the newest backup. *)
LEMMA ListedIsNewest ==
    ASSUME Shapes, Listed # Nothing PROVE \E r \in Newest : Listed.id = r.id /\ Listed.sha = r.sha
<1> DEFINE L == {[id |-> r.id, sha |-> r.sha] : r \in Newest}
<1>1. (\E r \in Newest : r.origin = "manual") /\ Listed = CHOOSE l \in L : TRUE BY DEF Listed
<1>2. L # {} BY <1>1
<1>3. Listed \in L
  <2> HIDE DEF L
  <2>1. QED BY <1>1, <1>2
<1>4. QED BY <1>3

LEMMA NobodyElse ==
    ASSUME OneIsAwaited, ~Waiting PROVE \A v \in Uploads : upload[v].pc # "free" => upload[v].given
BY DEF OneIsAwaited

LEMMA UseCounts == ASSUME Shapes, DiskInv, ConsoleInv, Use PROVE ConsoleInv'
<1> DEFINE G == OneIsAwaited' /\ CountedOn'
<1>1. NewestIsSpared /\ OneIsAwaited /\ CountedOn BY DEF ConsoleInv
<1>2. UNCHANGED <<rows, prune, deleted, overtaken>> BY UseLeavesServer
<1>3. NewestIsSpared' /\ KeptStays BY <1>1, <1>2, DoomedRests, RestsSpares
<1>4. save \in Shas /\ console \in AConsole /\ upload \in [Uploads -> AnUpload] BY DEF Shapes
<1>5. ASSUME NEW j, NEW sha PROVE KeptIn(rows', deleted', overtaken', j, sha) <=> Kept(j, sha)
  BY <1>2, Zenon DEF Kept
<1>6. ASSUME UNCHANGED upload, ~Waiting, ~Waiting' PROVE OneIsAwaited'
  BY <1>1, <1>6, Zenon DEF OneIsAwaited
<1>7. ASSUME NEW c \in Contents, Play(c) PROVE G
  <2>1. console.pc = "idle" /\ UNCHANGED <<console, seen, upload>> BY <1>7 DEF Play, server
  <2>2. ~Waiting /\ ~Waiting' BY <2>1 DEF Waiting
  <2>3. seen # Nothing => Kept(seen.id, seen.sha) BY <1>1, <2>1 DEF CountedOn
  <2>4. CountedOn' BY <1>5, <2>1, <2>2, <2>3 DEF CountedOn, Waiting, Kept
  <2>5. QED BY <1>6, <2>1, <2>2, <2>4
<1>8. ASSUME NEW u \in Uploads, NEW origin \in Origins, NEW pc \in {"backup", "restore"}, Send(u, origin),
             ~Waiting, console'.pc = pc, console'.upload = u, save' = save,
             pc = "restore" => console'.before = save /\ console'.from \in Shas
      PROVE  G
  <2>1. upload' = [upload EXCEPT ![u] = Sent(u, origin)] BY <1>8 DEF Send, Sent
  <2>2. upload'[u] = Sent(u, origin) /\ \A v \in Uploads \ {u} : upload'[v] = upload[v] BY <1>4, <2>1
  <2>3. upload'[u].pc = "received" /\ upload'[u].sha = save /\ ~upload'[u].given BY <2>2, SentIsTyped
  <2>4. OneIsAwaited'
    <3>1. Waiting' BY <1>8 DEF Waiting
    <3>2. \A v \in Uploads \ {u} : upload'[v].pc # "free" => upload'[v].given BY <1>1, <1>8, <2>2, NobodyElse
    <3>3. QED BY <1>8, <2>3, <3>1, <3>2 DEF OneIsAwaited
  <2>5. CountedOn' BY <1>8, <2>3 DEF CountedOn, Decided
  <2>6. QED BY <2>4, <2>5
<1>9. ASSUME NEW u \in Uploads, Backup(u) PROVE G
  <2>1. Send(u, "manual") /\ console.pc = "idle" /\ save' = save
        /\ console' = [AtRest EXCEPT !.pc = "backup", !.upload = u]
    BY <1>9 DEF Backup
  <2>2. console'.pc = "backup" /\ console'.upload = u BY <2>1, AtRestIsTyped DEF AConsole
  <2>3. "manual" \in Origins /\ ~Waiting BY <2>1 DEF Origins, Waiting
  <2>4. QED BY <1>8, <2>1, <2>2, <2>3
<1>10. ASSUME NEW u \in Uploads, NEW r \in rows, Restore(u, r) PROVE G
  <2>1. Send(u, "pre-restore") /\ console.pc = "idle" /\ save' = save
        /\ console' = [AtRest EXCEPT !.pc = "restore", !.upload = u, !.from = r.sha, !.before = save]
    BY <1>10 DEF Restore
  <2>2. console'.pc = "restore" /\ console'.upload = u /\ console'.before = save /\ console'.from = r.sha
    BY <2>1, AtRestIsTyped DEF AConsole
  <2>3. "pre-restore" \in Origins /\ ~Waiting /\ r.sha \in Shas BY <2>1 DEF Origins, Waiting, Shapes, Rows
  <2>4. QED BY <1>8, <2>1, <2>2, <2>3
<1>11. ASSUME NEW arrived \in BOOLEAN, GiveUp(arrived) PROVE G
  <2> DEFINE u == console.upload
  <2>1. Waiting /\ u \in Uploads BY <1>1, <1>11 DEF GiveUp, OneIsAwaited, Waiting
  <2>2. console' = Failed /\ upload' = IF arrived THEN [upload EXCEPT ![u].given = TRUE]
                                       ELSE [upload EXCEPT ![u] = NoUpload]
    BY <1>11 DEF GiveUp
  <2>3. console'.pc = "failed" BY <2>2, AtRestIsTyped
  <2>4. [upload[u] EXCEPT !.given = TRUE].given = TRUE BY <1>4, <2>1 DEF AnUpload
  <2>5. (upload'[u].given \/ upload'[u].pc = "free") /\ \A v \in Uploads \ {u} : upload'[v] = upload[v]
    <3> HIDE DEF u
    <3>1. QED BY <1>4, <2>1, <2>2, <2>4, NoUploadIsTyped
  <2>6. \A v \in Uploads : upload'[v].pc # "free" => upload'[v].given BY <1>1, <2>1, <2>5 DEF OneIsAwaited
  <2>7. ~Waiting' BY <2>3 DEF Waiting
  <2>8. OneIsAwaited' BY <2>6, <2>7 DEF OneIsAwaited
  <2>9. CountedOn' BY <2>3, <2>7 DEF CountedOn
  <2>10. QED BY <2>8, <2>9
<1>12. ASSUME Answered PROVE G
  <2> DEFINE u == console.upload
             told(pc) == [console EXCEPT !.pc = pc, !.upload = Nothing, !.undo = upload[u].id]
  <2>1. Waiting /\ u \in Uploads BY <1>1, <1>12 DEF Answered, OneIsAwaited, Waiting
  <2>2. upload' = [upload EXCEPT ![u] = NoUpload]
        /\ \/ console' = Failed
           \/ console.pc = "restore" /\ upload[u].pc = "stored" /\ console' = told("writing")
           \/ console' = told("reported")
    BY <1>12 DEF Answered
  <2>3. \A v \in Uploads : upload'[v] = IF v = u THEN NoUpload ELSE upload[v] BY <1>4, <2>2
  <2>4. \A v \in Uploads : upload'[v].pc # "free" => upload'[v].given
    BY <1>1, <2>1, <2>3, NoUploadIsTyped DEF OneIsAwaited
  <2>5. \A pc \in {"writing", "reported"} :
          /\ told(pc).pc = pc /\ told(pc).undo = upload[u].id
          /\ told(pc).before = console.before /\ told(pc).from = console.from
    <3> HIDE DEF u
    <3>1. QED BY <1>4 DEF AConsole
  <2> HIDE DEF told
  <2>6. console'.pc \in {"failed", "writing", "reported"} BY <2>2, <2>5, AtRestIsTyped
  <2>7. ~Waiting' BY <2>6 DEF Waiting
  <2>8. OneIsAwaited' BY <2>4, <2>7 DEF OneIsAwaited
  <2>9. CountedOn'
    <3>1. CASE console'.pc # "writing" BY <2>6, <2>7, <3>1 DEF CountedOn
    <3>2. CASE console'.pc = "writing"
      <4>1. console.pc = "restore" /\ upload[u].pc = "stored" /\ console' = told("writing")
        BY <2>2, <2>5, <3>2, AtRestIsTyped
      <4>2. Kept(upload[u].id, save) /\ console.before = save /\ console.from \in Shas
        BY <1>1, <2>1, <4>1 DEF CountedOn, Decided
      <4>3. console'.undo = upload[u].id /\ console'.before = save /\ console'.from \in Shas BY <2>5, <4>1, <4>2
      <4>4. KeptIn(rows', deleted', overtaken', console'.undo, console'.before) BY <1>5, <4>2, <4>3
      <4>5. QED BY <2>7, <3>2, <4>3, <4>4 DEF CountedOn, Kept
    <3>3. QED BY <3>1, <3>2
  <2>10. QED BY <2>8, <2>9
<1>13. ASSUME CommitPart \/ CommitLast \/ WriteFails PROVE G
  <2>1. console.pc \in {"writing", "partly"} /\ UNCHANGED upload
        /\ \/ console' = Failed
           \/ \E pc \in {"partly", "restored"} : console' = [console EXCEPT !.pc = pc]
    BY <1>13 DEF CommitPart, CommitLast, WriteFails, server
  <2>2. Kept(console.undo, console.before) /\ console.from \in Shas BY <1>1, <2>1 DEF CountedOn
  <2>3. \/ console'.pc = "failed"
        \/ /\ console'.pc \in {"partly", "restored"} /\ console'.undo = console.undo
           /\ console'.before = console.before /\ console'.from = console.from
    BY <1>4, <2>1, AtRestIsTyped DEF AConsole
  <2>4. ~Waiting /\ ~Waiting' BY <2>1, <2>3 DEF Waiting
  <2>5. KeptIn(rows', deleted', overtaken', console.undo, console.before) BY <1>5, <2>2
  <2>6. CountedOn' BY <2>2, <2>3, <2>4, <2>5 DEF CountedOn, Kept
  <2>7. QED BY <1>6, <2>1, <2>4, <2>6
<1>14. ASSUME Reload \/ Acknowledge PROVE G
  <2>1. console.pc \in {"idle", "reported", "skipped", "restored", "failed"} /\ UNCHANGED upload
        /\ console' \in {console, AtRest} /\ seen' = Listed /\ console'.pc = "idle"
    BY <1>14, AtRestIsTyped DEF Reload, Acknowledge, server
  <2>2. ~Waiting /\ ~Waiting' BY <2>1 DEF Waiting
  <2>3. seen' # Nothing => \E r \in Newest : seen'.id = r.id /\ seen'.sha = r.sha BY <2>1, ListedIsNewest
  <2>4. Newest = NewestOf(rows') BY <1>2 DEF Newest, NewestOf
  <2>5. seen' # Nothing => KeptIn(rows', deleted', overtaken', seen'.id, seen'.sha) BY <2>3, <2>4, Zenon DEF KeptIn
  <2>6. CountedOn' BY <2>1, <2>2, <2>5 DEF CountedOn, Kept
  <2>7. QED BY <1>6, <2>1, <2>2, <2>6
<1>15. ASSUME SkipBackup PROVE G
  <2>1. console.pc = "idle" /\ UNCHANGED upload /\ console' = [AtRest EXCEPT !.pc = "skipped", !.undo = seen.id]
    BY <1>15 DEF SkipBackup, server
  <2>2. console'.pc = "skipped" BY <2>1, AtRestIsTyped DEF AConsole
  <2>3. ~Waiting /\ ~Waiting' BY <2>1, <2>2 DEF Waiting
  <2>4. CountedOn' BY <2>2, <2>3 DEF CountedOn
  <2>5. QED BY <1>6, <2>1, <2>3, <2>4
<1> HIDE DEF G
<1>16. G BY <1>7, <1>9, <1>10, <1>11, <1>12, <1>13, <1>14, <1>15, Zenon DEF Use
<1>17. QED BY <1>3, <1>16 DEF ConsoleInv, G

LEMMA ConsoleNext == BackupsInv /\ [Next]_vars => ConsoleInv'
<1>1. SUFFICES ASSUME BackupsInv, [Next]_vars PROVE ConsoleInv' OBVIOUS
<1>2. Shapes /\ RoomForReceived /\ DiskInv /\ ConsoleInv BY <1>1 DEF BackupsInv
<1>3. CASE Serve BY <1>2, <1>3, ServeCounts, ServeAwaits DEF ConsoleInv
<1>4. CASE Manage BY <1>2, <1>4, ManageCounts
<1>5. CASE Use BY <1>2, <1>5, UseCounts
<1>6. CASE Crash BY <1>2, <1>6, CrashCounts
<1>7. CASE UNCHANGED vars
  <2>1. UNCHANGED <<rows, deleted, overtaken, prune, upload, console, save, seen>> BY <1>7 DEF vars
  <2>2. NewestIsSpared' BY <1>2, <2>1 DEF ConsoleInv, NewestIsSpared, Newest, Doomed
  <2>3. Waiting' = Waiting BY <2>1 DEF Waiting
  <2>4. OneIsAwaited' BY <1>2, <2>1, <2>3, Zenon DEF ConsoleInv, OneIsAwaited
  <2>5. \A i, sha : Kept(i, sha)' = Kept(i, sha) BY <2>1, Zenon DEF Kept
  <2>6. CountedOn' BY <1>2, <2>1, <2>3, <2>5 DEF ConsoleInv, CountedOn
  <2>7. QED BY <2>2, <2>4, <2>6 DEF ConsoleInv
<1>8. QED BY <1>1, <1>3, <1>4, <1>5, <1>6, <1>7, Zenon DEF Next

LEMMA InitBackups == Init => BackupsInv
<1>1. SUFFICES ASSUME Init PROVE BackupsInv OBVIOUS
<1>2. MaxIds \in Nat /\ Keeps \subseteq Nat BY SaveBackupsAssumption
<1>3. /\ rows = {} /\ lastId = 0 /\ files = [i \in Ids |-> Nothing] /\ keep \in Keeps /\ removing = {}
      /\ upload = [u \in Uploads |-> NoUpload] /\ prune = [w \in Workers |-> NoPrune]
      /\ save \in Contents /\ console = AtRest /\ seen = Nothing /\ deleted = {} /\ lost = {} /\ stray = {}
      /\ overtaken = FALSE /\ edits = 0 /\ troubles = 0
  BY <1>1 DEF Init
<1>4. \A u \in Uploads : upload[u] = NoUpload /\ prune[u] = NoPrune BY <1>3 DEF Workers
<1>5. \A w \in Workers : prune[w] = NoPrune BY <1>3
<1>6. NoUpload \in AnUpload /\ NoUpload.id = 0 /\ NoUpload.pc = "free" BY NoUploadIsTyped
<1>7. NoPrune \in APrune /\ NoPrune.file = 0 /\ NoPrune.left = {} BY StartIsTyped DEF NoPrune
<1>8. AtRest \in AConsole /\ AtRest.pc = "idle" BY AtRestIsTyped
<1>9. Shapes
  <2>1. ServerShapes BY <1>2, <1>3 DEF ServerShapes
  <2>2. WorkShapes BY <1>3, <1>6, <1>7 DEF WorkShapes
  <2>3. HistoryShapes BY <1>3 DEF HistoryShapes
  <2>4. ConsoleShapes BY <1>3, <1>8 DEF ConsoleShapes, Shas
  <2>5. QED BY <2>1, <2>2, <2>3, <2>4, ShapesAreParts
<1>10. RoomForReceived
  <2>1. Received = {} BY <1>4, <1>6 DEF Received
  <2>2. Cardinality(Received) = 0 BY <2>1, FS_EmptySet
  <2>3. QED BY <1>2, <1>3, <2>2 DEF RoomForReceived
<1>11. DiskInv
  <2>1. RowIds = {} /\ \A i \in Ids : files[i] = Nothing BY <1>3 DEF RowIds
  <2>2. IdsAreUsedOnce BY <1>3, <1>4, <1>5, <1>6, <1>7 DEF IdsAreUsedOnce, Unique
  <2>3. UploadsKnowTheirRow BY <1>4, <1>6 DEF UploadsKnowTheirRow, Decided
  <2>4. RemovedHaveNoRow BY <1>3, <2>1 DEF RemovedHaveNoRow
  <2>5. PrunesStartFresh BY <1>4, <1>5 DEF PrunesStartFresh
  <2>6. NoForeignBytes /\ RowsHaveArchives BY <1>3 DEF NoForeignBytes, RowsHaveArchives
  <2>7. ArchivesHaveRows BY <2>1 DEF ArchivesHaveRows
  <2>8. QED BY <2>2, <2>3, <2>4, <2>5, <2>6, <2>7 DEF DiskInv
<1>12. ConsoleInv
  <2>1. NewestIsSpared BY <1>3 DEF NewestIsSpared, Newest
  <2>2. ~Waiting /\ console.pc = "idle" BY <1>3, <1>8 DEF Waiting
  <2>3. OneIsAwaited BY <1>4, <1>6, <2>2 DEF OneIsAwaited
  <2>4. CountedOn BY <1>3, <2>2 DEF CountedOn
  <2>5. QED BY <2>1, <2>3, <2>4 DEF ConsoleInv
<1>13. QED BY <1>9, <1>10, <1>11, <1>12 DEF BackupsInv

(* Both layers, and what they rest on, hold in every state: the inductive
   invariant of the uploads, prunes and deletions of one save and its console. *)
THEOREM BackupsInductive == Spec => []BackupsInv
<1>1. BackupsInv /\ [Next]_vars => BackupsInv' BY DiskNext, ShapesNext, RoomNext, ConsoleNext DEF BackupsInv
<1>2. QED BY <1>1, InitBackups, PTL DEF Spec

-----------------------------------------------------------------------------
(* What follows.                                                             *)

(* Rows, archives, uploads and the console's own state have the types and bounds
   that database, disk and protocol give them; no id is that of two rows, and
   none is ahead of the last one given. *)
THEOREM BackupsAreTyped == Spec => []TypeOK
<1>1. ASSUME Shapes, IdsAreUsedOnce PROVE TypeOK
  <2>1. rows \in SUBSET Rows /\ Unique(rows) BY <1>1 DEF Shapes, IdsAreUsedOnce
  <2>2. Cardinality(RowIds) = Cardinality(rows) BY <2>1, UniqueRowsAreCounted DEF RowIds
  <2>3. \A i \in RowIds : i <= lastId BY <1>1 DEF RowIds, IdsAreUsedOnce
  <2>4. \A u \in Uploads : upload[u].sha \in Shas \cup {Nothing} /\ upload[u].id \in 0..lastId
    <3>1. SUFFICES ASSUME NEW u \in Uploads
                   PROVE  upload[u].sha \in Shas \cup {Nothing} /\ upload[u].id \in 0..lastId
      OBVIOUS
    <3>2. upload[u] \in AnUpload /\ upload[u].id <= lastId /\ lastId \in Nat
      BY <1>1, SaveBackupsAssumption DEF Shapes, IdsAreUsedOnce
    <3>3. QED BY <3>2, SaveBackupsAssumption DEF AnUpload
  <2>5. \A w \in Workers : prune[w].left \subseteq Ids /\ prune[w].file \in 0..MaxIds
    BY <1>1 DEF Shapes, APrune
  <2>6. console.from \in Shas \cup {Nothing} /\ console.before \in Shas \cup {Nothing}
    BY <1>1 DEF Shapes, AConsole
  <2>7. seen \in [id : Ids, sha : Shas] \cup {Nothing} BY <1>1 DEF Shapes, ABackup
  <2>8. QED BY <1>1, <2>1, <2>2, <2>3, <2>4, <2>5, <2>6, <2>7 DEF TypeOK, Shapes
<1>2. BackupsInv => TypeOK BY <1>1 DEF BackupsInv, DiskInv
<1>3. QED BY <1>2, BackupsInductive, PTL

(* However uploads, prunes and deletions of one save interleave between row and
   archive, and wherever the server dies: every listed backup has its archive with
   the bytes its row promises, or one on its way, and no archive is left without a
   row, but for the losses that the history names. *)
THEOREM BackupsStayWhole == Spec => []BackupsAreWhole
<1>1. BackupsInv => BackupsAreWhole BY DEF BackupsInv, DiskInv, BackupsAreWhole
<1>2. QED BY <1>1, BackupsInductive, PTL

(* Once a restore has begun to write, the server has the save as it was before,
   whatever prunes and other uploads do meanwhile, unless the user deleted it, its
   archive was lost, or an upload that was given up came after it. *)
THEOREM RestoresCanBeUndone == Spec => []RestoreCanBeUndone
<1>1. ASSUME CountedOn, RowsHaveArchives PROVE RestoreCanBeUndone
  <2>1. SUFFICES ASSUME console.pc \in {"writing", "partly", "restored"}
                 PROVE  \/ \E r \in rows : r.sha = console.before /\ (files[r.id] = r.sha \/ Placing(r.id))
                        \/ console.undo \in deleted \cup lost \/ overtaken
    BY DEF RestoreCanBeUndone
  <2>2. \/ overtaken \/ console.undo \in deleted
        \/ \E r \in NewestOf(rows) : r.id = console.undo /\ r.sha = console.before
    BY <1>1, <2>1, Zenon DEF CountedOn, Kept, KeptIn
  <2>3. QED BY <1>1, <2>2 DEF RowsHaveArchives, NewestOf
<1>2. BackupsInv => RestoreCanBeUndone BY <1>1 DEF BackupsInv, ConsoleInv, DiskInv
<1>3. QED BY <1>2, BackupsInductive, PTL

(* What the console reports as backed up, or skips as already backed up, is on the
   server at that moment, with the same exceptions. *)
THEOREM ReportsAreTrue == Spec => ReportedIsStored
<1> DEFINE Stored == \/ \E r \in rows : r.id = console'.undo /\ r.sha = save /\ (files[r.id] = save \/ Placing(r.id))
                     \/ console'.undo \in deleted \cup lost \/ overtaken
           A == console'.pc # console.pc /\ console'.pc \in {"reported", "skipped"} => Stored
<1>1. ASSUME BackupsInv, [Next]_vars PROVE A
  <2>1. CountedOn /\ RowsHaveArchives /\ OneIsAwaited /\ Shapes BY <1>1 DEF BackupsInv, ConsoleInv, DiskInv
  <2>2. console \in AConsole BY <2>1 DEF Shapes
  <2>3. ASSUME Kept(console'.undo, save) PROVE Stored
    <3>1. \/ overtaken \/ console'.undo \in deleted
          \/ \E r \in NewestOf(rows) : r.id = console'.undo /\ r.sha = save
      BY <2>3, Zenon DEF Kept, KeptIn
    <3>2. QED BY <2>1, <3>1 DEF RowsHaveArchives, NewestOf
  <2> HIDE DEF Stored
  <2>4. CASE Answered
    <3> DEFINE u == console.upload
               told(pc) == [console EXCEPT !.pc = pc, !.upload = Nothing, !.undo = upload[u].id]
    <3>1. Waiting BY <2>4 DEF Answered, Waiting
    <3>2. \/ console' = Failed
          \/ upload[u].pc = "stored" /\ (console' = told("writing") \/ console' = told("reported"))
      BY <2>4 DEF Answered
    <3>3. upload[u].pc = "stored" => Kept(upload[u].id, save) BY <2>1, <3>1 DEF CountedOn, Decided
    <3>4. \A pc \in {"writing", "reported"} : told(pc).pc = pc /\ told(pc).undo = upload[u].id
      <4> HIDE DEF u
      <4>1. QED BY <2>2 DEF AConsole
    <3> HIDE DEF told, u
    <3>5. CASE console' = Failed BY <3>5, AtRestIsTyped
    <3>6. CASE upload[u].pc = "stored" /\ (console' = told("writing") \/ console' = told("reported"))
      BY <2>3, <3>3, <3>4, <3>6
    <3>7. QED BY <3>2, <3>5, <3>6
  <2>5. CASE SkipBackup
    <3>1. console.pc = "idle" /\ seen # Nothing /\ seen.sha = save
          /\ console' = [AtRest EXCEPT !.pc = "skipped", !.undo = seen.id]
      BY <2>5 DEF SkipBackup
    <3>2. console'.undo = seen.id BY <3>1, AtRestIsTyped DEF AConsole
    <3>3. Kept(seen.id, save) BY <2>1, <3>1 DEF CountedOn
    <3>4. QED BY <2>3, <3>2, <3>3
  <2>6. ASSUME ~Answered, ~SkipBackup PROVE console'.pc = console.pc \/ console'.pc \notin {"reported", "skipped"}
    <3> DEFINE G == console'.pc = console.pc \/ console'.pc \notin {"reported", "skipped"}
    <3>1. Serve \/ Manage \/ Crash \/ UNCHANGED vars => G
      BY DEF Serve, PruneRow, PruneFile, Decide, CheckExists, PutBack, Promote, Place, PlaceFails, Finish,
             Discard, Manage, SetPinned, DeleteRow, DeleteFile, LoseFile, SetKeep, Crash, vars
    <3>2. ASSUME NEW c \in Contents, Play(c) PROVE G BY <3>2 DEF Play
    <3>3. ASSUME NEW u \in Uploads, Backup(u) PROVE G
      BY <3>3, AtRestIsTyped DEF Backup, AConsole
    <3>4. ASSUME NEW u \in Uploads, NEW r \in rows, Restore(u, r) PROVE G
      BY <3>4, AtRestIsTyped DEF Restore, AConsole
    <3>5. ASSUME NEW arrived \in BOOLEAN, GiveUp(arrived) PROVE G BY <3>5, AtRestIsTyped DEF GiveUp
    <3>6. CommitPart \/ CommitLast \/ WriteFails => G
      BY <2>2, AtRestIsTyped DEF CommitPart, CommitLast, WriteFails, AConsole
    <3>7. Reload \/ Acknowledge => G BY AtRestIsTyped DEF Reload, Acknowledge
    <3> HIDE DEF G
    <3>8. Use => G BY <2>6, <3>2, <3>3, <3>4, <3>5, <3>6, <3>7, Zenon DEF Use
    <3>9. G BY <1>1, <3>1, <3>8, Zenon DEF Next
    <3>10. QED BY <3>9 DEF G
  <2>7. QED BY <2>4, <2>5, <2>6
<1>2. BackupsInv /\ [Next]_vars => A BY <1>1
<1>3. QED BY <1>2, BackupsInductive, PTL DEF Spec, ReportedIsStored

(* A promotion changes no row's pin. *)
LEMMA PromotionKeepsPins ==
    ASSUME Shapes, NEW u, NEW q \in Promoted(u) PROVE \E r \in rows : r.id = q.id /\ r.pinned = q.pinned
<1> DEFINE manual(r) == [r EXCEPT !.origin = "manual"]
<1>1. \A r \in Rows : manual(r).id = r.id /\ manual(r).pinned = r.pinned BY DEF Rows, Origins
<1>2. q \in rows \/ \E r \in Mine(u) : q = manual(r) BY DEF Promoted
<1> HIDE DEF manual
<1>3. QED BY <1>1, <1>2 DEF Mine, Shapes

(* No prune deletes a pinned backup, whoever prunes and whatever else goes on,
   unless it was pinned only after that prune had drawn up its list; else only the
   user's own edits, and an upload whose archive the disk refused, remove rows. *)
THEOREM PinnedBackupsAreKept == Spec => PinnedIsKept
<1> DEFINE Spared(r) == edits' # edits \/ troubles' # troubles \/ r.id \in Doomed
           A == \A r \in rows : r.pinned /\ r.id \in RowIds \ {o.id : o \in rows'} => Spared(r)
<1>1. ASSUME BackupsInv, [Next]_vars PROVE A
  <2>1. SUFFICES ASSUME NEW r \in rows, r.pinned, \A o \in rows' : o.id # r.id PROVE Spared(r)
    BY DEF RowIds
  <2>2. Shapes /\ DiskInv /\ RoomForReceived BY <1>1 DEF BackupsInv
  <2>3. edits \in Nat /\ troubles \in Nat BY <2>2 DEF Shapes
  <2>4. \A q \in rows : q.id = r.id => q = r BY <2>2 DEF DiskInv, IdsAreUsedOnce, Unique
  <2>5. ASSUME NEW w \in Workers, NEW R, NEW i, NEW p, PrunesOne(w, R, i, p),
               \A q \in R : \E o \in rows : o.id = q.id /\ o.pinned = q.pinned
        PROVE  Spared(r)
    <3>1. r.id = i BY <2>1, <2>5 DEF PrunesOne, Drops
    <3>2. ~\E q \in R : q.id = i /\ ~q.pinned BY <2>1, <2>4, <2>5, <3>1
    <3>3. i \in prune[w].left BY <2>5, <3>2 DEF PrunesOne
    <3>4. QED BY <3>1, <3>3 DEF Doomed
  <2>6. ASSUME NEW w, NEW R, PruneEnds(w, R) PROVE FALSE
    <3>1. r.id # 0 BY <2>2 DEF Shapes, Rows, Ids
    <3>2. QED BY <2>1, <2>6, <3>1 DEF PruneEnds, Drops
  <2>7. CASE rows \subseteq rows' BY <2>1, <2>7
  <2>8. CASE edits' = edits + 1 \/ troubles' = troubles + 1 BY <2>3, <2>8
  <2> HIDE DEF Spared
  <2>9. ASSUME NEW w \in Workers, PruneRow(w) PROVE Spared(r)
    <3>1. CASE PruneEnds(w, rows) BY <2>6, <3>1
    <3>2. CASE \E i, p : PrunesOne(w, rows, i, p) BY <2>5, <3>2
    <3>3. QED BY <2>2, <2>9, <3>1, <3>2, PruneRowFacts
  <2>10. ASSUME NEW u \in Uploads, Promote(u) PROVE Spared(r)
    <3>1. CASE PruneEnds(u, Promoted(u)) BY <2>6, <3>1
    <3>2. CASE \E i, p : PrunesOne(u, Promoted(u), i, p)
      BY <2>2, <2>5, <3>2, PromotionKeepsPins DEF Workers
    <3>3. CASE rows' = rows BY <2>7, <3>3
    <3>4. QED BY <2>2, <2>10, <3>1, <3>2, <3>3, PromoteFacts
  <2>11. ASSUME NEW u \in Uploads, Decide(u) PROVE Spared(r)
    <3>1. rows \subseteq rows' BY <2>11 DEF Decide
    <3>2. QED BY <2>7, <3>1
  <2>12. ASSUME Manage PROVE Spared(r)
    <3>1. (edits' = edits + 1) \/ rows' = rows
      BY <2>12 DEF Manage, SetPinned, DeleteRow, DeleteFile, LoseFile, SetKeep, Edit
    <3>2. QED BY <2>7, <2>8, <3>1
  <2>13. ASSUME NEW u \in Uploads, PlaceFails(u) PROVE Spared(r) BY <2>8, <2>13 DEF PlaceFails, Spend
  <2>14. ASSUME Crash \/ UNCHANGED vars \/ Use PROVE Spared(r)
    <3>1. rows' = rows BY <2>14, UseLeavesServer DEF Crash, vars
    <3>2. QED BY <2>7, <3>1
  <2>15. ASSUME NEW w \in Workers, PruneFile(w) PROVE Spared(r) BY <2>7, <2>15 DEF PruneFile
  <2>16. ASSUME NEW u \in Uploads, CheckExists(u) \/ PutBack(u) \/ Place(u) \/ Finish(u) \/ Discard(u)
         PROVE  Spared(r)
    BY <2>7, <2>16 DEF CheckExists, PutBack, Place, Finish, Discard
  <2>17. Serve => Spared(r) BY <2>9, <2>10, <2>11, <2>13, <2>15, <2>16, Zenon DEF Serve
  <2>18. QED BY <1>1, <2>12, <2>14, <2>17, Zenon DEF Next
<1>2. BackupsInv /\ [Next]_vars => A BY <1>1
<1>3. QED BY <1>2, BackupsInductive, PTL DEF Spec, PinnedIsKept

--------------------------------------------------------------------------------
(* The page of the library (LibraryPage).                                     *)

(* What has yet to come back in the URL. *)
EchoInv ==
    /\ by = "search" => Url # Elsewhere /\ Q(Url) = lastWritten
    /\ by = "search" /\ pending /\ ~crossed /\ Here => lastWritten # Q(rendered)
(* Where the box is out of step, something is on its way, or came between. *)
BoxInv == Here /\ timer = Absent => draft = Q(rendered) \/ crossed \/ (pending /\ by = "search")
SortInv == by = "sort" => Url # Elsewhere /\ Here /\ Sort(Url, stored) = stored
RestInv == ~pending => rendered = Url
PageInv == PageTypeOK /\ TheDebounceIsFresh /\ EchoInv /\ BoxInv /\ SortInv /\ RestInv

\* What is searched for is text that may stand in a URL; written to one, it is read from it.
LEMMA SearchesAreRead ==
    ASSUME PageSized, NEW url \in Urls, NEW text \in Raw
    PROVE  /\ Q(url) \in Raw /\ WithQ(url, text) \in Urls /\ Q(WithQ(url, text)) = text
<1>1. Q(url) \in Raw
  BY DEF PageSized, Q, Urls, Keys
<1>2. WithQ(url, text) \in Urls
  BY DEF Urls, WithQ
<1>3. WithQ(url, text)["q"] = IF text = NoText THEN Absent ELSE text
  BY DEF Urls, WithQ, Keys
<1> QED BY <1>1, <1>2, <1>3 DEF PageSized, Q

\* A pushed URL is the one the tab is at, behind all it has been through.
LEMMA PushedIsThere ==
    ASSUME PageTypeOK, NEW url \in Urls \cup {Elsewhere}, Pushed(url)
    PROVE  /\ entries' \in Seq(Urls \cup {Elsewhere}) /\ at' \in 1..Len(entries') /\ at' = at + 1
           /\ entries'[at'] = url /\ entries'[at] = entries[at]
<1>1. entries \in Seq(Urls \cup {Elsewhere}) /\ at \in 1..Len(entries)
  BY DEF PageTypeOK
<1>2. entries' = Append(SubSeq(entries, 1, at), url) /\ at' = at + 1
  BY DEF Pushed
<1> DEFINE s == SubSeq(entries, 1, at)
<1>3. s \in Seq(Urls \cup {Elsewhere}) /\ Len(s) = at /\ s[at] = entries[at]
  BY <1>1
<1> HIDE DEF s
<1>4. Len(Append(s, url)) = at + 1 /\ Append(s, url)[at + 1] = url /\ Append(s, url)[at] = s[at]
      /\ Append(s, url) \in Seq(Urls \cup {Elsewhere})
  BY <1>1, <1>3
<1> QED BY <1>1, <1>2, <1>3, <1>4 DEF s

LEMMA ReplacedIsThere ==
    ASSUME PageTypeOK, NEW url \in Urls, Replaced(url)
    PROVE  /\ entries' \in Seq(Urls \cup {Elsewhere}) /\ at' \in 1..Len(entries') /\ at' = at
           /\ entries'[at'] = url
BY DEF PageTypeOK, Replaced

LEMMA SortIsRead ==
    ASSUME PageSized, NEW url \in Urls, NEW sort \in Sorts
    PROVE  WithSort(url, sort) \in Urls /\ Sort(WithSort(url, sort), sort) = sort
<1>1. WithSort(url, sort) \in Urls
  BY DEF PageSized, Urls, WithSort
<1>2. WithSort(url, sort)["sort"] = IF sort = Default THEN Absent ELSE sort
  BY DEF Urls, WithSort, Keys
<1> QED BY <1>1, <1>2 DEF PageSized, Sort, Read

LEMMA PageStarts == PageSized /\ PageInit => PageInv
<1> SUFFICES ASSUME PageSized, PageInit PROVE PageInv
  OBVIOUS
<1>1. PICK url \in Urls : entries = <<url>> /\ rendered = url /\ draft = Q(url) /\ lastWritten = Q(url)
  BY DEF PageInit
<1>2. at = 1 /\ pending = FALSE /\ timer = Absent /\ stored \in Sorts /\ by = "link" /\ crossed = FALSE
  BY DEF PageInit
<1>3. Q(url) \in Raw
  BY DEF PageSized, Q, Urls, Keys
<1>4. Url = url /\ entries \in Seq(Urls \cup {Elsewhere}) /\ at \in 1..Len(entries)
  BY <1>1, <1>2 DEF Url
<1> QED BY <1>1, <1>2, <1>3, <1>4
        DEF PageInv, PageTypeOK, TheDebounceIsFresh, EchoInv, BoxInv, SortInv, RestInv

\* A change of the URL that is not of the search leaves the box as it is.
LEMMA NavigatingKeeps ==
    ASSUME PageSized, PageInv, NEW who \in {"filter", "link", "go", "clear", "sort"}, Navigated(who),
           entries' \in Seq(Urls \cup {Elsewhere}), at' \in 1..Len(entries'),
           UNCHANGED <<rendered, lastWritten>>, stored' \in Sorts,
           who # "clear" => UNCHANGED <<draft, timer>>,
           who = "clear" => /\ Here /\ draft' = NoText
                            /\ timer' = IF draft = NoText THEN timer ELSE Armed(NoText, Q(rendered)),
           who = "sort" => entries'[at'] # Elsewhere /\ Here /\ Sort(entries'[at'], stored') = stored'
    PROVE  PageInv'
<1> USE DEF PageInv
<1>0. by' = who /\ pending' = TRUE /\ crossed' = (crossed \/ pending) /\ rendered' = rendered
  BY DEF Navigated
<1>1. PageTypeOK'
  <2>1. timer' \in [text : Raw, q : Raw] \cup {Absent} /\ draft' \in Raw
    <3>1. CASE who # "clear"
      BY <3>1 DEF PageTypeOK
    <3>2. CASE who = "clear"
      <4>1. Q(rendered) \in Raw /\ NoText \in Raw
        BY <3>2, SearchesAreRead DEF Here, PageTypeOK, PageSized
      <4> QED BY <3>2, <4>1 DEF PageTypeOK, Armed
    <3> QED BY <3>1, <3>2
  <2> QED BY <1>0, <2>1 DEF PageTypeOK
<1>2. TheDebounceIsFresh'
  BY <1>0 DEF TheDebounceIsFresh, Armed, Here
<1>3. EchoInv'
  BY <1>0 DEF EchoInv
<1>4. BoxInv'
  <2> SUFFICES ASSUME Here', timer' = Absent PROVE draft' = Q(rendered)' \/ crossed'
    BY DEF BoxInv
  <2>1. CASE who # "clear"
    BY <1>0, <2>1 DEF BoxInv, Here
  <2>2. CASE who = "clear" /\ draft = NoText
    BY <1>0, <2>2 DEF BoxInv, Here
  <2>3. CASE who = "clear" /\ draft # NoText
    <3>1. Q(rendered) \in Raw /\ NoText \in Raw
      BY <2>3, SearchesAreRead DEF Here, PageTypeOK, PageSized
    <3>2. NoText = Q(rendered)
      BY <2>3, <3>1 DEF Armed, PageSized
    <3> QED BY <1>0, <2>3, <3>2
  <2> QED BY <2>1, <2>2, <2>3
<1>5. SortInv'
  BY <1>0 DEF SortInv, Url, Here
<1>6. RestInv'
  BY <1>0 DEF RestInv
<1> QED BY <1>1, <1>2, <1>3, <1>4, <1>5, <1>6

LEMMA PageStays == PageSized /\ PageInv /\ [PageNext]_pageVars => PageInv'
<1> SUFFICES ASSUME PageSized, PageInv, [PageNext]_pageVars PROVE PageInv'
  OBVIOUS
<1> USE DEF PageInv
<1>0. \A url \in Urls : Q(url) \in Raw
  BY SearchesAreRead DEF PageSized
<1>1. ASSUME NEW text \in Texts, Type(text) PROVE PageInv'
  <2>0. Here /\ Q(rendered) \in Raw /\ text \in Raw
    BY <1>0, <1>1 DEF Type, Here, PageTypeOK, PageSized
  <2>1. /\ UNCHANGED <<entries, at, rendered, pending, lastWritten, stored, by>>
        /\ draft' = text /\ timer' = Armed(text, Q(rendered)) /\ crossed' = (crossed /\ pending)
    BY <1>1 DEF Type
  <2>2. PageTypeOK'
    BY <2>0, <2>1 DEF PageTypeOK, Armed
  <2>3. TheDebounceIsFresh'
    BY <2>0, <2>1 DEF TheDebounceIsFresh, Armed, Here
  <2>4. EchoInv'
    BY <2>1 DEF EchoInv, Url, Here
  <2>5. BoxInv'
    BY <2>0, <2>1 DEF BoxInv, Armed, PageSized
  <2>6. SortInv' /\ RestInv'
    BY <2>1 DEF SortInv, RestInv, Url, Here
  <2> QED BY <2>2, <2>3, <2>4, <2>5, <2>6
<1>2. ASSUME Pause PROVE PageInv'
  <2> DEFINE url == WithQ(rendered, draft)
  <2>1. Here /\ rendered \in Urls /\ draft \in Raw /\ draft # Q(rendered) /\ timer.q = Q(rendered)
    BY <1>2 DEF Pause, TheDebounceIsFresh, Here, PageTypeOK
  <2>2. url \in Urls /\ Q(url) = draft
    BY <2>1, SearchesAreRead
  <2>3. Pushed(url) \/ Replaced(url)
    BY <1>2 DEF Pause
  <2>4. entries' \in Seq(Urls \cup {Elsewhere}) /\ at' \in 1..Len(entries') /\ entries'[at'] = url
    BY <2>2, <2>3, PushedIsThere, ReplacedIsThere
  <2>5. /\ lastWritten' = draft /\ timer' = Absent /\ pending' = TRUE /\ by' = "search"
        /\ crossed' = (crossed \/ pending) /\ UNCHANGED <<rendered, draft, stored>>
    BY <1>2 DEF Pause, Navigated
  <2> HIDE DEF url
  <2>6. Url' = url /\ url # Elsewhere
    BY <2>2, <2>4 DEF Url, PageSized
  <2>7. PageTypeOK'
    BY <2>1, <2>4, <2>5 DEF PageTypeOK
  <2>8. TheDebounceIsFresh' /\ BoxInv' /\ SortInv' /\ RestInv'
    BY <2>5 DEF TheDebounceIsFresh, BoxInv, SortInv, RestInv
  <2>9. EchoInv'
    BY <2>1, <2>2, <2>5, <2>6 DEF EchoInv
  <2> QED BY <2>7, <2>8, <2>9
<1>3. ASSUME NEW url \in Urls, Filter(url) PROVE PageInv'
  <2>1. Pushed(url) /\ Navigated("filter") /\ UNCHANGED <<rendered, draft, lastWritten, timer, stored>>
    BY <1>3 DEF Filter
  <2>2. entries' \in Seq(Urls \cup {Elsewhere}) /\ at' \in 1..Len(entries')
    BY <2>1, PushedIsThere
  <2> QED BY <2>1, <2>2, NavigatingKeeps DEF PageTypeOK
<1>4. ASSUME ClearFilters PROVE PageInv'
  <2>1. /\ Here /\ Pushed(Cleared(rendered)) /\ Navigated("clear") /\ UNCHANGED <<rendered, lastWritten, stored>>
        /\ draft' = NoText /\ timer' = IF draft = NoText THEN timer ELSE Armed(NoText, Q(rendered))
    BY <1>4 DEF ClearFilters
  <2>2. Cleared(rendered) \in Urls
    BY <2>1 DEF Here, PageTypeOK, Urls, Cleared
  <2>3. entries' \in Seq(Urls \cup {Elsewhere}) /\ at' \in 1..Len(entries')
    BY <2>1, <2>2, PushedIsThere
  <2>4. stored' \in Sorts
    BY <2>1 DEF PageTypeOK
  <2> QED BY <2>1, <2>3, <2>4, NavigatingKeeps
<1>5. ASSUME NEW sort \in Sorts, ChooseSort(sort) PROVE PageInv'
  <2>1. /\ Here /\ Pushed(WithSort(rendered, sort)) /\ Navigated("sort") /\ stored' = sort
        /\ UNCHANGED <<rendered, draft, lastWritten, timer>>
    BY <1>5 DEF ChooseSort
  <2>2. rendered \in Urls
    BY <2>1 DEF Here, PageTypeOK
  <2>3. WithSort(rendered, sort) \in Urls /\ Sort(WithSort(rendered, sort), sort) = sort
    BY <2>2, SortIsRead
  <2>4. /\ entries' \in Seq(Urls \cup {Elsewhere}) /\ at' \in 1..Len(entries')
        /\ entries'[at'] = WithSort(rendered, sort)
    BY <2>1, <2>3, PushedIsThere
  <2>5. entries'[at'] # Elsewhere
    BY <2>3, <2>4 DEF PageSized
  <2> QED BY <2>1, <2>3, <2>4, <2>5, NavigatingKeeps
<1>6. ASSUME NEW entry \in 1..Len(entries), Go(entry) PROVE PageInv'
  <2>1. /\ at' = entry /\ entries' = entries /\ Navigated("go")
        /\ UNCHANGED <<rendered, draft, lastWritten, timer, stored>>
    BY <1>6 DEF Go
  <2> QED BY <2>1, NavigatingKeeps DEF PageTypeOK
<1>7. ASSUME NEW url \in Urls \cup {Elsewhere}, Follow(url) PROVE PageInv'
  <2>1. Pushed(url) /\ Navigated("link") /\ UNCHANGED <<rendered, draft, lastWritten, timer, stored>>
    BY <1>7 DEF Follow
  <2>2. entries' \in Seq(Urls \cup {Elsewhere}) /\ at' \in 1..Len(entries')
    BY <2>1, PushedIsThere
  <2> QED BY <2>1, <2>2, NavigatingKeeps DEF PageTypeOK
<1>8. ASSUME Render PROVE PageInv'
  <2>1. pending /\ pending' = FALSE /\ rendered' = Url /\ UNCHANGED <<entries, at, by>> /\ Url' = Url
    BY <1>8 DEF Render, Url
  <2>2. Url \in Urls \cup {Elsewhere} /\ Elsewhere \notin Urls
    BY DEF Url, PageTypeOK, PageSized
  <2>3. Url # Elsewhere => Url \in Urls /\ Q(Url) \in Raw
    BY <1>0, <2>2
  <2>4. RestInv'
    BY <2>1 DEF RestInv
  <2>5. CASE Arrive
    <3>1. /\ Url # Elsewhere /\ ~Here /\ draft' = Q(Url) /\ lastWritten' = Q(Url) /\ timer' = Absent
          /\ crossed' = FALSE /\ stored' \in Sorts
      BY <2>5 DEF Arrive
    <3>2. PageTypeOK'
      BY <2>1, <2>2, <2>3, <3>1 DEF PageTypeOK
    <3>3. TheDebounceIsFresh' /\ EchoInv' /\ BoxInv'
      BY <2>1, <3>1 DEF TheDebounceIsFresh, EchoInv, BoxInv
    <3>4. SortInv'
      BY <2>1, <3>1 DEF SortInv
    <3> QED BY <2>4, <3>2, <3>3, <3>4
  <2>6. CASE Quit
    <3>1. /\ Url = Elsewhere /\ draft' = NoText /\ lastWritten' = NoText /\ timer' = Absent /\ crossed' = FALSE
          /\ stored' = stored
      BY <2>6 DEF Quit
    <3>2. PageTypeOK'
      BY <2>1, <2>2, <3>1 DEF PageTypeOK, PageSized
    <3>3. ~Here'
      BY <2>1, <3>1 DEF Here
    <3>4. TheDebounceIsFresh' /\ EchoInv' /\ BoxInv' /\ SortInv'
      BY <2>1, <3>1, <3>3 DEF TheDebounceIsFresh, EchoInv, BoxInv, SortInv
    <3> QED BY <2>4, <3>2, <3>4
  <2>7. CASE Keep
    <3>1. /\ Url # Elsewhere /\ Here /\ Q(Url) = Q(rendered) /\ UNCHANGED <<draft, lastWritten, timer, crossed>>
          /\ stored' = stored
      BY <2>7 DEF Keep
    <3>2. PageTypeOK'
      BY <2>1, <2>2, <3>1 DEF PageTypeOK
    <3>3. Here' /\ Q(rendered)' = Q(rendered)
      BY <2>1, <3>1 DEF Here
    <3>4. TheDebounceIsFresh' /\ EchoInv' /\ SortInv'
      BY <2>1, <3>1, <3>3 DEF TheDebounceIsFresh, EchoInv, SortInv
    <3>5. BoxInv'
      <4> SUFFICES ASSUME timer = Absent PROVE draft = Q(rendered) \/ crossed
        BY <3>1, <3>3 DEF BoxInv
      <4>1. CASE by # "search" \/ crossed
        BY <3>1, <4>1 DEF BoxInv
      <4>2. CASE by = "search" /\ ~crossed
        BY <2>1, <3>1, <4>2 DEF EchoInv
      <4> QED BY <4>1, <4>2
    <3> QED BY <2>4, <3>2, <3>4, <3>5
  <2>8. CASE Follows
    <3>1. /\ Url # Elsewhere /\ Here /\ lastWritten' = Q(Url) /\ crossed' = FALSE /\ stored' = stored
          /\ \/ draft' = draft /\ timer' = Armed(draft, Q(Url))
             \/ draft' = Q(Url) /\ timer' = Absent
      BY <2>8 DEF Follows
    <3>2. Here' /\ Q(rendered)' = Q(Url) /\ Q(Url) \in Raw
      BY <2>1, <2>3, <3>1 DEF Here
    <3>3. PageTypeOK'
      <4>1. draft \in Raw /\ stored \in Sorts
        BY DEF PageTypeOK
      <4>2. timer' \in [text : Raw, q : Raw] \cup {Absent} /\ draft' \in Raw
        BY <3>1, <3>2, <4>1 DEF Armed
      <4> QED BY <2>1, <2>2, <3>1, <3>2, <4>1, <4>2 DEF PageTypeOK
    <3>4. TheDebounceIsFresh'
      BY <3>1, <3>2 DEF TheDebounceIsFresh, Armed
    <3>5. EchoInv'
      BY <2>1, <3>1 DEF EchoInv
    <3>6. BoxInv'
      <4>1. draft \in Raw
        BY DEF PageTypeOK
      <4> QED BY <3>1, <3>2, <4>1 DEF BoxInv, Armed, PageSized
    <3>7. SortInv'
      BY <2>1, <3>1, <3>2 DEF SortInv
    <3> QED BY <2>4, <3>3, <3>4, <3>5, <3>6, <3>7
  <2> QED BY <1>8, <2>5, <2>6, <2>7, <2>8 DEF Render
<1>9. CASE UNCHANGED pageVars
  BY <1>9 DEF pageVars, PageTypeOK, TheDebounceIsFresh, EchoInv, BoxInv, SortInv, RestInv, Url, Here
<1> QED BY <1>1, <1>2, <1>3, <1>4, <1>5, <1>6, <1>7, <1>8, <1>9 DEF PageNext

LEMMA PageInvariant == PageSized /\ PageSpec => []PageInv
<1> SUFFICES ASSUME PageSized PROVE PageSpec => []PageInv
  OBVIOUS
<1>1. PageInit => PageInv
  BY PageStarts
<1>2. PageInv /\ [PageNext]_pageVars => PageInv'
  BY PageStays
<1> QED BY <1>1, <1>2, PTL DEF PageSpec

\* However the user types, filters, sorts and goes back and forth, and however late a change of the
\* URL is rendered: the debounce writes what the box holds, and at rest the box and the URL agree,
\* unless one change was made before another was rendered.
THEOREM TheBoxFollowsTheUrl ==
    PageSized /\ PageSpec => [](PageTypeOK /\ TheDebounceIsFresh /\ TheBoxIsInStep /\ TheOrderIsAsChosen)
<1>1. PageInv => PageTypeOK /\ TheDebounceIsFresh /\ TheBoxIsInStep /\ TheOrderIsAsChosen
  BY DEF PageInv, BoxInv, SortInv, RestInv, TheBoxIsInStep, TheOrderIsAsChosen
<1> QED BY <1>1, PageInvariant, PTL

\* What was typed since a search was written is not taken back by it.
THEOREM TypingIsKept == PageSized /\ PageSpec => NoEchoIsTyped
<1>1. PageInv /\ [PageNext]_pageVars =>
          [Render /\ by = "search" /\ Url # Elsewhere /\ Here => draft' = draft]_pageVars
  <2> SUFFICES ASSUME PageInv, Render, by = "search", Url # Elsewhere, Here PROVE draft' = draft
    OBVIOUS
  <2>1. Q(Url) = lastWritten
    BY DEF PageInv, EchoInv
  <2> QED BY <2>1 DEF Render, Arrive, Quit, Keep, Follows
<1> QED BY <1>1, PageInvariant, PTL DEF PageSpec, NoEchoIsTyped

\* Back from a search is to the list it was started from.
THEOREM BackFromASearch == PageSized /\ PageSpec => BackIsWhereItBegan
<1> SUFFICES ASSUME PageSized PROVE PageSpec => BackIsWhereItBegan
  OBVIOUS
<1>1. PageInv /\ [PageNext]_pageVars =>
          [Pause /\ ~pending =>
               /\ entries'[at'] = WithQ(Url, draft)
               /\ Q(Url) = NoText => at' = at + 1 /\ entries'[at] = Url]_pageVars
  <2> SUFFICES ASSUME PageInv, Pause, ~pending
               PROVE  /\ entries'[at'] = WithQ(Url, draft)
                      /\ Q(Url) = NoText => at' = at + 1 /\ entries'[at] = Url
    OBVIOUS
  <2>1. rendered = Url /\ timer.q = Q(Url) /\ Here /\ PageTypeOK
    BY DEF PageInv, RestInv, TheDebounceIsFresh, Pause
  <2>2. Url \in Urls /\ draft \in Raw
    BY <2>1 DEF Here, PageTypeOK
  <2>3. WithQ(Url, draft) \in Urls
    BY <2>2, SearchesAreRead
  <2>4. IF Q(Url) = NoText THEN Pushed(WithQ(Url, draft)) ELSE Replaced(WithQ(Url, draft))
    BY <2>1 DEF Pause
  <2> QED BY <2>1, <2>3, <2>4, PushedIsThere, ReplacedIsThere DEF Url
<1> QED BY <1>1, PageInvariant, PTL DEF PageSpec, BackIsWhereItBegan

\* What counts as filtered is what has a filter.
LEMMA CountedAreAll ==
    ASSUME NEW url
    PROVE  MoreCount(url) > 0 <=> \E k \in MoreKeys : Read(url, k) # Absent
<1> DEFINE used == {g \in Counted : \E k \in g : Read(url, k) # Absent}
<1>1. IsFiniteSet(MoreKeys)
  <2>1. \A S, x : IsFiniteSet(S) => IsFiniteSet(S \cup {x})
    BY FS_AddElement
  <2>2. IsFiniteSet({"publisher"} \cup {"language"} \cup {"region"})
    <3>1. IsFiniteSet({"publisher"})
      BY FS_Singleton
    <3> QED BY <2>1, <3>1
  <2> DEFINE A == {"publisher"} \cup {"language"} \cup {"region"}
             B == A \cup {"minPlayers"} \cup {"maxRating"} \cup {"minSize"} \cup {"maxSize"}
             C == B \cup {"releasedFrom"} \cup {"releasedTo"} \cup {"updatedFrom"} \cup {"updatedTo"}
                    \cup {"maxFirmware"}
  <2>3. IsFiniteSet(B)
    <3>1. IsFiniteSet(A)
      BY <2>2
    <3> HIDE DEF A
    <3> QED BY <2>1, <3>1
  <2>4. IsFiniteSet(C)
    <3> HIDE DEF B
    <3> QED BY <2>1, <2>3
  <2>5. MoreKeys = C
    BY DEF MoreKeys
  <2> QED BY <2>4, <2>5
<1>2. UNION Counted = MoreKeys /\ Counted \subseteq SUBSET MoreKeys
  <2>1. UNION Ranges \subseteq MoreKeys /\ Ranges \subseteq SUBSET MoreKeys
    BY DEF Ranges, MoreKeys
  <2> DEFINE rest == {{k} : k \in MoreKeys \ UNION Ranges}
  <2>2. rest \subseteq SUBSET MoreKeys
    OBVIOUS
  <2>3. \A k \in MoreKeys : k \in UNION Ranges \/ {k} \in rest
    OBVIOUS
  <2>4. Counted = Ranges \cup rest
    BY DEF Counted
  <2> HIDE DEF rest
  <2>5. \A k \in MoreKeys : k \in UNION Counted
    <3> SUFFICES ASSUME NEW k \in MoreKeys PROVE k \in UNION Counted
      OBVIOUS
    <3>1. CASE k \in UNION Ranges
      BY <2>4, <3>1
    <3>2. CASE {k} \in rest
      BY <2>4, <3>2
    <3> QED BY <2>3, <3>1, <3>2
  <2>6. Counted \subseteq SUBSET MoreKeys
    BY <2>1, <2>2, <2>4
  <2> QED BY <2>5, <2>6
<1>3. IsFiniteSet(used)
  <2>1. IsFiniteSet(SUBSET MoreKeys)
    BY <1>1, FS_SUBSET
  <2>2. used \subseteq SUBSET MoreKeys
    BY <1>2
  <2> QED BY <2>1, <2>2, FS_Subset
<1>4. Cardinality(used) \in Nat /\ (Cardinality(used) = 0 <=> used = {})
  BY <1>3, FS_CardinalityType, FS_EmptySet
<1>5. used # {} <=> \E k \in MoreKeys : Read(url, k) # Absent
  BY <1>2
<1>6. MoreCount(url) = Cardinality(used)
  BY DEF MoreCount
<1> HIDE DEF used
<1> QED BY <1>4, <1>5, <1>6

\* Whatever stands in the URL: the page says that it filters exactly if it does not ask for
\* everything, and clearing leaves no filter and the order as it was.
THEOREM NothingIsFilteredInSilence ==
    PageSized => \A url \in Urls : FilteringIsTold(url)
<1> SUFFICES ASSUME PageSized, NEW url \in Urls PROVE FilteringIsTold(url)
  OBVIOUS
<1>1. More(url) = [k \in {} |-> Absent] <=> ~\E k \in MoreKeys : Read(url, k) # Absent
  <2>1. DOMAIN More(url) = {k \in MoreKeys : Read(url, k) # Absent}
    BY DEF More
  <2>2. ASSUME {k \in MoreKeys : Read(url, k) # Absent} = {} PROVE More(url) = [k \in {} |-> Absent]
    BY <2>2 DEF More
  <2> QED BY <2>1, <2>2
<1>2. Filtering(url) <=> Request(url) # Everything
  BY <1>1, CountedAreAll DEF Filtering, Request, Everything
<1>3. \A k \in Keys \ {"sort"} : Cleared(url)[k] = Absent
  BY DEF Cleared
<1>4. Cleared(url)["sort"] = url["sort"]
  BY DEF Cleared, Keys
<1>5. \A k \in MoreKeys \cup {"flag", "on", "not-on"} : Read(Cleared(url), k) = Absent
  BY <1>3 DEF Read, Keys, MoreKeys
<1>6. Q(Cleared(url)) = NoText /\ Device(Cleared(url)) = Absent
  BY <1>3, <1>5 DEF Q, Device, Keys
<1>7. ~Filtering(Cleared(url))
  <2>1. ~(MoreCount(Cleared(url)) > 0)
    BY <1>5, CountedAreAll
  <2> QED BY <1>5, <1>6, <2>1 DEF Filtering
<1>8. \A sort \in Sorts : Sort(Cleared(url), sort) = Sort(url, sort)
  BY <1>4 DEF Sort, Read
<1> QED BY <1>2, <1>7, <1>8 DEF FilteringIsTold

LEMMA YearsAreRead ==
    \A year \in Nat : (year * 10000 + 101) \div 10000 = year /\ (year * 10000 + 1231) \div 10000 = year
OBVIOUS

\* A choice the API takes as it is written is shown as chosen, and changes nothing else.
THEOREM ChoicesAreShown ==
    ASSUME PageSized, NEW url \in Urls, NEW key \in MoreKeys, NEW value,
           key \in Since \cup Until => value \in Nat \cup {Absent},
           LET written == Choose(url, key, value)[key]
           IN  written # Absent => Parse[key][written] = written
    PROVE  ChosenIsShown(url, key, value)
<1> DEFINE chosen == Choose(url, key, value)
           written == IF key \in Since THEN FromYear(value) ELSE IF key \in Until THEN ToYear(value) ELSE value
<1>1. chosen = [k \in Keys |-> IF k = key THEN written ELSE url[k]]
  BY DEF Choose, WithMore
<1>2. key \in Keys /\ chosen[key] = written
  BY <1>1 DEF Keys
<1>3. Read(chosen, key) = written
  BY <1>2 DEF Read
<1>4. ShownIn(chosen, key) = value
  <2>1. CASE key \in Since
    <3>1. CASE value = Absent
      BY <1>3, <2>1, <3>1 DEF ShownIn, YearOf, FromYear
    <3>2. CASE value \in Nat
      <4>1. value # Absent /\ written = value * 10000 + 101
        BY <2>1, <3>2 DEF PageSized, FromYear
      <4>2. written # Absent
        BY <3>2, <4>1 DEF PageSized
      <4>3. YearOf(written) = written \div 10000
        BY <4>2 DEF YearOf
      <4> QED BY <1>3, <2>1, <3>2, <4>1, <4>3, YearsAreRead DEF ShownIn
    <3> QED BY <2>1, <3>1, <3>2
  <2>2. CASE key \in Until
    <3>0. key \notin Since
      BY <2>2 DEF Since, Until
    <3>1. CASE value = Absent
      BY <1>3, <2>2, <3>0, <3>1 DEF ShownIn, YearOf, ToYear
    <3>2. CASE value \in Nat
      <4>1. value # Absent /\ written = value * 10000 + 1231
        BY <2>2, <3>0, <3>2 DEF PageSized, ToYear
      <4>2. written # Absent
        BY <3>2, <4>1 DEF PageSized
      <4>3. YearOf(written) = written \div 10000
        BY <4>2 DEF YearOf
      <4> QED BY <1>3, <2>2, <3>2, <4>1, <4>3, YearsAreRead DEF ShownIn
    <3> QED BY <2>2, <3>1, <3>2
  <2>3. CASE key \notin Since \cup Until
    BY <1>3, <2>3 DEF ShownIn
  <2> QED BY <2>1, <2>2, <2>3
<1>5. ASSUME NEW other \in Keys \ {key} PROVE Read(chosen, other) = Read(url, other)
  BY <1>1 DEF Read
<1> QED BY <1>4, <1>5 DEF ChosenIsShown

THEOREM SizesAreShown ==
    ASSUME PageSized, NEW url \in Urls, NEW low, NEW high,
           low # Absent => Parse["minSize"][low] = low, high # Absent => Parse["maxSize"][high] = high
    PROVE  ChosenSizeIsShown(url, <<low, high>>)
<1> DEFINE chosen == ChooseSize(url, <<low, high>>)
<1>1. chosen = [k \in Keys |-> IF k = "minSize" THEN low ELSE IF k = "maxSize" THEN high ELSE url[k]]
  BY DEF ChooseSize, WithMore, Sizes
<1>2. chosen["minSize"] = low /\ chosen["maxSize"] = high
  BY <1>1 DEF Keys, MoreKeys
<1>3. ShownSize(chosen) = <<low, high>>
  BY <1>2 DEF ShownSize, Read
<1>4. \A other \in Keys \ Sizes : Read(chosen, other) = Read(url, other)
  BY <1>1 DEF Read, Sizes
<1> QED BY <1>3, <1>4 DEF ChosenSizeIsShown

THEOREM DevicesAreShown ==
    ASSUME PageSized, NEW url \in Urls, NEW device \in (Raw \X BOOLEAN) \cup {Absent},
           device # Absent => Parse["on"][device[1]] = device[1] /\ Parse["not-on"][device[1]] = device[1]
    PROVE  ChosenDeviceIsShown(url, device)
<1> DEFINE chosen == WithDevice(url, device)
<1>0. "on" \in Keys /\ "not-on" \in Keys
  BY DEF Keys
<1>1. CASE device = Absent
  <2>1. chosen["on"] = Absent /\ chosen["not-on"] = Absent
    BY <1>0, <1>1 DEF WithDevice, Urls
  <2> QED BY <1>1, <2>1 DEF ChosenDeviceIsShown, Device, Read
<1>2. CASE device # Absent
  <2>1. PICK id \in Raw, on \in BOOLEAN : device = <<id, on>>
    BY <1>2
  <2>2. id # Absent
    BY DEF PageSized
  <2>3. CASE on = TRUE
    <3>1. chosen["on"] = id /\ chosen["not-on"] = Absent
      BY <1>0, <1>2, <2>1, <2>3 DEF WithDevice, Urls
    <3>2. Read(chosen, "on") = id
      BY <1>2, <2>1, <2>2, <3>1 DEF Read
    <3> QED BY <2>1, <2>2, <2>3, <3>2 DEF ChosenDeviceIsShown, Device
  <2>4. CASE on = FALSE
    <3>1. chosen["on"] = Absent /\ chosen["not-on"] = id
      BY <1>0, <1>2, <2>1, <2>4 DEF WithDevice, Urls
    <3>2. Read(chosen, "on") = Absent /\ Read(chosen, "not-on") = id
      BY <1>2, <2>1, <2>2, <3>1 DEF Read
    <3> QED BY <2>1, <2>2, <2>4, <3>2 DEF ChosenDeviceIsShown, Device
  <2> QED BY <2>3, <2>4
<1> QED BY <1>1, <1>2

\* A date lies between the first and the last day of its year.
LEMMA DatesAreInTheirYears ==
    ASSUME NEW date \in Nat, date % 10000 \in 101..1231
    PROVE  /\ date \div 10000 \in Nat
           /\ (date \div 10000) * 10000 + 101 <= date /\ date <= (date \div 10000) * 10000 + 1231
<1>1. date = 10000 * (date \div 10000) + (date % 10000) /\ date \div 10000 \in Nat
  OBVIOUS
<1> QED BY <1>1

\* The panel offers nothing that no game of the library has, if its dates are dates.
THEOREM EveryChoiceMatches ==
    ASSUME PageSized, NEW apps, NEW key \in MoreKeys \ Sizes,
           \A app \in apps : /\ app.players \in Nat \cup {Absent} /\ app.rating \in Nat \cup {Absent}
                             /\ app.firmware \in Nat \cup {Absent}
                             /\ \A date \in {app.released, app.updated} \ {Absent} :
                                    date \in Nat /\ date % 10000 \in 101..1231
    PROVE  OptionsMatch(apps, key)
<1> SUFFICES ASSUME NEW value \in LibraryOptions(apps, key)
             PROVE  \E app \in apps : Takes(app, key, Choose(Bare, key, value)[key])
  BY DEF OptionsMatch
<1>0. Absent \notin Nat
  BY DEF PageSized
<1>1. Choose(Bare, key, value)[key] =
         IF key \in Since THEN FromYear(value) ELSE IF key \in Until THEN ToYear(value) ELSE value
  BY DEF Choose, WithMore, Keys
<1>2. CASE key = "publisher"
  BY <1>1, <1>2 DEF LibraryOptions, Known, Takes, Since, Until
<1>3. CASE key = "language"
  BY <1>1, <1>3 DEF LibraryOptions, Takes, Since, Until
<1>4. CASE key = "region"
  BY <1>1, <1>4 DEF LibraryOptions, Takes, Since, Until
<1>5. CASE key = "minPlayers"
  <2>1. PICK app \in apps : app.players # Absent /\ value <= app.players /\ value \in Nat
    BY <1>5 DEF LibraryOptions, Known
  <2>2. app.players >= value
    BY <2>1
  <2> QED BY <1>1, <1>5, <2>1, <2>2 DEF Takes, Since, Until
<1>6. CASE key = "maxRating"
  <2>1. PICK app \in apps : app.rating # Absent /\ value = app.rating /\ value \in Nat
    BY <1>6 DEF LibraryOptions, Known
  <2> QED BY <1>1, <1>6, <2>1 DEF Takes, Since, Until
<1>7. CASE key = "maxFirmware"
  <2>1. PICK app \in apps : app.firmware # Absent /\ value = app.firmware /\ value \in Nat
    BY <1>7 DEF LibraryOptions, Known
  <2> QED BY <1>1, <1>7, <2>1 DEF Takes, Since, Until
<1>8. CASE key \in {"releasedFrom", "releasedTo"}
  <2>1. PICK app \in apps : app.released # Absent /\ value = YearOf(app.released)
    BY <1>8 DEF LibraryOptions, Known
  <2>2. app.released \in Nat /\ app.released % 10000 \in 101..1231
    BY <2>1
  <2>3. /\ value = app.released \div 10000 /\ value \in Nat /\ value # Absent
        /\ value * 10000 + 101 <= app.released /\ app.released <= value * 10000 + 1231
    <3>1. value = app.released \div 10000
      BY <2>1 DEF YearOf
    <3> DEFINE date == app.released
    <3>2. date \in Nat /\ date % 10000 \in 101..1231
      BY <2>2
    <3> HIDE DEF date
    <3>3. /\ date \div 10000 \in Nat
          /\ (date \div 10000) * 10000 + 101 <= date /\ date <= (date \div 10000) * 10000 + 1231
      BY <3>2, DatesAreInTheirYears
    <3> QED BY <1>0, <3>1, <3>3 DEF date
  <2>4. Choose(Bare, key, value)[key] = IF key = "releasedFrom" THEN value * 10000 + 101 ELSE value * 10000 + 1231
    BY <1>1, <1>8, <2>3 DEF Since, Until, FromYear, ToYear
  <2>5. CASE key = "releasedFrom"
    <3>1. app.released >= value * 10000 + 101
      BY <2>2, <2>3
    <3> QED BY <2>1, <2>4, <2>5, <3>1 DEF Takes
  <2>6. CASE key = "releasedTo"
    BY <2>1, <2>3, <2>4, <2>6 DEF Takes
  <2> QED BY <1>8, <2>5, <2>6
<1>9. CASE key \in {"updatedFrom", "updatedTo"}
  <2>1. PICK app \in apps : app.updated # Absent /\ value = YearOf(app.updated)
    BY <1>9 DEF LibraryOptions, Known
  <2>2. app.updated \in Nat /\ app.updated % 10000 \in 101..1231
    BY <2>1
  <2>3. /\ value = app.updated \div 10000 /\ value \in Nat /\ value # Absent
        /\ value * 10000 + 101 <= app.updated /\ app.updated <= value * 10000 + 1231
    <3>1. value = app.updated \div 10000
      BY <2>1 DEF YearOf
    <3> DEFINE date == app.updated
    <3>2. date \in Nat /\ date % 10000 \in 101..1231
      BY <2>2
    <3> HIDE DEF date
    <3>3. /\ date \div 10000 \in Nat
          /\ (date \div 10000) * 10000 + 101 <= date /\ date <= (date \div 10000) * 10000 + 1231
      BY <3>2, DatesAreInTheirYears
    <3> QED BY <1>0, <3>1, <3>3 DEF date
  <2>4. Choose(Bare, key, value)[key] = IF key = "updatedFrom" THEN value * 10000 + 101 ELSE value * 10000 + 1231
    BY <1>1, <1>9, <2>3 DEF Since, Until, FromYear, ToYear
  <2>5. CASE key = "updatedFrom"
    <3>1. app.updated >= value * 10000 + 101
      BY <2>2, <2>3
    <3> QED BY <2>1, <2>4, <2>5, <3>1 DEF Takes
  <2>6. CASE key = "updatedTo"
    BY <2>1, <2>3, <2>4, <2>6 DEF Takes
  <2> QED BY <1>9, <2>5, <2>6
<1> QED BY <1>2, <1>3, <1>4, <1>5, <1>6, <1>7, <1>8, <1>9 DEF MoreKeys, Sizes

--------------------------------------------------------------------------------
(* The account and its sessions (Accounts).                                   *)

\* Rows are of cookies that were given out, and there are none without an account, nor was one read.
RowsHaveAnOwner ==
    /\ sessionRows \subseteq issued /\ (sessionRows # {} => account # NoAccount)
    /\ \A t \in Tabs : saw[t] # NoAccount => account # NoAccount

\* Only someone entitled creates an account while there is none.
SetupsAreEntitled ==
    \A t \in Tabs : stage[t] = "hashing" /\ ask[t].kind = "setup" /\ ~Entitled(t, ask[t]) =>
        account # NoAccount

\* Nobody is told of an account that is not there.
Tell(s) == s \in {"signIn", "in"} => account # NoAccount
AnswersKnowOfTheAccount ==
    \A t \in Tabs : /\ Tell(status[t]) /\ Tell(fetch[t])
                    /\ stage[t] = "answered" => Tell(answer[t].says)

\* Requests of an address whose passwords are being compared.
Guesses(a) == {t \in Tabs : stage[t] = "verifying" /\ AddressOf[t] = a}

\* The failures counted for an address and the guesses that may still fail.
FewGuesses(a) ==
    /\ IsFiniteSet(Recent(a))
    /\ Cardinality(Recent(a)) + Cardinality(Guesses(a)) <= MaxFailures - 1 + Cardinality(Tabs)

\* Someone entitled is about to create the account.
SomeoneIsEntitled ==
    \E t \in Tabs : stage[t] = "hashing" /\ ask[t].kind = "setup" /\ Entitled(t, ask[t])

\* A session may end in this step.
MayEnd(c) ==
    \/ clock' # clock
    \/ shell # NoPassword /\ shell' = NoPassword
    \/ \E t \in Tabs : stage[t] # "answered" /\ stage'[t] = "answered" /\
          \/ CookieOf(t) = c /\ answer'[t].says = "signIn"
          \/ ask[t].cookie # c /\ answer'[t].says = "changed"

--------------------------------------------------------------------------------
(* Types.                                                                       *)

\* Looking at an address keeps its failures typed.
LEMMA LookedTyped ==
  ASSUME AccountsSized, AuthTypeOK
  PROVE  \A t \in Tabs : Looked(AddressOf[t]) \in [Addresses -> SUBSET AuthFailures]
<1>1. ASSUME NEW t \in Tabs PROVE Recent(AddressOf[t]) \in SUBSET AuthFailures
  BY <1>1 DEF AuthTypeOK, Recent, AccountsSized
<1> QED BY <1>1 DEF Looked, AuthTypeOK

\* So does a resolved session its row.
LEMMA ResolveTyped ==
  ASSUME AccountsSized, AuthTypeOK
  PROVE  \A c, renew : Resolve(c, renew) =>
            /\ expires' \in [Cookies -> Nat] /\ lastSeen' \in [Cookies -> Nat]
            /\ UNCHANGED <<sessionRows, issued, proved, late>>
<1> SUFFICES ASSUME NEW c, NEW renew, Resolve(c, renew)
             PROVE  /\ expires' \in [Cookies -> Nat] /\ lastSeen' \in [Cookies -> Nat]
                    /\ UNCHANGED <<sessionRows, issued, proved, late>>
  OBVIOUS
<1>1. clock + Ttl \in Nat /\ clock \in Nat
  BY DEF AuthTypeOK, AccountsSized
<1> QED BY <1>1 DEF Resolve, AuthTypeOK

\* Every step keeps the types.
LEMMA AuthStepTyped ==
  ASSUME AccountsSized, AuthTypeOK, [AuthNext]_authVars
  PROVE  AuthTypeOK'
<1>1. ASSUME NEW t \in Tabs, NEW body \in Bodies, SetupBegins(t, body) PROVE AuthTypeOK'
  BY <1>1, LookedTyped DEF SetupBegins, Asks, Enter, AuthTypeOK, AuthRow, Bodies, AuthAnswers,
     Statuses, AccountsSized, CookieOf, requestVars, sessionVars, pageVarsOfTabs
<1>2. ASSUME NEW t \in Tabs, NEW body \in Bodies, SetupIsElsewhere(t, body) PROVE AuthTypeOK'
  BY <1>2 DEF SetupIsElsewhere, Asks, Answer, AuthTypeOK, AuthRow, Bodies, AuthAnswers, Statuses,
     AuthFailures, AccountsSized, CookieOf, requestVars, sessionVars, pageVarsOfTabs
<1>3. ASSUME NEW t \in Tabs, NEW body \in Bodies, SetupIsLimited(t, body) PROVE AuthTypeOK'
  BY <1>3, LookedTyped DEF SetupIsLimited, Asks, Answer, AuthTypeOK, AuthRow, Bodies, AuthAnswers,
     Statuses, AccountsSized, CookieOf, requestVars, sessionVars, pageVarsOfTabs
<1>4. ASSUME NEW t \in Tabs, NEW body \in Bodies, SetupTokenIsWrong(t, body) PROVE AuthTypeOK'
  BY <1>4 DEF SetupTokenIsWrong, Asks, Answer, RecordFailure, Recent, Failure, AuthTypeOK,
     AuthRow, Bodies, AuthAnswers, Statuses, AuthFailures, AccountsSized, CookieOf, requestVars,
     sessionVars, pageVarsOfTabs
<1>5. ASSUME NEW t \in Tabs, NEW body \in Bodies, LoginBegins(t, body) PROVE AuthTypeOK'
<2>1. \/ Answer(t, "refused", NoCookie)
      \/ Enter(t, "verifying")
  BY <1>5 DEF LoginBegins
<2>2. /\ stage' \in [Tabs -> {"idle", "admitted", "verifying", "hashing", "answered"}]
      /\ answer' \in [Tabs -> AuthAnswers]
  <3>1. [says |-> "refused", cookie |-> NoCookie] \in AuthAnswers
    BY DEF AuthAnswers
  <3>2. CASE Answer(t, "refused", NoCookie)
    BY <3>1, <3>2 DEF Answer, AuthTypeOK
  <3>3. CASE Enter(t, "verifying")
    BY <3>3 DEF Enter, AuthTypeOK
  <3> QED BY <2>1, <3>2, <3>3
<2>3. \/ UNCHANGED <<saw, read>>
      \/ ReadAccount(t)
  BY <1>5 DEF LoginBegins
<2>4. saw' \in [Tabs -> AuthRow \cup {NoAccount}] /\ read' \in [Tabs -> Nat]
  BY <2>3 DEF ReadAccount, AuthTypeOK
<2> QED BY <1>5, <2>2, <2>4, LookedTyped DEF LoginBegins, Asks, AuthTypeOK, requestVars,
   sessionVars, pageVarsOfTabs
<1>6. ASSUME NEW t \in Tabs, NEW body \in Bodies, PasswordIsAsked(t, body) PROVE AuthTypeOK'
<2>1. \/ Answer(t, "refused", NoCookie)
      \/ Enter(t, "admitted")
  BY <1>6 DEF PasswordIsAsked
<2>2. /\ stage' \in [Tabs -> {"idle", "admitted", "verifying", "hashing", "answered"}]
      /\ answer' \in [Tabs -> AuthAnswers]
  <3>1. [says |-> "refused", cookie |-> NoCookie] \in AuthAnswers
    BY DEF AuthAnswers
  <3>2. CASE Answer(t, "refused", NoCookie)
    BY <3>1, <3>2 DEF Answer, AuthTypeOK
  <3>3. CASE Enter(t, "admitted")
    BY <3>3 DEF Enter, AuthTypeOK
  <3> QED BY <2>1, <3>2, <3>3
<2> QED BY <1>6, <2>2, ResolveTyped DEF PasswordIsAsked, Asks, AuthTypeOK, requestVars,
   sessionVars, pageVarsOfTabs
<1>7. ASSUME NEW t \in Tabs, NEW c \in Cookies, SetupCreates(t, c) PROVE AuthTypeOK'
  BY <1>7 DEF SetupCreates, Answer, CreateSession, AuthTypeOK, AuthRow, Bodies, AuthAnswers,
     Statuses, AuthFailures, AccountsSized, CookieOf, requestVars, sessionVars, pageVarsOfTabs
<1>8. ASSUME NEW t \in Tabs, NEW c \in Cookies, LoginSucceeds(t, c) PROVE AuthTypeOK'
  BY <1>8 DEF LoginSucceeds, Answer, CreateSession, ResetFailures, AuthTypeOK, AuthRow, Bodies,
     AuthAnswers, Statuses, AuthFailures, AccountsSized, CookieOf, requestVars, sessionVars,
     pageVarsOfTabs
<1>9. ASSUME NEW t \in Tabs, SetupConflicts(t) PROVE AuthTypeOK'
  BY <1>9 DEF SetupConflicts, Answer, AuthTypeOK, AuthRow, Bodies, AuthAnswers, Statuses,
     AuthFailures, AccountsSized, CookieOf, requestVars, sessionVars, pageVarsOfTabs
<1>10. ASSUME NEW t \in Tabs, IsWrong(t) PROVE AuthTypeOK'
  BY <1>10 DEF IsWrong, Answer, RecordFailure, Recent, Failure, AuthTypeOK, AuthRow, Bodies,
     AuthAnswers, Statuses, AuthFailures, AccountsSized, CookieOf, requestVars, sessionVars,
     pageVarsOfTabs
<1>11. ASSUME NEW t \in Tabs, PasswordBegins(t) PROVE AuthTypeOK'
<2>1. \/ Answer(t, "refused", NoCookie)
      \/ Enter(t, "verifying")
  BY <1>11 DEF PasswordBegins
<2>2. /\ stage' \in [Tabs -> {"idle", "admitted", "verifying", "hashing", "answered"}]
      /\ answer' \in [Tabs -> AuthAnswers]
  <3>1. [says |-> "refused", cookie |-> NoCookie] \in AuthAnswers
    BY DEF AuthAnswers
  <3>2. CASE Answer(t, "refused", NoCookie)
    BY <3>1, <3>2 DEF Answer, AuthTypeOK
  <3>3. CASE Enter(t, "verifying")
    BY <3>3 DEF Enter, AuthTypeOK
  <3> QED BY <2>1, <3>2, <3>3
<2>3. \/ UNCHANGED <<saw, read>>
      \/ ReadAccount(t)
  BY <1>11 DEF PasswordBegins
<2>4. saw' \in [Tabs -> AuthRow \cup {NoAccount}] /\ read' \in [Tabs -> Nat]
  BY <2>3 DEF ReadAccount, AuthTypeOK
<2> QED BY <1>11, <2>2, <2>4, LookedTyped DEF PasswordBegins, AuthTypeOK, requestVars,
   sessionVars, pageVarsOfTabs
<1>12. ASSUME NEW t \in Tabs, PasswordIsRight(t) PROVE AuthTypeOK'
  BY <1>12 DEF PasswordIsRight, Enter, AuthTypeOK, AuthRow, Bodies, AuthAnswers, Statuses,
     AuthFailures, AccountsSized, CookieOf, requestVars, sessionVars, pageVarsOfTabs
<1>13. ASSUME NEW t \in Tabs, PasswordChanges(t) PROVE AuthTypeOK'
  BY <1>13 DEF PasswordChanges, Answer, SetPassword, ResetFailures, AuthTypeOK, AuthRow, Bodies,
     AuthAnswers, Statuses, AuthFailures, AccountsSized, CookieOf, requestVars, sessionVars,
     pageVarsOfTabs
<1>14. ASSUME NEW t \in Tabs, LogsOut(t) PROVE AuthTypeOK'
  BY <1>14 DEF LogsOut, Answer, AuthTypeOK, AuthRow, Bodies, AuthAnswers, Statuses, AuthFailures,
     AccountsSized, CookieOf, requestVars, sessionVars, pageVarsOfTabs
<1>15. ASSUME NEW t \in Tabs, Uses(t) PROVE AuthTypeOK'
  BY <1>15, ResolveTyped DEF Uses, AuthTypeOK, AuthRow, Bodies, AuthAnswers, Statuses,
     AccountsSized, requestVars, sessionVars, pageVarsOfTabs
<1>16. ASSUME NEW t \in Tabs, FetchesStatus(t) PROVE AuthTypeOK'
  BY <1>16, ResolveTyped DEF FetchesStatus, StatusOf, AuthTypeOK, AuthRow, Bodies, AuthAnswers,
     Statuses, AccountsSized, requestVars, sessionVars, pageVarsOfTabs
<1>17. ASSUME NEW t \in Tabs, StatusLands(t) PROVE AuthTypeOK'
  BY <1>17 DEF StatusLands, AuthTypeOK, AuthRow, Bodies, AuthAnswers, Statuses, AuthFailures,
     AccountsSized, CookieOf, requestVars, sessionVars, pageVarsOfTabs
<1>18. ASSUME NEW t \in Tabs, StatusFails(t) PROVE AuthTypeOK'
  BY <1>18 DEF StatusFails, AuthTypeOK, AuthRow, Bodies, AuthAnswers, Statuses, AuthFailures,
     AccountsSized, CookieOf, requestVars, sessionVars, pageVarsOfTabs
<1>19. ASSUME NEW t \in Tabs, AnswerLands(t) PROVE AuthTypeOK'
  BY <1>19 DEF AnswerLands, AuthTypeOK, AuthRow, Bodies, AuthAnswers, Statuses, AuthFailures,
     AccountsSized, CookieOf, requestVars, sessionVars, pageVarsOfTabs
<1>20. ASSUME NEW t \in Tabs, AnswerIsLost(t) PROVE AuthTypeOK'
  BY <1>20 DEF AnswerIsLost, Enter, AuthTypeOK, AuthRow, Bodies, AuthAnswers, Statuses,
     AuthFailures, AccountsSized, CookieOf, requestVars, sessionVars, pageVarsOfTabs
<1>21. ASSUME NEW p \in Passwords, ResetBegins(p) PROVE AuthTypeOK'
  BY <1>21 DEF ResetBegins, AuthTypeOK, AuthRow, Bodies, AuthAnswers, Statuses, AuthFailures,
     AccountsSized, CookieOf, requestVars, sessionVars, pageVarsOfTabs
<1>22. ASSUME ResetCommits PROVE AuthTypeOK'
  BY <1>22 DEF ResetCommits, SetPassword, AuthTypeOK, AuthRow, Bodies, AuthAnswers, Statuses,
     AuthFailures, AccountsSized, CookieOf, requestVars, sessionVars, pageVarsOfTabs
<1>23. ASSUME PurgeSessions PROVE AuthTypeOK'
  BY <1>23 DEF PurgeSessions, AuthTypeOK, AuthRow, Bodies, AuthAnswers, Statuses, AuthFailures,
     AccountsSized, CookieOf, requestVars, sessionVars, pageVarsOfTabs
<1>24. ASSUME ServerStartsAgain PROVE AuthTypeOK'
  BY <1>24 DEF ServerStartsAgain, AuthTypeOK, AuthRow, Bodies, AuthAnswers, Statuses,
     AuthFailures, AccountsSized, CookieOf, requestVars, sessionVars, pageVarsOfTabs
<1>25. ASSUME NEW now \in Nat, TimePasses(now) PROVE AuthTypeOK'
  BY <1>25 DEF TimePasses, AuthTypeOK, AuthRow, Bodies, AuthAnswers, Statuses, AuthFailures,
     AccountsSized, CookieOf, requestVars, sessionVars, pageVarsOfTabs
<1>26. ASSUME NEW b \in Browsers, CookieGoes(b) PROVE AuthTypeOK'
  BY <1>26 DEF CookieGoes, AuthTypeOK, AuthRow, Bodies, AuthAnswers, Statuses, AuthFailures,
     AccountsSized, CookieOf, requestVars, sessionVars, pageVarsOfTabs
<1>27. CASE UNCHANGED authVars
  BY <1>27 DEF authVars, AuthTypeOK, AuthRow, Bodies, AuthAnswers, Statuses, AuthFailures,
     AccountsSized, CookieOf, requestVars, sessionVars, pageVarsOfTabs
<1> QED BY <1>1, <1>2, <1>3, <1>4, <1>5, <1>6, <1>7, <1>8, <1>9, <1>10, <1>11, <1>12, <1>13,
       <1>14, <1>15, <1>16, <1>17, <1>18, <1>19, <1>20, <1>21, <1>22, <1>23, <1>24, <1>25, <1>26,
       <1>27 DEF AuthNext

--------------------------------------------------------------------------------
(* The account and the sessions.                                                *)

\* A row of admin is never "no account".
LEMMA ARowIsAnAccount ==
  ASSUME AccountsSized
  PROVE  \A n \in Usernames, p \in Passwords : [name |-> n, pass |-> p] # NoAccount
BY DEF AccountsSized, AuthRow

\* Setting the password keeps the account.
LEMMA SettingKeepsTheAccount ==
  ASSUME AccountsSized, AuthTypeOK, NEW p \in Passwords, NEW kept, SetPassword(p, kept)
  PROVE  account # NoAccount => account' # NoAccount
<1> SUFFICES ASSUME account # NoAccount PROVE account' # NoAccount
  OBVIOUS
<1>1. account.name \in Usernames /\ account' = [name |-> account.name, pass |-> p]
  BY DEF AuthTypeOK, AuthRow, SetPassword
<1> QED BY <1>1, ARowIsAnAccount

\* A sign-in that is right saw an account, and it is still there.
LEMMA VerifiedHasAnAccount ==
  ASSUME RowsHaveAnOwner
  PROVE  \A t \in Tabs : Verified(t) => account # NoAccount
BY DEF RowsHaveAnOwner, Verified

\* No step takes the account away.
LEMMA AccountStays ==
  ASSUME AccountsSized, AuthTypeOK, [AuthNext]_authVars
  PROVE  account # NoAccount => account' # NoAccount
<1>1. ASSUME NEW t \in Tabs, NEW body \in Bodies, SetupBegins(t, body) PROVE account # NoAccount
   => account' # NoAccount
  BY <1>1 DEF SetupBegins, requestVars, sessionVars, pageVarsOfTabs
<1>2. ASSUME NEW t \in Tabs, NEW body \in Bodies, SetupIsElsewhere(t, body) PROVE account #
   NoAccount => account' # NoAccount
  BY <1>2 DEF SetupIsElsewhere, requestVars, sessionVars, pageVarsOfTabs
<1>3. ASSUME NEW t \in Tabs, NEW body \in Bodies, SetupIsLimited(t, body) PROVE account #
   NoAccount => account' # NoAccount
  BY <1>3 DEF SetupIsLimited, requestVars, sessionVars, pageVarsOfTabs
<1>4. ASSUME NEW t \in Tabs, NEW body \in Bodies, SetupTokenIsWrong(t, body) PROVE account #
   NoAccount => account' # NoAccount
  BY <1>4 DEF SetupTokenIsWrong, requestVars, sessionVars, pageVarsOfTabs
<1>5. ASSUME NEW t \in Tabs, NEW body \in Bodies, LoginBegins(t, body) PROVE account # NoAccount
   => account' # NoAccount
  BY <1>5 DEF LoginBegins, requestVars, sessionVars, pageVarsOfTabs
<1>6. ASSUME NEW t \in Tabs, NEW body \in Bodies, PasswordIsAsked(t, body) PROVE account #
   NoAccount => account' # NoAccount
  BY <1>6 DEF PasswordIsAsked, Resolve, requestVars, sessionVars, pageVarsOfTabs
<1>7. ASSUME NEW t \in Tabs, NEW c \in Cookies, SetupCreates(t, c) PROVE account # NoAccount =>
   account' # NoAccount
  BY <1>7 DEF SetupCreates, requestVars, sessionVars, pageVarsOfTabs
<1>8. ASSUME NEW t \in Tabs, NEW c \in Cookies, LoginSucceeds(t, c) PROVE account # NoAccount =>
   account' # NoAccount
  BY <1>8 DEF LoginSucceeds, requestVars, sessionVars, pageVarsOfTabs
<1>9. ASSUME NEW t \in Tabs, SetupConflicts(t) PROVE account # NoAccount => account' # NoAccount
  BY <1>9 DEF SetupConflicts, requestVars, sessionVars, pageVarsOfTabs
<1>10. ASSUME NEW t \in Tabs, IsWrong(t) PROVE account # NoAccount => account' # NoAccount
  BY <1>10 DEF IsWrong, requestVars, sessionVars, pageVarsOfTabs
<1>11. ASSUME NEW t \in Tabs, PasswordBegins(t) PROVE account # NoAccount => account' # NoAccount
  BY <1>11 DEF PasswordBegins, requestVars, sessionVars, pageVarsOfTabs
<1>12. ASSUME NEW t \in Tabs, PasswordIsRight(t) PROVE account # NoAccount => account' # NoAccount
  BY <1>12 DEF PasswordIsRight, requestVars, sessionVars, pageVarsOfTabs
<1>13. ASSUME NEW t \in Tabs, PasswordChanges(t) PROVE account # NoAccount => account' # NoAccount
  BY <1>13, SettingKeepsTheAccount DEF PasswordChanges, requestVars, sessionVars, pageVarsOfTabs,
     AuthTypeOK, Bodies
<1>14. ASSUME NEW t \in Tabs, LogsOut(t) PROVE account # NoAccount => account' # NoAccount
  BY <1>14 DEF LogsOut, requestVars, sessionVars, pageVarsOfTabs
<1>15. ASSUME NEW t \in Tabs, Uses(t) PROVE account # NoAccount => account' # NoAccount
  BY <1>15 DEF Uses, Resolve, requestVars, sessionVars, pageVarsOfTabs
<1>16. ASSUME NEW t \in Tabs, FetchesStatus(t) PROVE account # NoAccount => account' # NoAccount
  BY <1>16 DEF FetchesStatus, Resolve, requestVars, sessionVars, pageVarsOfTabs
<1>17. ASSUME NEW t \in Tabs, StatusLands(t) PROVE account # NoAccount => account' # NoAccount
  BY <1>17 DEF StatusLands, requestVars, sessionVars, pageVarsOfTabs
<1>18. ASSUME NEW t \in Tabs, StatusFails(t) PROVE account # NoAccount => account' # NoAccount
  BY <1>18 DEF StatusFails, requestVars, sessionVars, pageVarsOfTabs
<1>19. ASSUME NEW t \in Tabs, AnswerLands(t) PROVE account # NoAccount => account' # NoAccount
  BY <1>19 DEF AnswerLands, requestVars, sessionVars, pageVarsOfTabs
<1>20. ASSUME NEW t \in Tabs, AnswerIsLost(t) PROVE account # NoAccount => account' # NoAccount
  BY <1>20 DEF AnswerIsLost, requestVars, sessionVars, pageVarsOfTabs
<1>21. ASSUME NEW p \in Passwords, ResetBegins(p) PROVE account # NoAccount => account' #
   NoAccount
  BY <1>21 DEF ResetBegins, requestVars, sessionVars, pageVarsOfTabs
<1>22. ASSUME ResetCommits PROVE account # NoAccount => account' # NoAccount
  BY <1>22, SettingKeepsTheAccount DEF ResetCommits, requestVars, sessionVars, pageVarsOfTabs,
     AuthTypeOK
<1>23. ASSUME PurgeSessions PROVE account # NoAccount => account' # NoAccount
  BY <1>23 DEF PurgeSessions, requestVars, sessionVars, pageVarsOfTabs
<1>24. ASSUME ServerStartsAgain PROVE account # NoAccount => account' # NoAccount
  BY <1>24 DEF ServerStartsAgain, requestVars, sessionVars, pageVarsOfTabs
<1>25. ASSUME NEW now \in Nat, TimePasses(now) PROVE account # NoAccount => account' # NoAccount
  BY <1>25 DEF TimePasses, requestVars, sessionVars, pageVarsOfTabs
<1>26. ASSUME NEW b \in Browsers, CookieGoes(b) PROVE account # NoAccount => account' # NoAccount
  BY <1>26 DEF CookieGoes, requestVars, sessionVars, pageVarsOfTabs
<1>27. CASE UNCHANGED authVars
  BY <1>27 DEF authVars, requestVars, sessionVars, pageVarsOfTabs
<1> QED BY <1>1, <1>2, <1>3, <1>4, <1>5, <1>6, <1>7, <1>8, <1>9, <1>10, <1>11, <1>12, <1>13,
       <1>14, <1>15, <1>16, <1>17, <1>18, <1>19, <1>20, <1>21, <1>22, <1>23, <1>24, <1>25, <1>26,
       <1>27 DEF AuthNext

\* No step leaves a session without an account.
LEMMA RowsStayOwned ==
  ASSUME AccountsSized, AuthTypeOK, RowsHaveAnOwner, account # NoAccount => account' # NoAccount,
         [AuthNext]_authVars
  PROVE  RowsHaveAnOwner'
<1>1. ASSUME NEW t \in Tabs, NEW body \in Bodies, SetupBegins(t, body) PROVE RowsHaveAnOwner'
  BY <1>1 DEF SetupBegins, RowsHaveAnOwner, requestVars, sessionVars, pageVarsOfTabs
<1>2. ASSUME NEW t \in Tabs, NEW body \in Bodies, SetupIsElsewhere(t, body) PROVE RowsHaveAnOwner'
  BY <1>2 DEF SetupIsElsewhere, RowsHaveAnOwner, requestVars, sessionVars, pageVarsOfTabs
<1>3. ASSUME NEW t \in Tabs, NEW body \in Bodies, SetupIsLimited(t, body) PROVE RowsHaveAnOwner'
  BY <1>3 DEF SetupIsLimited, RowsHaveAnOwner, requestVars, sessionVars, pageVarsOfTabs
<1>4. ASSUME NEW t \in Tabs, NEW body \in Bodies, SetupTokenIsWrong(t, body) PROVE
   RowsHaveAnOwner'
  BY <1>4 DEF SetupTokenIsWrong, RowsHaveAnOwner, requestVars, sessionVars, pageVarsOfTabs
<1>5. ASSUME NEW t \in Tabs, NEW body \in Bodies, LoginBegins(t, body) PROVE RowsHaveAnOwner'
  BY <1>5 DEF LoginBegins, RowsHaveAnOwner, requestVars, sessionVars, pageVarsOfTabs, ReadAccount,
     AuthTypeOK
<1>6. ASSUME NEW t \in Tabs, NEW body \in Bodies, PasswordIsAsked(t, body) PROVE RowsHaveAnOwner'
  BY <1>6 DEF PasswordIsAsked, Resolve, RowsHaveAnOwner, requestVars, sessionVars, pageVarsOfTabs
<1>7. ASSUME NEW t \in Tabs, NEW c \in Cookies, SetupCreates(t, c) PROVE RowsHaveAnOwner'
  BY <1>7, ARowIsAnAccount DEF SetupCreates, CreateSession, RowsHaveAnOwner, requestVars,
     sessionVars, pageVarsOfTabs, AuthTypeOK, Bodies
<1>8. ASSUME NEW t \in Tabs, NEW c \in Cookies, LoginSucceeds(t, c) PROVE RowsHaveAnOwner'
  BY <1>8 DEF LoginSucceeds, CreateSession, RowsHaveAnOwner, requestVars, sessionVars,
     pageVarsOfTabs, Verified
<1>9. ASSUME NEW t \in Tabs, SetupConflicts(t) PROVE RowsHaveAnOwner'
  BY <1>9 DEF SetupConflicts, RowsHaveAnOwner, requestVars, sessionVars, pageVarsOfTabs
<1>10. ASSUME NEW t \in Tabs, IsWrong(t) PROVE RowsHaveAnOwner'
  BY <1>10 DEF IsWrong, RowsHaveAnOwner, requestVars, sessionVars, pageVarsOfTabs
<1>11. ASSUME NEW t \in Tabs, PasswordBegins(t) PROVE RowsHaveAnOwner'
  BY <1>11 DEF PasswordBegins, RowsHaveAnOwner, requestVars, sessionVars, pageVarsOfTabs,
     ReadAccount, AuthTypeOK
<1>12. ASSUME NEW t \in Tabs, PasswordIsRight(t) PROVE RowsHaveAnOwner'
  BY <1>12 DEF PasswordIsRight, RowsHaveAnOwner, requestVars, sessionVars, pageVarsOfTabs
<1>13. ASSUME NEW t \in Tabs, PasswordChanges(t) PROVE RowsHaveAnOwner'
  BY <1>13 DEF PasswordChanges, SetPassword, RowsHaveAnOwner, requestVars, sessionVars,
     pageVarsOfTabs
<1>14. ASSUME NEW t \in Tabs, LogsOut(t) PROVE RowsHaveAnOwner'
  BY <1>14 DEF LogsOut, RowsHaveAnOwner, requestVars, sessionVars, pageVarsOfTabs
<1>15. ASSUME NEW t \in Tabs, Uses(t) PROVE RowsHaveAnOwner'
  BY <1>15 DEF Uses, Resolve, RowsHaveAnOwner, requestVars, sessionVars, pageVarsOfTabs
<1>16. ASSUME NEW t \in Tabs, FetchesStatus(t) PROVE RowsHaveAnOwner'
  BY <1>16 DEF FetchesStatus, Resolve, RowsHaveAnOwner, requestVars, sessionVars, pageVarsOfTabs
<1>17. ASSUME NEW t \in Tabs, StatusLands(t) PROVE RowsHaveAnOwner'
  BY <1>17 DEF StatusLands, RowsHaveAnOwner, requestVars, sessionVars, pageVarsOfTabs
<1>18. ASSUME NEW t \in Tabs, StatusFails(t) PROVE RowsHaveAnOwner'
  BY <1>18 DEF StatusFails, RowsHaveAnOwner, requestVars, sessionVars, pageVarsOfTabs
<1>19. ASSUME NEW t \in Tabs, AnswerLands(t) PROVE RowsHaveAnOwner'
  BY <1>19 DEF AnswerLands, RowsHaveAnOwner, requestVars, sessionVars, pageVarsOfTabs
<1>20. ASSUME NEW t \in Tabs, AnswerIsLost(t) PROVE RowsHaveAnOwner'
  BY <1>20 DEF AnswerIsLost, RowsHaveAnOwner, requestVars, sessionVars, pageVarsOfTabs
<1>21. ASSUME NEW p \in Passwords, ResetBegins(p) PROVE RowsHaveAnOwner'
  BY <1>21 DEF ResetBegins, RowsHaveAnOwner, requestVars, sessionVars, pageVarsOfTabs
<1>22. ASSUME ResetCommits PROVE RowsHaveAnOwner'
  BY <1>22 DEF ResetCommits, SetPassword, RowsHaveAnOwner, requestVars, sessionVars,
     pageVarsOfTabs
<1>23. ASSUME PurgeSessions PROVE RowsHaveAnOwner'
  BY <1>23 DEF PurgeSessions, RowsHaveAnOwner, requestVars, sessionVars, pageVarsOfTabs
<1>24. ASSUME ServerStartsAgain PROVE RowsHaveAnOwner'
  BY <1>24 DEF ServerStartsAgain, RowsHaveAnOwner, requestVars, sessionVars, pageVarsOfTabs
<1>25. ASSUME NEW now \in Nat, TimePasses(now) PROVE RowsHaveAnOwner'
  BY <1>25 DEF TimePasses, RowsHaveAnOwner, requestVars, sessionVars, pageVarsOfTabs
<1>26. ASSUME NEW b \in Browsers, CookieGoes(b) PROVE RowsHaveAnOwner'
  BY <1>26 DEF CookieGoes, RowsHaveAnOwner, requestVars, sessionVars, pageVarsOfTabs
<1>27. CASE UNCHANGED authVars
  BY <1>27 DEF authVars, RowsHaveAnOwner, requestVars, sessionVars, pageVarsOfTabs
<1> QED BY <1>1, <1>2, <1>3, <1>4, <1>5, <1>6, <1>7, <1>8, <1>9, <1>10, <1>11, <1>12, <1>13,
       <1>14, <1>15, <1>16, <1>17, <1>18, <1>19, <1>20, <1>21, <1>22, <1>23, <1>24, <1>25, <1>26,
       <1>27 DEF AuthNext

\* Every step keeps what the holders of sessions know true.
LEMMA SessionsStillKnow ==
  ASSUME AccountsSized, AuthTypeOK, RowsHaveAnOwner, SessionsKnowThePassword, [AuthNext]_authVars
  PROVE  SessionsKnowThePassword'
<1>1. ASSUME NEW t \in Tabs, NEW body \in Bodies, SetupBegins(t, body) PROVE
   SessionsKnowThePassword'
  BY <1>1 DEF SetupBegins, SessionsKnowThePassword, AuthTypeOK, requestVars, sessionVars,
     pageVarsOfTabs
<1>2. ASSUME NEW t \in Tabs, NEW body \in Bodies, SetupIsElsewhere(t, body) PROVE
   SessionsKnowThePassword'
  BY <1>2 DEF SetupIsElsewhere, SessionsKnowThePassword, AuthTypeOK, requestVars, sessionVars,
     pageVarsOfTabs
<1>3. ASSUME NEW t \in Tabs, NEW body \in Bodies, SetupIsLimited(t, body) PROVE
   SessionsKnowThePassword'
  BY <1>3 DEF SetupIsLimited, SessionsKnowThePassword, AuthTypeOK, requestVars, sessionVars,
     pageVarsOfTabs
<1>4. ASSUME NEW t \in Tabs, NEW body \in Bodies, SetupTokenIsWrong(t, body) PROVE
   SessionsKnowThePassword'
  BY <1>4 DEF SetupTokenIsWrong, SessionsKnowThePassword, AuthTypeOK, requestVars, sessionVars,
     pageVarsOfTabs
<1>5. ASSUME NEW t \in Tabs, NEW body \in Bodies, LoginBegins(t, body) PROVE
   SessionsKnowThePassword'
  BY <1>5 DEF LoginBegins, SessionsKnowThePassword, AuthTypeOK, requestVars, sessionVars,
     pageVarsOfTabs
<1>6. ASSUME NEW t \in Tabs, NEW body \in Bodies, PasswordIsAsked(t, body) PROVE
   SessionsKnowThePassword'
  BY <1>6 DEF PasswordIsAsked, Resolve, SessionsKnowThePassword, AuthTypeOK, requestVars,
     sessionVars, pageVarsOfTabs
<1>7. ASSUME NEW t \in Tabs, NEW c \in Cookies, SetupCreates(t, c) PROVE SessionsKnowThePassword'
  BY <1>7 DEF SetupCreates, CreateSession, SessionsKnowThePassword, AuthTypeOK, requestVars,
     sessionVars, pageVarsOfTabs, RowsHaveAnOwner
<1>8. ASSUME NEW t \in Tabs, NEW c \in Cookies, LoginSucceeds(t, c) PROVE SessionsKnowThePassword'
  BY <1>8 DEF LoginSucceeds, CreateSession, SessionsKnowThePassword, AuthTypeOK, requestVars,
     sessionVars, pageVarsOfTabs, RowsHaveAnOwner
<1>9. ASSUME NEW t \in Tabs, SetupConflicts(t) PROVE SessionsKnowThePassword'
  BY <1>9 DEF SetupConflicts, SessionsKnowThePassword, AuthTypeOK, requestVars, sessionVars,
     pageVarsOfTabs
<1>10. ASSUME NEW t \in Tabs, IsWrong(t) PROVE SessionsKnowThePassword'
  BY <1>10 DEF IsWrong, SessionsKnowThePassword, AuthTypeOK, requestVars, sessionVars,
     pageVarsOfTabs
<1>11. ASSUME NEW t \in Tabs, PasswordBegins(t) PROVE SessionsKnowThePassword'
  BY <1>11 DEF PasswordBegins, SessionsKnowThePassword, AuthTypeOK, requestVars, sessionVars,
     pageVarsOfTabs
<1>12. ASSUME NEW t \in Tabs, PasswordIsRight(t) PROVE SessionsKnowThePassword'
  BY <1>12 DEF PasswordIsRight, SessionsKnowThePassword, AuthTypeOK, requestVars, sessionVars,
     pageVarsOfTabs
<1>13. ASSUME NEW t \in Tabs, PasswordChanges(t) PROVE SessionsKnowThePassword'
  BY <1>13 DEF PasswordChanges, SetPassword, SessionsKnowThePassword, AuthTypeOK, requestVars,
     sessionVars, pageVarsOfTabs
<1>14. ASSUME NEW t \in Tabs, LogsOut(t) PROVE SessionsKnowThePassword'
  BY <1>14 DEF LogsOut, SessionsKnowThePassword, AuthTypeOK, requestVars, sessionVars,
     pageVarsOfTabs
<1>15. ASSUME NEW t \in Tabs, Uses(t) PROVE SessionsKnowThePassword'
  BY <1>15 DEF Uses, Resolve, SessionsKnowThePassword, AuthTypeOK, requestVars, sessionVars,
     pageVarsOfTabs
<1>16. ASSUME NEW t \in Tabs, FetchesStatus(t) PROVE SessionsKnowThePassword'
  BY <1>16 DEF FetchesStatus, Resolve, SessionsKnowThePassword, AuthTypeOK, requestVars,
     sessionVars, pageVarsOfTabs
<1>17. ASSUME NEW t \in Tabs, StatusLands(t) PROVE SessionsKnowThePassword'
  BY <1>17 DEF StatusLands, SessionsKnowThePassword, AuthTypeOK, requestVars, sessionVars,
     pageVarsOfTabs
<1>18. ASSUME NEW t \in Tabs, StatusFails(t) PROVE SessionsKnowThePassword'
  BY <1>18 DEF StatusFails, SessionsKnowThePassword, AuthTypeOK, requestVars, sessionVars,
     pageVarsOfTabs
<1>19. ASSUME NEW t \in Tabs, AnswerLands(t) PROVE SessionsKnowThePassword'
  BY <1>19 DEF AnswerLands, SessionsKnowThePassword, AuthTypeOK, requestVars, sessionVars,
     pageVarsOfTabs
<1>20. ASSUME NEW t \in Tabs, AnswerIsLost(t) PROVE SessionsKnowThePassword'
  BY <1>20 DEF AnswerIsLost, SessionsKnowThePassword, AuthTypeOK, requestVars, sessionVars,
     pageVarsOfTabs
<1>21. ASSUME NEW p \in Passwords, ResetBegins(p) PROVE SessionsKnowThePassword'
  BY <1>21 DEF ResetBegins, SessionsKnowThePassword, AuthTypeOK, requestVars, sessionVars,
     pageVarsOfTabs
<1>22. ASSUME ResetCommits PROVE SessionsKnowThePassword'
  BY <1>22 DEF ResetCommits, SetPassword, SessionsKnowThePassword, AuthTypeOK, requestVars,
     sessionVars, pageVarsOfTabs
<1>23. ASSUME PurgeSessions PROVE SessionsKnowThePassword'
  BY <1>23 DEF PurgeSessions, SessionsKnowThePassword, AuthTypeOK, requestVars, sessionVars,
     pageVarsOfTabs
<1>24. ASSUME ServerStartsAgain PROVE SessionsKnowThePassword'
  BY <1>24 DEF ServerStartsAgain, SessionsKnowThePassword, AuthTypeOK, requestVars, sessionVars,
     pageVarsOfTabs
<1>25. ASSUME NEW now \in Nat, TimePasses(now) PROVE SessionsKnowThePassword'
  BY <1>25 DEF TimePasses, SessionsKnowThePassword, AuthTypeOK, requestVars, sessionVars,
     pageVarsOfTabs
<1>26. ASSUME NEW b \in Browsers, CookieGoes(b) PROVE SessionsKnowThePassword'
  BY <1>26 DEF CookieGoes, SessionsKnowThePassword, AuthTypeOK, requestVars, sessionVars,
     pageVarsOfTabs
<1>27. CASE UNCHANGED authVars
  BY <1>27 DEF authVars, SessionsKnowThePassword, AuthTypeOK, requestVars, sessionVars,
     pageVarsOfTabs
<1> QED BY <1>1, <1>2, <1>3, <1>4, <1>5, <1>6, <1>7, <1>8, <1>9, <1>10, <1>11, <1>12, <1>13,
       <1>14, <1>15, <1>16, <1>17, <1>18, <1>19, <1>20, <1>21, <1>22, <1>23, <1>24, <1>25, <1>26,
       <1>27 DEF AuthNext

\* Only a setup that passed the checks goes on while there is no account.
LEMMA SetupsStayEntitled ==
  ASSUME RowsHaveAnOwner, AccountsSized, AuthTypeOK, account # NoAccount => account' # NoAccount,
         SetupsAreEntitled, [AuthNext]_authVars
  PROVE  SetupsAreEntitled'
<1>1. ASSUME NEW t \in Tabs, NEW body \in Bodies, SetupBegins(t, body) PROVE SetupsAreEntitled'
  BY <1>1 DEF SetupBegins, Asks, Enter, SetupsAreEntitled, AuthTypeOK, Entitled, requestVars,
     sessionVars, pageVarsOfTabs
<1>2. ASSUME NEW t \in Tabs, NEW body \in Bodies, SetupIsElsewhere(t, body) PROVE
   SetupsAreEntitled'
  BY <1>2 DEF SetupIsElsewhere, Asks, Answer, SetupsAreEntitled, AuthTypeOK, Entitled,
     requestVars, sessionVars, pageVarsOfTabs
<1>3. ASSUME NEW t \in Tabs, NEW body \in Bodies, SetupIsLimited(t, body) PROVE SetupsAreEntitled'
  BY <1>3 DEF SetupIsLimited, Asks, Answer, SetupsAreEntitled, AuthTypeOK, Entitled, requestVars,
     sessionVars, pageVarsOfTabs
<1>4. ASSUME NEW t \in Tabs, NEW body \in Bodies, SetupTokenIsWrong(t, body) PROVE
   SetupsAreEntitled'
  BY <1>4 DEF SetupTokenIsWrong, Asks, Answer, SetupsAreEntitled, AuthTypeOK, Entitled,
     requestVars, sessionVars, pageVarsOfTabs
<1>5. ASSUME NEW t \in Tabs, NEW body \in Bodies, LoginBegins(t, body) PROVE SetupsAreEntitled'
  BY <1>5 DEF LoginBegins, Asks, Answer, Enter, SetupsAreEntitled, AuthTypeOK, Entitled,
     requestVars, sessionVars, pageVarsOfTabs
<1>6. ASSUME NEW t \in Tabs, NEW body \in Bodies, PasswordIsAsked(t, body) PROVE
   SetupsAreEntitled'
  BY <1>6 DEF PasswordIsAsked, Asks, Answer, Enter, SetupsAreEntitled, AuthTypeOK, Entitled,
     requestVars, sessionVars, pageVarsOfTabs
<1>7. ASSUME NEW t \in Tabs, NEW c \in Cookies, SetupCreates(t, c) PROVE SetupsAreEntitled'
  BY <1>7 DEF SetupCreates, Answer, SetupsAreEntitled, AuthTypeOK, Entitled, requestVars,
     sessionVars, pageVarsOfTabs
<1>8. ASSUME NEW t \in Tabs, NEW c \in Cookies, LoginSucceeds(t, c) PROVE SetupsAreEntitled'
  BY <1>8 DEF LoginSucceeds, Answer, SetupsAreEntitled, AuthTypeOK, Entitled, requestVars,
     sessionVars, pageVarsOfTabs
<1>9. ASSUME NEW t \in Tabs, SetupConflicts(t) PROVE SetupsAreEntitled'
  BY <1>9 DEF SetupConflicts, Answer, SetupsAreEntitled, AuthTypeOK, Entitled, requestVars,
     sessionVars, pageVarsOfTabs
<1>10. ASSUME NEW t \in Tabs, IsWrong(t) PROVE SetupsAreEntitled'
  BY <1>10 DEF IsWrong, Answer, SetupsAreEntitled, AuthTypeOK, Entitled, requestVars, sessionVars,
     pageVarsOfTabs
<1>11. ASSUME NEW t \in Tabs, PasswordBegins(t) PROVE SetupsAreEntitled'
  BY <1>11 DEF PasswordBegins, Answer, Enter, SetupsAreEntitled, AuthTypeOK, Entitled,
     requestVars, sessionVars, pageVarsOfTabs
<1>12. ASSUME NEW t \in Tabs, PasswordIsRight(t) PROVE SetupsAreEntitled'
  BY <1>12 DEF PasswordIsRight, Enter, SetupsAreEntitled, AuthTypeOK, Entitled, requestVars,
     sessionVars, pageVarsOfTabs
<1>13. ASSUME NEW t \in Tabs, PasswordChanges(t) PROVE SetupsAreEntitled'
  BY <1>13 DEF PasswordChanges, Answer, SetupsAreEntitled, AuthTypeOK, Entitled, requestVars,
     sessionVars, pageVarsOfTabs
<1>14. ASSUME NEW t \in Tabs, LogsOut(t) PROVE SetupsAreEntitled'
  BY <1>14 DEF LogsOut, Answer, SetupsAreEntitled, AuthTypeOK, Entitled, requestVars, sessionVars,
     pageVarsOfTabs
<1>15. ASSUME NEW t \in Tabs, Uses(t) PROVE SetupsAreEntitled'
  BY <1>15 DEF Uses, SetupsAreEntitled, AuthTypeOK, Entitled, requestVars, sessionVars,
     pageVarsOfTabs
<1>16. ASSUME NEW t \in Tabs, FetchesStatus(t) PROVE SetupsAreEntitled'
  BY <1>16 DEF FetchesStatus, SetupsAreEntitled, AuthTypeOK, Entitled, requestVars, sessionVars,
     pageVarsOfTabs
<1>17. ASSUME NEW t \in Tabs, StatusLands(t) PROVE SetupsAreEntitled'
  BY <1>17 DEF StatusLands, SetupsAreEntitled, AuthTypeOK, Entitled, requestVars, sessionVars,
     pageVarsOfTabs
<1>18. ASSUME NEW t \in Tabs, StatusFails(t) PROVE SetupsAreEntitled'
  BY <1>18 DEF StatusFails, SetupsAreEntitled, AuthTypeOK, Entitled, requestVars, sessionVars,
     pageVarsOfTabs
<1>19. ASSUME NEW t \in Tabs, AnswerLands(t) PROVE SetupsAreEntitled'
  BY <1>19 DEF AnswerLands, SetupsAreEntitled, AuthTypeOK, Entitled, requestVars, sessionVars,
     pageVarsOfTabs
<1>20. ASSUME NEW t \in Tabs, AnswerIsLost(t) PROVE SetupsAreEntitled'
  BY <1>20 DEF AnswerIsLost, Enter, SetupsAreEntitled, AuthTypeOK, Entitled, requestVars,
     sessionVars, pageVarsOfTabs
<1>21. ASSUME NEW p \in Passwords, ResetBegins(p) PROVE SetupsAreEntitled'
  BY <1>21 DEF ResetBegins, SetupsAreEntitled, AuthTypeOK, Entitled, requestVars, sessionVars,
     pageVarsOfTabs
<1>22. ASSUME ResetCommits PROVE SetupsAreEntitled'
  BY <1>22 DEF ResetCommits, SetupsAreEntitled, AuthTypeOK, Entitled, requestVars, sessionVars,
     pageVarsOfTabs
<1>23. ASSUME PurgeSessions PROVE SetupsAreEntitled'
  BY <1>23 DEF PurgeSessions, SetupsAreEntitled, AuthTypeOK, Entitled, requestVars, sessionVars,
     pageVarsOfTabs
<1>24. ASSUME ServerStartsAgain PROVE SetupsAreEntitled'
  BY <1>24 DEF ServerStartsAgain, SetupsAreEntitled, AuthTypeOK, Entitled, requestVars,
     sessionVars, pageVarsOfTabs
<1>25. ASSUME NEW now \in Nat, TimePasses(now) PROVE SetupsAreEntitled'
  BY <1>25 DEF TimePasses, SetupsAreEntitled, AuthTypeOK, Entitled, requestVars, sessionVars,
     pageVarsOfTabs
<1>26. ASSUME NEW b \in Browsers, CookieGoes(b) PROVE SetupsAreEntitled'
  BY <1>26 DEF CookieGoes, SetupsAreEntitled, AuthTypeOK, Entitled, requestVars, sessionVars,
     pageVarsOfTabs
<1>27. CASE UNCHANGED authVars
  BY <1>27 DEF authVars, SetupsAreEntitled, AuthTypeOK, Entitled, requestVars, sessionVars,
     pageVarsOfTabs
<1> QED BY <1>1, <1>2, <1>3, <1>4, <1>5, <1>6, <1>7, <1>8, <1>9, <1>10, <1>11, <1>12, <1>13,
       <1>14, <1>15, <1>16, <1>17, <1>18, <1>19, <1>20, <1>21, <1>22, <1>23, <1>24, <1>25, <1>26,
       <1>27 DEF AuthNext

\* Every answer and every status knows of the account.
LEMMA NobodyIsToldTooMuch ==
  ASSUME RowsHaveAnOwner, AccountsSized, AuthTypeOK, account # NoAccount => account' # NoAccount,
         AnswersKnowOfTheAccount, [AuthNext]_authVars
  PROVE  AnswersKnowOfTheAccount'
<1>1. ASSUME NEW t \in Tabs, NEW body \in Bodies, SetupBegins(t, body) PROVE
   AnswersKnowOfTheAccount'
  BY <1>1 DEF SetupBegins, Enter, AnswersKnowOfTheAccount, AuthTypeOK, Tell, requestVars,
     sessionVars, pageVarsOfTabs
<1>2. ASSUME NEW t \in Tabs, NEW body \in Bodies, SetupIsElsewhere(t, body) PROVE
   AnswersKnowOfTheAccount'
  BY <1>2 DEF SetupIsElsewhere, Answer, AnswersKnowOfTheAccount, AuthTypeOK, Tell, requestVars,
     sessionVars, pageVarsOfTabs
<1>3. ASSUME NEW t \in Tabs, NEW body \in Bodies, SetupIsLimited(t, body) PROVE
   AnswersKnowOfTheAccount'
  BY <1>3 DEF SetupIsLimited, Answer, AnswersKnowOfTheAccount, AuthTypeOK, Tell, requestVars,
     sessionVars, pageVarsOfTabs
<1>4. ASSUME NEW t \in Tabs, NEW body \in Bodies, SetupTokenIsWrong(t, body) PROVE
   AnswersKnowOfTheAccount'
  BY <1>4 DEF SetupTokenIsWrong, Answer, AnswersKnowOfTheAccount, AuthTypeOK, Tell, requestVars,
     sessionVars, pageVarsOfTabs
<1>5. ASSUME NEW t \in Tabs, NEW body \in Bodies, LoginBegins(t, body) PROVE
   AnswersKnowOfTheAccount'
  BY <1>5 DEF LoginBegins, Answer, Enter, AnswersKnowOfTheAccount, AuthTypeOK, Tell, requestVars,
     sessionVars, pageVarsOfTabs
<1>6. ASSUME NEW t \in Tabs, NEW body \in Bodies, PasswordIsAsked(t, body) PROVE
   AnswersKnowOfTheAccount'
  BY <1>6 DEF PasswordIsAsked, Answer, Enter, AnswersKnowOfTheAccount, AuthTypeOK, Tell,
     requestVars, sessionVars, pageVarsOfTabs
<1>7. ASSUME NEW t \in Tabs, NEW c \in Cookies, SetupCreates(t, c) PROVE AnswersKnowOfTheAccount'
  BY <1>7, ARowIsAnAccount DEF SetupCreates, Answer, AnswersKnowOfTheAccount, AuthTypeOK, Tell,
     requestVars, sessionVars, pageVarsOfTabs, Bodies
<1>8. ASSUME NEW t \in Tabs, NEW c \in Cookies, LoginSucceeds(t, c) PROVE AnswersKnowOfTheAccount'
  BY <1>8, VerifiedHasAnAccount DEF LoginSucceeds, Answer, AnswersKnowOfTheAccount, AuthTypeOK,
     Tell, requestVars, sessionVars, pageVarsOfTabs
<1>9. ASSUME NEW t \in Tabs, SetupConflicts(t) PROVE AnswersKnowOfTheAccount'
  BY <1>9 DEF SetupConflicts, Answer, AnswersKnowOfTheAccount, AuthTypeOK, Tell, requestVars,
     sessionVars, pageVarsOfTabs
<1>10. ASSUME NEW t \in Tabs, IsWrong(t) PROVE AnswersKnowOfTheAccount'
  BY <1>10 DEF IsWrong, Answer, AnswersKnowOfTheAccount, AuthTypeOK, Tell, requestVars,
     sessionVars, pageVarsOfTabs
<1>11. ASSUME NEW t \in Tabs, PasswordBegins(t) PROVE AnswersKnowOfTheAccount'
  BY <1>11 DEF PasswordBegins, Answer, Enter, AnswersKnowOfTheAccount, AuthTypeOK, Tell,
     requestVars, sessionVars, pageVarsOfTabs
<1>12. ASSUME NEW t \in Tabs, PasswordIsRight(t) PROVE AnswersKnowOfTheAccount'
  BY <1>12 DEF PasswordIsRight, Enter, AnswersKnowOfTheAccount, AuthTypeOK, Tell, requestVars,
     sessionVars, pageVarsOfTabs
<1>13. ASSUME NEW t \in Tabs, PasswordChanges(t) PROVE AnswersKnowOfTheAccount'
  BY <1>13 DEF PasswordChanges, Answer, AnswersKnowOfTheAccount, AuthTypeOK, Tell, requestVars,
     sessionVars, pageVarsOfTabs
<1>14. ASSUME NEW t \in Tabs, LogsOut(t) PROVE AnswersKnowOfTheAccount'
  BY <1>14 DEF LogsOut, Answer, AnswersKnowOfTheAccount, AuthTypeOK, Tell, requestVars,
     sessionVars, pageVarsOfTabs
<1>15. ASSUME NEW t \in Tabs, Uses(t) PROVE AnswersKnowOfTheAccount'
  BY <1>15 DEF Uses, AnswersKnowOfTheAccount, AuthTypeOK, Tell, requestVars, sessionVars,
     pageVarsOfTabs
<1>16. ASSUME NEW t \in Tabs, FetchesStatus(t) PROVE AnswersKnowOfTheAccount'
  BY <1>16 DEF FetchesStatus, StatusOf, AnswersKnowOfTheAccount, AuthTypeOK, Tell, requestVars,
     sessionVars, pageVarsOfTabs, SignedIn
<1>17. ASSUME NEW t \in Tabs, StatusLands(t) PROVE AnswersKnowOfTheAccount'
  BY <1>17 DEF StatusLands, AnswersKnowOfTheAccount, AuthTypeOK, Tell, requestVars, sessionVars,
     pageVarsOfTabs
<1>18. ASSUME NEW t \in Tabs, StatusFails(t) PROVE AnswersKnowOfTheAccount'
  BY <1>18 DEF StatusFails, AnswersKnowOfTheAccount, AuthTypeOK, Tell, requestVars, sessionVars,
     pageVarsOfTabs
<1>19. ASSUME NEW t \in Tabs, AnswerLands(t) PROVE AnswersKnowOfTheAccount'
  BY <1>19 DEF AnswerLands, AnswersKnowOfTheAccount, AuthTypeOK, Tell, requestVars, sessionVars,
     pageVarsOfTabs, Statuses
<1>20. ASSUME NEW t \in Tabs, AnswerIsLost(t) PROVE AnswersKnowOfTheAccount'
  BY <1>20 DEF AnswerIsLost, Enter, AnswersKnowOfTheAccount, AuthTypeOK, Tell, requestVars,
     sessionVars, pageVarsOfTabs
<1>21. ASSUME NEW p \in Passwords, ResetBegins(p) PROVE AnswersKnowOfTheAccount'
  BY <1>21 DEF ResetBegins, AnswersKnowOfTheAccount, AuthTypeOK, Tell, requestVars, sessionVars,
     pageVarsOfTabs
<1>22. ASSUME ResetCommits PROVE AnswersKnowOfTheAccount'
  BY <1>22 DEF ResetCommits, AnswersKnowOfTheAccount, AuthTypeOK, Tell, requestVars, sessionVars,
     pageVarsOfTabs
<1>23. ASSUME PurgeSessions PROVE AnswersKnowOfTheAccount'
  BY <1>23 DEF PurgeSessions, AnswersKnowOfTheAccount, AuthTypeOK, Tell, requestVars, sessionVars,
     pageVarsOfTabs
<1>24. ASSUME ServerStartsAgain PROVE AnswersKnowOfTheAccount'
  BY <1>24 DEF ServerStartsAgain, AnswersKnowOfTheAccount, AuthTypeOK, Tell, requestVars,
     sessionVars, pageVarsOfTabs
<1>25. ASSUME NEW now \in Nat, TimePasses(now) PROVE AnswersKnowOfTheAccount'
  BY <1>25 DEF TimePasses, AnswersKnowOfTheAccount, AuthTypeOK, Tell, requestVars, sessionVars,
     pageVarsOfTabs
<1>26. ASSUME NEW b \in Browsers, CookieGoes(b) PROVE AnswersKnowOfTheAccount'
  BY <1>26 DEF CookieGoes, AnswersKnowOfTheAccount, AuthTypeOK, Tell, requestVars, sessionVars,
     pageVarsOfTabs
<1>27. CASE UNCHANGED authVars
  BY <1>27 DEF authVars, AnswersKnowOfTheAccount, AuthTypeOK, Tell, requestVars, sessionVars,
     pageVarsOfTabs
<1> QED BY <1>1, <1>2, <1>3, <1>4, <1>5, <1>6, <1>7, <1>8, <1>9, <1>10, <1>11, <1>12, <1>13,
       <1>14, <1>15, <1>16, <1>17, <1>18, <1>19, <1>20, <1>21, <1>22, <1>23, <1>24, <1>25, <1>26,
       <1>27 DEF AuthNext

--------------------------------------------------------------------------------
(* The limit.                                                                   *)

\* The requests of an address are finitely many.
LEMMA GuessesAreTabs ==
  ASSUME AccountsSized, NEW a
  PROVE  /\ IsFiniteSet(Guesses(a)) /\ Cardinality(Guesses(a)) \in Nat
         /\ Cardinality(Guesses(a)) <= Cardinality(Tabs) /\ Cardinality(Tabs) \in Nat
         /\ \A t \in Tabs : t \notin Guesses(a) => Cardinality(Guesses(a)) <= Cardinality(Tabs) - 1
<1>1. IsFiniteSet(Tabs) /\ Cardinality(Tabs) \in Nat
  BY FS_CardinalityType DEF AccountsSized
<1>2. Guesses(a) \in SUBSET Tabs
  BY DEF Guesses
<1>3. IsFiniteSet(Guesses(a)) /\ Cardinality(Guesses(a)) <= Cardinality(Tabs)
  BY <1>1, <1>2, FS_Subset
<1>4. Cardinality(Guesses(a)) \in Nat
  BY <1>3, FS_CardinalityType
<1>5. ASSUME NEW t \in Tabs, t \notin Guesses(a)
      PROVE  Cardinality(Guesses(a)) <= Cardinality(Tabs) - 1
  <2>1. IsFiniteSet(Tabs \ {t}) /\ Cardinality(Tabs \ {t}) = Cardinality(Tabs) - 1
    BY <1>1, FS_RemoveElement
  <2>2. Guesses(a) \in SUBSET (Tabs \ {t})
    BY <1>2, <1>5
  <2> QED BY <2>1, <2>2, FS_Subset
<1> QED BY <1>1, <1>3, <1>4, <1>5

\* The same of the next state.
LEMMA GuessesStayTabs ==
  ASSUME AccountsSized, NEW a
  PROVE  /\ IsFiniteSet(Guesses(a)') /\ Cardinality(Guesses(a)') \in Nat
         /\ Cardinality(Guesses(a)') <= Cardinality(Tabs)
         /\ \A t \in Tabs : t \notin Guesses(a)' => Cardinality(Guesses(a)') <= Cardinality(Tabs)
                - 1
<1>1. IsFiniteSet(Tabs) /\ Cardinality(Tabs) \in Nat
  BY FS_CardinalityType DEF AccountsSized
<1>2. Guesses(a)' \in SUBSET Tabs
  BY DEF Guesses
<1>3. IsFiniteSet(Guesses(a)') /\ Cardinality(Guesses(a)') <= Cardinality(Tabs)
  BY <1>1, <1>2, FS_Subset
<1>4. Cardinality(Guesses(a)') \in Nat
  BY <1>3, FS_CardinalityType
<1>5. ASSUME NEW t \in Tabs, t \notin Guesses(a)'
      PROVE  Cardinality(Guesses(a)') <= Cardinality(Tabs) - 1
  <2>1. IsFiniteSet(Tabs \ {t}) /\ Cardinality(Tabs \ {t}) = Cardinality(Tabs) - 1
    BY <1>1, FS_RemoveElement
  <2>2. Guesses(a)' \in SUBSET (Tabs \ {t})
    BY <1>2, <1>5
  <2> QED BY <2>1, <2>2, FS_Subset
<1> QED BY <1>1, <1>3, <1>4, <1>5

\* Nothing is counted or begun.
LEMMA QuietKeepsFew ==
  ASSUME AccountsSized, NEW a, FewGuesses(a), Recent(a)' \subseteq Recent(a),
         Guesses(a)' \subseteq Guesses(a)
  PROVE  FewGuesses(a)'
<1>1. /\ IsFiniteSet(Recent(a)') /\ Cardinality(Recent(a)') <= Cardinality(Recent(a))
      /\ Cardinality(Guesses(a)') <= Cardinality(Guesses(a))
  BY FS_Subset, GuessesAreTabs DEF FewGuesses
<1>2. /\ Cardinality(Recent(a)) \in Nat /\ Cardinality(Recent(a)') \in Nat
      /\ Cardinality(Guesses(a)) \in Nat /\ Cardinality(Guesses(a)') \in Nat
      /\ Cardinality(Tabs) \in Nat /\ MaxFailures \in Nat
  BY <1>1, FS_CardinalityType, GuessesAreTabs, GuessesStayTabs DEF FewGuesses, AccountsSized
<1>3. Cardinality(Recent(a)') + Cardinality(Guesses(a)') <= MaxFailures - 1 + Cardinality(Tabs)
  BY <1>1, <1>2 DEF FewGuesses
<1> QED BY <1>1, <1>3 DEF FewGuesses

\* Nothing happens.
LEMMA FewGuessesAreTheSame ==
  ASSUME NEW a, FewGuesses(a), UNCHANGED <<clock, failures, stage>>
  PROVE  FewGuesses(a)'
BY DEF FewGuesses, Guesses, Recent

\* A guess begins below the limit.
LEMMA BeginningKeepsFew ==
  ASSUME AccountsSized, NEW a, FewGuesses(a), Recent(a)' \subseteq Recent(a), ~Limited(a)
  PROVE  FewGuesses(a)'
<1>1. IsFiniteSet(Recent(a)') /\ Cardinality(Recent(a)') <= Cardinality(Recent(a))
  BY FS_Subset DEF FewGuesses
<1>2. /\ Cardinality(Recent(a)) \in Nat /\ Cardinality(Recent(a)') \in Nat
      /\ Cardinality(Guesses(a)') \in Nat /\ Cardinality(Guesses(a)') <= Cardinality(Tabs)
      /\ Cardinality(Tabs) \in Nat /\ MaxFailures \in Nat
  BY <1>1, FS_CardinalityType, GuessesAreTabs, GuessesStayTabs DEF FewGuesses, AccountsSized
<1>3. Cardinality(Recent(a)) < MaxFailures
  BY <1>2 DEF Limited
<1>4. Cardinality(Recent(a)') + Cardinality(Guesses(a)') <= MaxFailures - 1 + Cardinality(Tabs)
  BY <1>1, <1>2, <1>3
<1> QED BY <1>1, <1>4 DEF FewGuesses

\* A guess fails, or one that needs no hash does, below the limit.
LEMMA FailingKeepsFew ==
  ASSUME AccountsSized, NEW a, FewGuesses(a), NEW t \in Tabs, NEW f,
         Recent(a)' \subseteq Recent(a) \cup {f}, Guesses(a)' \subseteq Guesses(a) \ {t},
         t \in Guesses(a) \/ ~Limited(a)
  PROVE  FewGuesses(a)'
<1>1. /\ IsFiniteSet(Recent(a) \cup {f}) /\ Cardinality(Recent(a)) \in Nat
      /\ Cardinality(Recent(a) \cup {f}) <= Cardinality(Recent(a)) + 1
  <2>1. IsFiniteSet(Recent(a)) /\ Cardinality(Recent(a)) \in Nat
    BY FS_CardinalityType DEF FewGuesses
  <2>2. /\ IsFiniteSet(Recent(a) \cup {f})
        /\ Cardinality(Recent(a) \cup {f}) =
             IF f \in Recent(a) THEN Cardinality(Recent(a)) ELSE Cardinality(Recent(a)) + 1
    BY <2>1, FS_AddElement
  <2> QED BY <2>1, <2>2
<1>2. /\ IsFiniteSet(Recent(a)') /\ Cardinality(Recent(a)') \in Nat
      /\ Cardinality(Recent(a)') <= Cardinality(Recent(a) \cup {f})
      /\ Cardinality(Recent(a) \cup {f}) \in Nat
  BY <1>1, FS_Subset, FS_CardinalityType
<1>3. /\ Cardinality(Guesses(a)) \in Nat /\ Cardinality(Guesses(a)') \in Nat
      /\ Cardinality(Tabs) \in Nat /\ MaxFailures \in Nat
      /\ Cardinality(Guesses(a)') <= Cardinality(Tabs) - 1
  BY GuessesAreTabs, GuessesStayTabs DEF AccountsSized
<1>4. CASE t \in Guesses(a)
  <2>1. /\ IsFiniteSet(Guesses(a) \ {t})
        /\ Cardinality(Guesses(a) \ {t}) = Cardinality(Guesses(a)) - 1
    BY <1>4, GuessesAreTabs, FS_RemoveElement
  <2>2. Cardinality(Guesses(a)') <= Cardinality(Guesses(a)) - 1
    BY <2>1, FS_Subset
  <2>3. Cardinality(Recent(a)') + Cardinality(Guesses(a)') <= MaxFailures - 1 + Cardinality(Tabs)
    BY <1>1, <1>2, <1>3, <2>2 DEF FewGuesses
  <2> QED BY <1>2, <2>3 DEF FewGuesses
<1>5. CASE ~Limited(a)
  <2>1. Cardinality(Recent(a)) < MaxFailures
    BY <1>1, <1>3, <1>5 DEF Limited
  <2>2. Cardinality(Recent(a)') + Cardinality(Guesses(a)') <= MaxFailures - 1 + Cardinality(Tabs)
    BY <1>1, <1>2, <1>3, <2>1
  <2> QED BY <1>2, <2>2 DEF FewGuesses
<1> QED BY <1>4, <1>5

\* Every step keeps the guesses of an address few.
LEMMA GuessesStayFew ==
  ASSUME AccountsSized, AuthTypeOK, NEW a \in Addresses, FewGuesses(a), [AuthNext]_authVars
  PROVE  FewGuesses(a)'
<1>1. ASSUME NEW t \in Tabs, NEW body \in Bodies, SetupBegins(t, body) PROVE FewGuesses(a)'
<2>1. Recent(a)' \subseteq Recent(a)
  BY <1>1 DEF SetupBegins, Recent, Looked, AuthTypeOK, AccountsSized, requestVars, sessionVars,
     pageVarsOfTabs
<2>2. Guesses(a)' \subseteq Guesses(a)
  BY <1>1 DEF SetupBegins, Asks, Enter, Guesses, AuthTypeOK, requestVars, sessionVars,
     pageVarsOfTabs
<2> QED BY <2>1, <2>2, QuietKeepsFew
<1>2. ASSUME NEW t \in Tabs, NEW body \in Bodies, SetupIsElsewhere(t, body) PROVE FewGuesses(a)'
<2>1. Recent(a)' \subseteq Recent(a)
  BY <1>2 DEF SetupIsElsewhere, Recent, AuthTypeOK, AccountsSized, requestVars, sessionVars,
     pageVarsOfTabs
<2>2. Guesses(a)' \subseteq Guesses(a)
  BY <1>2 DEF SetupIsElsewhere, Asks, Answer, Guesses, AuthTypeOK, requestVars, sessionVars,
     pageVarsOfTabs
<2> QED BY <2>1, <2>2, QuietKeepsFew
<1>3. ASSUME NEW t \in Tabs, NEW body \in Bodies, SetupIsLimited(t, body) PROVE FewGuesses(a)'
<2>1. Recent(a)' \subseteq Recent(a)
  BY <1>3 DEF SetupIsLimited, Recent, Looked, AuthTypeOK, AccountsSized, requestVars, sessionVars,
     pageVarsOfTabs
<2>2. Guesses(a)' \subseteq Guesses(a)
  BY <1>3 DEF SetupIsLimited, Asks, Answer, Guesses, AuthTypeOK, requestVars, sessionVars,
     pageVarsOfTabs
<2> QED BY <2>1, <2>2, QuietKeepsFew
<1>4. ASSUME NEW t \in Tabs, NEW body \in Bodies, SetupTokenIsWrong(t, body) PROVE FewGuesses(a)'
<2>1. Recent(a)' \subseteq Recent(a) \cup {Failure}
  BY <1>4 DEF SetupTokenIsWrong, Recent, RecordFailure, Failure, AuthTypeOK, AccountsSized,
     requestVars, sessionVars, pageVarsOfTabs
<2>2. Guesses(a)' \subseteq Guesses(a) \ {t}
  BY <1>4 DEF SetupTokenIsWrong, Asks, Answer, Guesses, AuthTypeOK, requestVars, sessionVars,
     pageVarsOfTabs
<2>3. CASE AddressOf[t] = a
  <3>1. t \in Guesses(a) \/ ~Limited(a)
    BY <1>4, <2>3 DEF SetupTokenIsWrong, Guesses
  <3> QED BY <2>1, <2>2, <3>1, FailingKeepsFew
<2>4. CASE AddressOf[t] # a
  <3>1. Recent(a)' \subseteq Recent(a)
    BY <1>4, <2>4 DEF SetupTokenIsWrong, Recent, RecordFailure, Failure, AuthTypeOK,
       AccountsSized, requestVars, sessionVars, pageVarsOfTabs
  <3> QED BY <2>2, <3>1, QuietKeepsFew
<2> QED BY <2>3, <2>4
<1>5. ASSUME NEW t \in Tabs, NEW body \in Bodies, LoginBegins(t, body) PROVE FewGuesses(a)'
<2>1. Recent(a)' \subseteq Recent(a)
  BY <1>5 DEF LoginBegins, Recent, Looked, AuthTypeOK, AccountsSized, requestVars, sessionVars,
     pageVarsOfTabs
<2>2. CASE AddressOf[t] = a /\ ~Limited(a)
  BY <2>1, <2>2, BeginningKeepsFew
<2>3. CASE AddressOf[t] # a \/ Limited(a)
  <3>1. Guesses(a)' \subseteq Guesses(a)
    BY <1>5, <2>3 DEF LoginBegins, Asks, Answer, Enter, Guesses, AuthTypeOK, requestVars,
       sessionVars, pageVarsOfTabs
  <3> QED BY <2>1, <3>1, QuietKeepsFew
<2> QED BY <2>2, <2>3
<1>6. ASSUME NEW t \in Tabs, NEW body \in Bodies, PasswordIsAsked(t, body) PROVE FewGuesses(a)'
<2>1. Recent(a)' \subseteq Recent(a)
  BY <1>6 DEF PasswordIsAsked, Recent, AuthTypeOK, AccountsSized, requestVars, sessionVars,
     pageVarsOfTabs
<2>2. Guesses(a)' \subseteq Guesses(a)
  BY <1>6 DEF PasswordIsAsked, Asks, Answer, Enter, Guesses, AuthTypeOK, requestVars, sessionVars,
     pageVarsOfTabs
<2> QED BY <2>1, <2>2, QuietKeepsFew
<1>7. ASSUME NEW t \in Tabs, NEW c \in Cookies, SetupCreates(t, c) PROVE FewGuesses(a)'
<2>1. Recent(a)' \subseteq Recent(a)
  BY <1>7 DEF SetupCreates, Recent, AuthTypeOK, AccountsSized, requestVars, sessionVars,
     pageVarsOfTabs
<2>2. Guesses(a)' \subseteq Guesses(a)
  BY <1>7 DEF SetupCreates, Answer, Guesses, AuthTypeOK, requestVars, sessionVars, pageVarsOfTabs
<2> QED BY <2>1, <2>2, QuietKeepsFew
<1>8. ASSUME NEW t \in Tabs, NEW c \in Cookies, LoginSucceeds(t, c) PROVE FewGuesses(a)'
<2>1. Recent(a)' \subseteq Recent(a)
  BY <1>8 DEF LoginSucceeds, Recent, ResetFailures, AuthTypeOK, AccountsSized, requestVars,
     sessionVars, pageVarsOfTabs
<2>2. Guesses(a)' \subseteq Guesses(a)
  BY <1>8 DEF LoginSucceeds, Answer, Guesses, AuthTypeOK, requestVars, sessionVars, pageVarsOfTabs
<2> QED BY <2>1, <2>2, QuietKeepsFew
<1>9. ASSUME NEW t \in Tabs, SetupConflicts(t) PROVE FewGuesses(a)'
<2>1. Recent(a)' \subseteq Recent(a)
  BY <1>9 DEF SetupConflicts, Recent, AuthTypeOK, AccountsSized, requestVars, sessionVars,
     pageVarsOfTabs
<2>2. Guesses(a)' \subseteq Guesses(a)
  BY <1>9 DEF SetupConflicts, Answer, Guesses, AuthTypeOK, requestVars, sessionVars, pageVarsOfTabs
<2> QED BY <2>1, <2>2, QuietKeepsFew
<1>10. ASSUME NEW t \in Tabs, IsWrong(t) PROVE FewGuesses(a)'
<2>1. Recent(a)' \subseteq Recent(a) \cup {Failure}
  BY <1>10 DEF IsWrong, Recent, RecordFailure, Failure, AuthTypeOK, AccountsSized, requestVars,
     sessionVars, pageVarsOfTabs
<2>2. Guesses(a)' \subseteq Guesses(a) \ {t}
  BY <1>10 DEF IsWrong, Answer, Guesses, AuthTypeOK, requestVars, sessionVars, pageVarsOfTabs
<2>3. CASE AddressOf[t] = a
  <3>1. t \in Guesses(a) \/ ~Limited(a)
    BY <1>10, <2>3 DEF IsWrong, Guesses
  <3> QED BY <2>1, <2>2, <3>1, FailingKeepsFew
<2>4. CASE AddressOf[t] # a
  <3>1. Recent(a)' \subseteq Recent(a)
    BY <1>10, <2>4 DEF IsWrong, Recent, RecordFailure, Failure, AuthTypeOK, AccountsSized,
       requestVars, sessionVars, pageVarsOfTabs
  <3> QED BY <2>2, <3>1, QuietKeepsFew
<2> QED BY <2>3, <2>4
<1>11. ASSUME NEW t \in Tabs, PasswordBegins(t) PROVE FewGuesses(a)'
<2>1. Recent(a)' \subseteq Recent(a)
  BY <1>11 DEF PasswordBegins, Recent, Looked, AuthTypeOK, AccountsSized, requestVars,
     sessionVars, pageVarsOfTabs
<2>2. CASE AddressOf[t] = a /\ ~Limited(a)
  BY <2>1, <2>2, BeginningKeepsFew
<2>3. CASE AddressOf[t] # a \/ Limited(a)
  <3>1. Guesses(a)' \subseteq Guesses(a)
    BY <1>11, <2>3 DEF PasswordBegins, Answer, Enter, Guesses, AuthTypeOK, requestVars,
       sessionVars, pageVarsOfTabs
  <3> QED BY <2>1, <3>1, QuietKeepsFew
<2> QED BY <2>2, <2>3
<1>12. ASSUME NEW t \in Tabs, PasswordIsRight(t) PROVE FewGuesses(a)'
<2>1. Recent(a)' \subseteq Recent(a)
  BY <1>12 DEF PasswordIsRight, Recent, AuthTypeOK, AccountsSized, requestVars, sessionVars,
     pageVarsOfTabs
<2>2. Guesses(a)' \subseteq Guesses(a)
  BY <1>12 DEF PasswordIsRight, Enter, Guesses, AuthTypeOK, requestVars, sessionVars, pageVarsOfTabs
<2> QED BY <2>1, <2>2, QuietKeepsFew
<1>13. ASSUME NEW t \in Tabs, PasswordChanges(t) PROVE FewGuesses(a)'
<2>1. Recent(a)' \subseteq Recent(a)
  BY <1>13 DEF PasswordChanges, Recent, ResetFailures, AuthTypeOK, AccountsSized, requestVars,
     sessionVars, pageVarsOfTabs
<2>2. Guesses(a)' \subseteq Guesses(a)
  BY <1>13 DEF PasswordChanges, Answer, Guesses, AuthTypeOK, requestVars, sessionVars,
     pageVarsOfTabs
<2> QED BY <2>1, <2>2, QuietKeepsFew
<1>14. ASSUME NEW t \in Tabs, LogsOut(t) PROVE FewGuesses(a)'
<2>1. Recent(a)' \subseteq Recent(a)
  BY <1>14 DEF LogsOut, Recent, AuthTypeOK, AccountsSized, requestVars, sessionVars, pageVarsOfTabs
<2>2. Guesses(a)' \subseteq Guesses(a)
  BY <1>14 DEF LogsOut, Answer, Guesses, AuthTypeOK, requestVars, sessionVars, pageVarsOfTabs
<2> QED BY <2>1, <2>2, QuietKeepsFew
<1>15. ASSUME NEW t \in Tabs, Uses(t) PROVE FewGuesses(a)'
<2>1. Recent(a)' \subseteq Recent(a)
  BY <1>15 DEF Uses, Recent, AuthTypeOK, AccountsSized, requestVars, sessionVars, pageVarsOfTabs
<2>2. Guesses(a)' \subseteq Guesses(a)
  BY <1>15 DEF Uses, Guesses, AuthTypeOK, requestVars, sessionVars, pageVarsOfTabs
<2> QED BY <2>1, <2>2, QuietKeepsFew
<1>16. ASSUME NEW t \in Tabs, FetchesStatus(t) PROVE FewGuesses(a)'
<2>1. Recent(a)' \subseteq Recent(a)
  BY <1>16 DEF FetchesStatus, Recent, AuthTypeOK, AccountsSized, requestVars, sessionVars,
     pageVarsOfTabs
<2>2. Guesses(a)' \subseteq Guesses(a)
  BY <1>16 DEF FetchesStatus, Guesses, AuthTypeOK, requestVars, sessionVars, pageVarsOfTabs
<2> QED BY <2>1, <2>2, QuietKeepsFew
<1>17. ASSUME NEW t \in Tabs, StatusLands(t) PROVE FewGuesses(a)'
<2>1. Recent(a)' \subseteq Recent(a)
  BY <1>17 DEF StatusLands, Recent, AuthTypeOK, AccountsSized, requestVars, sessionVars,
     pageVarsOfTabs
<2>2. Guesses(a)' \subseteq Guesses(a)
  BY <1>17 DEF StatusLands, Guesses, AuthTypeOK, requestVars, sessionVars, pageVarsOfTabs
<2> QED BY <2>1, <2>2, QuietKeepsFew
<1>18. ASSUME NEW t \in Tabs, StatusFails(t) PROVE FewGuesses(a)'
<2>1. Recent(a)' \subseteq Recent(a)
  BY <1>18 DEF StatusFails, Recent, AuthTypeOK, AccountsSized, requestVars, sessionVars,
     pageVarsOfTabs
<2>2. Guesses(a)' \subseteq Guesses(a)
  BY <1>18 DEF StatusFails, Guesses, AuthTypeOK, requestVars, sessionVars, pageVarsOfTabs
<2> QED BY <2>1, <2>2, QuietKeepsFew
<1>19. ASSUME NEW t \in Tabs, AnswerLands(t) PROVE FewGuesses(a)'
<2>1. Recent(a)' \subseteq Recent(a)
  BY <1>19 DEF AnswerLands, Recent, AuthTypeOK, AccountsSized, requestVars, sessionVars,
     pageVarsOfTabs
<2>2. Guesses(a)' \subseteq Guesses(a)
  BY <1>19 DEF AnswerLands, Guesses, AuthTypeOK, requestVars, sessionVars, pageVarsOfTabs
<2> QED BY <2>1, <2>2, QuietKeepsFew
<1>20. ASSUME NEW t \in Tabs, AnswerIsLost(t) PROVE FewGuesses(a)'
<2>1. Recent(a)' \subseteq Recent(a)
  BY <1>20 DEF AnswerIsLost, Recent, AuthTypeOK, AccountsSized, requestVars, sessionVars,
     pageVarsOfTabs
<2>2. Guesses(a)' \subseteq Guesses(a)
  BY <1>20 DEF AnswerIsLost, Enter, Guesses, AuthTypeOK, requestVars, sessionVars, pageVarsOfTabs
<2> QED BY <2>1, <2>2, QuietKeepsFew
<1>21. ASSUME NEW p \in Passwords, ResetBegins(p) PROVE FewGuesses(a)'
<2>1. Recent(a)' \subseteq Recent(a)
  BY <1>21 DEF ResetBegins, Recent, AuthTypeOK, AccountsSized, requestVars, sessionVars,
     pageVarsOfTabs
<2>2. Guesses(a)' \subseteq Guesses(a)
  BY <1>21 DEF ResetBegins, Guesses, AuthTypeOK, requestVars, sessionVars, pageVarsOfTabs
<2> QED BY <2>1, <2>2, QuietKeepsFew
<1>22. ASSUME ResetCommits PROVE FewGuesses(a)'
<2>1. Recent(a)' \subseteq Recent(a)
  BY <1>22 DEF ResetCommits, Recent, AuthTypeOK, AccountsSized, requestVars, sessionVars,
     pageVarsOfTabs
<2>2. Guesses(a)' \subseteq Guesses(a)
  BY <1>22 DEF ResetCommits, Guesses, AuthTypeOK, requestVars, sessionVars, pageVarsOfTabs
<2> QED BY <2>1, <2>2, QuietKeepsFew
<1>23. ASSUME PurgeSessions PROVE FewGuesses(a)'
<2>1. Recent(a)' \subseteq Recent(a)
  BY <1>23 DEF PurgeSessions, Recent, AuthTypeOK, AccountsSized, requestVars, sessionVars,
     pageVarsOfTabs
<2>2. Guesses(a)' \subseteq Guesses(a)
  BY <1>23 DEF PurgeSessions, Guesses, AuthTypeOK, requestVars, sessionVars, pageVarsOfTabs
<2> QED BY <2>1, <2>2, QuietKeepsFew
<1>24. ASSUME ServerStartsAgain PROVE FewGuesses(a)'
<2>1. Recent(a)' \subseteq Recent(a)
  BY <1>24 DEF ServerStartsAgain, Recent, AuthTypeOK, AccountsSized, requestVars, sessionVars,
     pageVarsOfTabs
<2>2. Guesses(a)' \subseteq Guesses(a)
  BY <1>24 DEF ServerStartsAgain, Guesses, AuthTypeOK, requestVars, sessionVars, pageVarsOfTabs
<2> QED BY <2>1, <2>2, QuietKeepsFew
<1>25. ASSUME NEW now \in Nat, TimePasses(now) PROVE FewGuesses(a)'
<2>1. Recent(a)' \subseteq Recent(a)
  <3> SUFFICES ASSUME NEW f \in failures[a], f.at > now - FailureWindow PROVE f.at > clock -
     FailureWindow
    BY <1>25 DEF TimePasses, Recent
  <3>1. f.at \in Nat /\ clock \in Nat /\ now \in Nat /\ now >= clock /\ FailureWindow \in Nat
    BY <1>25 DEF TimePasses, AuthTypeOK, AuthFailures, AccountsSized
  <3> QED BY <3>1
<2>2. Guesses(a)' \subseteq Guesses(a)
  BY <1>25 DEF TimePasses, Guesses, requestVars
<2> QED BY <2>1, <2>2, QuietKeepsFew
<1>26. ASSUME NEW b \in Browsers, CookieGoes(b) PROVE FewGuesses(a)'
<2>1. Recent(a)' \subseteq Recent(a)
  BY <1>26 DEF CookieGoes, Recent, AuthTypeOK, AccountsSized, requestVars, sessionVars,
     pageVarsOfTabs
<2>2. Guesses(a)' \subseteq Guesses(a)
  BY <1>26 DEF CookieGoes, Guesses, AuthTypeOK, requestVars, sessionVars, pageVarsOfTabs
<2> QED BY <2>1, <2>2, QuietKeepsFew
<1>27. CASE UNCHANGED authVars
  BY <1>27, FewGuessesAreTheSame DEF authVars
<1> QED BY <1>1, <1>2, <1>3, <1>4, <1>5, <1>6, <1>7, <1>8, <1>9, <1>10, <1>11, <1>12, <1>13,
       <1>14, <1>15, <1>16, <1>17, <1>18, <1>19, <1>20, <1>21, <1>22, <1>23, <1>24, <1>25, <1>26,
       <1>27 DEF AuthNext

--------------------------------------------------------------------------------
(* How sessions end.                                                            *)

\* Resolving a session neither ends one nor revives one.
LEMMA ResolvingEndsNone ==
  ASSUME AccountsSized, AuthTypeOK
  PROVE  \A c, renew, c0 : c0 \in Cookies /\ SignedIn(c0) /\ Resolve(c, renew)
            /\ UNCHANGED <<clock, account>> => SignedIn(c0)'
<1> SUFFICES ASSUME NEW c, NEW renew, NEW c0 \in Cookies, SignedIn(c0), Resolve(c, renew),
                    UNCHANGED <<clock, account>>
             PROVE  SignedIn(c0)'
  OBVIOUS
<1>1. c0 \in sessionRows' /\ account' # NoAccount
  BY DEF SignedIn, Resolve
<1>2. clock \in Nat /\ Ttl \in Nat \ {0} /\ clock + Ttl > clock
  BY DEF AuthTypeOK, AccountsSized
<1>3. expires'[c0] > clock
  <2>1. CASE SignedIn(c) /\ Renews(c, renew)
    <3>1. expires' = [expires EXCEPT ![c] = clock + Ttl]
      BY <2>1 DEF Resolve
    <3> QED BY <3>1, <1>2 DEF AuthTypeOK, SignedIn
  <2>2. CASE ~(SignedIn(c) /\ Renews(c, renew))
    <3>1. expires' = expires
      BY <2>2 DEF Resolve
    <3> QED BY <3>1 DEF SignedIn
  <2> QED BY <2>1, <2>2
<1> QED BY <1>1, <1>3 DEF SignedIn

\* No step revives a session that has ended.
LEMMA NoSessionIsRevived ==
  ASSUME AccountsSized, AuthTypeOK, RowsHaveAnOwner, NEW c0 \in issued, ~SignedIn(c0),
         [AuthNext]_authVars
  PROVE  ~SignedIn(c0)'
<1>1. ASSUME NEW t \in Tabs, NEW body \in Bodies, SetupBegins(t, body) PROVE ~SignedIn(c0)'
  BY <1>1 DEF SetupBegins, SignedIn, AuthTypeOK, RowsHaveAnOwner, requestVars, sessionVars,
     pageVarsOfTabs
<1>2. ASSUME NEW t \in Tabs, NEW body \in Bodies, SetupIsElsewhere(t, body) PROVE ~SignedIn(c0)'
  BY <1>2 DEF SetupIsElsewhere, SignedIn, AuthTypeOK, RowsHaveAnOwner, requestVars, sessionVars,
     pageVarsOfTabs
<1>3. ASSUME NEW t \in Tabs, NEW body \in Bodies, SetupIsLimited(t, body) PROVE ~SignedIn(c0)'
  BY <1>3 DEF SetupIsLimited, SignedIn, AuthTypeOK, RowsHaveAnOwner, requestVars, sessionVars,
     pageVarsOfTabs
<1>4. ASSUME NEW t \in Tabs, NEW body \in Bodies, SetupTokenIsWrong(t, body) PROVE ~SignedIn(c0)'
  BY <1>4 DEF SetupTokenIsWrong, SignedIn, AuthTypeOK, RowsHaveAnOwner, requestVars, sessionVars,
     pageVarsOfTabs
<1>5. ASSUME NEW t \in Tabs, NEW body \in Bodies, LoginBegins(t, body) PROVE ~SignedIn(c0)'
  BY <1>5 DEF LoginBegins, SignedIn, AuthTypeOK, RowsHaveAnOwner, requestVars, sessionVars,
     pageVarsOfTabs
<1>6. ASSUME NEW t \in Tabs, NEW body \in Bodies, PasswordIsAsked(t, body) PROVE ~SignedIn(c0)'
  BY <1>6 DEF PasswordIsAsked, Resolve, SignedIn, AuthTypeOK, RowsHaveAnOwner, requestVars,
     sessionVars, pageVarsOfTabs
<1>7. ASSUME NEW t \in Tabs, NEW c \in Cookies, SetupCreates(t, c) PROVE ~SignedIn(c0)'
  BY <1>7 DEF SetupCreates, CreateSession, SignedIn, AuthTypeOK, RowsHaveAnOwner, requestVars,
     sessionVars, pageVarsOfTabs
<1>8. ASSUME NEW t \in Tabs, NEW c \in Cookies, LoginSucceeds(t, c) PROVE ~SignedIn(c0)'
  BY <1>8 DEF LoginSucceeds, CreateSession, SignedIn, AuthTypeOK, RowsHaveAnOwner, requestVars,
     sessionVars, pageVarsOfTabs
<1>9. ASSUME NEW t \in Tabs, SetupConflicts(t) PROVE ~SignedIn(c0)'
  BY <1>9 DEF SetupConflicts, SignedIn, AuthTypeOK, RowsHaveAnOwner, requestVars, sessionVars,
     pageVarsOfTabs
<1>10. ASSUME NEW t \in Tabs, IsWrong(t) PROVE ~SignedIn(c0)'
  BY <1>10 DEF IsWrong, SignedIn, AuthTypeOK, RowsHaveAnOwner, requestVars, sessionVars,
     pageVarsOfTabs
<1>11. ASSUME NEW t \in Tabs, PasswordBegins(t) PROVE ~SignedIn(c0)'
  BY <1>11 DEF PasswordBegins, SignedIn, AuthTypeOK, RowsHaveAnOwner, requestVars, sessionVars,
     pageVarsOfTabs
<1>12. ASSUME NEW t \in Tabs, PasswordIsRight(t) PROVE ~SignedIn(c0)'
  BY <1>12 DEF PasswordIsRight, SignedIn, AuthTypeOK, RowsHaveAnOwner, requestVars, sessionVars,
     pageVarsOfTabs
<1>13. ASSUME NEW t \in Tabs, PasswordChanges(t) PROVE ~SignedIn(c0)'
  BY <1>13 DEF PasswordChanges, SetPassword, SignedIn, AuthTypeOK, RowsHaveAnOwner, requestVars,
     sessionVars, pageVarsOfTabs
<1>14. ASSUME NEW t \in Tabs, LogsOut(t) PROVE ~SignedIn(c0)'
  BY <1>14 DEF LogsOut, SignedIn, AuthTypeOK, RowsHaveAnOwner, requestVars, sessionVars,
     pageVarsOfTabs
<1>15. ASSUME NEW t \in Tabs, Uses(t) PROVE ~SignedIn(c0)'
  BY <1>15 DEF Uses, Resolve, SignedIn, AuthTypeOK, RowsHaveAnOwner, requestVars, sessionVars,
     pageVarsOfTabs
<1>16. ASSUME NEW t \in Tabs, FetchesStatus(t) PROVE ~SignedIn(c0)'
  BY <1>16 DEF FetchesStatus, Resolve, SignedIn, AuthTypeOK, RowsHaveAnOwner, requestVars,
     sessionVars, pageVarsOfTabs
<1>17. ASSUME NEW t \in Tabs, StatusLands(t) PROVE ~SignedIn(c0)'
  BY <1>17 DEF StatusLands, SignedIn, AuthTypeOK, RowsHaveAnOwner, requestVars, sessionVars,
     pageVarsOfTabs
<1>18. ASSUME NEW t \in Tabs, StatusFails(t) PROVE ~SignedIn(c0)'
  BY <1>18 DEF StatusFails, SignedIn, AuthTypeOK, RowsHaveAnOwner, requestVars, sessionVars,
     pageVarsOfTabs
<1>19. ASSUME NEW t \in Tabs, AnswerLands(t) PROVE ~SignedIn(c0)'
  BY <1>19 DEF AnswerLands, SignedIn, AuthTypeOK, RowsHaveAnOwner, requestVars, sessionVars,
     pageVarsOfTabs
<1>20. ASSUME NEW t \in Tabs, AnswerIsLost(t) PROVE ~SignedIn(c0)'
  BY <1>20 DEF AnswerIsLost, SignedIn, AuthTypeOK, RowsHaveAnOwner, requestVars, sessionVars,
     pageVarsOfTabs
<1>21. ASSUME NEW p \in Passwords, ResetBegins(p) PROVE ~SignedIn(c0)'
  BY <1>21 DEF ResetBegins, SignedIn, AuthTypeOK, RowsHaveAnOwner, requestVars, sessionVars,
     pageVarsOfTabs
<1>22. ASSUME ResetCommits PROVE ~SignedIn(c0)'
  BY <1>22 DEF ResetCommits, SetPassword, SignedIn, AuthTypeOK, RowsHaveAnOwner, requestVars,
     sessionVars, pageVarsOfTabs
<1>23. ASSUME PurgeSessions PROVE ~SignedIn(c0)'
  BY <1>23 DEF PurgeSessions, SignedIn, AuthTypeOK, RowsHaveAnOwner, requestVars, sessionVars,
     pageVarsOfTabs
<1>24. ASSUME ServerStartsAgain PROVE ~SignedIn(c0)'
  BY <1>24 DEF ServerStartsAgain, SignedIn, AuthTypeOK, RowsHaveAnOwner, requestVars, sessionVars,
     pageVarsOfTabs
<1>25. ASSUME NEW now \in Nat, TimePasses(now) PROVE ~SignedIn(c0)'
  BY <1>25 DEF TimePasses, SignedIn, AuthTypeOK, RowsHaveAnOwner, requestVars, sessionVars,
     pageVarsOfTabs
<1>26. ASSUME NEW b \in Browsers, CookieGoes(b) PROVE ~SignedIn(c0)'
  BY <1>26 DEF CookieGoes, SignedIn, AuthTypeOK, RowsHaveAnOwner, requestVars, sessionVars,
     pageVarsOfTabs
<1>27. CASE UNCHANGED authVars
  BY <1>27 DEF authVars, SignedIn, AuthTypeOK, RowsHaveAnOwner, requestVars, sessionVars,
     pageVarsOfTabs
<1> QED BY <1>1, <1>2, <1>3, <1>4, <1>5, <1>6, <1>7, <1>8, <1>9, <1>10, <1>11, <1>12, <1>13,
       <1>14, <1>15, <1>16, <1>17, <1>18, <1>19, <1>20, <1>21, <1>22, <1>23, <1>24, <1>25, <1>26,
       <1>27 DEF AuthNext

\* A session that ends may.
LEMMA SessionsEndOnlySo ==
  ASSUME AccountsSized, AuthTypeOK, NEW c0 \in Cookies, SignedIn(c0), ~SignedIn(c0)',
         [AuthNext]_authVars
  PROVE  MayEnd(c0)
<1>1. ASSUME NEW t \in Tabs, NEW body \in Bodies, SetupBegins(t, body) PROVE MayEnd(c0)
  BY <1>1 DEF SetupBegins, SignedIn, AuthTypeOK, requestVars, sessionVars, pageVarsOfTabs
<1>2. ASSUME NEW t \in Tabs, NEW body \in Bodies, SetupIsElsewhere(t, body) PROVE MayEnd(c0)
  BY <1>2 DEF SetupIsElsewhere, SignedIn, AuthTypeOK, requestVars, sessionVars, pageVarsOfTabs
<1>3. ASSUME NEW t \in Tabs, NEW body \in Bodies, SetupIsLimited(t, body) PROVE MayEnd(c0)
  BY <1>3 DEF SetupIsLimited, SignedIn, AuthTypeOK, requestVars, sessionVars, pageVarsOfTabs
<1>4. ASSUME NEW t \in Tabs, NEW body \in Bodies, SetupTokenIsWrong(t, body) PROVE MayEnd(c0)
  BY <1>4 DEF SetupTokenIsWrong, SignedIn, AuthTypeOK, requestVars, sessionVars, pageVarsOfTabs
<1>5. ASSUME NEW t \in Tabs, NEW body \in Bodies, LoginBegins(t, body) PROVE MayEnd(c0)
  BY <1>5 DEF LoginBegins, SignedIn, AuthTypeOK, requestVars, sessionVars, pageVarsOfTabs
<1>6. ASSUME NEW t \in Tabs, NEW body \in Bodies, PasswordIsAsked(t, body) PROVE MayEnd(c0)
  BY <1>6, ResolvingEndsNone DEF PasswordIsAsked
<1>7. ASSUME NEW t \in Tabs, NEW c \in Cookies, SetupCreates(t, c) PROVE MayEnd(c0)
  BY <1>7, ARowIsAnAccount DEF SetupCreates, CreateSession, SignedIn, AuthTypeOK, requestVars,
     sessionVars, pageVarsOfTabs
<1>8. ASSUME NEW t \in Tabs, NEW c \in Cookies, LoginSucceeds(t, c) PROVE MayEnd(c0)
  BY <1>8 DEF LoginSucceeds, CreateSession, SignedIn, AuthTypeOK, requestVars, sessionVars,
     pageVarsOfTabs, AccountsSized
<1>9. ASSUME NEW t \in Tabs, SetupConflicts(t) PROVE MayEnd(c0)
  BY <1>9 DEF SetupConflicts, SignedIn, AuthTypeOK, requestVars, sessionVars, pageVarsOfTabs
<1>10. ASSUME NEW t \in Tabs, IsWrong(t) PROVE MayEnd(c0)
  BY <1>10 DEF IsWrong, SignedIn, AuthTypeOK, requestVars, sessionVars, pageVarsOfTabs
<1>11. ASSUME NEW t \in Tabs, PasswordBegins(t) PROVE MayEnd(c0)
  BY <1>11 DEF PasswordBegins, SignedIn, AuthTypeOK, requestVars, sessionVars, pageVarsOfTabs
<1>12. ASSUME NEW t \in Tabs, PasswordIsRight(t) PROVE MayEnd(c0)
  BY <1>12 DEF PasswordIsRight, SignedIn, AuthTypeOK, requestVars, sessionVars, pageVarsOfTabs
<1>13. ASSUME NEW t \in Tabs, PasswordChanges(t) PROVE MayEnd(c0)
<2>1. account' # NoAccount
  <3>1. account # NoAccount /\ ask[t].next \in Passwords
    BY <1>13 DEF SignedIn, AuthTypeOK, Bodies
  <3> QED BY <1>13, <3>1, SettingKeepsTheAccount DEF PasswordChanges
<2>2. /\ sessionRows' = sessionRows \cap {ask[t].cookie} /\ expires' = expires /\ clock' = clock
      /\ ask' = ask /\ stage[t] = "hashing"
      /\ stage'[t] = "answered" /\ answer'[t].says = "changed"
  BY <1>13 DEF PasswordChanges, SetPassword, Answer, AuthTypeOK
<2>3. c0 # ask[t].cookie
  BY <2>1, <2>2 DEF SignedIn
<2> QED BY <2>2, <2>3 DEF MayEnd
<1>14. ASSUME NEW t \in Tabs, LogsOut(t) PROVE MayEnd(c0)
  BY <1>14 DEF LogsOut, SignedIn, AuthTypeOK, requestVars, sessionVars, pageVarsOfTabs, MayEnd,
     Answer, CookieOf
<1>15. ASSUME NEW t \in Tabs, Uses(t) PROVE MayEnd(c0)
  BY <1>15, ResolvingEndsNone DEF Uses
<1>16. ASSUME NEW t \in Tabs, FetchesStatus(t) PROVE MayEnd(c0)
  BY <1>16, ResolvingEndsNone DEF FetchesStatus
<1>17. ASSUME NEW t \in Tabs, StatusLands(t) PROVE MayEnd(c0)
  BY <1>17 DEF StatusLands, SignedIn, AuthTypeOK, requestVars, sessionVars, pageVarsOfTabs
<1>18. ASSUME NEW t \in Tabs, StatusFails(t) PROVE MayEnd(c0)
  BY <1>18 DEF StatusFails, SignedIn, AuthTypeOK, requestVars, sessionVars, pageVarsOfTabs
<1>19. ASSUME NEW t \in Tabs, AnswerLands(t) PROVE MayEnd(c0)
  BY <1>19 DEF AnswerLands, SignedIn, AuthTypeOK, requestVars, sessionVars, pageVarsOfTabs
<1>20. ASSUME NEW t \in Tabs, AnswerIsLost(t) PROVE MayEnd(c0)
  BY <1>20 DEF AnswerIsLost, SignedIn, AuthTypeOK, requestVars, sessionVars, pageVarsOfTabs
<1>21. ASSUME NEW p \in Passwords, ResetBegins(p) PROVE MayEnd(c0)
  BY <1>21 DEF ResetBegins, SignedIn, AuthTypeOK, requestVars, sessionVars, pageVarsOfTabs
<1>22. ASSUME ResetCommits PROVE MayEnd(c0)
  BY <1>22 DEF ResetCommits, SetPassword, SignedIn, AuthTypeOK, requestVars, sessionVars,
     pageVarsOfTabs, MayEnd
<1>23. ASSUME PurgeSessions PROVE MayEnd(c0)
  BY <1>23 DEF PurgeSessions, SignedIn, AuthTypeOK, requestVars, sessionVars, pageVarsOfTabs
<1>24. ASSUME ServerStartsAgain PROVE MayEnd(c0)
  BY <1>24 DEF ServerStartsAgain, SignedIn, AuthTypeOK, requestVars, sessionVars, pageVarsOfTabs
<1>25. ASSUME NEW now \in Nat, TimePasses(now) PROVE MayEnd(c0)
  BY <1>25 DEF TimePasses, SignedIn, AuthTypeOK, requestVars, sessionVars, pageVarsOfTabs, MayEnd
<1>26. ASSUME NEW b \in Browsers, CookieGoes(b) PROVE MayEnd(c0)
  BY <1>26 DEF CookieGoes, SignedIn, AuthTypeOK, requestVars, sessionVars, pageVarsOfTabs
<1>27. CASE UNCHANGED authVars
  BY <1>27 DEF authVars, SignedIn, AuthTypeOK, requestVars, sessionVars, pageVarsOfTabs
<1> QED BY <1>1, <1>2, <1>3, <1>4, <1>5, <1>6, <1>7, <1>8, <1>9, <1>10, <1>11, <1>12, <1>13,
       <1>14, <1>15, <1>16, <1>17, <1>18, <1>19, <1>20, <1>21, <1>22, <1>23, <1>24, <1>25, <1>26,
       <1>27 DEF AuthNext

\* Whoever creates the account is entitled to.
LEMMA OnlyTheEntitledCreate ==
  ASSUME SetupsAreEntitled, account = NoAccount, account' # NoAccount, [AuthNext]_authVars
  PROVE  SomeoneIsEntitled
<1>1. ASSUME NEW t \in Tabs, NEW body \in Bodies, SetupBegins(t, body) PROVE SomeoneIsEntitled
  BY <1>1 DEF SetupBegins, SetupsAreEntitled, SomeoneIsEntitled, requestVars, sessionVars,
     pageVarsOfTabs
<1>2. ASSUME NEW t \in Tabs, NEW body \in Bodies, SetupIsElsewhere(t, body) PROVE
   SomeoneIsEntitled
  BY <1>2 DEF SetupIsElsewhere, SetupsAreEntitled, SomeoneIsEntitled, requestVars, sessionVars,
     pageVarsOfTabs
<1>3. ASSUME NEW t \in Tabs, NEW body \in Bodies, SetupIsLimited(t, body) PROVE SomeoneIsEntitled
  BY <1>3 DEF SetupIsLimited, SetupsAreEntitled, SomeoneIsEntitled, requestVars, sessionVars,
     pageVarsOfTabs
<1>4. ASSUME NEW t \in Tabs, NEW body \in Bodies, SetupTokenIsWrong(t, body) PROVE
   SomeoneIsEntitled
  BY <1>4 DEF SetupTokenIsWrong, SetupsAreEntitled, SomeoneIsEntitled, requestVars, sessionVars,
     pageVarsOfTabs
<1>5. ASSUME NEW t \in Tabs, NEW body \in Bodies, LoginBegins(t, body) PROVE SomeoneIsEntitled
  BY <1>5 DEF LoginBegins, SetupsAreEntitled, SomeoneIsEntitled, requestVars, sessionVars,
     pageVarsOfTabs
<1>6. ASSUME NEW t \in Tabs, NEW body \in Bodies, PasswordIsAsked(t, body) PROVE SomeoneIsEntitled
  BY <1>6 DEF PasswordIsAsked, SetupsAreEntitled, SomeoneIsEntitled, requestVars, sessionVars,
     pageVarsOfTabs
<1>7. ASSUME NEW t \in Tabs, NEW c \in Cookies, SetupCreates(t, c) PROVE SomeoneIsEntitled
  BY <1>7 DEF SetupCreates, SetupsAreEntitled, SomeoneIsEntitled, requestVars, sessionVars,
     pageVarsOfTabs
<1>8. ASSUME NEW t \in Tabs, NEW c \in Cookies, LoginSucceeds(t, c) PROVE SomeoneIsEntitled
  BY <1>8 DEF LoginSucceeds, SetupsAreEntitled, SomeoneIsEntitled, requestVars, sessionVars,
     pageVarsOfTabs
<1>9. ASSUME NEW t \in Tabs, SetupConflicts(t) PROVE SomeoneIsEntitled
  BY <1>9 DEF SetupConflicts, SetupsAreEntitled, SomeoneIsEntitled, requestVars, sessionVars,
     pageVarsOfTabs
<1>10. ASSUME NEW t \in Tabs, IsWrong(t) PROVE SomeoneIsEntitled
  BY <1>10 DEF IsWrong, SetupsAreEntitled, SomeoneIsEntitled, requestVars, sessionVars,
     pageVarsOfTabs
<1>11. ASSUME NEW t \in Tabs, PasswordBegins(t) PROVE SomeoneIsEntitled
  BY <1>11 DEF PasswordBegins, SetupsAreEntitled, SomeoneIsEntitled, requestVars, sessionVars,
     pageVarsOfTabs
<1>12. ASSUME NEW t \in Tabs, PasswordIsRight(t) PROVE SomeoneIsEntitled
  BY <1>12 DEF PasswordIsRight, SetupsAreEntitled, SomeoneIsEntitled, requestVars, sessionVars,
     pageVarsOfTabs
<1>13. ASSUME NEW t \in Tabs, PasswordChanges(t) PROVE SomeoneIsEntitled
  BY <1>13 DEF PasswordChanges, SetPassword, SetupsAreEntitled, SomeoneIsEntitled, requestVars,
     sessionVars, pageVarsOfTabs
<1>14. ASSUME NEW t \in Tabs, LogsOut(t) PROVE SomeoneIsEntitled
  BY <1>14 DEF LogsOut, SetupsAreEntitled, SomeoneIsEntitled, requestVars, sessionVars,
     pageVarsOfTabs
<1>15. ASSUME NEW t \in Tabs, Uses(t) PROVE SomeoneIsEntitled
  BY <1>15 DEF Uses, SetupsAreEntitled, SomeoneIsEntitled, requestVars, sessionVars,
     pageVarsOfTabs
<1>16. ASSUME NEW t \in Tabs, FetchesStatus(t) PROVE SomeoneIsEntitled
  BY <1>16 DEF FetchesStatus, SetupsAreEntitled, SomeoneIsEntitled, requestVars, sessionVars,
     pageVarsOfTabs
<1>17. ASSUME NEW t \in Tabs, StatusLands(t) PROVE SomeoneIsEntitled
  BY <1>17 DEF StatusLands, SetupsAreEntitled, SomeoneIsEntitled, requestVars, sessionVars,
     pageVarsOfTabs
<1>18. ASSUME NEW t \in Tabs, StatusFails(t) PROVE SomeoneIsEntitled
  BY <1>18 DEF StatusFails, SetupsAreEntitled, SomeoneIsEntitled, requestVars, sessionVars,
     pageVarsOfTabs
<1>19. ASSUME NEW t \in Tabs, AnswerLands(t) PROVE SomeoneIsEntitled
  BY <1>19 DEF AnswerLands, SetupsAreEntitled, SomeoneIsEntitled, requestVars, sessionVars,
     pageVarsOfTabs
<1>20. ASSUME NEW t \in Tabs, AnswerIsLost(t) PROVE SomeoneIsEntitled
  BY <1>20 DEF AnswerIsLost, SetupsAreEntitled, SomeoneIsEntitled, requestVars, sessionVars,
     pageVarsOfTabs
<1>21. ASSUME NEW p \in Passwords, ResetBegins(p) PROVE SomeoneIsEntitled
  BY <1>21 DEF ResetBegins, SetupsAreEntitled, SomeoneIsEntitled, requestVars, sessionVars,
     pageVarsOfTabs
<1>22. ASSUME ResetCommits PROVE SomeoneIsEntitled
  BY <1>22 DEF ResetCommits, SetPassword, SetupsAreEntitled, SomeoneIsEntitled, requestVars,
     sessionVars, pageVarsOfTabs
<1>23. ASSUME PurgeSessions PROVE SomeoneIsEntitled
  BY <1>23 DEF PurgeSessions, SetupsAreEntitled, SomeoneIsEntitled, requestVars, sessionVars,
     pageVarsOfTabs
<1>24. ASSUME ServerStartsAgain PROVE SomeoneIsEntitled
  BY <1>24 DEF ServerStartsAgain, SetupsAreEntitled, SomeoneIsEntitled, requestVars, sessionVars,
     pageVarsOfTabs
<1>25. ASSUME NEW now \in Nat, TimePasses(now) PROVE SomeoneIsEntitled
  BY <1>25 DEF TimePasses, SetupsAreEntitled, SomeoneIsEntitled, requestVars, sessionVars,
     pageVarsOfTabs
<1>26. ASSUME NEW b \in Browsers, CookieGoes(b) PROVE SomeoneIsEntitled
  BY <1>26 DEF CookieGoes, SetupsAreEntitled, SomeoneIsEntitled, requestVars, sessionVars,
     pageVarsOfTabs
<1>27. CASE UNCHANGED authVars
  BY <1>27 DEF authVars, SetupsAreEntitled, SomeoneIsEntitled, requestVars, sessionVars,
     pageVarsOfTabs
<1> QED BY <1>1, <1>2, <1>3, <1>4, <1>5, <1>6, <1>7, <1>8, <1>9, <1>10, <1>11, <1>12, <1>13,
       <1>14, <1>15, <1>16, <1>17, <1>18, <1>19, <1>20, <1>21, <1>22, <1>23, <1>24, <1>25, <1>26,
       <1>27 DEF AuthNext

--------------------------------------------------------------------------------
(* The theorems.                                                                *)

AuthInv ==
    /\ AuthTypeOK /\ RowsHaveAnOwner /\ SessionsKnowThePassword /\ SetupsAreEntitled
    /\ AnswersKnowOfTheAccount /\ \A a \in Addresses : FewGuesses(a)

\* The first state.
LEMMA AuthStarts ==
  ASSUME AccountsSized, AuthInit
  PROVE  AuthInv
<1>1. AuthTypeOK
  BY DEF AuthInit, AuthTypeOK, AccountsSized, AuthAnswers, Statuses
<1>2. RowsHaveAnOwner /\ SessionsKnowThePassword /\ SetupsAreEntitled
  BY DEF AuthInit, RowsHaveAnOwner, SessionsKnowThePassword, SetupsAreEntitled
<1>3. AnswersKnowOfTheAccount
  BY DEF AuthInit, AnswersKnowOfTheAccount, Tell
<1>4. ASSUME NEW a \in Addresses PROVE FewGuesses(a)
  <2>1. Recent(a) = {} /\ Guesses(a) = {}
    BY <1>4 DEF AuthInit, Recent, Guesses
  <2>2. Cardinality({}) = 0 /\ IsFiniteSet({})
    BY FS_EmptySet
  <2>3. Cardinality(Tabs) \in Nat /\ MaxFailures \in Nat \ {0}
    BY FS_CardinalityType DEF AccountsSized
  <2>4. Cardinality(Recent(a)) + Cardinality(Guesses(a)) <= MaxFailures - 1 + Cardinality(Tabs)
    BY <2>1, <2>2, <2>3
  <2> QED BY <2>1, <2>2, <2>4 DEF FewGuesses
<1> QED BY <1>1, <1>2, <1>3, <1>4 DEF AuthInv

\* Every step keeps the invariant.
LEMMA AuthSteps ==
  ASSUME AccountsSized, AuthInv, [AuthNext]_authVars
  PROVE  AuthInv'
<1>1. AuthTypeOK'
  BY AuthStepTyped DEF AuthInv
<1>2. account # NoAccount => account' # NoAccount
  BY AccountStays DEF AuthInv
<1>3. RowsHaveAnOwner'
  BY <1>2, RowsStayOwned DEF AuthInv
<1>4. SessionsKnowThePassword'
  BY SessionsStillKnow DEF AuthInv
<1>5. SetupsAreEntitled'
  BY <1>2, SetupsStayEntitled DEF AuthInv
<1>6. AnswersKnowOfTheAccount'
  BY <1>2, NobodyIsToldTooMuch DEF AuthInv
<1>7. ASSUME NEW a \in Addresses PROVE FewGuesses(a)'
  BY <1>7, GuessesStayFew DEF AuthInv
<1> QED BY <1>1, <1>3, <1>4, <1>5, <1>6, <1>7 DEF AuthInv

\* The inductive invariant: sessions, setups and answers are backed by an account and its
\* password, and what may still fail is counted with what failed.
THEOREM AuthInvariant ==
  ASSUME AccountsSized
  PROVE  AuthSpec => []AuthInv
<1>1. AuthInit => AuthInv
  BY AuthStarts
<1>2. AuthInv /\ [AuthNext]_authVars => AuthInv'
  BY AuthSteps
<1> QED BY <1>1, <1>2, PTL DEF AuthSpec

\* The table of sessions, the limiter, the requests and the tabs hold what they may.
THEOREM AccountsAreTyped ==
  ASSUME AccountsSized
  PROVE  AuthSpec => []AuthTypeOK
<1>1. AuthInv => AuthTypeOK
  BY DEF AuthInv
<1> QED BY <1>1, AuthInvariant, PTL

\* changePassword and resetPassword sign out whoever knew only the old password, but for sign-ins
\* under way.
THEOREM SessionsAreOfThisPassword ==
  ASSUME AccountsSized
  PROVE  AuthSpec => []SessionsKnowThePassword
<1>1. AuthInv => SessionsKnowThePassword
  BY DEF AuthInv
<1> QED BY <1>1, AuthInvariant, PTL

\* LoginRateLimiter counts at most one failure over the limit for each request waiting beside.
THEOREM GuessesAreBounded ==
  ASSUME AccountsSized
  PROVE  AuthSpec => []WrongGuessesAreFew
<1>1. AuthInv => WrongGuessesAreFew
  <2> SUFFICES ASSUME AuthInv, NEW a \in Addresses
               PROVE  Cardinality(Recent(a)) <= MaxFailures - 1 + Cardinality(Tabs)
    BY DEF WrongGuessesAreFew
  <2>1. FewGuesses(a)
    BY DEF AuthInv
  <2>2. /\ Cardinality(Recent(a)) \in Nat /\ Cardinality(Guesses(a)) \in Nat
        /\ Cardinality(Tabs) \in Nat /\ MaxFailures \in Nat
    BY <2>1, FS_CardinalityType, GuessesAreTabs DEF FewGuesses, AccountsSized
  <2> QED BY <2>1, <2>2 DEF FewGuesses
<1> QED BY <1>1, AuthInvariant, PTL

\* A page never shows the app, or asks to sign in, on a server without an account.
THEOREM StatusesKnowOfTheAccount ==
  ASSUME AccountsSized
  PROVE  AuthSpec => []PagesKnowOfTheAccount
<1>1. AuthInv => PagesKnowOfTheAccount
  BY DEF AuthInv, AnswersKnowOfTheAccount, Tell, PagesKnowOfTheAccount
<1> QED BY <1>1, AuthInvariant, PTL

\* The account's creator gave the setup token, or sat at the machine where none is set.
THEOREM TheEntitledSetUp ==
  ASSUME AccountsSized
  PROVE  AuthSpec => OnlyTheEntitledSetUp
<1> DEFINE A == account = NoAccount /\ account' # NoAccount =>
                  \E t \in Tabs : stage[t] = "hashing" /\ ask[t].kind = "setup" /\ Entitled(t,
                         ask[t])
<1>1. AuthInv /\ [AuthNext]_authVars => A
  BY OnlyTheEntitledCreate DEF AuthInv, SomeoneIsEntitled
<1>2. AuthInv /\ [AuthNext]_authVars => [A]_authVars
  BY <1>1
<1> QED BY <1>2, AuthInvariant, PTL DEF AuthSpec, OnlyTheEntitledSetUp

\* resolveSession, the renewal and the purge agree on what has ended.
THEOREM EndedSessionsStayEnded ==
  ASSUME AccountsSized
  PROVE  AuthSpec => TheDeadStayDead
<1> DEFINE A == \A c \in issued : ~SignedIn(c) => ~SignedIn(c)'
<1>1. AuthInv /\ [AuthNext]_authVars => A
  BY NoSessionIsRevived DEF AuthInv
<1>2. AuthInv /\ [AuthNext]_authVars => [A]_authVars
  BY <1>1
<1> QED BY <1>2, AuthInvariant, PTL DEF AuthSpec, TheDeadStayDead

\* A password change leaves the session that asked for it, the purge every live one.
THEOREM SessionsEndForReasons ==
  ASSUME AccountsSized
  PROVE  AuthSpec => SessionsEndForAReason
<1> DEFINE A == \A c \in Cookies : SignedIn(c) /\ ~SignedIn(c)' =>
                  \/ clock' # clock
                  \/ shell # NoPassword /\ shell' = NoPassword
                  \/ \E t \in Tabs : stage[t] # "answered" /\ stage'[t] = "answered" /\
                        \/ CookieOf(t) = c /\ answer'[t].says = "signIn"
                        \/ ask[t].cookie # c /\ answer'[t].says = "changed"
<1>1. AuthInv /\ [AuthNext]_authVars => A
  <2> SUFFICES ASSUME AuthInv, [AuthNext]_authVars, NEW c \in Cookies, SignedIn(c), ~SignedIn(c)'
               PROVE  MayEnd(c)
    BY DEF MayEnd
  <2> QED BY SessionsEndOnlySo DEF AuthInv
<1>2. AuthInv /\ [AuthNext]_authVars => [A]_authVars
  BY <1>1
<1> QED BY <1>2, AuthInvariant, PTL DEF AuthSpec, SessionsEndForAReason
================================================================================
