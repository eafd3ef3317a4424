------------------------------ MODULE CatalogSync ------------------------------
(***************************************************************************)
(* How a console's copy of the catalog follows the library: the revision   *)
(* that repository.ts raises with every change, the library.changed event  *)
(* the server publishes some time later, the console's event log, the      *)
(* pages of paginateCatalog, and Session::refreshCatalog that puts them    *)
(* together (app/session.cpp).  The console does all of this on one        *)
(* thread; the library changes between any two of its requests.  A server  *)
(* that restarts and a log that outgrows the cursor are in DeviceEvents.   *)
(***************************************************************************)
EXTENDS Integers, Sequences, FiniteSets

CONSTANTS
    Apps,       \* application ids, in the order of the catalog
    Entries,    \* what the catalog may say of an application
    Absent,     \* it has no file of the application
    Limit,      \* applications on a page (200)
    Attempts,   \* times a refresh starts over (kCatalogAttempts)
    MaxPages    \* pages a refresh reads (kMaxCatalogPages)

VARIABLES
    \* the server
    lib,        \* the catalog as buildCatalogApps would build it now
    rev,        \* the library's revision
    due,        \* somebody still has to publish library.changed
    news,       \* catalog events this console has not taken, as their revisions
    covered,    \* whether the log still has everything after the console's cursor
    \* the console
    ready,      \* ready_: the session has started and polls
    installing, \* installing_
    stale,      \* catalogStale_
    catalog,    \* catalog_
    catalogRev, \* catalogRev_
    \* the refresh under way
    refreshing, \* "no", or what asked for it: "start", "event" or "ended"
    attempt, pages, cursor, firstRev, mixed,
    acc,        \* apps
    cut,        \* the last page it read was not the last there was
    \* history
    stamp,      \* the revision each application last changed in
    silent,     \* applications that changed without a revision since the catalog was read
    told,       \* the last revision published
    snap,       \* the library when the refresh read its first page
    dropped     \* the refresh that a catalog event asked for failed

serverVars == <<lib, rev, due, news, covered, stamp, silent, told>>
fetchVars == <<attempt, pages, cursor, firstRev, mixed, acc, cut, snap>>
catalogVars == <<stale, catalog, catalogRev, dropped>>
syncVars == <<serverVars, fetchVars, catalogVars, ready, installing, refreshing>>

Library == [Apps -> Entries \cup {Absent}]
Nothing == [a \in Apps |-> Absent]
Unread == -1

SyncTypeOK ==
    /\ lib \in Library /\ catalog \in Library /\ acc \in Library /\ snap \in Library
    /\ rev \in Nat /\ told \in Nat /\ catalogRev \in Nat /\ news \in Seq(Nat)
    /\ due \in BOOLEAN /\ covered \in BOOLEAN /\ ready \in BOOLEAN /\ installing \in BOOLEAN
    /\ stale \in BOOLEAN /\ mixed \in BOOLEAN /\ cut \in BOOLEAN /\ dropped \in BOOLEAN
    /\ refreshing \in {"no", "start", "event", "ended"}
    /\ attempt \in Nat /\ pages \in Nat /\ cursor \in Nat /\ firstRev \in Nat \cup {Unread}
    /\ stamp \in [Apps -> Nat] /\ silent \subseteq Apps

SyncInit ==
    /\ lib = Nothing /\ rev = 0 /\ due = FALSE /\ news = <<>> /\ covered = FALSE
    /\ ready = FALSE /\ installing = FALSE /\ refreshing = "no"
    /\ stale = FALSE /\ catalog = Nothing /\ catalogRev = 0
    /\ attempt = 0 /\ pages = 0 /\ cursor = 0 /\ firstRev = Unread /\ mixed = FALSE
    /\ acc = Nothing /\ cut = FALSE
    /\ stamp = [a \in Apps |-> 0] /\ silent = {} /\ told = 0 /\ snap = Nothing /\ dropped = FALSE

--------------------------------------------------------------------------------
(* The server.                                                                  *)

\* A scan, a watched change, a folder or titledb: the rows and the revision change together, and
\* whoever changed them publishes afterwards.  A purge of missing files changes the revision only.
Change(lib2) ==
    LET changed == {a \in Apps : lib2[a] # lib[a]}
    IN  /\ lib' = lib2 /\ rev' = rev + 1
        /\ stamp' = [a \in Apps |-> IF a \in changed THEN rev + 1 ELSE stamp[a]]
        /\ silent' = silent \ changed
        /\ due' = (due \/ changed # {})
        /\ UNCHANGED <<news, covered, told, fetchVars, catalogVars, ready, installing, refreshing>>

\* PUT /settings prefers the other file of some applications, and neither raises the revision nor
\* publishes.
SwitchPreference(lib2) ==
    /\ \A a \in Apps : lib2[a] = Absent <=> lib[a] = Absent
    /\ lib' = lib2
    /\ silent' = silent \cup {a \in Apps : lib2[a] # lib[a]}
    /\ UNCHANGED <<rev, due, news, covered, stamp, told,
                   fetchVars, catalogVars, ready, installing, refreshing>>

\* library.changed goes out with the revision of now, whether something changed or not, and the
\* log appends a catalog event.  A scan's timer may still be pending.
Publish ==
    /\ told' = rev /\ due' \in {due, FALSE}
    /\ news' = IF covered THEN Append(news, rev) ELSE news
    /\ UNCHANGED <<lib, rev, covered, stamp, silent,
                   fetchVars, catalogVars, ready, installing, refreshing>>

\* The log drops events the console has not seen.
LogTrims ==
    /\ covered /\ news # <<>>
    /\ covered' = FALSE /\ news' = <<>>
    /\ UNCHANGED <<lib, rev, due, stamp, silent, told,
                   fetchVars, catalogVars, ready, installing, refreshing>>

--------------------------------------------------------------------------------
(* The console: its session and its events.                                     *)

\* refreshCatalog begins, or begins again, with nothing.
Begin(n) ==
    /\ attempt' = n /\ pages' = 0 /\ cursor' = 0 /\ firstRev' = Unread /\ mixed' = FALSE
    /\ acc' = Nothing /\ cut' = FALSE /\ snap' = Nothing

Start ==
    /\ ~ready /\ ~installing /\ refreshing = "no"
    /\ refreshing' = "start" /\ Begin(0)
    /\ UNCHANGED <<serverVars, catalogVars, ready, installing>>

\* stop, forgetDevice and setUsb forget the cursor.
Stop ==
    /\ ~installing /\ refreshing = "no"
    /\ ready' = FALSE /\ covered' = FALSE /\ news' = <<>>
    /\ UNCHANGED <<lib, rev, due, stamp, silent, told, fetchVars, catalogVars, installing, refreshing>>

\* A poll without a cursor, or with one the log has passed, is answered with the revision of now.
Resync ==
    /\ ready /\ refreshing = "no" /\ ~covered
    /\ covered' = TRUE /\ news' = <<rev>> /\ told' = rev
    /\ UNCHANGED <<lib, rev, due, stamp, silent, fetchVars, catalogVars, ready, installing, refreshing>>

\* onEvent for a catalog event: nothing new, or for after the install, or a refresh now.
TakeEvent ==
    /\ ready /\ refreshing = "no" /\ covered /\ news # <<>>
    /\ news' = Tail(news)
    /\ \/ /\ Head(news) = catalogRev
          /\ UNCHANGED <<stale, refreshing, fetchVars>>
       \/ /\ Head(news) # catalogRev /\ installing
          /\ stale' = TRUE
          /\ UNCHANGED <<refreshing, fetchVars>>
       \/ /\ Head(news) # catalogRev /\ ~installing
          /\ refreshing' = "event" /\ Begin(0)
          /\ UNCHANGED stale
    /\ UNCHANGED <<lib, rev, due, covered, stamp, silent, told, catalog, catalogRev, dropped,
                   ready, installing>>

BeginInstall ==
    /\ ready /\ refreshing = "no" /\ ~installing
    /\ installing' = TRUE
    /\ UNCHANGED <<serverVars, fetchVars, catalogVars, ready, refreshing>>

\* The end of an install reads the catalog if an event asked for it meanwhile.
EndInstall ==
    /\ installing /\ refreshing = "no"
    /\ installing' = FALSE
    /\ IF stale THEN refreshing' = "ended" /\ Begin(0) ELSE UNCHANGED <<refreshing, fetchVars>>
    /\ UNCHANGED <<serverVars, catalogVars, ready>>

--------------------------------------------------------------------------------
(* The console: reading the catalog.                                            *)

\* The applications the catalog lists after the cursor.
Remaining == {a \in Apps : lib[a] # Absent /\ a > cursor}

\* The first Limit of them.
IsPage(page) ==
    /\ page \subseteq Remaining
    /\ \A a \in page, b \in Remaining \ page : a < b
    /\ IF page = Remaining THEN Cardinality(page) <= Limit ELSE Cardinality(page) = Limit

Read(page) == [a \in Apps |-> IF a \in page THEN lib[a] ELSE acc[a]]
First == IF firstRev = Unread THEN rev ELSE firstRev
Mixes == mixed \/ rev # First

\* A page that says there is another.
FetchPage(page, next) ==
    /\ refreshing # "no" /\ IsPage(page) /\ page # Remaining
    /\ pages + 1 < MaxPages
    /\ next \in page /\ \A a \in page : a <= next
    /\ acc' = Read(page) /\ firstRev' = First /\ mixed' = Mixes
    /\ snap' = IF firstRev = Unread THEN lib ELSE snap
    /\ pages' = pages + 1 /\ cursor' = next
    /\ UNCHANGED <<attempt, cut, serverVars, catalogVars, ready, installing, refreshing>>

\* The last page, or one too many: pages of two revisions are read again while attempts are left,
\* and what was read last becomes the catalog.
FetchLastPage(page) ==
    /\ refreshing # "no" /\ IsPage(page)
    /\ page # Remaining => pages + 1 >= MaxPages
    /\ IF Mixes /\ attempt + 1 < Attempts
       THEN /\ Begin(attempt + 1)
            /\ UNCHANGED <<catalogVars, ready, refreshing, silent>>
       ELSE /\ acc' = Read(page) /\ firstRev' = First /\ mixed' = Mixes
            /\ snap' = IF firstRev = Unread THEN lib ELSE snap
            /\ cut' = (page # Remaining)
            /\ catalog' = Read(page) /\ catalogRev' = First /\ stale' = FALSE /\ dropped' = FALSE
            /\ silent' = {a \in silent : Read(page)[a] # lib[a]}
            /\ ready' = (ready \/ refreshing = "start") /\ refreshing' = "no"
            /\ UNCHANGED <<attempt, pages, cursor>>
    /\ UNCHANGED <<lib, rev, due, news, covered, stamp, told, installing>>

\* A page does not come.  Nobody asks again for the refresh an event asked for.
FetchFails ==
    /\ refreshing # "no" /\ refreshing' = "no"
    /\ dropped' = (dropped \/ refreshing = "event")
    /\ UNCHANGED <<serverVars, fetchVars, stale, catalog, catalogRev, ready, installing>>

SyncNext ==
    \/ \E lib2 \in Library : Change(lib2) \/ SwitchPreference(lib2)
    \/ Publish \/ LogTrims
    \/ Start \/ Stop \/ Resync \/ TakeEvent \/ BeginInstall \/ EndInstall
    \/ \E page \in SUBSET Apps : FetchLastPage(page) \/ \E next \in page : FetchPage(page, next)
    \/ FetchFails

SyncSpec == SyncInit /\ [][SyncNext]_syncVars

--------------------------------------------------------------------------------
(* Properties.                                                                  *)

\* Something makes the console read the catalog again: a publication to come, a poll that starts
\* over, an event it has not taken, or a refresh it owes.  Two things make it forget: a failed
\* refresh that an event asked for, and a catalog of more pages than it reads.
WillBeRead ==
    due \/ ~covered \/ stale \/ dropped \/ \E i \in 1..Len(news) : news[i] # catalogRev

\* No change of the library is lost on the way to a console that is connected: what its catalog
\* says otherwise than the library (but for a changed preference) is on its way.
NoChangeIsMissed ==
    ready /\ refreshing = "no" =>
        \A a \in Apps \ silent : catalog[a] = lib[a] \/ WillBeRead

\* A catalog whose pages were all of one revision is the library as it was at its first page: no
\* application is listed twice, skipped or taken from another moment (but for a preference).
UnmixedIsOneMoment ==
    \A page \in SUBSET Apps :
        FetchLastPage(page) /\ refreshing' = "no" /\ ~mixed' =>
            \A a \in Apps \ silent : catalog'[a] = snap'[a]

\* The revision a console remembers never runs ahead of what it has: a later catalog event with
\* that same revision is ignored, so nothing may be missing from it.
RevisionIsCovered ==
    \A a \in Apps \ silent : catalog[a] = lib[a] \/ stamp[a] > catalogRev

\* A refresh reads every page of a library that fits its limits.
NothingIsCut == ~cut

================================================================================
