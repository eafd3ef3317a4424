-------------------------------- MODULE UiThread -------------------------------
(***************************************************************************)
(* The console's one UI thread (switch/source/app/session.cpp,             *)
(* ui/progress.cpp, ui/saves_tab.cpp) and the links it talks over          *)
(* (transport/http.cpp, transport/usb.cpp).  Every request blocks this     *)
(* thread, so while one is under way the overlay is drawn, the B button    *)
(* read and the server asked for news from inside of it: a request within  *)
(* a request.  A link's lock is not recursive, so a nested request for the *)
(* link in use would wait forever for its own thread.                      *)
(*                                                                         *)
(* Left out: what the requests say (InstallSystem, SaveBackups, AppUpdate),*)
(* the time between two ticks (PunctualConsole), and downloads from GitHub,*)
(* which use no link.                                                      *)
(***************************************************************************)
EXTENDS Integers

CONSTANT UiJobs     \* install jobs of the server

VARIABLES
    useUsb,     \* the setting
    linked,     \* the transports there are: none, "http" (one for data, one for control), "usb"
    ticks,      \* whether the overlay has a tick function
    task,       \* what the main loop runs: nothing, a quiet task, an install, a screen of saves, ...
    step,       \* how far a screen's transfer is
    outer,      \* the link whose lock the task's request holds, or "none"
    how,        \* and which call it is
    inside,     \* "tick" or "hook" while the side channel runs inside the task
    inner,      \* the link whose lock its request holds, or "none"
    pinging,    \* whether the USB ping thread has the link's lock
    taken,      \* currentJob_ while installing_, or NoJob
    due,        \* whether its delayed run waits for the main loop
    claimed,    \* pending_
    cancelling, \* cancel_
    aborted,    \* the data transport's abort_
    given,      \* whether B was pressed on this screen
    stuck,      \* whether the thread waits for a lock of its own
    askedFor,   \* history: someone cancelled the job since it was taken
    rewired,    \* history: the links were reset since then
    strayed     \* history: another screen was cancelled since then

links == <<useUsb, linked, ticks>>
calls == <<outer, how, inside, inner, stuck>>
jobs == <<taken, due, claimed, askedFor, rewired, strayed>>
flags == <<cancelling, aborted, given>>
uiVars == <<links, task, step, calls, pinging, jobs, flags>>

NoJob == 0
UiSized == NoJob \notin UiJobs

UiTypeOK ==
    /\ useUsb \in BOOLEAN /\ linked \in {"none", "http", "usb"} /\ ticks \in BOOLEAN
    /\ task \in {"none", "quiet", "install", "ending", "saves", "update", "crashed"}
    /\ step \in {"open", "cleared", "packed"}
    /\ outer \in {"none", "data", "control"} /\ how \in {"ask", "stream", "send"}
    /\ inside \in {"no", "tick", "hook"} /\ inner \in {"none", "data", "control"}
    /\ pinging \in BOOLEAN /\ taken \in UiJobs \cup {NoJob} /\ due \in BOOLEAN /\ claimed \subseteq UiJobs
    /\ cancelling \in BOOLEAN /\ aborted \in BOOLEAN /\ given \in BOOLEAN /\ stuck \in BOOLEAN
    /\ askedFor \in BOOLEAN /\ rewired \in BOOLEAN /\ strayed \in BOOLEAN

UiInit ==
    /\ useUsb \in BOOLEAN /\ linked = "none" /\ ticks = FALSE /\ task = "none" /\ step = "open"
    /\ outer = "none" /\ how = "ask" /\ inside = "no" /\ inner = "none" /\ pinging = FALSE
    /\ taken = NoJob /\ due = FALSE /\ claimed = {} /\ cancelling = FALSE /\ aborted = FALSE
    /\ given = FALSE /\ stuck = FALSE /\ askedFor = FALSE /\ rewired = FALSE /\ strayed = FALSE

--------------------------------------------------------------------------------
(* Links and requests.                                                          *)

Installing == taken # NoJob
ApiLink == IF Installing /\ linked = "http" THEN "control" ELSE "data"
Held == {outer, inner} \ {"none"}
Idle == outer = "none" /\ inside = "no"     \* the task is between two requests

\* ensureClient: makes the links there are not. Only HTTP gets a second one, and only it the tick.
EnsureClient ==
    IF linked = "none"
    THEN /\ linked' = (IF useUsb THEN "usb" ELSE "http") /\ ticks' = (ticks \/ ~useUsb)
         /\ UNCHANGED useUsb
    ELSE UNCHANGED links

\* A request locks its link first. The ping thread's turn is waited for.
Ask(link, kind) ==
    /\ link = "data" => ~pinging
    /\ IF link \in Held THEN stuck' = TRUE /\ UNCHANGED <<outer, how, inside, inner>>
       ELSE /\ outer' = IF inside = "no" THEN link ELSE outer
            /\ how' = IF inside = "no" THEN kind ELSE how
            /\ inner' = IF inside = "no" THEN inner ELSE link
            /\ UNCHANGED <<inside, stuck>>

Answer ==
    /\ outer # "none" /\ inside = "no" /\ outer' = "none"
    /\ UNCHANGED <<links, task, step, how, inside, inner, stuck, pinging, jobs, flags>>

SideAnswer ==
    /\ inner # "none" /\ inner' = "none"
    /\ UNCHANGED <<links, task, step, outer, how, inside, stuck, pinging, jobs, flags>>

\* resetConnection: the old transports go (a ping's thread is joined), and with them an abort.
ResetConnection ==
    /\ linked' = "none" /\ ticks' = FALSE /\ aborted' = FALSE /\ cancelling' = TRUE /\ pinging' = FALSE
    /\ rewired' = TRUE

PingBegins ==
    /\ linked = "usb" /\ "data" \notin Held /\ ~pinging /\ pinging' = TRUE
    /\ UNCHANGED <<links, task, step, calls, jobs, flags>>

PingEnds ==
    /\ pinging /\ pinging' = FALSE /\ UNCHANGED <<links, task, step, calls, jobs, flags>>

--------------------------------------------------------------------------------
(* Jobs.                                                                        *)

\* pump: takes the next job, clears every trace of a cancel, and leaves its run to the main loop.
PumpWith(queue, current) ==
    IF current # NoJob \/ queue = {}
    THEN taken' = current /\ claimed' = queue /\ UNCHANGED <<due, cancelling, aborted, askedFor, rewired, strayed>>
    ELSE \E j \in queue :
             /\ taken' = j /\ claimed' = queue \ {j} /\ due' = TRUE /\ cancelling' = FALSE /\ aborted' = FALSE
             /\ askedFor' = FALSE /\ rewired' = FALSE /\ strayed' = FALSE

\* Where the thread handles events and taps: in a quiet task, or in the side channel of an install.
Between == (task = "quiet" /\ Idle) \/ (inside # "no" /\ inner = "none")

\* claimAndInstall, queueInstall: a job the console does not hold was claimed.
TakeJob(j) ==
    /\ Between /\ linked # "none" /\ j # taken /\ j \notin claimed
    /\ PumpWith(claimed \cup {j}, taken)
    /\ UNCHANGED <<links, task, step, calls, pinging, given>>

\* cancelJob: the current job's transfer is aborted; a waiting one is dropped and reported.
CancelJob(j) ==
    /\ Between /\ linked # "none" /\ j \in claimed \cup {taken}
    /\ claimed' = claimed \ {j}
    /\ IF j = taken THEN cancelling' = TRUE /\ aborted' = TRUE /\ askedFor' = TRUE
                    ELSE UNCHANGED <<cancelling, aborted, askedFor>>
    /\ IF j \in claimed THEN Ask(ApiLink, "ask") ELSE UNCHANGED calls
    /\ UNCHANGED <<links, task, step, pinging, taken, due, rewired, strayed, given>>

--------------------------------------------------------------------------------
(* The main loop.                                                               *)

\* A poll, the session's start, a tap in the library or in the queue: tasks with no overlay.
BeginQuiet ==
    /\ task = "none" /\ task' = "quiet" /\ EnsureClient
    /\ UNCHANGED <<step, calls, pinging, jobs, flags>>

\* Most calls go by apiClient; hello and the catalog take the data link.
QuietAsk ==
    /\ task = "quiet" /\ Idle /\ \E link \in {ApiLink, "data"} : Ask(link, "ask")
    /\ UNCHANGED <<links, task, step, pinging, jobs, flags>>

EndQuiet ==
    /\ task = "quiet" /\ Idle /\ task' = "none"
    /\ UNCHANGED <<links, step, calls, pinging, jobs, flags>>

\* setUrl and setUsb from a screen, forgetDevice from the settings or from a task refused as unpaired.
Reset(usb) ==
    /\ task \in {"none", "quiet"} /\ Idle /\ task' = "none" /\ useUsb' = usb /\ ResetConnection
    /\ UNCHANGED <<step, calls, taken, due, claimed, askedFor, strayed, given>>

--------------------------------------------------------------------------------
(* Installs.                                                                    *)

RunInstall ==
    /\ task = "none" /\ due /\ due' = FALSE /\ task' = "install"
    /\ UNCHANGED <<links, step, calls, pinging, taken, claimed, askedFor, rewired, strayed, flags>>

\* runInstall dereferences client_ without asking ensureClient for it.
InstallCrashes ==
    /\ task = "install" /\ linked = "none" /\ task' = "crashed"
    /\ UNCHANGED <<links, step, calls, pinging, jobs, flags>>

\* The engine's ranged downloads refuse to begin while an abort stands.
InstallStreams ==
    /\ task = "install" /\ Idle /\ linked # "none" /\ ~aborted /\ Ask("data", "stream")
    /\ UNCHANGED <<links, task, step, pinging, jobs, flags>>

\* complete and the new state, after the engine.
InstallReports ==
    /\ task = "install" /\ Idle /\ linked # "none" /\ Ask(ApiLink, "ask")
    /\ UNCHANGED <<links, task, step, pinging, jobs, flags>>

\* The overlay goes; a stale catalog is fetched, then the next job is taken.
InstallEnds ==
    /\ task = "install" /\ Idle /\ linked # "none" /\ task' = "ending" /\ taken' = NoJob
    /\ UNCHANGED <<links, step, calls, pinging, due, claimed, askedFor, rewired, strayed, flags>>

FetchStaleCatalog ==
    /\ task = "ending" /\ Idle /\ Ask("data", "ask")
    /\ UNCHANGED <<links, task, step, pinging, jobs, flags>>

PumpNext ==
    /\ task = "ending" /\ Idle /\ task' = "none" /\ PumpWith(claimed, NoJob)
    /\ UNCHANGED <<links, step, calls, pinging, given>>

--------------------------------------------------------------------------------
(* Screens with an overlay and a cancel of their own.                           *)

\* Both clear an old abort: an update before its overlay is up, saves with it up (ClearTransfer).
BeginUpdate ==
    /\ task = "none" /\ task' = "update" /\ EnsureClient /\ aborted' = FALSE /\ given' = FALSE
    /\ UNCHANGED <<step, calls, pinging, jobs, cancelling>>

BeginSaves ==
    /\ task = "none" /\ task' = "saves" /\ step' = "open" /\ given' = FALSE
    /\ UNCHANGED <<links, calls, pinging, jobs, cancelling, aborted>>

\* backupSave and restoreSave, which refuse while installing.
ClearTransfer ==
    /\ task = "saves" /\ Idle /\ ~Installing /\ EnsureClient /\ aborted' = FALSE /\ step' = "cleared"
    /\ UNCHANGED <<task, calls, pinging, jobs, cancelling, given>>

\* The first report of reading or of downloading, which throws once B was pressed.
FirstReport ==
    /\ task = "saves" /\ Idle /\ step = "cleared" /\ ~given /\ step' = "packed"
    /\ UNCHANGED <<links, task, calls, pinging, jobs, flags>>

Transfer(kind) ==
    /\ task = "saves" /\ Idle /\ step = "packed" /\ linked # "none" /\ ~aborted /\ Ask("data", kind)
    /\ UNCHANGED <<links, task, step, pinging, jobs, flags>>

ListSaves ==
    /\ task = "saves" /\ Idle /\ linked # "none" /\ Ask(ApiLink, "ask")
    /\ UNCHANGED <<links, task, step, pinging, jobs, flags>>

UpdateAsks(kind) ==
    /\ task = "update" /\ Idle /\ Ask("data", kind)
    /\ kind = "stream" => ~aborted
    /\ UNCHANGED <<links, task, step, pinging, jobs, flags>>

ScreenEnds ==
    /\ task \in {"saves", "update"} /\ Idle /\ task' = "none" /\ step' = "open" /\ given' = FALSE
    /\ UNCHANGED <<links, calls, pinging, jobs, cancelling, aborted>>

--------------------------------------------------------------------------------
(* What happens inside of a request.                                            *)

Visible == task \in {"install", "saves", "update"}

\* pumpProgressUi leaves the tick out below HTTP's small calls; over USB there is none to run. The
\* tick of a console that installs nothing returns at once.
Tick ==
    /\ Visible /\ inside = "no" /\ ticks /\ Installing
    /\ outer = "none" \/ how # "ask" \/ linked = "usb"
    /\ inside' = "tick"
    /\ UNCHANGED <<links, task, step, outer, how, inner, stuck, pinging, jobs, flags>>

\* Over USB the side channel runs between two chunks, with the lock let go of.
ChunkHook ==
    /\ task = "install" /\ Idle /\ linked = "usb" /\ inside' = "hook"
    /\ UNCHANGED <<links, task, step, outer, how, inner, stuck, pinging, jobs, flags>>

SideAsk ==
    /\ inside # "no" /\ inner = "none" /\ Ask(ApiLink, "ask")
    /\ UNCHANGED <<links, task, step, pinging, jobs, flags>>

SideEnds ==
    /\ inside # "no" /\ inner = "none" /\ inside' = "no"
    /\ UNCHANGED <<links, task, step, outer, how, inner, stuck, pinging, jobs, flags>>

\* B, or the system closing the app, seen by a pump: nothing is drawn below a tick. On an install it
\* is cancelJob of the current job, which would report a waiting job of that number right there.
Press ==
    /\ Visible /\ inside # "tick" /\ aborted' = (linked # "none")
    /\ IF task = "install"
       THEN /\ cancelling' = TRUE /\ askedFor' = TRUE /\ claimed' = claimed \ {taken}
            /\ stuck' = (taken \in claimed /\ ApiLink \in Held)
            /\ UNCHANGED <<given, strayed>>
       ELSE /\ given' = TRUE /\ strayed' = TRUE /\ UNCHANGED <<cancelling, askedFor, claimed, stuck>>
    /\ UNCHANGED <<links, task, step, outer, how, inside, inner, pinging, taken, due, rewired>>

UiNext ==
    \/ /\ ~stuck
       /\ \/ Answer \/ SideAnswer \/ BeginQuiet \/ QuietAsk \/ EndQuiet
          \/ \E usb \in BOOLEAN : Reset(usb)
          \/ \E j \in UiJobs : TakeJob(j) \/ CancelJob(j)
          \/ RunInstall \/ InstallCrashes \/ InstallStreams \/ InstallReports \/ InstallEnds
          \/ FetchStaleCatalog \/ PumpNext
          \/ BeginUpdate \/ BeginSaves \/ ClearTransfer \/ FirstReport \/ ListSaves \/ ScreenEnds
          \/ \E kind \in {"stream", "send"} : Transfer(kind)
          \/ \E kind \in {"ask", "stream"} : UpdateAsks(kind)
          \/ Tick \/ ChunkHook \/ SideAsk \/ SideEnds \/ Press
    \/ PingBegins \/ PingEnds

UiSpec == UiInit /\ [][UiNext]_uiVars

--------------------------------------------------------------------------------
(* Properties.                                                                  *)

\* The UI thread never waits for a link it holds itself, however a request, a tick, a chunk hook and
\* a press nest (the comments of http.cpp:73 and progress.hpp:25).
NeverWaitsForItself == ~stuck

\* A link in use is there: no reset takes a transport away from under a request, and what runs on
\* the control link does so over HTTP only.
LinksInUseStay ==
    /\ Held # {} => linked # "none"
    /\ "control" \in Held => linked = "http"
    /\ pinging => linked = "usb" /\ "data" \notin Held

\* A cancel of the current job is not lost until the job ends, whatever else clears aborts.
CancelsReachTheirJob == Installing /\ askedFor => cancelling

\* A job that reads a cancel was cancelled itself, or lost its links, or another screen was
\* cancelled, since it was taken (session.cpp:604).
CancelsStayWithTheirJob ==
    Installing => (cancelling => askedFor \/ rewired) /\ (aborted => askedFor \/ strayed)

\* A save whose transfer goes on after B was pressed has its transport aborted.
CancelledSavesStop == task = "saves" /\ step = "packed" /\ given => aborted

\* An install finds no client only when the links were reset between taking and running it.
CrashesAreResets == task = "crashed" => rewired
================================================================================
