-------------------------------- MODULE Desktop --------------------------------
(***************************************************************************)
(* The desktop program (electron/src/main.ts): one process at a time runs  *)
(* the server, on the port of desktop.json or one after it, with a window  *)
(* that hides instead of closing, a tray menu refreshed at intervals, and  *)
(* a quit that closes the server first.  Starting takes several awaits; a  *)
(* second launch, a quit and the server's events may come at any of them.  *)
(***************************************************************************)
EXTENDS Integers

CONSTANTS
    PortAttempts,   \* ports tried, from the saved one on
    MaxPort,        \* 65535
    DefaultPort,
    NoSettings          \* desktop.json cannot be read

VARIABLES
    deskFile,   \* desktop.json
    desk,       \* the process's copy
    boot,       \* how far the start is: "off", "creating", "listening", "starting", "ready" or "failed"
    tries,      \* ports tried
    deskPort,   \* port
    foreign,    \* ports other programs listen on
    house,      \* the server: "none", "up", "closing"
    quitting,   \* whether a quit was asked for: windows may close
    closed,     \* whether will-quit has begun to close the server
    page,       \* what the window loaded: "none" (no window), "ours", or "other"
    hidden,     \* whether the window is hidden
    fresh,      \* whether the tray menu shows what there is
    pending,    \* whether its timer runs
    seenBusy,   \* history: ports this start found in use
    hurried,    \* history: a window was opened before the server listened
    silent,     \* history: something the menu shows changed with no event since its last refresh
    torn,       \* history: the process ended with the server still up
    twice       \* history: a quit came after another one, or while the server was being made

bootVars == <<desk, boot, tries, deskPort, seenBusy>>
quitVars == <<house, quitting, closed, torn, twice>>
windowVars == <<page, hidden, hurried>>
trayVars == <<fresh, pending, silent>>
deskVars == <<deskFile, foreign, bootVars, quitVars, windowVars, trayVars>>

DeskSized ==
    /\ PortAttempts \in Nat \ {0} /\ MaxPort \in Nat /\ DefaultPort \in 1 .. MaxPort
    /\ NoSettings \notin [port : Int, lan : BOOLEAN]

DeskSettings == [port : 1 .. MaxPort, lan : BOOLEAN]

DeskTypeOK ==
    /\ deskFile \in [port : Int, lan : BOOLEAN] \cup {NoSettings} /\ desk \in DeskSettings
    /\ boot \in {"off", "creating", "listening", "starting", "ready", "failed"}
    /\ tries \in 0 .. PortAttempts /\ deskPort \in 1 .. MaxPort /\ foreign \subseteq Int
    /\ house \in {"none", "up", "closing"} /\ quitting \in BOOLEAN /\ closed \in BOOLEAN
    /\ page \in {"none", "ours", "other"} /\ hidden \in BOOLEAN /\ fresh \in BOOLEAN /\ pending \in BOOLEAN
    /\ seenBusy \subseteq Int /\ hurried \in BOOLEAN /\ silent \in BOOLEAN /\ torn \in BOOLEAN /\ twice \in BOOLEAN

\* loadDesktopSettings: a file that cannot be read gives the defaults, a bad port the default one.
Loaded(file) ==
    IF file = NoSettings THEN [port |-> DefaultPort, lan |-> FALSE]
    ELSE [file EXCEPT !.port = IF @ \in 1 .. MaxPort THEN @ ELSE DefaultPort]

DeskInit ==
    /\ deskFile \in [port : 0 .. MaxPort, lan : BOOLEAN] \cup {NoSettings} /\ desk = Loaded(NoSettings) /\ boot = "off" /\ tries = 0 /\ deskPort = DefaultPort
    /\ foreign = {} /\ house = "none" /\ quitting = FALSE /\ closed = FALSE
    /\ page = "none" /\ hidden = FALSE /\ fresh = FALSE /\ pending = FALSE /\ seenBusy = {}
    /\ hurried = FALSE /\ silent = FALSE /\ torn = FALSE /\ twice = FALSE

--------------------------------------------------------------------------------
(* Starting.                                                                    *)

\* A process that gets the single instance's lock reads its settings and makes the server.
Launch ==
    /\ boot = "off" /\ boot' = "creating" /\ desk' = Loaded(deskFile) /\ deskPort' = desk'.port
    /\ tries' = 0 /\ seenBusy' = {} /\ quitting' = FALSE /\ closed' = FALSE
    /\ hurried' = FALSE /\ torn' = FALSE /\ twice' = FALSE
    /\ UNCHANGED <<deskFile, foreign, house, page, hidden, trayVars>>

CreateServer ==
    /\ boot = "creating" /\ boot' = "listening" /\ house' = "up"
    /\ UNCHANGED <<deskFile, foreign, desk, tries, deskPort, seenBusy, quitting, closed, torn, twice,
                   windowVars, trayVars>>

Candidate == desk.port + tries

PortIsBusy ==
    /\ boot = "listening" /\ house = "up" /\ Candidate \in foreign /\ tries < PortAttempts
    /\ tries' = tries + 1 /\ seenBusy' = seenBusy \cup {Candidate}
    /\ UNCHANGED <<deskFile, foreign, desk, boot, deskPort, quitVars, windowVars, trayVars>>

\* The port is saved before anything else, so that paired consoles find it at the next start.
Listens ==
    /\ boot = "listening" /\ house = "up" /\ tries < PortAttempts /\ Candidate \notin foreign /\ Candidate <= MaxPort
    /\ boot' = "starting" /\ deskPort' = Candidate /\ desk' = [desk EXCEPT !.port = Candidate]
    /\ deskFile' = IF Candidate = desk.port THEN deskFile ELSE desk'
    /\ UNCHANGED <<foreign, tries, seenBusy, quitVars, windowVars, trayVars>>

\* All in use, no such port, or a server that is being closed: a message, and the process gives up.
ListenFails ==
    /\ boot = "listening" /\ (tries = PortAttempts \/ Candidate > MaxPort \/ house = "closing")
    /\ boot' = "failed" /\ house' = "closing"
    /\ UNCHANGED <<deskFile, foreign, desk, tries, deskPort, seenBusy, quitting, closed, torn, twice,
                   windowVars, trayVars>>

\* showWindow loads the page of `port`, which is a guess until the server listens. A window there is
\* is only brought to the front.
Opens ==
    /\ page' = IF page # "none" THEN page ELSE IF boot \in {"starting", "ready"} THEN "ours" ELSE "other"
    /\ hidden' = FALSE
    /\ hurried' = (hurried \/ (page = "none" /\ boot \notin {"starting", "ready"}))

\* The server started, the owner's cookie is set; the window opens and the tray is built.
StartDone ==
    /\ boot = "starting" /\ boot' = "ready" /\ Opens /\ fresh' = FALSE /\ pending' = TRUE /\ silent' = FALSE
    /\ UNCHANGED <<deskFile, foreign, desk, tries, deskPort, seenBusy, quitVars>>

--------------------------------------------------------------------------------
(* The window and the tray.                                                     *)

\* The tray's entry, its icon, or a second launch, which is told to the first and ends.
OpenWindow ==
    /\ boot # "off" /\ Opens /\ UNCHANGED <<deskFile, foreign, bootVars, quitVars, trayVars>>

CloseWindow ==
    /\ page # "none" /\ ~hidden
    /\ IF quitting THEN page' = "none" /\ UNCHANGED hidden ELSE hidden' = TRUE /\ UNCHANGED page
    /\ UNCHANGED <<deskFile, foreign, bootVars, quitVars, hurried, trayVars>>

\* A device or job changes. Going offline has no event.
MenuChanges(heard) ==
    /\ boot = "ready" /\ fresh' = FALSE /\ pending' = (pending \/ heard) /\ silent' = (silent \/ ~heard)
    /\ UNCHANGED <<deskFile, foreign, bootVars, quitVars, windowVars>>

TrayPolls ==
    /\ boot = "ready" /\ pending' = TRUE
    /\ UNCHANGED <<deskFile, foreign, bootVars, quitVars, windowVars, fresh, silent>>

\* The timer's menu is of now; an event from here on starts another timer.
TrayRefreshes ==
    /\ boot = "ready" /\ pending /\ pending' = FALSE /\ fresh' = TRUE /\ silent' = FALSE
    /\ UNCHANGED <<deskFile, foreign, bootVars, quitVars, windowVars>>

\* The choice is saved at once, and applied at the next start: now or later.
SetAllowLan(lan) ==
    /\ boot = "ready" /\ desk' = [desk EXCEPT !.lan = lan] /\ deskFile' = desk'
    /\ fresh' = FALSE /\ silent' = TRUE
    /\ UNCHANGED <<foreign, boot, tries, deskPort, seenBusy, quitVars, windowVars, pending>>

--------------------------------------------------------------------------------
(* Quitting.                                                                    *)

Exits ==
    /\ boot' = "off" /\ house' = "none" /\ page' = "none" /\ hidden' = FALSE
    /\ fresh' = FALSE /\ pending' = FALSE /\ silent' = FALSE
    /\ UNCHANGED <<deskFile, foreign, desk, tries, deskPort, seenBusy, hurried>>

\* Quit, or a restart for a changed setting, closes the windows and asks will-quit, which holds the
\* exit back the first time there is a server. A second quit, or one before the server is assigned,
\* goes through.
AskQuit ==
    /\ boot # "off" /\ quitting' = TRUE /\ twice' = (twice \/ quitting \/ house = "none")
    /\ IF closed \/ house = "none"
       THEN Exits /\ torn' = TRUE /\ UNCHANGED closed
       ELSE /\ closed' = TRUE /\ house' = "closing" /\ page' = "none" /\ hidden' = FALSE
            /\ UNCHANGED <<deskFile, foreign, bootVars, hurried, trayVars, torn>>

\* The server is closed, whether or not that went well, and quits again; or the failed start exits.
CloseEnds ==
    /\ house = "closing" /\ (closed \/ boot = "failed") /\ Exits /\ torn' = FALSE
    /\ UNCHANGED <<quitting, closed, twice>>

\* Another program takes a port or lets go of it.
PortsChange(p) ==
    /\ p # deskPort \/ boot \notin {"starting", "ready"}
    /\ foreign' = IF p \in foreign THEN foreign \ {p} ELSE foreign \cup {p}
    /\ UNCHANGED <<deskFile, bootVars, quitVars, windowVars, trayVars>>

DeskNext ==
    \/ Launch \/ CreateServer \/ PortIsBusy \/ Listens \/ ListenFails \/ StartDone
    \/ OpenWindow \/ CloseWindow \/ TrayPolls \/ TrayRefreshes \/ AskQuit \/ CloseEnds
    \/ \E heard \in BOOLEAN : MenuChanges(heard) \/ SetAllowLan(heard)
    \/ \E p \in 1 .. MaxPort : PortsChange(p)

DeskSpec == DeskInit /\ [][DeskNext]_deskVars

--------------------------------------------------------------------------------
(* Properties.                                                                  *)

\* A server that listens does so on the port the next start will try first.
PortIsKept == boot \in {"starting", "ready"} => Loaded(deskFile).port = deskPort

FirstPort == IF boot \in {"starting", "ready"} THEN deskPort - tries ELSE desk.port

\* A start moves to another port only past ports it found in use (main.ts:29).
PortMovesPastBusyOnes ==
    boot # "off" => \A p \in FirstPort .. FirstPort + tries - 1 : p \in seenBusy

\* The process ends with the server closed (main.ts:317), unless a quit came twice or too early.
ExitsAreClean == torn => twice

\* The window of a program that is up shows the library, unless it was opened before it listened.
WindowIsOurs == boot \in {"starting", "ready"} /\ page = "other" => hurried

\* A menu that is out of date is about to be refreshed, unless the change had no event.
MenuIsComing == boot = "ready" /\ ~fresh => pending \/ silent
================================================================================
