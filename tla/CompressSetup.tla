----------------------------- MODULE CompressSetup -----------------------------
(***************************************************************************)
(* Where NSZ files are saved and how they are made: the settings of        *)
(* CompressService (library/compress-service.ts), which looks at the disk  *)
(* at every await, and the part of web/pages/CompressionPage.tsx that sets *)
(* them.  The page shows the settings' last answer, the suggested folders' *)
(* last answer and a form; requests and answers pass each other.           *)
(***************************************************************************)
EXTENDS Integers, FiniteSets

CONSTANTS
    Texts,        \* what can be typed as a folder, trimmed
    Blank,        \* nothing
    Absolute,     \* those that are full paths
    Real,         \* realpath: what each of them stands for
    Dirname,      \* the folder each of them is in
    Roots,        \* library folders
    NszIn,        \* the "NSZ" folder in each
    Rank,         \* listRoots: in which order they are listed
    Levels,       \* zstd levels
    Offered,      \* COMPRESS_LEVELS
    Slots,        \* requests that may be under way
    Other,        \* the choice of another folder
    None

Problems == {"no keys", "not chosen", "not a full path", "not found", "a file", "read-only", "fine"}
Stages == {"making", "checking", "reading", "judging", "answered", "refused"}

\* CompressSettings, CompressFolderOption and CompressSettingsPatch of shared/web-api.ts.
Answers == [dir : Absolute \cup {None}, keys : BOOLEAN, level : Levels, remove : BOOLEAN,
            inLibrary : BOOLEAN, problem : Problems \cup {"unknown"}]
Options == [path : Absolute, root : Roots, exists : BOOLEAN, writable : BOOLEAN]
Patches == [dir : Texts \cup {None}, create : BOOLEAN, level : Levels \cup {None},
            remove : BOOLEAN \cup {None}]
Requests == [kind : {"get", "put", "folders"}, patch : Patches, at : Stages,
             settings : Answers \cup {None}, folders : (SUBSET Options) \cup {None}]
Forms == [choice : Texts \cup {Other, None}, typed : Texts \cup {None}, put : Slots \cup {None},
          failed : Texts \cup {None}, browsing : BOOLEAN, reread : BOOLEAN, browsed : BOOLEAN]

SetupSized ==
    /\ Blank \in Texts \ Absolute /\ Absolute \subseteq Texts /\ Offered \subseteq Levels
    /\ Real \in [Absolute -> Absolute] /\ \A p \in Absolute : Real[Real[p]] = Real[p]
    /\ Dirname \in [Absolute -> Absolute] /\ Roots \subseteq Absolute
    /\ NszIn \in [Roots -> Absolute \ Roots] /\ \A r \in Roots : Dirname[NszIn[r]] = r
    /\ Rank \in [Roots -> Nat] /\ \A r, s \in Roots : Rank[r] = Rank[s] => r = s
    /\ Other \notin Texts /\ None \notin Texts \cup Slots \cup Levels \cup BOOLEAN \cup {Other}
    /\ None \notin Answers /\ (\A opts \in SUBSET Options : opts # None) /\ None \notin Requests /\ None \notin Forms

VARIABLES
    disk,         \* what is at each real path
    canWrite,     \* where the server can write
    enabled,      \* library folders that are enabled
    keysReady,    \* prod.keys with a header key are loaded
    setting,      \* the settings in the database
    requests,     \* those of this page that are under way
    shown,        \* the settings the page has, or None
    options,      \* the folders suggested to it, or None
    form,         \* FolderChooser's state, or None where there is none
    editing,      \* SettingsSummary is open
    tuning,       \* the request of its level and switch, or None
    suggested,    \* history: folders an answer called missing
    made,         \* history: folders the server made for this page
    overlapped,   \* history: a change was asked for while another request was under way
    elsewhere     \* history: another page changed the settings

world == <<disk, canWrite, enabled, keysReady>>
page == <<shown, options, form, editing, tuning, suggested>>
setupHistory == <<made, overlapped, elsewhere>>
setupVars == <<disk, canWrite, enabled, keysReady, setting, requests, shown, options, form, editing, tuning,
          suggested, made, overlapped, elsewhere>>

--------------------------------------------------------------------------------
(* The server.                                                                  *)

Kinds == {"missing", "file", "folder"}
Settings == [dir : Absolute \cup {None}, level : Levels, remove : BOOLEAN]
Exists(p) == disk[Real[p]] # "missing"
CanWrite(p) == Exists(p) /\ Real[p] \in canWrite
Writable(p) == disk[Real[p]] = "folder" /\ CanWrite(p)

\* #checkOutputDir: why a folder cannot be used, or "fine".
CheckOutputDir(text) ==
    IF text \notin Absolute THEN "not a full path"
    ELSE IF ~Exists(text) THEN "not found"
    ELSE IF disk[Real[text]] = "file" THEN "a file"
    ELSE IF ~Writable(text) THEN "read-only" ELSE "fine"

\* #problem, of the folder and keys that were read.
Problem(answer) ==
    IF ~answer.keys THEN "no keys" ELSE IF answer.dir = None THEN "not chosen" ELSE CheckOutputDir(answer.dir)

\* settings(), up to its await, as an answer in the making.
Contains(root, p) == p = root \/ Dirname[p] = root
Read == [dir |-> setting.dir, keys |-> keysReady, level |-> setting.level, remove |-> setting.remove,
         inLibrary |-> setting.dir # None /\ \E r \in enabled : Contains(r, setting.dir),
         problem |-> "unknown"]

\* folderOptions: each library folder and the one suggested inside it.
FolderOptions ==
    {[path |-> NszIn[r], root |-> r, exists |-> Exists(NszIn[r]),
      writable |-> CanWrite(IF Exists(NszIn[r]) THEN NszIn[r] ELSE r)] : r \in enabled}
    \cup {[path |-> r, root |-> r, exists |-> TRUE, writable |-> CanWrite(r)] : r \in enabled}

\* The order they come in, among those that can be written to.
Precedes(o, p) == Rank[o.root] < Rank[p.root] \/ (o.root = p.root /\ o.path # o.root)
FirstWritable(opts) ==
    CHOOSE p \in {o.path : o \in {q \in opts : q.writable}} :
        \E o \in opts : /\ o.path = p /\ o.writable
                        /\ \A q \in opts : q.writable => q = o \/ Precedes(o, q)

--------------------------------------------------------------------------------
(* The page.                                                                    *)

Ready == shown # None /\ shown.problem = "fine"

\* FolderChooser: what was picked and typed, the request its mutation waits for, the folder whose
\* refusal it shows, and whether its folder dialog is open. History: the folders were read again since
\* one was picked; the dialog filled one in since the mutation was last started or forgotten.
Fresh == [choice |-> None, typed |-> None, put |-> None, failed |-> None, browsing |-> FALSE,
          reread |-> FALSE, browsed |-> FALSE]
\* put.reset(): the mutation is forgotten, though its request goes on and its answer is still taken.
ResetPut(f) == [f EXCEPT !.put = None, !.failed = None, !.browsed = FALSE]
KnownFolder == shown.dir # None /\ \E o \in options : o.path = shown.dir
Selected ==
    IF form.choice # None THEN form.choice
    ELSE IF shown.dir # None THEN (IF KnownFolder THEN shown.dir ELSE Other)
    ELSE IF \E o \in options : o.writable THEN FirstWritable(options) ELSE Other
OtherPath ==
    IF form.typed # None THEN form.typed ELSE IF KnownFolder \/ shown.dir = None THEN Blank ELSE shown.dir
ChosenFolder == IF Selected = Other THEN OtherPath ELSE Selected
Create == \E o \in options : o.path = ChosenFolder /\ ~o.exists

\* What the page shows is one of these, each with a chooser of its own.
View == IF shown = None THEN "nothing" ELSE IF Ready THEN "summary" ELSE "steps"

\* SetupSteps: which of the two are done.
KeysDone == shown.keys
FolderReady == shown.dir # None /\ shown.problem = "fine"

\* The select of SettingsSummary shows a level it does not offer as well.
LevelChoices == Offered \cup {shown.level}

--------------------------------------------------------------------------------
(* Requests.                                                                    *)

FolderPatch(dir, create) == [dir |-> dir, create |-> create, level |-> None, remove |-> None]
TunePatch(level, remove) == [dir |-> None, create |-> FALSE, level |-> level, remove |-> remove]
NoPatch == TunePatch(None, None)
Request(kind, patch, at) == 
    [kind |-> kind, patch |-> patch, at |-> at, settings |-> None, folders |-> None]
Under(kinds) == {s \in Slots : requests[s] # None /\ requests[s].kind \in kinds}
Sent(s, kind, patch, at) ==
    /\ requests[s] = None /\ requests' = [requests EXCEPT ![s] = Request(kind, patch, at)]
    /\ overlapped' = (overlapped \/ (kind = "put" /\ Under({"get", "put"}) # {})
                                 \/ (kind = "get" /\ Under({"put"}) # {}))

SetupInit ==
    /\ disk \in [Absolute -> Kinds] /\ canWrite \in SUBSET Absolute /\ enabled \in SUBSET Roots
    /\ keysReady \in BOOLEAN
    /\ setting \in [dir : {None}, level : Levels, remove : {FALSE}]
    /\ requests = [s \in Slots |-> None] /\ shown = None /\ options = None /\ form = None
    /\ editing = FALSE /\ tuning = None /\ suggested = {} /\ made = {}
    /\ overlapped = FALSE /\ elsewhere = FALSE

\* The queries, and again whenever the library changes.
FetchSettings(s) ==
    /\ Sent(s, "get", NoPatch, "reading")
    /\ UNCHANGED <<world, setting, page, made, elsewhere>>
FetchFolders(s) ==
    /\ Sent(s, "folders", NoPatch, "reading")
    /\ UNCHANGED <<world, setting, page, made, elsewhere>>

\* The form. Only a folder the server can write to can be picked.
Choosing == form # None /\ options # None
Pick(choice) ==
    /\ Choosing /\ choice # Selected
    /\ choice = Other \/ \E o \in options : o.path = choice /\ o.writable
    /\ form' = [ResetPut(form) EXCEPT !.choice = choice, !.reread = FALSE]
    /\ UNCHANGED <<world, setting, requests, shown, options, editing, tuning, suggested, setupHistory>>
Type(text) ==
    /\ Choosing /\ Selected = Other /\ form' = [ResetPut(form) EXCEPT !.typed = text]
    /\ UNCHANGED <<world, setting, requests, shown, options, editing, tuning, suggested, setupHistory>>
\* "Browse..." of the desktop program: its dialog stops nobody from going on, and may be opened again.
Browse ==
    /\ Choosing /\ Selected = Other /\ form' = [form EXCEPT !.browsing = TRUE]
    /\ UNCHANGED <<world, setting, requests, shown, options, editing, tuning, suggested, setupHistory>>
Browsed(picked) == IF picked = None THEN form ELSE [form EXCEPT !.typed = picked, !.browsed = TRUE]
BrowseEnds(picked) ==
    /\ form # None /\ form.browsing
    /\ \E more \in BOOLEAN : form' = [Browsed(picked) EXCEPT !.browsing = more]
    /\ UNCHANGED <<world, setting, requests, shown, options, editing, tuning, suggested, setupHistory>>
Submit(s) ==
    /\ Choosing /\ form.put = None /\ ChosenFolder # Blank
    /\ Sent(s, "put", FolderPatch(ChosenFolder, Create), "making")
    /\ form' = [ResetPut(form) EXCEPT !.put = s]
    /\ UNCHANGED <<world, setting, shown, options, editing, tuning, suggested, made, elsewhere>>

\* SettingsSummary.
Edit ==
    /\ View = "summary" /\ editing' = ~editing /\ form' = IF editing THEN None ELSE Fresh
    /\ UNCHANGED <<world, setting, requests, shown, options, tuning, suggested, setupHistory>>
Tune(s, patch) ==
    /\ View = "summary" /\ editing /\ tuning = None
    /\ Sent(s, "put", patch, "making") /\ tuning' = s
    /\ UNCHANGED <<world, setting, shown, options, form, editing, suggested, made, elsewhere>>
SetLevel(s) == \E l \in Offered : Tune(s, TunePatch(l, None))
SetRemove(s) ==
    /\ View = "summary"
    /\ \E remove \in BOOLEAN \ {shown.remove} : Tune(s, TunePatch(None, remove))

--------------------------------------------------------------------------------
(* updateSettings, await by await.                                              *)

Step(s, at) == requests[s] # None /\ requests[s].at = at
Goes(s, at) == requests' = [requests EXCEPT ![s].at = at]
Refused(s) == Goes(s, "refused")

\* #createFolder: one missing folder, inside one that exists.
MakeFolder(s) ==
    /\ Step(s, "making")
    /\ LET p == requests[s].patch
       IN  IF ~p.create \/ p.dir \notin Absolute \/ Exists(p.dir)
           THEN Goes(s, "checking") /\ UNCHANGED <<disk, canWrite, made>>
           ELSE IF Writable(Dirname[p.dir])
           THEN /\ Goes(s, "checking") /\ disk' = [disk EXCEPT ![Real[p.dir]] = "folder"]
                /\ canWrite' = canWrite \cup {Real[p.dir]} /\ made' = made \cup {p.dir}
           ELSE Refused(s) /\ UNCHANGED <<disk, canWrite, made>>
    /\ UNCHANGED <<enabled, keysReady, setting, page, overlapped, elsewhere>>

\* The folder is checked and all that is asked for is stored.
Store(s) ==
    /\ Step(s, "checking")
    /\ LET p == requests[s].patch
       IN  IF p.dir # None /\ CheckOutputDir(p.dir) # "fine"
           THEN Refused(s) /\ UNCHANGED setting
           ELSE /\ setting' = [dir |-> IF p.dir = None THEN setting.dir ELSE Real[p.dir],
                               level |-> IF p.level = None THEN setting.level ELSE p.level,
                               remove |-> IF p.remove = None THEN setting.remove ELSE p.remove]
                /\ Goes(s, "reading")
    /\ UNCHANGED <<world, page, setupHistory>>

\* settings() and folderOptions read what there is; the folder is looked at after that.
ReadAnswer(s) ==
    /\ Step(s, "reading")
    /\ requests' = IF requests[s].kind = "folders"
                   THEN [requests EXCEPT ![s].at = "answered", ![s].folders = FolderOptions]
                   ELSE [requests EXCEPT ![s].at = "judging", ![s].settings = Read]
    /\ UNCHANGED <<world, setting, page, setupHistory>>
Judge(s) ==
    /\ Step(s, "judging")
    /\ requests' = [requests EXCEPT ![s].at = "answered",
                                    ![s].settings.problem = Problem(requests[s].settings)]
    /\ UNCHANGED <<world, setting, page, setupHistory>>

--------------------------------------------------------------------------------
(* Answers.                                                                     *)

Over(s) == requests' = [requests EXCEPT ![s] = None]
\* The mutation that sent it, where it is still there, is no longer pending.
AnsweredIn(s, f) == IF f # None /\ f.put = s THEN [f EXCEPT !.put = None] ELSE f
RefusedIn(s, f) ==
    IF f # None /\ f.put = s THEN [f EXCEPT !.put = None, !.failed = requests[s].patch.dir] ELSE f

\* Where other parts of the page are shown now, those that are not lose their state.
SettingsLand(s) ==
    /\ Step(s, "answered") /\ requests[s].kind # "folders" /\ Over(s)
    /\ shown' = requests[s].settings
    /\ IF View' = View
       THEN /\ form' = AnsweredIn(s, form) /\ tuning' = (IF tuning = s THEN None ELSE tuning)
            /\ UNCHANGED editing
       ELSE /\ form' = (IF View' = "steps" THEN Fresh ELSE None)
            /\ editing' = FALSE /\ tuning' = None
    /\ UNCHANGED <<world, setting, options, suggested, setupHistory>>

FoldersLand(s) ==
    /\ Step(s, "answered") /\ requests[s].kind = "folders" /\ Over(s)
    /\ options' = requests[s].folders
    /\ suggested' = suggested \cup {o.path : o \in {p \in requests[s].folders : ~p.exists}}
    /\ form' = IF form = None THEN None ELSE [form EXCEPT !.reread = TRUE]
    /\ UNCHANGED <<world, setting, shown, editing, tuning, setupHistory>>

RefusalLands(s) ==
    /\ Step(s, "refused") /\ Over(s)
    /\ form' = RefusedIn(s, form) /\ tuning' = (IF tuning = s THEN None ELSE tuning)
    /\ UNCHANGED <<world, setting, shown, options, editing, suggested, setupHistory>>

--------------------------------------------------------------------------------
(* Everybody else.                                                              *)

\* People, other programs and mounts.
DiskChanges ==
    /\ disk' \in [Absolute -> Kinds] /\ canWrite' \in SUBSET Absolute
    /\ UNCHANGED <<enabled, keysReady, setting, requests, page, setupHistory>>

\* Library folders and keys have pages of their own.
LibraryChanges ==
    /\ enabled' \in SUBSET Roots /\ keysReady' \in BOOLEAN
    /\ UNCHANGED <<disk, canWrite, setting, requests, page, setupHistory>>

\* Another page's request: this one is not told.
OthersStore ==
    /\ \E dir \in {setting.dir, None} \cup {p \in Absolute : Real[p] = p /\ Writable(p)},
            level \in Levels, remove \in BOOLEAN :
           setting' = [dir |-> dir, level |-> level, remove |-> remove]
    /\ elsewhere' = TRUE
    /\ UNCHANGED <<world, requests, page, made, overlapped>>

SetupNext ==
    \/ \E s \in Slots :
           \/ FetchSettings(s) \/ FetchFolders(s) \/ Submit(s) \/ SetLevel(s) \/ SetRemove(s)
           \/ MakeFolder(s) \/ Store(s) \/ ReadAnswer(s) \/ Judge(s)
           \/ SettingsLand(s) \/ FoldersLand(s) \/ RefusalLands(s)
    \/ \E choice \in Texts \cup {Other} : Pick(choice)
    \/ \E text \in Texts : Type(text)
    \/ Browse \/ \E picked \in Absolute \cup {None} : BrowseEnds(picked)
    \/ Edit \/ DiskChanges \/ LibraryChanges \/ OthersStore

SetupSpec == SetupInit /\ [][SetupNext]_setupVars

--------------------------------------------------------------------------------
(* Properties.                                                                  *)

RequestOK(r) ==
    /\ r \in Requests
    /\ r.at \in {"making", "checking", "refused"} => r.kind = "put"
    /\ r.kind = "folders" => r.at \in {"reading", "answered"}
    /\ r.settings # None <=> r.kind # "folders" /\ r.at \in {"judging", "answered"}
    /\ r.folders # None <=> r.kind = "folders" /\ r.at = "answered"

SetupTypeOK ==
    /\ disk \in [Absolute -> Kinds] /\ canWrite \subseteq Absolute /\ enabled \subseteq Roots
    /\ keysReady \in BOOLEAN /\ setting \in Settings
    /\ DOMAIN requests = Slots /\ \A s \in Slots : requests[s] = None \/ RequestOK(requests[s])
    /\ shown = None \/ shown \in Answers
    /\ options = None \/ options \in SUBSET Options
    /\ form = None \/ form \in Forms
    /\ editing \in BOOLEAN /\ tuning \in Slots \cup {None}
    /\ suggested \subseteq Absolute /\ made \subseteq Absolute
    /\ overlapped \in BOOLEAN /\ elsewhere \in BOOLEAN

\* The folder that is saved is named by its real path: compressing looks at nothing else.
SavedFolderIsReal == setting.dir # None => Real[setting.dir] = setting.dir

\* A folder is only stored while it is there and can be written to.
StoredWasFine ==
    [][setting'.dir # setting.dir => setting'.dir = None \/ Writable(setting'.dir)]_setupVars

\* "Compression is set up" is only said with keys and a folder; what else is missing is in the steps.
Agrees(a) == IF ~a.keys THEN a.problem = "no keys"
             ELSE IF a.dir = None THEN a.problem = "not chosen"
             ELSE a.problem \in {"not found", "a file", "read-only", "fine"}
SummaryMeansReady ==
    /\ shown # None => Agrees(shown)
    /\ View = "summary" => KeysDone /\ shown.dir # None /\ Real[shown.dir] = shown.dir

\* The page makes no folder but the "NSZ" of a library folder, and only one it was told is missing.
OnlySuggestedAreMade == made \subseteq suggested /\ suggested \subseteq {NszIn[r] : r \in Roots}

\* A form nobody has touched saves the folder that is saved, wherever it is.
UntouchedFormKeepsTheFolder ==
    Choosing /\ form.choice = None /\ form.typed = None /\ shown.dir # None => ChosenFolder = shown.dir

\* The folder picked can be written to as far as the page was told since.
PickedCanBeWritten ==
    Choosing /\ form.choice \notin {None, Other} /\ ~form.reread =>
        \E o \in options : o.path = form.choice /\ o.writable

\* Before one is saved the form proposes the first folder that can be written to.
FirstIsProposed ==
    Choosing /\ form.choice = None /\ shown.dir = None /\ (\E o \in options : o.writable) =>
        \E o \in options : /\ o.path = Selected /\ o.writable
                           /\ \A q \in options : q.writable => q = o \/ Precedes(o, q)

\* The form says "Saving..." and that a folder cannot be used of the folder that is marked, once the
\* user marked it: whatever else is picked or typed meanwhile, and whichever of its saves is answered
\* or refused first, it speaks of no other. Only the folder dialog fills one in behind the mutation.
Marked == form.choice # None /\ (form.choice = Other => form.typed # None /\ ~form.browsed)
FormSpeaksOfTheMarked ==
    Choosing /\ Marked =>
        /\ form.put # None => requests[form.put].patch.dir = ChosenFolder
        /\ form.failed # None => form.failed = ChosenFolder

\* With nothing under way the page shows what is stored, unless a change was asked for while another
\* request was under way or another page made one.
QuietPageIsRight ==
    shown # None /\ Under({"get", "put"}) = {} /\ ~overlapped /\ ~elsewhere =>
        shown.dir = setting.dir /\ shown.level = setting.level /\ shown.remove = setting.remove

================================================================================
