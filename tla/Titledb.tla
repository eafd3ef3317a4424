-------------------------------- MODULE Titledb --------------------------------
(***************************************************************************)
(* TitledbService (titledb/service.ts): the import of names and versions   *)
(* from a configured list, shared by the refreshes asked for on the web    *)
(* (keys-routes.ts) and the hourly check (server.ts), cut where it awaits  *)
(* a source; and the catalog revision its callers raise when it changed    *)
(* what the library shows.                                                 *)
(***************************************************************************)
EXTENDS Integers, Sequences

CONSTANTS
    Urls, Paths,        \* sources: an address, or a file of the server
    WebAsks,            \* refreshes the web may have under way
    TitleIds,
    TitlesFiles,        \* what a titles source may hold: sequences of entries
    VersionsFiles,      \* and a versions source: the versions of each title that it dates
    MaxVersion          \* of ten digits

VARIABLES
    tdEnabled, tdSource, tdVersionsSource,  \* settings
    tdError, tdFresh,   \* titledb_last_error; whether titledb_last_refresh is recent
    tdLatest,           \* titledb_titles: the latest version of each title, if one is known
    tdListed,           \* titledb_versions
    import,             \* #refreshing: where it stands, its sources and what it read
    asks,               \* each caller of refresh
    \* history
    filledFrom,         \* the sources the tables are from
    reconfigured,       \* the sources were set anew since the import that filled them began
    setAnew,            \* and since the import under way began
    untold,             \* what the library shows changed, and the revision was not raised since
    died                \* the server ended before it could raise it

tdSettings == <<tdEnabled, tdSource, tdVersionsSource>>
tdTables == <<tdLatest, tdListed>>
tdHistory == <<filledFrom, reconfigured, setAnew, untold, died>>
tdVars == <<tdSettings, tdError, tdFresh, tdTables, import, asks, tdHistory>>

Sources == Urls \cup Paths
Askers == WebAsks \cup {"timer"}
SourcePairs == (Sources \X (Sources \cup {"none"})) \cup {<<>>}
NoVersion == -1
NoRow == -2
Entries == [id : TitleIds, named : BOOLEAN, version : Nat \cup {NoVersion}]

TitledbSized ==
    /\ TitlesFiles \subseteq Seq(Entries)
    /\ MaxVersion \in Nat /\ VersionsFiles \subseteq [TitleIds -> SUBSET (0..MaxVersion)]
    /\ "none" \notin Sources

Imports == [at : {"idle", "titles", "versions"}, from : Sources \cup {"none"},
            versionsFrom : Sources \cup {"none"}, titles : TitlesFiles \cup {<<>>}]
NoImport == [at |-> "idle", from |-> "none", versionsFrom |-> "none", titles |-> <<>>]

TitledbTypeOK ==
    /\ tdEnabled \in BOOLEAN
    /\ tdSource \in Sources \cup {"none"} /\ tdVersionsSource \in Sources \cup {"none"}
    /\ tdError \in {"none", "no source", "failed"} /\ tdFresh \in BOOLEAN
    /\ tdLatest \in [TitleIds -> Nat \cup {NoVersion, NoRow}]
    /\ tdListed \in [TitleIds -> SUBSET Nat]
    /\ import \in Imports
    /\ asks \in [Askers -> {"idle", "asked", "ok", "failed"}]
    /\ filledFrom \in SourcePairs
    /\ reconfigured \in BOOLEAN /\ setAnew \in BOOLEAN /\ untold \in BOOLEAN /\ died \in BOOLEAN

TitledbInit ==
    /\ tdEnabled = TRUE /\ tdSource = "none" /\ tdVersionsSource = "none"
    /\ tdError = "none" /\ tdFresh = FALSE
    /\ tdLatest = [t \in TitleIds |-> NoRow] /\ tdListed = [t \in TitleIds |-> {}]
    /\ import = NoImport /\ asks = [a \in Askers |-> "idle"]
    /\ filledFrom = <<>> /\ reconfigured = FALSE /\ setAnew = FALSE
    /\ untold = FALSE /\ died = FALSE

--------------------------------------------------------------------------------
(* What an import makes of its files.                                           *)

\* The entries of title t that count: one without a name is dropped once another has one.
Kept(es, t) ==
    {k \in DOMAIN es : /\ es[k].id = t
                       /\ es[k].named \/ \A j \in 1..(k - 1) : es[j].id = t => ~es[j].named}

\* The version of the title: that of the last such entry that has one.
EntryVersion(es, t) ==
    LET ks == {k \in Kept(es, t) : es[k].version # NoVersion}
    IN  IF ks = {} THEN NoVersion ELSE es[CHOOSE k \in ks : \A j \in ks : j <= k].version

\* The newest of the versions known of t, dated or not.
Newest(es, dated, t) ==
    LET vs == dated[t] \cup {EntryVersion(es, t)}
    IN  CHOOSE v \in vs : \A w \in vs : w <= v

LatestRows(es, dated) ==
    [t \in TitleIds |-> IF Kept(es, t) = {} THEN NoRow ELSE Newest(es, dated, t)]
ListedRows(es, dated) ==
    [t \in TitleIds |-> IF Kept(es, t) = {} THEN {}
                        ELSE dated[t] \cup ({Newest(es, dated, t)} \ {NoVersion})]

--------------------------------------------------------------------------------
(* Settings.                                                                    *)

\* PUT /titledb; what the library shows depends on the switch, so changing it raises the revision.
ConfigureTitledb(enabled, source, versionsSource) ==
    /\ tdEnabled' = enabled /\ tdSource' = source /\ tdVersionsSource' = versionsSource
    /\ LET moved == <<source, versionsSource>> # <<tdSource, tdVersionsSource>>
       IN  reconfigured' = (reconfigured \/ moved) /\ setAnew' = (setAnew \/ moved)
    /\ untold' = (untold /\ enabled = tdEnabled)
    /\ UNCHANGED <<tdError, tdFresh, tdTables, import, asks, filledFrom, died>>

--------------------------------------------------------------------------------
(* The import.                                                                  *)

\* The callers of the import that ends get its outcome.
Answered(outcome) == [a \in Askers |-> IF asks[a] = "asked" THEN outcome ELSE asks[a]]

\* refresh: joins the import under way, or begins one.
BeginsOrJoins(a) ==
    IF import.at # "idle"
    THEN /\ asks' = [asks EXCEPT ![a] = "asked"] /\ UNCHANGED <<tdError, import, setAnew>>
    ELSE IF tdSource = "none"
    THEN /\ tdError' = "no source" /\ asks' = [asks EXCEPT ![a] = "failed"]
         /\ UNCHANGED <<import, setAnew>>
    ELSE /\ import' = [at |-> "titles", from |-> tdSource, versionsFrom |-> tdVersionsSource,
                       titles |-> <<>>]
         /\ asks' = [asks EXCEPT ![a] = "asked"] /\ setAnew' = FALSE /\ UNCHANGED tdError

AskRefresh(a) ==
    /\ a \in WebAsks /\ asks[a] = "idle" /\ BeginsOrJoins(a)
    /\ UNCHANGED <<tdSettings, tdFresh, tdTables, filledFrom, reconfigured, untold, died>>

\* refreshIfStale, of the hourly check.
CheckIsDue ==
    /\ asks["timer"] = "idle"
    /\ tdEnabled /\ tdSource # "none" /\ (tdSource \in Urls \/ tdVersionsSource \in Urls)
    /\ ~tdFresh /\ BeginsOrJoins("timer")
    /\ UNCHANGED <<tdSettings, tdFresh, tdTables, filledFrom, reconfigured, untold, died>>

\* The titles source answers.
ReadTitles(text) ==
    /\ import.at = "titles" /\ import.versionsFrom # "none"
    /\ import' = [import EXCEPT !.at = "versions", !.titles = text]
    /\ UNCHANGED <<tdSettings, tdError, tdFresh, tdTables, asks, tdHistory>>

\* #importJson, in one transaction, once the last source answered; then the error and the time.
Fills(es, dated) ==
    /\ \E t \in TitleIds : Kept(es, t) # {}
    /\ tdLatest' = LatestRows(es, dated) /\ tdListed' = ListedRows(es, dated)
    /\ tdError' = "none" /\ tdFresh' = TRUE
    /\ asks' = Answered("ok") /\ import' = NoImport
    /\ filledFrom' = <<import.from, import.versionsFrom>> /\ reconfigured' = setAnew
    /\ untold' = TRUE /\ died' = FALSE
    /\ UNCHANGED <<tdSettings, setAnew>>

ImportTitles(text) ==
    import.at = "titles" /\ import.versionsFrom = "none" /\ Fills(text, [t \in TitleIds |-> {}])

ImportBoth(dated) ==
    import.at = "versions" /\ (\E t \in TitleIds : dated[t] # {}) /\ Fills(import.titles, dated)

\* A source could not be read, or holds nothing of use.
ImportFails ==
    /\ import.at # "idle" /\ import' = NoImport
    /\ tdError' = "failed" /\ tdFresh' = TRUE /\ asks' = Answered("failed")
    /\ UNCHANGED <<tdSettings, tdTables, tdHistory>>

\* A caller goes on: after an import without error it raises the catalog revision.
GoOn(a) ==
    /\ asks[a] \in {"ok", "failed"} /\ asks' = [asks EXCEPT ![a] = "idle"]
    /\ untold' = (untold /\ asks[a] = "failed")
    /\ UNCHANGED <<tdSettings, tdError, tdFresh, tdTables, import, filledFrom, reconfigured,
                   setAnew, died>>

TitledbAges == tdFresh' = FALSE /\ UNCHANGED <<tdSettings, tdError, tdTables, import, asks, tdHistory>>

\* The server ends and starts again: the settings and the tables are in the database.
ServerDies ==
    /\ import' = NoImport /\ asks' = [a \in Askers |-> "idle"] /\ died' = (died \/ untold)
    /\ UNCHANGED <<tdSettings, tdError, tdFresh, tdTables, filledFrom, reconfigured, setAnew, untold>>

TitledbNext ==
    \/ \E e \in BOOLEAN, s, v \in Sources \cup {"none"} : ConfigureTitledb(e, s, v)
    \/ \E a \in Askers : AskRefresh(a) \/ GoOn(a)
    \/ CheckIsDue \/ ImportFails \/ TitledbAges \/ ServerDies
    \/ \E text \in TitlesFiles : ReadTitles(text) \/ ImportTitles(text)
    \/ \E dated \in VersionsFiles : ImportBoth(dated)

TitledbSpec == TitledbInit /\ [][TitledbNext]_tdVars

--------------------------------------------------------------------------------
(* Properties.                                                                  *)

\* What is offered as an update is known: the latest version of a title is one of the versions the
\* table lists for it, none of them is newer, and a title without any lists none.
LatestIsListed ==
    \A t \in TitleIds :
        /\ tdLatest[t] = NoRow \/ tdLatest[t] = NoVersion => tdListed[t] = {}
        /\ tdLatest[t] \in Nat => tdLatest[t] \in tdListed[t] /\ \A v \in tdListed[t] : v <= tdLatest[t]

\* The tables are of the configured sources, unless these were set anew since the import that
\* filled the tables began; an import that failed since does not count.
TablesAreOfSources ==
    filledFrom # <<>> /\ ~reconfigured => filledFrom = <<tdSource, tdVersionsSource>>

\* When an import changed what the library shows, a caller that will raise the catalog revision
\* still has to go on, so no console keeps a list the tables have replaced, unless the server ended.
ChangesAreTold == untold => died \/ \E a \in Askers : asks[a] = "ok"

\* And an import under way has a caller: none is lost with the request that began it.
ImportsHaveCallers == import.at # "idle" => \E a \in Askers : asks[a] = "asked"

\* Rows change only with an import that ended well.
FailuresKeepTables == tdTables' # tdTables => tdError' = "none" /\ import.at # "idle"

================================================================================
