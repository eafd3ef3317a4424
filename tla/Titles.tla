--------------------------------- MODULE Titles --------------------------------
(***************************************************************************)
(* What the library is to those who read it: the games of the web page     *)
(* (library/queries.ts) and of the console's catalog (device/catalog.ts),  *)
(* both computed from the same joined rows (titledb-join.ts) each time     *)
(* they are asked for.  SQLite gives those rows in no promised order, so   *)
(* what depends on the order has it as a parameter.                        *)
(***************************************************************************)
EXTENDS Integers, FiniteSets, FiniteSetsExt

CONSTANTS
    TitleIds,            \* title ids; a game goes by the id of its base
    Unknown,        \* a null
    FileRow,        \* files: id -> root, format, size, missing, seen, status
    Enabled,        \* the roots that are enabled
    MetaRow,        \* content metas: id -> file, title, version, type, app, guessed, named, name, firmware
    AppRow,         \* applications: id -> name, publisher, latest; from the NACP of a file
    TdbRow,         \* titledb: id -> app, name, publisher, latest, released, updated, languages, ...
    TitledbOn,      \* whether titledb is applied
    PreferCompressed,
    Collated        \* names and publishers in the order of the collator, which takes some as equal

Formats == {"nsp", "nsz", "xci", "xcz", "nro"}
Types == {"application", "patch", "addon"}
Known(S) == S \cup {Unknown}
Names == DOMAIN Collated

FilesFit ==
    /\ DOMAIN FileRow \subseteq Nat /\ IsFiniteSet(DOMAIN FileRow)
    /\ \A f \in DOMAIN FileRow : FileRow[f].format \in Formats /\ FileRow[f].seen \in Nat
MetasFit ==
    /\ IsFiniteSet(DOMAIN MetaRow)
    /\ \A m \in DOMAIN MetaRow :
          /\ MetaRow[m].file \in DOMAIN FileRow /\ MetaRow[m].title \in TitleIds /\ MetaRow[m].app \in TitleIds
          /\ MetaRow[m].version \in Known(Nat) /\ MetaRow[m].type \in Types /\ MetaRow[m].name \in Names
          /\ MetaRow[m].guessed \in BOOLEAN /\ MetaRow[m].named \in BOOLEAN /\ MetaRow[m].firmware \in Known(Nat)
    /\ \A m, n \in DOMAIN MetaRow :        \* content_metas_file_title_idx
          MetaRow[m].file = MetaRow[n].file /\ MetaRow[m].title = MetaRow[n].title => m = n
AppsFit == \A i \in TitleIds : AppRow[i].name \in Known(Names) /\ AppRow[i].latest \in Known(Nat)
TdbFits ==
    \A i \in TitleIds :
        TdbRow[i].app \in Known(TitleIds) /\ TdbRow[i].name \in Known(Names) /\ TdbRow[i].latest \in Known(Nat)
TitlesSized ==
    /\ TitleIds \subseteq Nat /\ Unknown \notin Nat \cup Names \cup TitleIds
    /\ Collated \in [Names -> Nat] /\ TitledbOn \in BOOLEAN /\ PreferCompressed \in BOOLEAN
    /\ FilesFit /\ MetasFit /\ AppsFit /\ TdbFits

\* An order the rows may come in.
Orders == {ord \in [DOMAIN MetaRow -> Nat] : \A m, n \in DOMAIN MetaRow : ord[m] = ord[n] => m = n}
First(S, ord) == CHOOSE m \in S : \A n \in S : ord[m] <= ord[n]

--------------------------------------------------------------------------------
(* The rows.                                                                    *)

Title(m) == MetaRow[m].title
Version(m) == MetaRow[m].version
File(m) == MetaRow[m].file
OfType(S, type) == {m \in S : MetaRow[m].type = type}
Coalesce(x, y) == IF x # Unknown THEN x ELSE y

Here(f) == ~FileRow[f].missing /\ FileRow[f].root \in Enabled
Present == {m \in DOMAIN MetaRow : Here(File(m))}

\* Only a guess gives way to what titledb says of a DLC's game.
Mapped(m) == MetaRow[m].guessed /\ TitledbOn /\ TdbRow[Title(m)].app # Unknown
AppOf(m) == IF Mapped(m) THEN TdbRow[Title(m)].app ELSE MetaRow[m].app
Guessed(m) == MetaRow[m].guessed /\ ~Mapped(m)
DisplayName(m) ==
    IF ~MetaRow[m].named /\ TitledbOn THEN Coalesce(TdbRow[Title(m)].name, MetaRow[m].name) ELSE MetaRow[m].name

Tdb(a) == [field \in DOMAIN TdbRow[a] |-> IF TitledbOn THEN TdbRow[a][field] ELSE Unknown]
AppName(a) == Coalesce(AppRow[a].name, Tdb(a).name)
Publisher(a) ==
    IF AppRow[a].name # Unknown THEN AppRow[a].publisher ELSE Coalesce(AppRow[a].publisher, Tdb(a).publisher)
LatestKnown(a) == Coalesce(AppRow[a].latest, Tdb(a).latest)

Games == {AppOf(m) : m \in Present}
GameRows(a) == {m \in Present : AppOf(m) = a}

\* preferredFormatRank.
FormatRank(format) ==
    IF PreferCompressed
    THEN CASE format = "nsz" -> 0 [] format = "xcz" -> 1 [] format = "nsp" -> 2 [] format = "xci" -> 3 [] OTHER -> 4
    ELSE CASE format = "nsp" -> 0 [] format = "xci" -> 1 [] format = "nsz" -> 2 [] format = "xcz" -> 3 [] OTHER -> 4
RankOf(m) == FormatRank(FileRow[File(m)].format)

\* pickPreferred, pickPreferredRow: the best format, then the lowest file id, then the first to come.
Best(S) == {m \in S : \A n \in S : RankOf(m) < RankOf(n) \/ (RankOf(m) = RankOf(n) /\ File(m) <= File(n))}
Pick(S, ord) == First(Best(S), ord)

--------------------------------------------------------------------------------
(* The games of the web page.                                                   *)

\* contentKey: a row without a version is a content of its own.
ContentsOf(S) == {<<Title(m), Version(m)>> : m \in S}
RowsFor(S, c) == {m \in S : <<Title(m), Version(m)>> = c}
FilesOf(S) == {File(m) : m \in S}

UpdateVersions(a) == {Version(m) : m \in OfType(GameRows(a), "patch")} \ {Unknown}
NewestOwned(a, ord) ==
    LET bases == OfType(GameRows(a), "application")
    IN  IF UpdateVersions(a) # {} THEN Max(UpdateVersions(a))
        ELSE IF bases # {} THEN Version(First(bases, ord)) ELSE Unknown
IsBehind(latest, owned) == latest # Unknown /\ owned # Unknown /\ latest > owned
TwoFiles(S) == \E m, n \in S : File(m) # File(n)

Flag(condition, flag) == IF condition THEN {flag} ELSE {}
Flags(a, ord) ==
    Flag(OfType(GameRows(a), "application") = {}, "no-base")
    \cup Flag(\E c \in ContentsOf(GameRows(a)) : TwoFiles(RowsFor(GameRows(a), c)), "duplicate")
    \cup Flag(\E v, w \in UpdateVersions(a) : v # w, "superseded-updates")
    \cup Flag(\E m \in GameRows(a) : Guessed(m), "guessed-dlc-base")
    \cup Flag(\E m \in OfType(GameRows(a), "patch") : Version(m) = Unknown, "unknown-version")
    \cup Flag(IsBehind(LatestKnown(a), NewestOwned(a, ord)), "update-available")

\* The name: of the game, or else what the base, an update or a DLC is called.
NameFrom(S, ord) ==
    LET of(type) == OfType(S, type)
    IN  DisplayName(First(IF of("application") # {} THEN of("application")
                          ELSE IF of("patch") # {} THEN of("patch") ELSE of("addon"), ord))
GameName(a, ord) == Coalesce(AppName(a), NameFrom(GameRows(a), ord))

Added(a) == Min({FileRow[f].seen : f \in FilesOf(GameRows(a))})
TotalSize(a) == MapThenSumSet(LAMBDA f : FileRow[f].size, FilesOf(GameRows(a)))
Firmware(S) ==
    LET needed == {MetaRow[m].firmware : m \in S} \ {Unknown} IN IF needed = {} THEN Unknown ELSE Max(needed)

\* SORT_KEYS, publishers by the collator.
SortKey(a, sort) ==
    CASE sort = "added" -> Added(a)
      [] sort = "size" -> TotalSize(a)
      [] sort = "released" -> Tdb(a).released
      [] sort = "updated" -> Tdb(a).updated
      [] sort = "firmware" -> Firmware(GameRows(a))
      [] sort = "publisher" -> IF Publisher(a) = Unknown THEN Unknown ELSE Collated[Publisher(a)]
      [] sort = "id" -> a
      [] sort = "rating" -> Tdb(a).rating
      [] sort = "players" -> Tdb(a).players

ByName(name, x, y) == name[x] < name[y] \/ (name[x] = name[y] /\ x < y)

\* appComparator, for any key: without one comes last either way, and ties go by name.
Before(sort, key, name, order, x, y) ==
    IF sort = "name" THEN IF order = "desc" THEN ByName(name, y, x) ELSE ByName(name, x, y)
    ELSE IF key[x] = Unknown \/ key[y] = Unknown
         THEN key[x] # Unknown \/ (key[y] = Unknown /\ ByName(name, x, y))
         ELSE IF key[x] = key[y] THEN ByName(name, x, y)
              ELSE IF order = "desc" THEN key[x] > key[y] ELSE key[x] < key[y]

\* inRange, matchesFilters: what is not known is in no range and of no publisher, language or region.
InRange(x, min, max) ==
    \/ min = Unknown /\ max = Unknown
    \/ x # Unknown /\ (min = Unknown \/ x >= min) /\ (max = Unknown \/ x <= max)
MatchesFilters(a, ord, want) ==
    /\ want.flag # Unknown => want.flag \in Flags(a, ord)
    /\ want.publisher # Unknown => Publisher(a) # Unknown /\ Collated[Publisher(a)] = Collated[want.publisher]
    /\ want.language # Unknown => want.language \in Tdb(a).languages
    /\ want.region # Unknown => want.region \in Tdb(a).regions
    /\ InRange(Tdb(a).players, want.minPlayers, Unknown) /\ InRange(Tdb(a).rating, Unknown, want.maxRating)
    /\ InRange(TotalSize(a), want.minSize, want.maxSize)
    /\ InRange(Tdb(a).released, want.releasedFrom, want.releasedTo)
    /\ InRange(Tdb(a).updated, want.updatedFrom, want.updatedTo)
    /\ InRange(Firmware(GameRows(a)), Unknown, want.maxFirmware)

\* A search: ids and names are those that contain its text.
Matches(a, ids, names) ==
    \/ a \in ids \/ AppName(a) \in names
    \/ \E m \in GameRows(a) : Title(m) \in ids \/ DisplayName(m) \in names

\* On a Switch is a game with its base or an update there, as it last reported.
OnSwitch(titles) == {t.app : t \in {t \in titles : t.type # "addon"}}

\* listApplications. search is the text's ids and names, device the titles on the Switch; each may be Unknown.
Listed(ord, search, device, installed, want) ==
    {a \in Games :
        /\ device # Unknown => (a \in OnSwitch(device)) = installed
        /\ search # Unknown => Matches(a, search.ids, search.names)
        /\ MatchesFilters(a, ord, want)}

--------------------------------------------------------------------------------
(* A game's page, and what is sent from it.                                     *)

\* getApplication: each content, by the row an install would take.
Offered(a, ord) == [c \in ContentsOf(GameRows(a)) |-> Pick(RowsFor(GameRows(a), c), ord)]

OfferedRows(a, ord) == {Offered(a, ord)[c] : c \in ContentsOf(GameRows(a))}

\* Their order on the page: base, updates, DLC; the newest first, one without a version last.
TypeOrder(m) == CASE MetaRow[m].type = "application" -> 0 [] MetaRow[m].type = "patch" -> 1 [] OTHER -> 2
Age(m) == IF Version(m) = Unknown THEN -1 ELSE Version(m)
Called(m) == Collated[DisplayName(m)]
ContentBefore(m, n) ==
    \/ TypeOrder(m) < TypeOrder(n)
    \/ TypeOrder(m) = TypeOrder(n) /\ Age(m) > Age(n)
    \/ TypeOrder(m) = TypeOrder(n) /\ Age(m) = Age(n) /\ Called(m) < Called(n)
    \/ TypeOrder(m) = TypeOrder(n) /\ Age(m) = Age(n) /\ Called(m) = Called(n) /\ Title(m) < Title(n)

\* titleInstallItems: of the updates the newest, the first of them on the page; and all else.
Newest(updates) ==
    {m \in updates : \A n \in updates \ {m} : Age(n) < Age(m) \/ (Age(n) = Age(m) /\ ContentBefore(m, n))}
Sent(a, ord) ==
    LET offered == OfferedRows(a, ord)
        updates == OfType(offered, "patch")
    IN  (offered \ updates) \cup Newest(updates)

--------------------------------------------------------------------------------
(* The problems.                                                                *)

\* getProblems: contents that are in more than one file.
Duplicates == {c \in ContentsOf(Present) : TwoFiles(RowsFor(Present, c))}
FilesWith(status) == {f \in DOMAIN FileRow : Here(f) /\ FileRow[f].status = status}
Missing == {f \in DOMAIN FileRow : FileRow[f].root \in Enabled /\ FileRow[f].missing}
Homebrew == {f \in DOMAIN FileRow : Here(f) /\ FileRow[f].homebrew}
Problems ==
    Cardinality(FilesWith("error")) + Cardinality(FilesWith("unidentified"))
    + Cardinality(Missing) + Cardinality(Duplicates)

\* getStats: what the page says above the list.
Stats ==
    [applications |-> Cardinality(Games), files |-> Cardinality({f \in DOMAIN FileRow : Here(f)}),
     homebrew |-> Cardinality(Homebrew), problems |-> Problems]

--------------------------------------------------------------------------------
(* The console's catalog.                                                       *)

OrZero(v) == IF v = Unknown THEN 0 ELSE v
VersionsOf(S) == {OrZero(Version(m)) : m \in S}
OfVersion(S, v) == {m \in S : OrZero(Version(m)) = v}
PickNewest(S, ord) == Pick(OfVersion(S, Max(VersionsOf(S))), ord)

\* toApp: the newest base, every update, and the newest of each DLC.
CatalogBase(a, ord) ==
    LET bases == OfType(GameRows(a), "application") IN IF bases = {} THEN Unknown ELSE PickNewest(bases, ord)
CatalogUpdates(a, ord) ==
    LET patches == OfType(GameRows(a), "patch")
    IN  [v \in VersionsOf(patches) |-> Pick(OfVersion(patches, v), ord)]
CatalogDlc(a, ord) ==
    LET addons == OfType(GameRows(a), "addon")
    IN  [t \in {Title(m) : m \in addons} |-> PickNewest({m \in addons : Title(m) = t}, ord)]
CatalogRows(a, ord) ==
    ({CatalogBase(a, ord)} \ {Unknown})
    \cup {CatalogUpdates(a, ord)[v] : v \in DOMAIN CatalogUpdates(a, ord)}
    \cup {CatalogDlc(a, ord)[t] : t \in DOMAIN CatalogDlc(a, ord)}

--------------------------------------------------------------------------------
(* Properties.                                                                  *)

\* The files of a game agree on what is what: an id is of one type.
WellNamed(a) == \A m, n \in GameRows(a) : Title(m) = Title(n) => MetaRow[m].type = MetaRow[n].type

\* What the console is offered of a game is, file for file, what the page sends for that content,
\* whatever order the rows came in for each, and though the catalog takes a file without a version
\* for version 0 and the page for a content of its own.
SameInstall(a, ord, other) ==
    WellNamed(a) => \A m \in CatalogRows(a, ord) : Offered(a, other)[<<Title(m), Version(m)>>] = m

\* The flags of a game do not depend on the order of the rows, if its bases are of one version or
\* some update of it is there.
FlagsAreStable(a, ord, other) ==
    (UpdateVersions(a) # {} \/ \A m, n \in OfType(GameRows(a), "application") : Version(m) = Version(n)) =>
        Flags(a, ord) = Flags(a, other)

\* The list is in one order, whatever it is sorted by: every two games compare one way.
ListIsOrdered(sort, key, name, order) ==
    \A x, y, z \in Games :
        /\ Before(sort, key, name, order, x, y) => ~Before(sort, key, name, order, y, x)
        /\ x # y => Before(sort, key, name, order, x, y) \/ Before(sort, key, name, order, y, x)
        /\ Before(sort, key, name, order, x, y) /\ Before(sort, key, name, order, y, z) =>
              Before(sort, key, name, order, x, z)
\* Games without a value are last, up and down.
UnknownIsLast(sort, key, name, order) ==
    sort # "name" => \A x, y \in Games :
        key[x] = Unknown /\ key[y] # Unknown => Before(sort, key, name, order, y, x)

\* A game is flagged for duplicates if the report has a content of it that is in two of its files;
\* and a reported one flags its game, if all its files are taken for the same game's.
DuplicatesAreFlagged(a, ord) ==
    /\ "duplicate" \in Flags(a, ord) => \E c \in Duplicates : c \in ContentsOf(GameRows(a))
    /\ \A c \in Duplicates : RowsFor(Present, c) \subseteq GameRows(a) => "duplicate" \in Flags(a, ord)

\* A search for what a game is shown as finds it.
ShownIsFound(a, ord, ids, names) == GameName(a, ord) \in names => Matches(a, ids, names)

\* The page of a game lists each content once, in one order.
ContentsAreOrdered(a, ord) ==
    \A m, n \in OfferedRows(a, ord) : m # n => (ContentBefore(m, n) <=> ~ContentBefore(n, m))

\* Sending a whole game sends every base and DLC there is, and one update if there is any: none
\* that is there is newer.
SendsTheNewest(a, ord) ==
    WellNamed(a) =>
        /\ \A m \in OfferedRows(a, ord) : MetaRow[m].type # "patch" => m \in Sent(a, ord)
        /\ \A m, n \in OfType(Sent(a, ord), "patch") : m = n
        /\ \A m \in OfType(Sent(a, ord), "patch"), n \in OfType(GameRows(a), "patch") : Age(n) <= Age(m)
        /\ OfType(GameRows(a), "patch") # {} => OfType(Sent(a, ord), "patch") # {}
================================================================================
