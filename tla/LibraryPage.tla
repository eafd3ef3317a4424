------------------------------ MODULE LibraryPage ------------------------------
(***************************************************************************)
(* The page of the library (web/pages/LibraryPage.tsx): its search box,    *)
(* its filters (LibraryFilters.tsx) and its order are kept in the URL, so  *)
(* that Back and links keep them.  The router changes the URL at once and  *)
(* lets the page render it later, in a transition; what the user does in   *)
(* between is done to the page as it was.                                  *)
(***************************************************************************)
EXTENDS Integers, FiniteSets, Sequences

CONSTANTS
    Texts,        \* what can be typed
    NoText,       \* an empty box
    Raw,          \* what may stand in a URL
    Absent,      \* what is not there
    Parse,        \* for each parameter, what the API takes of what stands in a URL, or Absent
    Sorts,        \* LIBRARY_SORTS
    Default,      \* "name"
    Elsewhere,    \* a page that is not the library's
    MaxEntries    \* how long the history gets

MoreKeys ==
    {"publisher", "language", "region", "minPlayers", "maxRating", "minSize", "maxSize",
     "releasedFrom", "releasedTo", "updatedFrom", "updatedTo", "maxFirmware"}
Keys == {"q", "flag", "on", "not-on", "sort"} \cup MoreKeys
Urls == [Keys -> Raw \cup {Absent}]
Bare == [k \in Keys |-> Absent]

PageSized ==
    /\ NoText \in Texts /\ Texts \subseteq Raw /\ Default \in Sorts /\ Sorts \subseteq Raw
    /\ Absent \notin Raw \cup Nat \cup [text : Raw, q : Raw] \cup (Raw \X BOOLEAN)
    /\ Elsewhere \notin Urls /\ MaxEntries \in Nat \ {0}
    /\ \A s \in Sorts : Parse["sort"][s] = s
    /\ \A r \in Raw : Parse["sort"][r] \in Sorts \cup {Absent}

--------------------------------------------------------------------------------
(* What is read from the URL.  A value the API would reject is left out.        *)

Read(url, key) == IF url[key] = Absent THEN Absent ELSE Parse[key][url[key]]
Q(url) == IF url["q"] = Absent THEN NoText ELSE url["q"]

\* readDeviceFilter: the Switch, and whether the games on it or the others are meant.
Device(url) ==
    IF Read(url, "on") # Absent THEN <<Read(url, "on"), TRUE>>
    ELSE IF Read(url, "not-on") # Absent THEN <<Read(url, "not-on"), FALSE>> ELSE Absent
More(url) == [k \in {k \in MoreKeys : Read(url, k) # Absent} |-> Read(url, k)]

\* countMoreFilters: a range counts once.
Ranges == {{"minSize", "maxSize"}, {"releasedFrom", "releasedTo"}, {"updatedFrom", "updatedTo"}}
Counted == Ranges \cup {{k} : k \in MoreKeys \ UNION Ranges}
MoreCount(url) == Cardinality({g \in Counted : \E k \in g : Read(url, k) # Absent})

Filtering(url) ==
    Q(url) # NoText \/ Read(url, "flag") # Absent \/ Device(url) # Absent \/ MoreCount(url) > 0
Sort(url, remembered) == IF Read(url, "sort") # Absent THEN Read(url, "sort") ELSE remembered

\* useApps: the games asked for.
Request(url) == [q |-> Q(url), flag |-> Read(url, "flag"), device |-> Device(url), more |-> More(url)]
Everything == [q |-> NoText, flag |-> Absent, device |-> Absent, more |-> [k \in {} |-> Absent]]

\* What the page says of an answer without games.
Said(url, folders) ==
    IF Filtering(url) THEN "no games match" ELSE IF folders = {} THEN "add a folder" ELSE "no games found"

--------------------------------------------------------------------------------
(* What is written to it.                                                       *)

WithQ(url, text) == [url EXCEPT !["q"] = IF text = NoText THEN Absent ELSE text]
WithFlag(url, flag) == [url EXCEPT !["flag"] = flag]
WithSort(url, sort) == [url EXCEPT !["sort"] = IF sort = Default THEN Absent ELSE sort]
WithDevice(url, device) ==
    LET key == IF device[2] THEN "on" ELSE "not-on"
        bare == [url EXCEPT !["on"] = Absent, !["not-on"] = Absent]
    IN  IF device = Absent THEN bare ELSE [bare EXCEPT ![key] = device[1]]
WithMore(url, patch) == [k \in Keys |-> IF k \in DOMAIN patch THEN patch[k] ELSE url[k]]
Cleared(url) == [k \in Keys |-> IF k = "sort" THEN url[k] ELSE Absent]

\* The selects of dates are of years.
YearOf(date) == IF date = Absent THEN Absent ELSE date \div 10000
FromYear(year) == IF year = Absent THEN Absent ELSE year * 10000 + 101
ToYear(year) == IF year = Absent THEN Absent ELSE year * 10000 + 1231

Since == {"releasedFrom", "updatedFrom"}
Until == {"releasedTo", "updatedTo"}
Sizes == {"minSize", "maxSize"}

\* The value a select shows, and what choosing one does. That of sizes is of a pair.
ShownIn(url, key) == IF key \in Since \cup Until THEN YearOf(Read(url, key)) ELSE Read(url, key)
Choose(url, key, value) ==
    WithMore(url, [k \in {key} |-> IF key \in Since THEN FromYear(value)
                                   ELSE IF key \in Until THEN ToYear(value) ELSE value])
ShownSize(url) == <<Read(url, "minSize"), Read(url, "maxSize")>>
ChooseSize(url, size) == WithMore(url, [k \in Sizes |-> IF k = "minSize" THEN size[1] ELSE size[2]])

\* libraryOptions: what is offered of a library. A game knows a field or has Absent there.
Known(apps, field) == {app[field] : app \in apps} \ {Absent}
LibraryOptions(apps, key) ==
    CASE key = "publisher" -> Known(apps, "publisher")
      [] key = "language" -> UNION {app.languages : app \in apps}
      [] key = "region" -> UNION {app.regions : app \in apps}
      [] key = "minPlayers" -> {n \in Nat : n > 1 /\ \E most \in Known(apps, "players") : n <= most}
      [] key = "maxRating" -> Known(apps, "rating")
      [] key = "maxFirmware" -> Known(apps, "firmware")
      [] key \in {"releasedFrom", "releasedTo"} -> {YearOf(date) : date \in Known(apps, "released")}
      [] key \in {"updatedFrom", "updatedTo"} -> {YearOf(date) : date \in Known(apps, "updated")}

\* What the API makes of one filter (inRange, matchesFilters).
Takes(app, key, value) ==
    CASE key = "publisher" -> app.publisher = value
      [] key = "language" -> value \in app.languages
      [] key = "region" -> value \in app.regions
      [] key = "minPlayers" -> app.players # Absent /\ app.players >= value
      [] key = "maxRating" -> app.rating # Absent /\ app.rating <= value
      [] key = "maxFirmware" -> app.firmware # Absent /\ app.firmware <= value
      [] key = "releasedFrom" -> app.released # Absent /\ app.released >= value
      [] key = "releasedTo" -> app.released # Absent /\ app.released <= value
      [] key = "updatedFrom" -> app.updated # Absent /\ app.updated >= value
      [] key = "updatedTo" -> app.updated # Absent /\ app.updated <= value

--------------------------------------------------------------------------------
(* The page in a tab.                                                           *)

VARIABLES
    entries,      \* the history of the tab
    at,           \* where in it the tab is
    rendered,     \* the URL the page was last rendered for
    pending,      \* whether another is yet to be
    draft,        \* the text in the box
    lastWritten,  \* the search last written to the URL, or read from it
    timer,        \* what the debounce will write, and the search it was set at; or Absent
    stored,       \* the order chosen last
    by,           \* what changed the URL last
    crossed       \* whether it was changed while a change was yet to be rendered

pageVars == <<entries, at, rendered, pending, draft, lastWritten, timer, stored, by, crossed>>

Url == entries[at]
Here == rendered # Elsewhere

PageInit ==
    /\ \E url \in Urls : entries = <<url>> /\ rendered = url /\ draft = Q(url) /\ lastWritten = Q(url)
    /\ at = 1 /\ pending = FALSE /\ timer = Absent /\ stored \in Sorts /\ by = "link" /\ crossed = FALSE

\* The debounce of a box that is not in step.
Armed(text, q) == IF text = q THEN Absent ELSE [text |-> text, q |-> q]

Pushed(url) == /\ Len(entries) < MaxEntries \/ at < Len(entries)
               /\ at' = at + 1 /\ entries' = Append(SubSeq(entries, 1, at), url)
Replaced(url) == at' = at /\ entries' = [entries EXCEPT ![at] = url]
Navigated(who) == pending' = TRUE /\ by' = who /\ crossed' = (crossed \/ pending)

Type(text) ==
    /\ Here /\ text # draft
    /\ draft' = text /\ timer' = Armed(text, Q(rendered))
    /\ crossed' = (crossed /\ pending)
    /\ UNCHANGED <<entries, at, rendered, pending, lastWritten, stored, by>>

\* The pause: starting a search adds an entry, refining it does not.
Pause ==
    /\ timer # Absent
    /\ lastWritten' = draft /\ timer' = Absent
    /\ LET url == WithQ(rendered, draft) IN IF timer.q = NoText THEN Pushed(url) ELSE Replaced(url)
    /\ Navigated("search")
    /\ UNCHANGED <<rendered, draft, stored>>

\* setFlag, setDeviceFilter, setMoreFilters: whatever they write.
Filter(url) ==
    /\ Here /\ url["q"] = rendered["q"] /\ url["sort"] = rendered["sort"]
    /\ \E keys \in {{"flag"}, {"on", "not-on"}} \cup Counted : \A k \in Keys \ keys : url[k] = rendered[k]
    /\ Pushed(url) /\ Navigated("filter")
    /\ UNCHANGED <<rendered, draft, lastWritten, timer, stored>>

ClearFilters ==
    /\ Here
    /\ draft' = NoText /\ timer' = IF draft = NoText THEN timer ELSE Armed(NoText, Q(rendered))
    /\ Pushed(Cleared(rendered)) /\ Navigated("clear")
    /\ UNCHANGED <<rendered, lastWritten, stored>>

ChooseSort(sort) ==
    /\ Here /\ stored' = sort
    /\ Pushed(WithSort(rendered, sort)) /\ Navigated("sort")
    /\ UNCHANGED <<rendered, draft, lastWritten, timer>>

\* Back and Forward, and links: to a page, from a page.
Go(entry) ==
    /\ entry # at /\ at' = entry
    /\ Navigated("go") /\ UNCHANGED <<entries, rendered, draft, lastWritten, timer, stored>>
Follow(url) ==
    /\ Pushed(url)
    /\ Navigated("link") /\ UNCHANGED <<rendered, draft, lastWritten, timer, stored>>

\* The page is rendered for the URL, and its effects run. Those on the search run if it is another.
Arrive ==
    /\ Url # Elsewhere /\ ~Here
    /\ draft' = Q(Url) /\ lastWritten' = Q(Url) /\ timer' = Absent /\ crossed' = FALSE
    /\ stored' \in Sorts        \* what this browser remembers, if it does
Quit ==
    /\ Url = Elsewhere /\ stored' = stored
    /\ draft' = NoText /\ lastWritten' = NoText /\ timer' = Absent /\ crossed' = FALSE
Keep ==
    /\ Url # Elsewhere /\ Here /\ Q(Url) = Q(rendered) /\ stored' = stored
    /\ UNCHANGED <<draft, lastWritten, timer, crossed>>
Follows ==
    /\ Url # Elsewhere /\ Here /\ Q(Url) # Q(rendered) /\ stored' = stored
    /\ lastWritten' = Q(Url) /\ crossed' = FALSE
    /\ IF Q(Url) = lastWritten THEN draft' = draft /\ timer' = Armed(draft, Q(Url))
       ELSE draft' = Q(Url) /\ timer' = Absent
Render ==
    /\ pending /\ pending' = FALSE /\ rendered' = Url
    /\ Arrive \/ Quit \/ Keep \/ Follows
    /\ UNCHANGED <<entries, at, by>>

PageNext ==
    \/ \E text \in Texts : Type(text)
    \/ Pause \/ ClearFilters \/ Render
    \/ \E url \in Urls : Filter(url)
    \/ \E sort \in Sorts : ChooseSort(sort)
    \/ \E entry \in 1..Len(entries) : Go(entry)
    \/ \E url \in Urls \cup {Elsewhere} : Follow(url)

PageSpec == PageInit /\ [][PageNext]_pageVars

--------------------------------------------------------------------------------
(* Properties.                                                                  *)

PageTypeOK ==
    /\ entries \in Seq(Urls \cup {Elsewhere}) /\ at \in 1..Len(entries) /\ rendered \in Urls \cup {Elsewhere}
    /\ pending \in BOOLEAN /\ crossed \in BOOLEAN /\ stored \in Sorts
    /\ draft \in Raw /\ lastWritten \in Raw /\ timer \in [text : Raw, q : Raw] \cup {Absent}

\* The debounce writes what is in the box, by the search the page shows; it is off when they agree.
TheDebounceIsFresh ==
    timer # Absent => Here /\ timer.text = draft /\ timer.q = Q(rendered) /\ draft # Q(rendered)

\* At rest the box holds the search of the URL, unless the URL was changed again before a change of
\* it was rendered.
TheBoxIsInStep == Here /\ ~pending /\ ~crossed /\ timer = Absent => draft = Q(Url)

\* The list is in the order chosen last, after it is chosen.
TheOrderIsAsChosen == by = "sort" => Sort(Url, stored) = stored

\* The page's own search, coming back in the URL, does not take away what was typed since.
NoEchoIsTyped == [][Render /\ by = "search" /\ Url # Elsewhere /\ Here => draft' = draft]_pageVars

\* A search never takes the place of the library without one, and changes nothing else: Back from it
\* is to the list it was started from. Only so if the page is rendered for its URL.
BackIsWhereItBegan ==
    [][Pause /\ ~pending =>
           /\ entries'[at'] = WithQ(Url, draft)
           /\ Q(Url) = NoText => at' = at + 1 /\ entries'[at] = Url]_pageVars

\* The page says that it filters, exactly if it does not ask for everything; and has nothing to
\* clear once it is cleared.
FilteringIsTold(url) ==
    /\ Filtering(url) <=> Request(url) # Everything
    /\ ~Filtering(Cleared(url)) /\ \A sort \in Sorts : Sort(Cleared(url), sort) = Sort(url, sort)

\* What is chosen is what is shown then, and all else is as it was.
ChosenIsShown(url, key, value) ==
    LET chosen == Choose(url, key, value)
    IN  /\ ShownIn(chosen, key) = value
        /\ \A other \in Keys \ {key} : Read(chosen, other) = Read(url, other)
ChosenSizeIsShown(url, size) ==
    ShownSize(ChooseSize(url, size)) = size
        /\ \A other \in Keys \ Sizes : Read(ChooseSize(url, size), other) = Read(url, other)
ChosenDeviceIsShown(url, device) == Device(WithDevice(url, device)) = device

\* Every choice there is matches a game.
OptionsMatch(apps, key) ==
    \A value \in LibraryOptions(apps, key) :
        \E app \in apps : Takes(app, key, Choose(Bare, key, value)[key])
================================================================================
