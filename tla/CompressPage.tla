------------------------------ MODULE CompressPage ------------------------------
(***************************************************************************)
(* The compressions a page shows: the tasks of CompressService             *)
(* (library/compress-service.ts) as the Compression page lists them        *)
(* (web/pages/CompressionPage.tsx, components/CompressStatus.tsx), kept    *)
(* current by lists, events and the answers to its own requests, which     *)
(* travel apart from each other.  What a run does to files is module       *)
(* Compression; how a list that raced a change is corrected is LivePage.   *)
(***************************************************************************)
EXTENDS Integers, FiniteSets

CONSTANTS
    Files,      \* NSP files of the library
    NszFiles,   \* NSZ files
    TitleIds,
    NszVersions, \* None for one that is not known
    Limit,      \* MAX_FINISHED_TASKS
    None

Phases == {"compressing", "checking", "finishing"}
PhaseRank == [p \in Phases |-> IF p = "compressing" THEN 1 ELSE IF p = "checking" THEN 2 ELSE 3]
States == {"queued", "running", "done", "failed", "cancelled"}

\* CompressTask; the stamp stands for its place in #tasks, which keeps the order of insertion.
CTasks == [file : Files, stamp : Nat \ {0}, state : States, phase : Phases \cup {None},
           result : {None, "kept", "removed"}, error : {None, "setup", "other"}]
CTask(file, stamp, state, phase) ==
    [file |-> file, stamp |-> stamp, state |-> state, phase |-> phase, result |-> None, error |-> None]
DoneTask(w, result) == [CTask(w.file, w.stamp, "done", None) EXCEPT !.result = result]
FailedTask(w, error) == [CTask(w.file, w.stamp, "failed", None) EXCEPT !.error = error]

\* One row of the join that candidates() reads: files that are there, in folders that are enabled.
Rows == [file : Files \cup NszFiles, title : TitleIds, version : NszVersions, known : BOOLEAN]

PageSized ==
    /\ IsFiniteSet(Files) /\ Files \cap NszFiles = {} /\ Limit \in Nat \ {0}
    /\ None \notin Phases \cup {"kept", "removed", "setup", "other"} /\ None \notin CTasks \cup [file : Files, stamp : Nat]

VARIABLES
    entries,    \* #tasks
    lastStart,  \* the stamp of the last one
    worker,     \* whose #run the queue is in, or None
    removals,   \* removeOriginal requests that look at the disk
    online,     \* the page's socket is open
    wire,       \* events on their way
    said,       \* events published
    loaded,     \* the page has a list
    shown,      \* the task it shows for each file, or None
    place,      \* where: the list is newest first, by this
    via,        \* what put it there: "list", "event" or "answer"
    front,      \* the place of its first
    lists,      \* lists on their way
    answers,    \* answers to what the page asked for one file
    batch,      \* "Compress all": the request under way, or None
    rows,       \* the library's contents
    cands,      \* the candidates the page has
    begun,      \* history: which file each stamp is of
    heard,      \* history: up to which stamp the page was told of starts
    missed,     \* history: events were lost since the last list
    shadowed,   \* history: files the last event of which is not of the entry #tasks has
    announced   \* history: stamps whose end was shown as a toast

server == <<entries, lastStart, worker, removals>>
feed == <<wire, said, shadowed>>
page == <<loaded, shown, place, via, front>>
asked == <<lists, answers, batch>>
library == <<rows, cands>>
cpVars == <<entries, lastStart, worker, removals, online, wire, said, loaded, shown, place, via, front,
            lists, answers, batch, rows, cands, begun, heard, missed, shadowed, announced>>

--------------------------------------------------------------------------------
(* The service.                                                                 *)

\* isActive, isCompressActive.
CActive(t) == t # None /\ t.state \in {"queued", "running"}
Ended(es) == {f \in Files : es[f] # None /\ ~CActive(es[f])}

\* #trimFinished: one too many is the most there ever are.
Eldest(es) == CHOOSE f \in Ended(es) : \A g \in Ended(es) : es[f].stamp <= es[g].stamp
Trim(es) == IF Cardinality(Ended(es)) <= Limit THEN es ELSE [es EXCEPT ![Eldest(es)] = None]

\* #publish, once #tasks is es.
Publish(t, es) ==
    /\ said' = said + 1
    /\ wire' = IF online THEN wire \cup {[n |-> said + 1, task |-> t]} ELSE wire
    /\ shadowed' = IF es[t.file] = t THEN shadowed \ {t.file} ELSE shadowed \cup {t.file}

\* #update and #finish.
Update(t) == entries' = [entries EXCEPT ![t.file] = t] /\ Publish(t, entries')
Finish(t) == entries' = Trim([entries EXCEPT ![t.file] = t]) /\ Publish(t, entries')

\* start, past its awaits: a file that has a task under way keeps it.
NewTask(f) == CTask(f, lastStart + 1, "queued", None)
Began(f) == IF CActive(entries[f]) THEN entries[f] ELSE NewTask(f)
StartTask(f) ==
    /\ UNCHANGED <<worker, removals, online>>
    /\ IF CActive(entries[f]) THEN UNCHANGED <<entries, lastStart, begun, heard, feed>>
       ELSE /\ Finish(NewTask(f)) /\ lastStart' = lastStart + 1
            /\ begun' = begun \cup {[stamp |-> lastStart + 1, file |-> f]}
            /\ heard' = IF online THEN heard ELSE lastStart + 1

\* #queue: one run at a time, and the one that was added first.
RunBegins ==
    /\ worker = None
    /\ \E f \in Files :
           /\ entries[f] # None /\ entries[f].state = "queued"
           /\ \A g \in Files : entries[g] # None /\ entries[g].state = "queued" => entries[f].stamp <= entries[g].stamp
           /\ worker' = [file |-> f, stamp |-> entries[f].stamp]
           /\ Update(CTask(f, entries[f].stamp, "running", "compressing"))
    /\ UNCHANGED <<lastStart, removals, online, page, asked, library, begun, heard, missed, announced>>

\* The run's entry was not cancelled.
Running == worker # None /\ entries[worker.file] # None /\ entries[worker.file].stamp = worker.stamp
                         /\ entries[worker.file].state = "running"
Progress(p) ==
    /\ Running /\ PhaseRank[entries[worker.file].phase] <= PhaseRank[p]
    /\ Update(CTask(worker.file, worker.stamp, "running", p))
    /\ UNCHANGED <<lastStart, worker, removals, online, page, asked, library, begun, heard, missed, announced>>

\* A run that was cancelled reads one more chunk and publishes its entry, wherever that is by now.
LateProgress(p) ==
    /\ worker # None /\ ~Running
    /\ LET t == CTask(worker.file, worker.stamp, "cancelled", p)
       IN  IF entries[t.file] # None /\ entries[t.file].stamp = t.stamp THEN Update(t)
           ELSE Publish(t, entries) /\ UNCHANGED entries
    /\ UNCHANGED <<lastStart, worker, removals, online, page, asked, library, begun, heard, missed, announced>>

RunEnds ==
    /\ worker # None /\ worker' = None
    /\ IF Running
       THEN \/ \E result \in {"kept", "removed"} :
                   /\ entries[worker.file].phase = "finishing"
                   /\ Finish(DoneTask(worker, result))
            \/ \E error \in {"setup", "other"} :
                   Finish(FailedTask(worker, error))
       ELSE UNCHANGED <<entries, feed>>
    /\ UNCHANGED <<lastStart, removals, online, page, asked, library, begun, heard, missed, announced>>

\* cancel: a task that ended stays as it is.
Stopped(f) == IF CActive(entries[f]) THEN CTask(f, entries[f].stamp, "cancelled", None) ELSE entries[f]
Cancel(f) ==
    /\ entries[f] # None /\ UNCHANGED <<lastStart, worker, removals, online, begun, heard>>
    /\ IF CActive(entries[f]) THEN Finish(Stopped(f)) ELSE UNCHANGED <<entries, feed>>

\* removeOriginal, around its look at the disk; then it updates the entry it began with.
RemovalBegins(f, here) ==
    /\ entries[f] # None /\ entries[f].result = "kept"
    /\ here => shown[f] # None /\ shown[f].result = "kept"
    /\ removals' = removals \cup {[task |-> entries[f], here |-> here]}
    /\ UNCHANGED <<entries, lastStart, worker, online, feed, page, asked, library, begun, heard, missed, announced>>
RemovalEnds(r) ==
    /\ removals' = removals \ {r}
    /\ LET t == [r.task EXCEPT !.result = "removed"]
       IN  /\ IF entries[t.file] # None /\ entries[t.file].stamp = t.stamp THEN Update(t)
              ELSE Publish(t, entries) /\ UNCHANGED entries
           /\ answers' = IF r.here THEN answers \cup {t} ELSE answers
    /\ UNCHANGED <<lastStart, worker, online, page, lists, batch, library, begun, heard, missed, announced>>
RemovalRefused(r) ==
    /\ removals' = removals \ {r}
    /\ UNCHANGED <<entries, lastStart, worker, online, feed, page, asked, library, begun, heard, missed, announced>>

\* clearFinished, which tells nobody but the page that asked.
Kept == [f \in Files |-> IF CActive(entries[f]) THEN entries[f] ELSE None]
Clear(here) ==
    /\ entries' = Kept
    /\ lists' = IF here THEN lists \cup {[list |-> Kept, upTo |-> lastStart]} ELSE lists
    /\ UNCHANGED <<lastStart, worker, removals, online, feed, page, answers, batch, library,
                   begun, heard, missed, announced>>

\* The tasks are in memory.
Restart ==
    /\ entries' = [f \in Files |-> None] /\ worker' = None /\ removals' = {} /\ batch' = None
    /\ online' = FALSE /\ wire' = {} /\ heard' = lastStart /\ missed' = TRUE
    /\ UNCHANGED <<lastStart, said, shadowed, page, lists, answers, library, begun, announced>>

--------------------------------------------------------------------------------
(* The files left to compress.                                                  *)

RowsOf(f) == {r \in rows : r.file = f}
Key(r) == <<r.title, r.version>>
Packed == {Key(r) : r \in {s \in rows : s.file \in NszFiles}}
Candidates ==
    {f \in Files : /\ RowsOf(f) # {} /\ \A r \in RowsOf(f) : r.known
                   /\ \E r \in RowsOf(f) : Key(r) \notin Packed}

LibraryChanges ==
    /\ rows' \in SUBSET Rows
    /\ UNCHANGED <<server, online, feed, page, asked, cands, begun, heard, missed, announced>>

\* Fetched with the page, and after an end and a change of the library.
CandidatesLand ==
    /\ cands' = Candidates
    /\ UNCHANGED <<server, online, feed, page, asked, rows, begun, heard, missed, announced>>

--------------------------------------------------------------------------------
(* The page.                                                                    *)

\* CandidatesSection; and what the row of a task that ended offers, and says.
Waiting == {f \in cands : ~CActive(shown[f])}
Retried == {f \in Files : shown[f] # None /\ (shown[f].state = "cancelled" \/ shown[f].error = "other")}
Headline(t) == IF t.state = "done" /\ t.result # None THEN "compressed"
               ELSE IF t.state = "failed" THEN "could not compress" ELSE "stopped"

\* ActiveSection: the oldest first, and the one that runs before the others.
Leads(f, g) == IF shown[f].state = shown[g].state THEN place[f] < place[g] ELSE shown[f].state = "running"

StartHere(f) ==
    /\ f \in Waiting \cup Retried /\ StartTask(f) /\ answers' = answers \cup {Began(f)}
    /\ UNCHANGED <<page, lists, batch, library, missed, announced>>
StartElsewhere(f) == StartTask(f) /\ UNCHANGED <<page, asked, library, missed, announced>>
CancelHere(f) ==
    /\ CActive(shown[f]) /\ Cancel(f) /\ answers' = answers \cup {Stopped(f)}
    /\ UNCHANGED <<page, lists, batch, library, missed, announced>>
CancelElsewhere(f) == Cancel(f) /\ UNCHANGED <<page, asked, library, missed, announced>>

\* POST /compress: one after the other, and the answer names those that were queued.
StartAll ==
    /\ batch = None /\ Waiting # {} /\ batch' = [left |-> Waiting, got |-> {}, count |-> 0]
    /\ UNCHANGED <<server, online, feed, page, lists, answers, library, begun, heard, missed, announced>>
StartNext(f) ==
    /\ batch # None /\ f \in batch.left /\ StartTask(f)
    /\ batch' = [left |-> batch.left \ {f}, got |-> batch.got \cup {[nth |-> batch.count + 1, task |-> Began(f), new |-> ~CActive(entries[f])]},
                 count |-> batch.count + 1]
    /\ UNCHANGED <<page, lists, answers, library, missed, announced>>
SkipNext(f) ==
    /\ batch # None /\ f \in batch.left /\ batch' = [batch EXCEPT !.left = @ \ {f}]
    /\ UNCHANGED <<server, online, feed, page, lists, answers, library, begun, heard, missed, announced>>

\* upsertCompressTask: in front, in place of the file's other one.
Upsert(t, how) ==
    /\ loaded' = TRUE /\ front' = front + 1
    /\ shown' = [shown EXCEPT ![t.file] = t] /\ place' = [place EXCEPT ![t.file] = front + 1]
    /\ via' = [via EXCEPT ![t.file] = how]

\* The first of them ends up in front.
InBatch(f) == {g \in batch.got : g.task.file = f}
BatchLands ==
    /\ batch # None /\ batch.left = {} /\ batch' = None
    /\ loaded' = TRUE /\ front' = front + batch.count + 1
    /\ shown' = [f \in Files |-> IF InBatch(f) = {} THEN shown[f] ELSE (CHOOSE g \in InBatch(f) : TRUE).task]
    /\ place' = [f \in Files |-> IF InBatch(f) = {} THEN place[f]
                                 ELSE front + batch.count + 1 - (CHOOSE g \in InBatch(f) : TRUE).nth]
    /\ via' = [f \in Files |-> IF InBatch(f) = {} THEN via[f] ELSE "answer"]
    /\ UNCHANGED <<server, online, feed, lists, answers, library, begun, heard, missed, announced>>
AnswerLands(t) ==
    /\ answers' = answers \ {t} /\ Upsert(t, "answer")
    /\ UNCHANGED <<server, online, feed, lists, batch, library, begun, heard, missed, announced>>

ListIsRead ==
    /\ lists' = lists \cup {[list |-> entries, upTo |-> lastStart]}
    /\ UNCHANGED <<server, online, feed, page, answers, batch, library, begun, heard, missed, announced>>
ListLands(l) ==
    /\ lists' = lists \ {l} /\ loaded' = TRUE /\ shown' = l.list /\ front' = l.upTo
    /\ place' = [f \in Files |-> IF l.list[f] = None THEN 0 ELSE l.list[f].stamp]
    /\ via' = [f \in Files |-> "list"] /\ missed' = FALSE
    /\ UNCHANGED <<server, online, feed, answers, batch, library, begun, heard, announced>>

\* Requests that failed, and lists another request took the place of.
Lost ==
    /\ \/ \E l \in lists : lists' = lists \ {l} /\ UNCHANGED <<answers, batch>>
       \/ \E t \in answers : answers' = answers \ {t} /\ UNCHANGED <<lists, batch>>
       \/ batch # None /\ batch' = None /\ UNCHANGED <<lists, answers>>
    /\ UNCHANGED <<server, online, feed, page, library, begun, heard, missed, announced>>

\* compress.updated, with announceCompression; a list that is not there is left to its fetch.
Announces(t) == CActive(shown[t.file]) /\ t.state \in {"done", "failed"}
EventLands(e) ==
    /\ \A d \in wire : e.n <= d.n
    /\ wire' = wire \ {e}
    /\ heard' = IF e.task.state = "queued" THEN e.task.stamp ELSE heard
    /\ IF loaded THEN /\ Upsert(e.task, "event")
                      /\ announced' = IF Announces(e.task) THEN announced \cup {e.task.stamp} ELSE announced
       ELSE UNCHANGED <<page, announced>>
    /\ UNCHANGED <<server, online, said, shadowed, asked, library, begun, missed>>

\* The socket of module LivePage.
GoOffline ==
    /\ online' = FALSE /\ wire' = {} /\ heard' = lastStart /\ missed' = TRUE
    /\ UNCHANGED <<server, said, shadowed, page, asked, library, begun, announced>>
GoOnline ==
    /\ online' = TRUE
    /\ UNCHANGED <<server, feed, page, asked, library, begun, heard, missed, announced>>

CpInit ==
    /\ entries = [f \in Files |-> None] /\ lastStart = 0 /\ worker = None /\ removals = {}
    /\ online = FALSE /\ wire = {} /\ said = 0
    /\ loaded = FALSE /\ shown = [f \in Files |-> None] /\ place = [f \in Files |-> 0]
    /\ via = [f \in Files |-> "list"] /\ front = 0
    /\ lists = {} /\ answers = {} /\ batch = None /\ rows \in SUBSET Rows /\ cands = {}
    /\ begun = {} /\ heard = 0 /\ missed = TRUE /\ shadowed = {} /\ announced = {}

CpNext ==
    \/ RunBegins \/ RunEnds \/ Restart \/ LibraryChanges \/ CandidatesLand
    \/ StartAll \/ BatchLands \/ ListIsRead \/ Lost \/ GoOffline \/ GoOnline
    \/ \E p \in Phases : Progress(p)
    \/ \E p \in {"compressing", "checking"} : LateProgress(p)
    \/ \E f \in Files : \/ StartHere(f) \/ StartElsewhere(f) \/ StartNext(f) \/ SkipNext(f)
                        \/ CancelHere(f) \/ CancelElsewhere(f)
    \/ \E f \in Files, here \in BOOLEAN : RemovalBegins(f, here)
    \/ \E r \in removals : RemovalEnds(r) \/ RemovalRefused(r)
    \/ \E here \in BOOLEAN : Clear(here)
    \/ \E t \in answers : AnswerLands(t)
    \/ \E l \in lists : ListLands(l)
    \/ \E e \in wire : EventLands(e)

CpSpec == CpInit /\ [][CpNext]_cpVars

--------------------------------------------------------------------------------
(* Properties.                                                                  *)

\* A task says what became of it: a result once it is done, an error when it failed, a phase while
\* it runs.
TaskOK(t, b) ==
    /\ t \in CTasks /\ [stamp |-> t.stamp, file |-> t.file] \in b
    /\ t.state = "done" <=> t.result # None
    /\ t.state = "failed" <=> t.error # None
    /\ t.state = "running" => t.phase # None
ListOK(list, b) ==
    /\ list \in [Files -> CTasks \cup {None}]
    /\ \A f \in Files : list[f] # None => list[f].file = f /\ TaskOK(list[f], b)

BatchOK(b) ==
    /\ b = [left |-> b.left, got |-> b.got, count |-> b.count] /\ b.left \subseteq Files /\ b.count \in Nat
    /\ \A g \in b.got : /\ g = [nth |-> g.nth, task |-> g.task, new |-> g.new] /\ g.new \in BOOLEAN
                        /\ g.nth \in 1..b.count /\ TaskOK(g.task, begun) /\ g.task.file \notin b.left
                        /\ \A h \in b.got : g.task.file = h.task.file => g = h

CpTypeOK ==
    /\ ListOK(entries, begun) /\ lastStart \in Nat
    /\ worker = None \/ (worker \in [file : Files, stamp : Nat \ {0}] /\ [stamp |-> worker.stamp, file |-> worker.file] \in begun)
    /\ \A r \in removals : r.here \in BOOLEAN /\ TaskOK(r.task, begun) /\ r.task.result = "kept" /\ r = [task |-> r.task, here |-> r.here]
    /\ online \in BOOLEAN /\ said \in Nat
    /\ \A e \in wire : e = [n |-> e.n, task |-> e.task] /\ e.n \in 1..said /\ TaskOK(e.task, begun)
    /\ loaded \in BOOLEAN /\ ListOK(shown, begun) /\ place \in [Files -> Nat] /\ front \in Nat
    /\ via \in [Files -> {"list", "event", "answer"}]
    /\ \A l \in lists : ListOK(l.list, begun) /\ l.upTo \in 0..lastStart /\ l = [list |-> l.list, upTo |-> l.upTo]
    /\ \A t \in answers : TaskOK(t, begun)
    /\ batch = None \/ BatchOK(batch)
    /\ rows \subseteq Rows /\ cands \subseteq Files
    /\ begun \subseteq [stamp : 1..lastStart, file : Files] /\ heard \in 0..lastStart
    /\ missed \in BOOLEAN /\ shadowed \subseteq Files /\ announced \subseteq 1..lastStart

\* "Stopped" heads, of the tasks that ended, one that was cancelled and no other.
HeadlinesAreTrue ==
    \A f \in Files : shown[f] # None /\ ~CActive(shown[f]) =>
        (Headline(shown[f]) = "stopped" <=> shown[f].state = "cancelled")

\* One compression runs at a time, and those that wait were started after it.
QueueIsInOrder ==
    \A f, g \in Files : entries[f] # None /\ entries[g] # None /\ f # g /\ entries[f].state = "running" =>
        /\ entries[g].state # "running"
        /\ entries[g].state = "queued" => entries[f].stamp < entries[g].stamp

\* The list is kept short, and a task that ended is forgotten for one that ended only when as many that
\* were started after it have ended.
FinishedAreFew == Cardinality(Ended(entries)) <= Limit
OldestGoFirst ==
    [][\A f \in Files : said' # said /\ entries[f] # None /\ entries'[f] = None =>
           \A g \in Ended(entries') : entries[f].stamp < entries'[g].stamp]_cpVars

\* The page shows those that wait in the order in which they will run, but for one that an answer put
\* there, and unless events were lost or one of them is about to be put in front.
QueueIsShownInOrder ==
    ~missed => \A f, g \in Files :
        /\ shown[f] # None /\ shown[f].state = "queued" /\ via[f] # "answer"
        /\ shown[g] # None /\ shown[g].state = "queued" /\ via[g] # "answer"
        /\ shown[f].stamp < shown[g].stamp /\ shown[g].stamp <= heard
        => Leads(f, g)

\* The last event of a file on its way is what the service has, but of a file that was started again
\* while a run that was cancelled or a removal was still going on.
LastEventIsTheEntry ==
    \A e \in wire : e.task.file \notin shadowed /\ entries[e.task.file] # None
                    /\ (\A d \in wire : d.task.file = e.task.file => d.n <= e.n) => e.task = entries[e.task.file]

\* An end is announced once: again only if a list or an answer had set the task back, or for a removal
\* that ends after the file was started again.
AnnouncedOnce ==
    [][\A e \in wire : wire' = wire \ {e} /\ loaded /\ Announces(e.task) /\ e.task.stamp \in announced =>
           via[e.task.file] # "event" \/ shown[e.task.file].stamp > e.task.stamp]_cpVars

\* "Compress all" shows what it queued in the reverse of the order in which it will run.
BatchTurnsTheQueue ==
    [][BatchLands => \A g, h \in batch.got : g.new /\ h.new /\ g.task.stamp < h.task.stamp =>
           place'[h.task.file] < place'[g.task.file]]_cpVars

\* An NSZ that comes only takes away candidates.
NszOnlyTakesAway ==
    [][rows \subseteq rows' /\ (\A r \in rows' \ rows : r.file \in NszFiles) => Candidates' \subseteq Candidates]_cpVars

================================================================================
