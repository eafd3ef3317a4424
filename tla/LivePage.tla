-------------------------------- MODULE LivePage -------------------------------
(***************************************************************************)
(* How an open page keeps one list current (web/src/live.ts and the        *)
(* queries of web/src/api): it is fetched, and events from the server's    *)
(* socket either patch it (tasks, jobs) or have it fetched again (the      *)
(* library, devices, saves).  Fetches, events and answers to what the      *)
(* person asked travel apart from each other and arrive in any order.      *)
(***************************************************************************)
EXTENDS Integers, Sequences

CONSTANTS
    Items,      \* entries of the list
    Values,     \* what the server may say of one
    Patched,    \* whether events patch the list
    NotLoaded

VARIABLES
    truth,      \* the list at the server
    socket,     \* "connecting" for the first time, "open", or "lost" until it is open again
    wire,       \* events on their way
    cache,      \* the list the page shows
    fetch,      \* the query's request: none, asked, or answered with
    answer,     \* this list
    reply,      \* the answer to a change the person made, on its way
    stale       \* history: entries that may be behind for one of the causes below

pageVars == <<truth, socket, wire, cache, fetch, answer, reply, stale>>

NoReply == [item |-> NotLoaded, value |-> NotLoaded]
Events == [item : Items, value : Values]

PageSized == NotLoaded \notin Items \cup [Items -> Values] /\ Values # {} /\ Patched \in BOOLEAN

PageTypeOK ==
    /\ truth \in [Items -> Values]
    /\ socket \in {"connecting", "open", "lost"} /\ wire \in Seq(Events)
    /\ cache \in [Items -> Values] \cup {NotLoaded}
    /\ fetch \in {"none", "asked", "answered"} /\ answer \in [Items -> Values]
    /\ reply \in Events \cup {NoReply} /\ stale \subseteq Items

PageInit ==
    /\ truth \in [Items -> Values] /\ socket = "connecting" /\ wire = <<>>
    /\ cache = NotLoaded /\ fetch = "none" /\ answer = truth /\ reply = NoReply /\ stale = {}

--------------------------------------------------------------------------------
(* The server.                                                                  *)

\* A task, job or file changes, and every open socket is told. Before the first one is open the
\* change is in no event, and a list read before has missed it.
Change(i, v) ==
    /\ truth' = [truth EXCEPT ![i] = v]
    /\ wire' = IF socket = "open" THEN Append(wire, [item |-> i, value |-> v]) ELSE wire
    /\ stale' = IF socket = "connecting" /\ (cache # NotLoaded \/ fetch = "answered")
                THEN stale \cup {i} ELSE stale

ServerChanges(i, v) == Change(i, v) /\ UNCHANGED <<socket, cache, fetch, answer, reply>>

\* The same, asked for on this page, which gets the entry as its answer.
PageChanges(i, v) ==
    /\ reply = NoReply /\ cache # NotLoaded
    /\ Change(i, v) /\ reply' = [item |-> i, value |-> v]
    /\ UNCHANGED <<socket, cache, fetch, answer>>

ServerAnswers ==
    /\ fetch = "asked" /\ fetch' = "answered" /\ answer' = truth /\ stale' = {}
    /\ UNCHANGED <<truth, socket, wire, cache, reply>>

--------------------------------------------------------------------------------
(* The query.                                                                   *)

\* A page is opened, or the browser is online again (a window coming to the front does not fetch).
FetchList ==
    /\ fetch = "none" /\ fetch' = "asked"
    /\ UNCHANGED <<truth, socket, wire, cache, answer, reply, stale>>

FetchLands ==
    /\ fetch = "answered" /\ fetch' = "none" /\ cache' = answer
    /\ UNCHANGED <<truth, socket, wire, answer, reply, stale>>

\* The list that is shown stays; it may be behind.
ListFetchFails ==
    /\ fetch # "none" /\ fetch' = "none"
    /\ stale' = IF cache = NotLoaded THEN stale ELSE Items
    /\ UNCHANGED <<truth, socket, wire, cache, answer, reply>>

\* invalidateQueries: a list that is loaded is fetched again, in place of a fetch under way; a first
\* fetch is left as it is.
Invalidated ==
    fetch' = IF cache = NotLoaded THEN fetch ELSE "asked"

\* onSuccess of a change made here: the entry is put in the list.
ReplyLands ==
    /\ reply # NoReply /\ cache # NotLoaded /\ reply' = NoReply
    /\ IF Patched
       THEN /\ cache' = [cache EXCEPT ![reply.item] = reply.value]
            /\ stale' = IF truth[reply.item] # reply.value THEN stale \cup {reply.item} ELSE stale
            /\ UNCHANGED fetch
       ELSE Invalidated /\ UNCHANGED <<cache, stale>>
    /\ UNCHANGED <<truth, socket, wire, answer>>

--------------------------------------------------------------------------------
(* The socket.                                                                  *)

\* applyServerEvent: a list that is not loaded is left to its fetch, even one that the server has
\* answered already; and what a fetch read before the change replaces the patch.
EventArrives ==
    /\ socket = "open" /\ wire # <<>> /\ wire' = Tail(wire)
    /\ LET e == Head(wire)
       IN  IF Patched
           THEN /\ cache' = IF cache = NotLoaded THEN cache ELSE [cache EXCEPT ![e.item] = e.value]
                /\ stale' = IF fetch = "answered" /\ answer[e.item] # truth[e.item]
                            THEN stale \cup {e.item} ELSE stale
                /\ UNCHANGED fetch
           ELSE /\ Invalidated /\ UNCHANGED cache
                /\ stale' = IF fetch' = "answered" /\ answer[e.item] # truth[e.item]
                            THEN stale \cup {e.item} ELSE stale
    /\ UNCHANGED <<truth, socket, answer, reply>>

\* onopen: after a connection that was lost everything is fetched again. A first fetch that was
\* answered meanwhile is not.
SocketOpens ==
    /\ socket # "open" /\ socket' = "open"
    /\ IF socket = "lost"
       THEN /\ Invalidated
            /\ stale' = IF fetch' = "answered" THEN {i \in Items : answer[i] # truth[i]}
                        ELSE IF fetch' = "asked" THEN {} ELSE stale
       ELSE UNCHANGED <<fetch, stale>>
    /\ UNCHANGED <<truth, wire, cache, answer, reply>>

\* onclose, also of a connection that was refused; what was on its way is lost.
SocketCloses ==
    /\ socket' = "lost" /\ wire' = <<>>
    /\ UNCHANGED <<truth, cache, fetch, answer, reply, stale>>

PageNext ==
    \/ \E i \in Items, v \in Values : ServerChanges(i, v) \/ PageChanges(i, v)
    \/ ServerAnswers \/ FetchList \/ FetchLands \/ ListFetchFails \/ ReplyLands
    \/ EventArrives \/ SocketOpens \/ SocketCloses

PageSpec == PageInit /\ [][PageNext]_pageVars

--------------------------------------------------------------------------------
(* Properties.                                                                  *)

Coming(i) == \E k \in DOMAIN wire : wire[k].item = i

\* An entry the page shows wrongly is about to be corrected: by a fetch the server has not answered
\* or has answered since, by an event on its way, or by the fetch that follows a connection that was
\* lost; unless it was read before the first connection or an event of it overtook an answer, or a
\* fetch failed.
WrongIsCorrected ==
    cache # NotLoaded => \A i \in Items \ stale :
        \/ cache[i] = truth[i] /\ fetch = "none"
        \/ fetch = "asked" \/ (fetch = "answered" /\ answer[i] = truth[i])
        \/ Coming(i) \/ socket = "lost"

\* The events of an entry arrive in order: the last one on its way says what the server has.
LastEventIsTrue ==
    socket = "open" => \A k \in DOMAIN wire :
        (\A l \in DOMAIN wire : l > k => wire[l].item # wire[k].item) =>
            wire[k].value = truth[wire[k].item]

\* A page that is connected and quiet shows what the server has.
QuietPageIsRight ==
    socket = "open" /\ wire = <<>> /\ fetch = "none" /\ cache # NotLoaded =>
        \A i \in Items \ stale : cache[i] = truth[i]

================================================================================
