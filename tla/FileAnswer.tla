------------------------------ MODULE FileAnswer ------------------------------
(***************************************************************************)
(* A library file sent to a console: sendLibraryFile of                    *)
(* api/device-routes.ts with parseRangeHeader (device/range.ts) and        *)
(* rangeReadable (library/range-stream.ts).  The file is looked at, opened *)
(* later, and read a chunk at a time; people replace it or write to it     *)
(* between any two of these.                                               *)
(***************************************************************************)
EXTENDS Integers

CONSTANTS
    Sizes,      \* sizes of files
    Stamps,     \* modification times
    Missing,    \* no file, or a header that was not sent
    Chunk       \* bytes read at a time (1 MiB)

VARIABLES
    disk,       \* the file, as its size and modification time
    request,    \* the headers that matter
    handling,   \* where the handler stands
    located,    \* what the lookup found
    range,      \* the bytes promised: the first, and one past the last
    ends,       \* how far the opened file can be read by now
    offset,     \* how far it has been read and sent
    shrunk      \* history: the opened file was shorter than the lookup found

answerVars == <<disk, request, handling, located, range, ends, offset, shrunk>>

Files == [size : Sizes, stamp : Stamps]

--------------------------------------------------------------------------------
(* Ranges.                                                                     *)

\* A Range header: none, the last n bytes, from a byte to another, from a byte on, or no such thing.
Headers ==
    {[kind |-> k, from |-> 0, to |-> 0] : k \in {"none", "bad"}}
    \cup [kind : {"suffix", "bounded", "open"}, from : Nat, to : Nat]

Unsatisfiable == [first |-> 0, limit |-> 0]

\* parseRangeHeader, of a header that asks for part of a file; `to` is not part of the others' text.
ParseRange(h, size) ==
    CASE h.kind = "suffix" /\ h.from # 0 /\ size # 0 ->
             [first |-> IF h.from < size THEN size - h.from ELSE 0, limit |-> size]
      [] h.kind = "bounded" /\ h.from < size /\ h.from <= h.to ->
             [first |-> h.from, limit |-> IF h.to < size - 1 THEN h.to + 1 ELSE size]
      [] h.kind = "open" /\ h.from < size ->
             [first |-> h.from, limit |-> size]
      [] OTHER -> Unsatisfiable

\* What such a header means: the bytes of the file it asks for.
Wanted(h, size) ==
    {i \in 0..(size - 1) :
        \/ h.kind = "suffix" /\ i >= size - h.from
        \/ h.kind = "bounded" /\ h.from <= i /\ i <= h.to
        \/ h.kind = "open" /\ h.from <= i}

--------------------------------------------------------------------------------
(* The handler.                                                                *)

AnswerInit ==
    /\ disk \in Files \cup {Missing}
    /\ request \in [ifMatch : Files \cup {Missing}, ifRange : Files \cup {Missing}, range : Headers]
    /\ handling = "locating" /\ located = Missing
    /\ range = Unsatisfiable /\ ends = 0 /\ offset = 0
    /\ shrunk = FALSE

Promise(first, limit) == range' = [first |-> first, limit |-> limit] /\ offset' = first

\* locateLibraryFile, and the headers it decides about.
Locate ==
    /\ handling = "locating"
    /\ located' = disk
    /\ \/ /\ disk = Missing \/ (disk # Missing /\ request.ifMatch \notin {Missing, disk})
          /\ handling' = "refused"
          /\ UNCHANGED <<range, offset>>
       \/ /\ disk # Missing /\ request.ifMatch \in {Missing, disk}
          /\ \/ /\ request.range.kind = "none" \/ request.ifRange \notin {Missing, disk}
                /\ handling' = IF disk.size = 0 THEN "ended" ELSE "opening"
                /\ Promise(0, disk.size)
             \/ /\ request.range.kind # "none" /\ request.ifRange \in {Missing, disk}
                /\ LET parsed == ParseRange(request.range, disk.size)
                   IN IF parsed = Unsatisfiable
                      THEN handling' = "refused" /\ UNCHANGED <<range, offset>>
                      ELSE handling' = "opening" /\ Promise(parsed.first, parsed.limit)
    /\ UNCHANGED <<disk, request, ends, shrunk>>

\* openLocatedFile; a file gone meanwhile is an error.
Open ==
    /\ handling = "opening"
    /\ \/ /\ disk # Missing
          /\ handling' = "sending" /\ ends' = disk.size
          /\ shrunk' = (shrunk \/ disk.size < located.size)
       \/ /\ disk = Missing
          /\ handling' = "refused"
          /\ UNCHANGED <<ends, shrunk>>
    /\ UNCHANGED <<disk, request, located, range, offset>>

\* rangeReadable: the next chunk, or less of it where the file ends.
SendChunk ==
    /\ handling = "sending" /\ offset < range.limit /\ offset < ends
    /\ LET piece == IF range.limit - offset < Chunk THEN range.limit - offset ELSE Chunk
       IN offset' = IF ends < offset + piece THEN ends ELSE offset + piece
    /\ UNCHANGED <<disk, request, handling, located, range, ends, shrunk>>

\* Everything was sent, or nothing more can be read.
SendEnds ==
    /\ handling = "sending" /\ (offset >= range.limit \/ offset >= ends)
    /\ handling' = "ended"
    /\ UNCHANGED <<disk, request, located, range, ends, offset, shrunk>>

\* The console goes away: the stream is destroyed.
HangUp ==
    /\ handling = "sending"
    /\ handling' = "refused"
    /\ UNCHANGED <<disk, request, located, range, ends, offset, shrunk>>

--------------------------------------------------------------------------------
(* People.                                                                     *)

\* Another file takes the name, or none; what is open stays as it is.
Replace ==
    /\ disk' \in Files \cup {Missing}
    /\ UNCHANGED <<request, handling, located, range, ends, offset, shrunk>>

\* The file itself is written to.
Rewrite ==
    /\ handling = "sending" /\ disk # Missing
    /\ disk' \in Files
    /\ ends' = disk'.size
    /\ shrunk' = (shrunk \/ disk'.size < located.size)
    /\ UNCHANGED <<request, handling, located, range, offset>>

--------------------------------------------------------------------------------

AnswerNext == Locate \/ Open \/ SendChunk \/ SendEnds \/ HangUp \/ Replace \/ Rewrite

AnswerSpec == AnswerInit /\ [][AnswerNext]_answerVars

AnswerTypeOK ==
    /\ disk \in Files \cup {Missing} /\ located \in Files \cup {Missing}
    /\ request \in [ifMatch : Files \cup {Missing}, ifRange : Files \cup {Missing}, range : Headers]
    /\ handling \in {"locating", "opening", "sending", "ended", "refused"}
    /\ range \in [first : Nat, limit : Nat] /\ ends \in Nat /\ offset \in Nat
    /\ shrunk \in BOOLEAN

\* A range was asked for, of the file that is there.
Partial == request.range.kind # "none" /\ request.ifRange \in {Missing, located}

(* The bytes promised by the status and the headers of an answer are those asked for, of the    *)
(* file as it was looked at.                                                                    *)
PromisesWhatWasAsked ==
    handling \in {"opening", "sending", "ended"} =>
        range.first..(range.limit - 1) =
            IF Partial THEN Wanted(request.range, located.size) ELSE 0..(located.size - 1)

(* The body is never longer than its content-length, and shorter only if the file got shorter   *)
(* after it was looked at: what is left of a body tells a console where to resume.              *)
BodyFitsHeaders ==
    /\ handling \in {"opening", "sending", "ended"} => range.first <= offset /\ offset <= range.limit
    /\ handling = "ended" => offset = range.limit \/ shrunk

================================================================================
