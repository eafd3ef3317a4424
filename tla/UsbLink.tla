-------------------------------- MODULE UsbLink --------------------------------
(***************************************************************************)
(* One USB link: exchangeLocked and pingLoop of the console                *)
(* (transport/usb.cpp), UsbLink.run of the server (usb-host/session.ts).   *)
(* A transfer ends when the other side has taken it, so nothing is on the  *)
(* wire: what both take part in is one step, and whoever finds no partner  *)
(* waits until its timeout.                                                *)
(*                                                                         *)
(* Sizes are in pieces of 1 MiB (USB_STREAM_CHUNK_SIZE, kPayloadBuffer).   *)
(***************************************************************************)
EXTENDS Integers

CONSTANTS
    Bodies,     \* sizes of request bodies; 0 is none
    Payloads,   \* sizes of answers; 0 is none
    MaxPayload  \* maxRequestPayload

VARIABLES
    console,    \* where the console's exchange stands
    id,         \* request id of the last exchange (nextId_ - 1)
    toSend,     \* pieces of the body still to be written
    taken,      \* request id in the answer's header
    toRead,     \* pieces of the answer still to be read
    host,       \* where UsbLink.run stands
    serving,    \* header.requestId
    left,       \* pieces of the body still to be read
    owed,       \* pieces of the answer still to be written
    intact,     \* history: no frame or body was left half written or half read
    calm        \* history: nothing has failed

consoleVars == <<console, id, toSend, taken, toRead>>
hostVars == <<host, serving, left, owed>>
usbVars == <<console, id, toSend, taken, toRead, host, serving, left, owed, intact, calm>>

Writing == {"pinging", "sending", "uploading"}
Awaiting == {"awaiting", "receiving"}
Answering == {"answering", "streaming"}

(* Where a readExact of a body may be under way; a handler that was given a stream reads when  *)
(* it likes.                                                                                    *)
Collects == host \in {"collecting", "handling", "draining"} /\ left > 0

UsbInit ==
    /\ console = "idle" /\ id = 0 /\ toSend = 0 /\ taken = 0 /\ toRead = 0
    /\ host = "header" /\ serving = 0 /\ left = 0 /\ owed = 0
    /\ intact = TRUE /\ calm = TRUE

--------------------------------------------------------------------------------
(* An exchange that goes well.  mutex_ allows one at a time, pings included.     *)

Ping ==
    /\ console = "idle"
    /\ console' = "pinging" /\ id' = id + 1
    /\ UNCHANGED <<toSend, taken, toRead, hostVars, intact, calm>>

\* request, stream or upload, with a body of n pieces.
Request ==
    /\ console = "idle"
    /\ console' = "sending" /\ id' = id + 1 /\ toSend' \in Bodies
    /\ UNCHANGED <<taken, toRead, hostVars, intact, calm>>

\* The header and the JSON of a frame, or a piece of a body, has been written.
Written ==
    \/ /\ console = "pinging" /\ console' = "awaiting" /\ UNCHANGED toSend
    \/ /\ console = "sending" /\ UNCHANGED toSend
       /\ console' = IF toSend = 0 THEN "awaiting" ELSE "uploading"
    \/ /\ console = "uploading" /\ toSend' = toSend - 1
       /\ console' = IF toSend = 1 THEN "awaiting" ELSE "uploading"

(* The host reads a frame.  A ping is answered at once; a body of one piece is read before the *)
(* handler runs, one over the limit is discarded, any other is left to the handler.             *)
TakeFrame ==
    /\ host = "header" /\ console \in {"pinging", "sending"}
    /\ Written
    /\ serving' = id /\ owed' = 0
    /\ left' = IF console = "pinging" THEN 0 ELSE toSend
    /\ host' = IF console = "pinging" THEN "answering"
               ELSE IF toSend > MaxPayload THEN "draining"
               ELSE IF toSend = 1 THEN "collecting" ELSE "handling"
    /\ UNCHANGED <<id, taken, toRead, intact, calm>>

\* The body has n pieces left; read to its end it is handed over, or answered.
Reads(n) ==
    /\ left' = n
    /\ host' = IF n > 0 \/ host = "handling" THEN host
               ELSE IF host = "collecting" THEN "handling" ELSE "answering"

TakePiece ==
    /\ Collects /\ console = "uploading"
    /\ Written /\ Reads(left - 1)
    /\ UNCHANGED <<id, taken, toRead, serving, owed, intact, calm>>

\* The handler returns, or throws: what it left of the body is drained before the answer goes out.
Handle ==
    /\ host = "handling"
    /\ owed' \in Payloads \cup {0}
    /\ host' = IF left = 0 THEN "answering" ELSE "draining"
    /\ UNCHANGED <<consoleVars, serving, left, intact, calm>>

\* The console reads the header and the JSON of an answer; it does not compare the ids.
TakeAnswer ==
    /\ console = "awaiting" /\ host = "answering"
    /\ taken' = serving /\ toRead' = owed
    /\ console' = IF owed = 0 THEN "idle" ELSE "receiving"
    /\ host' = IF owed = 0 THEN "header" ELSE "streaming"
    /\ UNCHANGED <<id, toSend, serving, left, owed, intact, calm>>

\* One piece of the answer, which is read to the end even when nobody wants it any more.
TakeChunk ==
    /\ console = "receiving" /\ host = "streaming"
    /\ toRead' = toRead - 1 /\ owed' = owed - 1
    /\ console' = IF toRead = 1 THEN "idle" ELSE "receiving"
    /\ host' = IF owed = 1 THEN "header" ELSE "streaming"
    /\ UNCHANGED <<id, toSend, taken, serving, left, intact, calm>>

--------------------------------------------------------------------------------
(* Failures.                                                                     *)

(* A timeout, an error of the transfer, or a body source that ends early.  The exception leaves *)
(* the link as it is: a body, or a frame that goes out in two transfers, can be cut off in the   *)
(* middle if the host was reading.                                                               *)
ConsoleFails ==
    /\ console # "idle"
    /\ console' = "idle" /\ toSend' = 0 /\ toRead' = 0 /\ calm' = FALSE
    /\ \/ console \in Awaiting /\ UNCHANGED intact
       \/ console \in {"pinging", "sending"} /\ UNCHANGED intact
       \/ console \in {"pinging", "sending"} /\ (host = "header" \/ Collects) /\ intact' = FALSE
       \/ console = "uploading" /\ intact' = FALSE
    /\ UNCHANGED <<id, taken, hostVars>>

(* A read that stays idle for idleMs, a write nobody takes for 15 s, or an answer that fails half *)
(* way: run ends.  While the handler works, run does not look at the link.                        *)
HostFails ==
    /\ host # "ended"
    /\ host = "handling" => left > 0
    /\ host' = "ended" /\ left' = 0 /\ calm' = FALSE
    /\ UNCHANGED <<consoleVars, serving, owed, intact>>

(* A read of the handler's that fails with part of a piece taken: the handler throws, and what is *)
(* drained before its answer is counted from the last whole piece.                               *)
ReadFails ==
    /\ host = "handling" /\ left > 0 /\ console = "uploading"
    /\ host' = "draining" /\ owed' = 0 /\ intact' = FALSE /\ calm' = FALSE
    /\ UNCHANGED <<consoleVars, serving, left>>

\* After something was cut off, the host takes what comes for the rest of it: bytes of a body ...
Swallow ==
    /\ ~intact /\ Collects /\ console \in Writing
    /\ Written
    /\ \E n \in 0..left : Reads(n)
    /\ UNCHANGED <<id, taken, toRead, serving, owed, intact, calm>>

\* ... or a header, which they are not.
Misread ==
    /\ ~intact /\ host = "header" /\ console \in Writing
    /\ Written
    /\ host' = "ended" /\ left' = 0 /\ calm' = FALSE
    /\ UNCHANGED <<id, taken, toRead, serving, owed, intact>>

(* A link of its own: the cable is plugged in again, the app opens the link again (nextId_ is 0), *)
(* or the server is started while the console is in the middle of something, which it is not told. *)
NewLink ==
    /\ host' = "header" /\ serving' = 0 /\ left' = 0 /\ owed' = 0
    /\ calm' = (console = "idle")
    /\ \/ console = "idle" /\ id' \in {0, id} /\ intact' = TRUE
       \/ console \in Awaiting /\ intact' = TRUE /\ UNCHANGED id
       \/ console \in {"pinging", "sending"} /\ intact' \in BOOLEAN /\ UNCHANGED id
       \/ console = "uploading" /\ intact' = FALSE /\ UNCHANGED id
    /\ UNCHANGED <<console, toSend, taken, toRead>>

--------------------------------------------------------------------------------

Exchange == Ping \/ Request \/ TakeFrame \/ TakePiece \/ Handle \/ TakeAnswer \/ TakeChunk
Failure == ConsoleFails \/ HostFails \/ ReadFails \/ Swallow \/ Misread \/ NewLink

UsbNext == Exchange \/ Failure

UsbSpec == UsbInit /\ [][UsbNext]_usbVars

UsbTypeOK ==
    /\ console \in {"idle"} \cup Writing \cup Awaiting
    /\ host \in {"header", "collecting", "handling", "draining", "ended"} \cup Answering
    /\ id \in Nat /\ toSend \in Nat /\ taken \in Nat /\ toRead \in Nat
    /\ serving \in Nat /\ left \in Nat /\ owed \in Nat
    /\ intact \in BOOLEAN /\ calm \in BOOLEAN

(* "The host replies with exactly one Response carrying the same request id": the answer a        *)
(* console is about to take is that of its request, and what it reads after the header is that    *)
(* answer to its end, also when it gave up on earlier ones.  A body cut off in the middle, by      *)
(* either side, is the exception: nothing drops the link then, and the host goes on reading.       *)
AnswersAreOwn ==
    intact =>
        /\ console = "awaiting" /\ host = "answering" => serving = id
        /\ console = "receiving" /\ host \in Answering =>
               host = "streaming" /\ serving = id /\ taken = id /\ toRead = owed

(* "Answering first would stall both ends": unless something failed, the two never both write or  *)
(* both read, so no exchange is saved by a timeout only.                                          *)
NoStandoff ==
    calm =>
        /\ host # "ended"
        /\ ~(console \in Writing /\ host \in Answering)
        /\ ~(console \in Awaiting /\ (host = "header" \/ left > 0))

================================================================================
