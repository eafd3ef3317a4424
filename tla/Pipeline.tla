------------------------------ MODULE Pipeline ------------------------------
(***************************************************************************)
(* One NCA on its way from the server to a placeholder: runPipeline of     *)
(* install/pipeline.cpp over streamResuming of transport/resume.cpp.  The  *)
(* reader downloads and resumes after a drop, the decoder decompresses an  *)
(* NCZ or copies, the writer fills the placeholder; two rings connect the  *)
(* three threads, and any of them may fail.                                *)
(*                                                                         *)
(* On the console the reader runs on the UI thread: the user can cancel    *)
(* only where a download callback lets the UI run.                         *)
(***************************************************************************)
EXTENDS ByteRing

CONSTANTS
    Chunks,         \* pieces the entry is downloaded in
    MaxAttempts,    \* attempts that may fail in a row (5 in HttpTransport)
    MaxTroubles     \* bound: drops, early closes, refusals and failures

ASSUME PipelineAssumption == Chunks \in Nat /\ MaxAttempts \in Nat \ {0} /\ MaxTroubles \in Nat

VARIABLES
    mode,       \* what the entry is: a plain NCA, an NCZ of blocks, a solid NCZ
    used,       \* chunks the NCZ stream ends after; what follows is padding
    compressed, \* ring from reader to decoder
    plain,      \* ring from decoder to writer
    pc,         \* where each thread stands
    stream,     \* streamResuming: chunks delivered, delivered by this attempt, failures in a row
    decoded,    \* chunks the decoder has taken
    thrown,     \* the exception each thread is handling
    fail,       \* the pipeline's error: the first
    written,    \* what was written to the placeholder
    cancel,     \* the cancel flag
    result,     \* what the engine makes of it
    troubles    \* history: how many troubles so far

vars == <<mode, used, compressed, plain, pc, stream, decoded, thrown, fail, written, cancel, result, troubles>>

Threads == {"reader", "decoder", "writer"}
Errors == {"cancelled", "network", "refused", "format", "write", "spawn"}

(* Chunks that make up the NCA. *)
Needed == IF mode = "plain" THEN Chunks ELSE used

Init ==
    /\ mode \in {"plain", "block", "solid"}
    /\ used \in 1..(Chunks + 1)
    /\ mode = "plain" => used = 1
    /\ compressed = EmptyRing /\ plain = EmptyRing
    /\ pc = [t \in Threads |-> IF t = "reader" THEN "spawn" ELSE IF t = "decoder" THEN "pop" ELSE "none"]
    /\ stream = [done |-> 0, got |-> 0, failures |-> 0]
    /\ decoded = 0
    /\ thrown = [t \in Threads |-> NoError]
    /\ fail = NoError
    /\ written = <<>>
    /\ cancel = FALSE
    /\ result = "none"
    /\ troubles = 0

Go(t, p) == pc' = [pc EXCEPT ![t] = p]
Spend == troubles < MaxTroubles /\ troubles' = troubles + 1

(* A thread leaves its loop with an exception; `capture` follows. *)
Throw(t, e) == pc' = [pc EXCEPT ![t] = "capture"] /\ thrown' = [thrown EXCEPT ![t] = e]

(* Faulty variant of RingThrows: a waiting push does not look at the flag. *)
RingThrowsAfterWait(t, q) ==
    /\ (cancel /\ ~IsFull(q)) \/ q.err # NoError
    /\ Throw(t, IF cancel THEN "cancelled" ELSE q.err)

(* A push or pop of ring q throws: the cancel flag is looked at before err_. *)
RingThrows(t, q) ==
    /\ cancel \/ q.err # NoError
    /\ Throw(t, IF cancel THEN "cancelled" ELSE q.err)

CanPush(q) == ~cancel /\ q.err = NoError /\ ~IsFull(q)
CanPop(q) == ~cancel /\ q.err = NoError /\ HasAnswer(q)

-----------------------------------------------------------------------------
(* capture: the first error is kept, then both rings are aborted; failMu is  *)
(* held throughout.                                                         *)

Capture(t) ==
    /\ pc[t] = "capture"
    /\ \A u \in Threads : pc[u] # "abort"
    /\ fail' = IF fail = NoError THEN thrown[t] ELSE fail
    /\ compressed' = Aborted(compressed, thrown[t])
    /\ Go(t, "abort")
    /\ UNCHANGED <<mode, used, plain, stream, decoded, thrown, written, cancel, result, troubles>>

(* Faulty variant of AbortPlain: only the ring in front of the decoder is aborted. *)
AbortNothing(t) ==
    /\ pc[t] = "abort"
    /\ Go(t, "done")
    /\ UNCHANGED <<mode, used, compressed, plain, stream, decoded, thrown, fail, written, cancel, result, troubles>>

AbortPlain(t) ==
    /\ pc[t] = "abort"
    /\ plain' = Aborted(plain, thrown[t])
    /\ Go(t, "done")
    /\ UNCHANGED <<mode, used, compressed, stream, decoded, thrown, fail, written, cancel, result, troubles>>

-----------------------------------------------------------------------------
(* The reader.                                                             *)

(* The writer's thread is started before the reader goes to work. *)
SpawnWriter ==
    /\ pc["reader"] = "spawn"
    /\ pc' = [pc EXCEPT !["reader"] = "fetch", !["writer"] = "pop"]
    /\ UNCHANGED <<mode, used, compressed, plain, stream, decoded, thrown, fail, written, cancel, result, troubles>>

SpawnFails ==
    /\ pc["reader"] = "spawn" /\ Spend
    /\ pc' = [pc EXCEPT !["reader"] = "capture", !["writer"] = "done"]
    /\ thrown' = [thrown EXCEPT !["reader"] = "spawn"]
    /\ UNCHANGED <<mode, used, compressed, plain, stream, decoded, fail, written, cancel, result>>

(* The next chunk arrives and goes to the sink, which looks at the flag first. *)
ReceiveChunk ==
    /\ pc["reader"] = "fetch" /\ stream.done < Chunks
    /\ IF cancel THEN Throw("reader", "cancelled") ELSE (Go("reader", "push") /\ UNCHANGED thrown)
    /\ UNCHANGED <<mode, used, compressed, plain, stream, decoded, fail, written, cancel, result, troubles>>

PushChunk ==
    /\ pc["reader"] = "push"
    /\ CanPush(compressed)
    /\ compressed' = Pushed(compressed, Data(stream.done + 1))
    /\ stream' = [stream EXCEPT !.done = @ + 1, !.got = @ + 1]
    /\ Go("reader", "fetch")
    /\ UNCHANGED <<mode, used, plain, decoded, thrown, fail, written, cancel, result, troubles>>

(* Everything asked for has been delivered. *)
StreamEnds ==
    /\ pc["reader"] = "fetch" /\ stream.done = Chunks
    /\ Go("reader", "end")
    /\ UNCHANGED <<mode, used, compressed, plain, stream, decoded, thrown, fail, written, cancel, result, troubles>>

(* Faulty variant of AfterDrop: the next attempt asks again for what this one delivered. *)
AfterDropAgain ==
    [done |-> stream.done - stream.got, got |-> 0,
     failures |-> IF stream.got > 0 THEN 1 ELSE stream.failures + 1]

AfterDrop == [stream EXCEPT !.got = 0, !.failures = IF stream.got > 0 THEN 1 ELSE @ + 1]

(* The connection breaks: retried from the new offset, unless too many attempts
   in a row brought nothing. *)
Drop ==
    /\ pc["reader"] = "fetch" /\ stream.done < Chunks /\ Spend
    /\ stream' = AfterDrop
    /\ IF AfterDrop.failures >= MaxAttempts THEN Throw("reader", "network") ELSE UNCHANGED <<pc, thrown>>
    /\ UNCHANGED <<mode, used, compressed, plain, decoded, fail, written, cancel, result>>

(* An answer that ends early without an error: resumed if it brought anything,
   else taken for the end of the stream. *)
CloseEarly ==
    /\ pc["reader"] = "fetch" /\ stream.done < Chunks /\ Spend
    /\ IF stream.got > 0
       THEN stream' = [stream EXCEPT !.got = 0, !.failures = 0] /\ UNCHANGED pc
       ELSE Go("reader", "end") /\ UNCHANGED stream
    /\ UNCHANGED <<mode, used, compressed, plain, decoded, thrown, fail, written, cancel, result>>

(* An error status, a range that was ignored, a changed certificate. *)
Refuse ==
    /\ pc["reader"] = "fetch" /\ stream.done < Chunks /\ stream.got = 0 /\ Spend
    /\ Throw("reader", "refused")
    /\ UNCHANGED <<mode, used, compressed, plain, stream, decoded, fail, written, cancel, result>>

(* The user presses B, or the side tick receives job.cancel: the flag is set,
   and the transport aborts with it. *)
Cancel ==
    /\ pc["reader"] = "fetch" /\ ~cancel
    /\ cancel' = TRUE
    /\ UNCHANGED <<mode, used, compressed, plain, pc, stream, decoded, thrown, fail, written, result, troubles>>

PushEnd ==
    /\ pc["reader"] = "end"
    /\ CanPush(compressed)
    /\ compressed' = Pushed(compressed, EndItem)
    /\ Go("reader", "done")
    /\ UNCHANGED <<mode, used, plain, stream, decoded, thrown, fail, written, cancel, result, troubles>>

ReaderThrows ==
    /\ pc["reader"] \in {"push", "end"}
    /\ RingThrows("reader", compressed)
    /\ UNCHANGED <<mode, used, compressed, plain, stream, decoded, fail, written, cancel, result, troubles>>

-----------------------------------------------------------------------------
(* The decoder.                                                            *)

(* Where the decoder goes when the stream ends after k chunks: a block NCZ must
   be complete; a solid one ends with what it has. *)
EndOfInput(k) == IF mode = "block" /\ k < used THEN "short" ELSE "finish"

Decode ==
    /\ pc["decoder"] = "pop"
    /\ CanPop(compressed)
    /\ IF compressed.n = 0
       THEN /\ Go("decoder", EndOfInput(decoded))
            /\ UNCHANGED <<compressed, decoded>>
       ELSE /\ compressed' = Popped(compressed)
            /\ IF Front(compressed).v = 0
               THEN Go("decoder", EndOfInput(decoded)) /\ UNCHANGED decoded
               ELSE Go("decoder", "emit") /\ decoded' = Front(compressed).v
    /\ UNCHANGED <<mode, used, plain, stream, thrown, fail, written, cancel, result, troubles>>

(* The output of the chunk; decodeNcz returns as soon as its stream is complete. *)
Emit ==
    /\ pc["decoder"] = "emit"
    /\ CanPush(plain)
    /\ plain' = Pushed(plain, Data(decoded))
    /\ Go("decoder", IF mode # "plain" /\ decoded = used THEN "finish" ELSE "pop")
    /\ UNCHANGED <<mode, used, compressed, stream, decoded, thrown, fail, written, cancel, result, troubles>>

(* Data that does not decode, or that ends too early. *)
DecodeFails ==
    /\ \/ /\ pc["decoder"] = "short"
          /\ UNCHANGED troubles
       \/ /\ pc["decoder"] = "emit" /\ mode # "plain"
          /\ Spend
    /\ Throw("decoder", "format")
    /\ UNCHANGED <<mode, used, compressed, plain, stream, decoded, fail, written, cancel, result>>

Finish ==
    /\ pc["decoder"] = "finish"
    /\ CanPush(plain)
    /\ plain' = Pushed(plain, EndItem)
    /\ Go("decoder", "done")
    /\ UNCHANGED <<mode, used, compressed, stream, decoded, thrown, fail, written, cancel, result, troubles>>

DecoderThrows ==
    /\ \/ pc["decoder"] = "pop" /\ RingThrows("decoder", compressed)
       \/ pc["decoder"] \in {"emit", "finish"} /\ RingThrows("decoder", plain)
    /\ UNCHANGED <<mode, used, compressed, plain, stream, decoded, fail, written, cancel, result, troubles>>

-----------------------------------------------------------------------------
(* The writer.                                                             *)

Write ==
    /\ pc["writer"] = "pop"
    /\ CanPop(plain)
    /\ IF plain.n = 0
       THEN Go("writer", "done") /\ UNCHANGED <<plain, written>>
       ELSE /\ plain' = Popped(plain)
            /\ written' = IF Front(plain).v = 0 THEN written ELSE Append(written, Front(plain).v)
            /\ IF Front(plain).last THEN Go("writer", "done") ELSE UNCHANGED pc
    /\ UNCHANGED <<mode, used, compressed, stream, decoded, thrown, fail, cancel, result, troubles>>

WriteFails ==
    /\ pc["writer"] = "pop"
    /\ CanPop(plain) /\ plain.n > 0 /\ Spend
    /\ plain' = Popped(plain)
    /\ Throw("writer", "write")
    /\ UNCHANGED <<mode, used, compressed, stream, decoded, fail, written, cancel, result>>

WriterThrows ==
    /\ pc["writer"] = "pop" /\ RingThrows("writer", plain)
    /\ UNCHANGED <<mode, used, compressed, plain, stream, decoded, fail, written, cancel, result, troubles>>

-----------------------------------------------------------------------------

(* The threads are joined; the engine compares the size with what it expected. *)
Join ==
    /\ result = "none"
    /\ \A t \in Threads : pc[t] = "done"
    /\ result' = IF fail # NoError THEN "failed" ELSE IF Len(written) = Needed THEN "accepted" ELSE "mismatch"
    /\ UNCHANGED <<mode, used, compressed, plain, pc, stream, decoded, thrown, fail, written, cancel, troubles>>

(* The reader sleeps for ever: the decoder has what it wanted, and what is left
   of the entry does not fit in the ring. *)
ReaderStranded ==
    /\ pc["reader"] \in {"push", "end"} /\ IsFull(compressed) /\ compressed.err = NoError /\ ~cancel
    /\ pc["decoder"] = "done"

Rest == (result # "none" \/ (ReaderStranded /\ pc["writer"] = "done")) /\ UNCHANGED vars

Reader == SpawnWriter \/ SpawnFails \/ ReceiveChunk \/ PushChunk \/ StreamEnds \/ PushEnd \/ ReaderThrows
             \/ Capture("reader") \/ AbortPlain("reader")
Network == Drop \/ CloseEarly \/ Refuse
Decoder == Decode \/ Emit \/ DecodeFails \/ Finish \/ DecoderThrows \/ Capture("decoder") \/ AbortPlain("decoder")
Writer == Write \/ WriteFails \/ WriterThrows \/ Capture("writer") \/ AbortPlain("writer")

Next == Reader \/ Network \/ Cancel \/ Decoder \/ Writer \/ Join \/ Rest
Spec == Init /\ [][Next]_vars

(* Each thread is scheduled; the network brings the next chunk or fails. *)
FairSpec == Spec /\ WF_vars(Reader \/ Network) /\ WF_vars(Decoder) /\ WF_vars(Writer) /\ WF_vars(Join)

-----------------------------------------------------------------------------
(* Properties.                                                             *)

RingOK(q) ==
    /\ q.at \in [0..(Slots - 1) -> Items]
    /\ q.w \in 0..(Slots - 1) /\ q.r \in 0..(Slots - 1) /\ q.n \in 0..Slots
    /\ q.w = Wrapped(q.r + q.n)
    /\ q.done \in BOOLEAN /\ q.err \in Errors \cup {NoError}

TypeOK ==
    /\ mode \in {"plain", "block", "solid"} /\ used \in Nat
    /\ RingOK(compressed) /\ RingOK(plain)
    /\ pc["reader"] \in {"spawn", "fetch", "push", "end", "capture", "abort", "done"}
    /\ pc["decoder"] \in {"pop", "emit", "short", "finish", "capture", "abort", "done"}
    /\ pc["writer"] \in {"none", "pop", "capture", "abort", "done"}
    /\ stream.done \in 0..Chunks /\ stream.got \in 0..Chunks /\ stream.failures \in 0..MaxAttempts
    /\ decoded \in 0..Chunks
    /\ thrown \in [Threads -> Errors \cup {NoError}]
    /\ result \in {"none", "failed", "accepted", "mismatch"}
    /\ fail \in Errors \cup {NoError}
    /\ written \in Seq(Nat)
    /\ cancel \in BOOLEAN /\ troubles \in Nat

(* Nothing is lost, doubled or reordered on the way: the bytes written are the
   first of the entry, in order, through full and wrapped rings, drops, resumed
   downloads and failures. *)
WrittenInOrder == \A i \in 1..Len(written) : written[i] = i

(* A failure reports the error that came first, and whoever hears of it through
   a ring hears the same: a cancel that tears the download down is not reported
   as a network error. *)
FirstErrorIsTold ==
    /\ fail # NoError => compressed.err = fail
    /\ plain.err # NoError => plain.err = fail

(* The entry's padding, with the end marker, fits in the ring. *)
TailFits == Chunks + 1 <= Needed + Slots

(* runPipeline ends, whatever fails and whenever it is cancelled ("Aborting the
   rings first unblocks whoever is waiting", pipeline.cpp), if the padding
   after an NCZ stream fits in the ring: the decoder does not drain the rest. *)
PipelineEnds == TailFits => <>(result # "none")

(* A cancel ends it always, whatever is still to come of the entry: each thread
   that waits on a ring or on the network sees the flag. *)
CancelEnds == cancel ~> result # "none"
=============================================================================
