------------------------------- MODULE Links_proofs -------------------------------
(***************************************************************************)
(* Theorems of what goes over the links between server and consoles:       *)
(* UsbLink, FileAnswer, CatalogSync, DeviceSessions and Pipeline.          *)
(***************************************************************************)
EXTENDS UsbLink, FileAnswer, CatalogSync, DeviceSessions, Pipeline, FiniteSetTheorems, TLAPS

--------------------------------------------------------------------------------
(* UsbLink.                                                                    *)

UsbSized == Bodies \subseteq Nat /\ Payloads \subseteq Nat /\ MaxPayload \in Nat

(* Whoever is in the middle of a body or an answer has some of it left. *)
Unfinished ==
    /\ console = "uploading" => toSend > 0
    /\ console = "receiving" => toRead > 0
    /\ host = "streaming" => owed > 0

(* Both sides agree where in the exchange they are: the host has a body left exactly while the  *)
(* console writes it, and what a console waits for or reads is the answer to its request, or    *)
(* nothing if the host was started since.                                                       *)
Synced ==
    /\ left > 0 => host \in {"collecting", "handling", "draining"}
    /\ host \in {"collecting", "draining"} => left > 0
    /\ console = "uploading" <=> left > 0
    /\ left > 0 => left = toSend /\ serving = id
    /\ console = "awaiting" /\ host # "header" => host \in {"handling", "answering"} /\ serving = id
    /\ console = "receiving" /\ host # "header" =>
           host = "streaming" /\ serving = id /\ taken = id /\ toRead = owed

(* While nothing has failed, the host waits for a frame whenever the console has begun none. *)
Waits ==
    /\ host # "ended"
    /\ console \in {"idle", "pinging", "sending"} <=> host = "header"

UsbInv ==
    /\ UsbTypeOK
    /\ Unfinished
    /\ intact /\ host # "ended" => Synced
    /\ calm => intact /\ Waits

--------------------------------------------------------------------------------

\* The invariant holds at the start.
LEMMA UsbInitOK == UsbInit => UsbInv
  BY DEF UsbInit, UsbInv, UsbTypeOK, Unfinished, Synced, Waits, Writing, Awaiting, Answering

(* What Written does by itself: the console stays in its states, and has some of the body left *)
(* exactly if it goes on uploading.                                                            *)
LEMMA WrittenOK ==
    ASSUME UsbTypeOK, Unfinished, Written
    PROVE  /\ console \in Writing /\ console' \in {"awaiting", "uploading"}
           /\ toSend' \in Nat
           /\ console' = "uploading" => toSend' > 0
  BY DEF UsbTypeOK, Unfinished, Written, Writing, Awaiting

\* The console begins an exchange, with a ping or a request.
LEMMA UsbBeginOK == ASSUME UsbSized, UsbInv, Ping \/ Request PROVE UsbInv'
<1>1. UsbTypeOK'
  <2>1. CASE Ping
    BY <2>1 DEF UsbInv, UsbTypeOK, Ping, hostVars, Writing
  <2>2. CASE Request
    <3>1. toSend' \in Nat
      BY <2>2 DEF Request, UsbSized
    <3>2. QED
      BY <2>2, <3>1 DEF UsbInv, UsbTypeOK, Request, hostVars, Writing
  <2>3. QED
    BY <2>1, <2>2
<1>2. Unfinished'
  BY DEF UsbInv, Unfinished, Ping, Request, hostVars
<1>3. (intact /\ host # "ended" => Synced)'
  BY DEF UsbInv, UsbTypeOK, Synced, Ping, Request, hostVars
<1>4. (calm => intact /\ Waits)'
  BY DEF UsbInv, Waits, Ping, Request, hostVars
<1>5. QED
  BY <1>1, <1>2, <1>3, <1>4 DEF UsbInv

\* A frame is taken: the host has what the console has left of the body.
LEMMA TakeFrameOK == ASSUME UsbSized, UsbInv, TakeFrame PROVE UsbInv'
<1>1. /\ console' \in {"awaiting", "uploading"} /\ toSend' \in Nat
      /\ console' = "uploading" => toSend' > 0
  BY WrittenOK DEF UsbInv, TakeFrame
<1>2. UsbTypeOK'
  BY <1>1 DEF UsbInv, UsbTypeOK, TakeFrame, UsbSized, Writing, Awaiting, Answering
<1>3. Unfinished'
  BY <1>1 DEF UsbInv, Unfinished, TakeFrame
<1>4. Synced'
  BY <1>1 DEF UsbInv, UsbTypeOK, Synced, TakeFrame, Written, UsbSized
<1>5. (calm => intact /\ Waits)'
  BY <1>1 DEF UsbInv, Waits, TakeFrame
<1>6. QED
  BY <1>2, <1>3, <1>4, <1>5 DEF UsbInv

\* A piece of a body is taken: both have one less left.
LEMMA TakePieceOK == ASSUME UsbSized, UsbInv, TakePiece PROVE UsbInv'
<1>1. /\ console' \in {"awaiting", "uploading"} /\ toSend' \in Nat
      /\ console' = "uploading" => toSend' > 0
  BY WrittenOK DEF UsbInv, TakePiece
<1>2. left \in Nat /\ left' \in Nat /\ left' = left - 1
  BY DEF UsbInv, UsbTypeOK, TakePiece, Collects, Reads
<1>3. host \in {"collecting", "handling", "draining"} /\ host' \in {host, "handling", "answering"}
  BY DEF TakePiece, Collects, Reads
<1>4. UsbTypeOK'
  BY <1>1, <1>2, <1>3 DEF UsbInv, UsbTypeOK, TakePiece, Writing, Awaiting, Answering
<1>5. Unfinished'
  BY <1>1, <1>3 DEF UsbInv, Unfinished, TakePiece
<1>6. ASSUME intact, host # "ended" PROVE Synced'
  <2>1. Synced
    BY <1>6 DEF UsbInv
  <2>2. left = toSend /\ serving = id /\ left > 0
    BY <2>1 DEF Synced, TakePiece, Collects
  <2>3. toSend' = left' /\ (console' = "uploading" <=> left' > 0)
    BY <2>2, <1>2 DEF UsbInv, UsbTypeOK, TakePiece, Written
  <2>4. /\ left' > 0 => host' = host
        /\ left' = 0 => host' \in {"handling", "answering"}
        /\ left' = 0 \/ left' > 0
    <3>1. left' = 0 \/ left' > 0
      BY <1>2
    <3>2. CASE left' > 0
      BY <3>2, <1>2 DEF TakePiece, Reads
    <3>3. CASE left' = 0
      <4>1. host' = IF host = "handling" THEN host
                    ELSE IF host = "collecting" THEN "handling" ELSE "answering"
        BY <3>3, <1>2 DEF TakePiece, Reads
      <4>2. QED
        BY <3>3, <4>1
    <3>4. QED
      BY <3>1, <3>2, <3>3
  <2>5. serving' = serving /\ id' = id
    BY DEF TakePiece
  <2>6. host' \in {"collecting", "draining"} => left' > 0
    BY <2>4
  <2>7. console' = "awaiting" => host' \in {"handling", "answering"}
    BY <2>3, <2>4
  <2>8. left' > 0 => host' \in {"collecting", "handling", "draining"}
    BY <1>3, <2>4
  <2>9. QED
    BY <1>1, <2>2, <2>3, <2>5, <2>6, <2>7, <2>8 DEF Synced
<1>7. (calm => intact /\ Waits)'
  BY <1>1, <1>3 DEF UsbInv, Waits, TakePiece
<1>8. QED
  BY <1>3, <1>4, <1>5, <1>6, <1>7 DEF UsbInv, TakePiece

\* The handler is done: the answer goes out when nothing of the body is left.
LEMMA HandleOK == ASSUME UsbSized, UsbInv, Handle PROVE UsbInv'
<1>1. UsbTypeOK'
  BY DEF UsbInv, UsbTypeOK, Handle, consoleVars, UsbSized, Writing, Awaiting, Answering
<1>2. Unfinished'
  BY DEF UsbInv, Unfinished, Handle, consoleVars
<1>3. (intact /\ host # "ended" => Synced)'
  BY DEF UsbInv, UsbTypeOK, Synced, Handle, consoleVars
<1>4. (calm => intact /\ Waits)'
  BY DEF UsbInv, Waits, Handle, consoleVars
<1>5. QED
  BY <1>1, <1>2, <1>3, <1>4 DEF UsbInv

\* The header of an answer is taken: the console knows how much of it the host has left.
LEMMA TakeAnswerOK == ASSUME UsbSized, UsbInv, TakeAnswer PROVE UsbInv'
<1>1. UsbTypeOK'
  BY DEF UsbInv, UsbTypeOK, TakeAnswer, Writing, Awaiting, Answering
<1>2. Unfinished'
  BY DEF UsbInv, UsbTypeOK, Unfinished, TakeAnswer
<1>3. (intact /\ host # "ended" => Synced)'
  BY DEF UsbInv, UsbTypeOK, Synced, TakeAnswer
<1>4. (calm => intact /\ Waits)'
  BY DEF UsbInv, Waits, TakeAnswer
<1>5. QED
  BY <1>1, <1>2, <1>3, <1>4 DEF UsbInv

\* A piece of an answer is taken: both have one less left, and come to the end together.
LEMMA TakeChunkOK == ASSUME UsbSized, UsbInv, TakeChunk PROVE UsbInv'
<1>1. UsbTypeOK'
  BY DEF UsbInv, UsbTypeOK, Unfinished, TakeChunk, Writing, Awaiting, Answering
<1>2. Unfinished'
  BY DEF UsbInv, UsbTypeOK, Unfinished, TakeChunk
<1>3. (intact /\ host # "ended" => Synced)'
  BY DEF UsbInv, UsbTypeOK, Synced, TakeChunk
<1>4. (calm => intact /\ Waits)'
  BY DEF UsbInv, Synced, Waits, TakeChunk
<1>5. QED
  BY <1>1, <1>2, <1>3, <1>4 DEF UsbInv

--------------------------------------------------------------------------------

\* A console that gives up leaves the host where it was; cutting off a body is remembered.
LEMMA ConsoleFailsOK == ASSUME UsbSized, UsbInv, ConsoleFails PROVE UsbInv'
<1>1. UsbTypeOK'
  BY DEF UsbInv, UsbTypeOK, ConsoleFails, hostVars, Writing, Awaiting, Answering
<1>2. Unfinished'
  BY DEF UsbInv, Unfinished, ConsoleFails, hostVars
<1>3. (intact /\ host # "ended" => Synced)'
  BY DEF UsbInv, UsbTypeOK, Synced, ConsoleFails, hostVars, Awaiting
<1>4. (calm => intact /\ Waits)'
  BY DEF ConsoleFails
<1>5. QED
  BY <1>1, <1>2, <1>3, <1>4 DEF UsbInv

\* A host that has ended promises nothing, nor does one that lost a piece of a body.
LEMMA HostFailsOK == ASSUME UsbSized, UsbInv, HostFails \/ ReadFails \/ Misread PROVE UsbInv'
<1>1. CASE HostFails
  BY <1>1 DEF HostFails, UsbInv, UsbTypeOK, Unfinished, consoleVars
<1>2. CASE Misread
  <2>1. /\ console' \in {"awaiting", "uploading"} /\ toSend' \in Nat
        /\ console' = "uploading" => toSend' > 0
    BY <1>2, WrittenOK DEF UsbInv, Misread
  <2>2. QED
    BY <1>2, <2>1 DEF Misread, UsbInv, UsbTypeOK, Unfinished, Writing, Awaiting
<1>3. CASE ReadFails
  BY <1>3 DEF ReadFails, UsbInv, UsbTypeOK, Unfinished, consoleVars
<1>4. QED
  BY <1>1, <1>2, <1>3

\* Nothing is promised of a link that took foreign bytes either.
LEMMA SwallowOK == ASSUME UsbSized, UsbInv, Swallow PROVE UsbInv'
<1>1. /\ console' \in {"awaiting", "uploading"} /\ toSend' \in Nat
      /\ console' = "uploading" => toSend' > 0
  BY WrittenOK DEF UsbInv, Swallow
<1>2. left' \in Nat /\ host' \in {host, "handling", "answering"}
  BY DEF UsbInv, UsbTypeOK, Swallow, Reads
<1>3. UsbTypeOK'
  BY <1>1, <1>2 DEF UsbInv, UsbTypeOK, Swallow, Writing, Awaiting, Answering
<1>4. Unfinished'
  BY <1>1, <1>2 DEF UsbInv, Unfinished, Swallow
<1>5. ~intact' /\ ~calm'
  BY DEF UsbInv, Swallow
<1>6. QED
  BY <1>3, <1>4, <1>5 DEF UsbInv

\* A new link starts with the host at rest; a console in the middle of a body is remembered.
LEMMA AttachOK == ASSUME UsbSized, UsbInv, NewLink PROVE UsbInv'
<1>1. host' = "header" /\ left' = 0 /\ UNCHANGED <<console, toSend, taken, toRead>>
  BY DEF NewLink
<1>2. intact' \in BOOLEAN /\ (intact' => console # "uploading")
  BY DEF NewLink, Awaiting
<1>3. calm' = (console = "idle") /\ (console = "idle" => intact')
  BY DEF NewLink, Awaiting
<1>4. UsbTypeOK'
  <2>1. id' \in Nat /\ serving' \in Nat /\ owed' \in Nat /\ calm' \in BOOLEAN
    BY <1>3 DEF NewLink, UsbInv, UsbTypeOK
  <2>2. QED
    BY <1>1, <1>2, <2>1 DEF UsbInv, UsbTypeOK, Writing, Awaiting, Answering
<1>5. Unfinished'
  BY <1>1 DEF UsbInv, Unfinished
<1>6. (intact /\ host # "ended" => Synced)'
  BY <1>1, <1>2 DEF Synced
<1>7. (calm => intact /\ Waits)'
  BY <1>1, <1>3 DEF Waits
<1>8. QED
  BY <1>4, <1>5, <1>6, <1>7 DEF UsbInv

\* Every step keeps the invariant, and so does a stuttering one.
LEMMA NextOK == ASSUME UsbSized, UsbInv, [UsbNext]_usbVars PROVE UsbInv'
<1>1. CASE Exchange
  BY <1>1, UsbBeginOK, TakeFrameOK, TakePieceOK, HandleOK, TakeAnswerOK, TakeChunkOK DEF Exchange
<1>2. CASE Failure
  BY <1>2, ConsoleFailsOK, HostFailsOK, SwallowOK, AttachOK DEF Failure
<1>3. CASE UNCHANGED usbVars
  BY <1>3 DEF usbVars, UsbInv, UsbTypeOK, Unfinished, Synced, Waits
<1>4. QED
  BY <1>1, <1>2, <1>3 DEF UsbNext

--------------------------------------------------------------------------------

\* Whatever fails, the console and UsbLink.run keep agreeing on the exchange as IInv says.
THEOREM BothSidesStayInStep == ASSUME UsbSized PROVE UsbSpec => []UsbInv
  BY UsbInitOK, NextOK, PTL DEF UsbSpec

(* A console takes the answer to its own request, to its end, however many exchanges it gave up   *)
(* before: exchangeLocked does not compare request ids, and need not as long as no body or frame   *)
(* was cut off in the middle.                                                                      *)
THEOREM AnswersBelongToTheirRequests == ASSUME UsbSized PROVE UsbSpec => []AnswersAreOwn
<1>1. UsbInv => AnswersAreOwn
  BY DEF UsbInv, Synced, AnswersAreOwn, Answering
<1>2. QED
  BY <1>1, UsbInitOK, NextOK, PTL DEF UsbSpec

(* UsbLink.run drains what the handler left of a body before it answers, so while nothing fails   *)
(* the two sides never both write and never both read.                                             *)
THEOREM NobodyWaitsForTheOther == ASSUME UsbSized PROVE UsbSpec => []NoStandoff
<1>1. ASSUME UsbInv, calm PROVE ~(console \in Writing /\ host \in Answering)
  BY <1>1 DEF UsbInv, Synced, Waits, Writing, Answering
<1>2. ASSUME UsbInv, calm PROVE ~(console \in Awaiting /\ (host = "header" \/ left > 0))
  BY <1>2 DEF UsbInv, Synced, Waits, Awaiting
<1>3. UsbInv => NoStandoff
  BY <1>1, <1>2 DEF UsbInv, Waits, NoStandoff
<1>4. QED
  BY <1>3, UsbInitOK, NextOK, PTL DEF UsbSpec

--------------------------------------------------------------------------------
(* FileAnswer.                                                                 *)

AnswerSized == Sizes \subseteq Nat /\ Chunk \in Nat \ {0} /\ Missing \notin Files

Answered == handling \in {"opening", "sending", "ended"}

(* What was found is a file, the promise lies in it, and if the opened file ends before what *)
(* was found, that is remembered.                                                            *)
AnswerInv ==
    /\ AnswerTypeOK
    /\ Answered => located \in Files /\ range.first <= range.limit /\ range.limit <= located.size
    /\ PromisesWhatWasAsked
    /\ BodyFitsHeaders
    /\ handling = "sending" => ends >= located.size \/ shrunk

(* parseRangeHeader finds the bytes asked for: the suffix, the closed and the open range, cut *)
(* off at the end of the file; "unsatisfiable" is the answer exactly when there are none.      *)
THEOREM RangesAreParsed ==
    ASSUME NEW h \in Headers, NEW size \in Nat, h.kind # "none"
    PROVE  LET parsed == ParseRange(h, size)
           IN /\ parsed \in [first : Nat, limit : Nat]
              /\ parsed.first..(parsed.limit - 1) = Wanted(h, size)
              /\ parsed.first <= parsed.limit /\ parsed.limit <= size
              /\ parsed = Unsatisfiable <=> Wanted(h, size) = {}
<1> DEFINE parsed == ParseRange(h, size)
<1>1. h.from \in Nat /\ h.to \in Nat /\ h.kind \in {"bad", "suffix", "bounded", "open"}
  BY DEF Headers
<1>2. CASE h.kind = "suffix" /\ h.from # 0 /\ size # 0
  <2>1. parsed = [first |-> IF h.from < size THEN size - h.from ELSE 0, limit |-> size]
    BY <1>2 DEF ParseRange
  <2>2. Wanted(h, size) = {i \in 0..(size - 1) : i >= size - h.from}
    BY <1>2 DEF Wanted
  <2>3. size - 1 \in Wanted(h, size)
    BY <1>1, <1>2, <2>2
  <2>4. QED
    BY <1>1, <1>2, <2>1, <2>2, <2>3 DEF Unsatisfiable
<1>3. CASE h.kind = "bounded" /\ h.from < size /\ h.from <= h.to
  <2>1. parsed = [first |-> h.from, limit |-> IF h.to < size - 1 THEN h.to + 1 ELSE size]
    BY <1>3 DEF ParseRange
  <2>2. Wanted(h, size) = {i \in 0..(size - 1) : h.from <= i /\ i <= h.to}
    BY <1>3 DEF Wanted
  <2>3. h.from \in Wanted(h, size)
    BY <1>1, <1>3, <2>2
  <2>4. QED
    BY <1>1, <1>3, <2>1, <2>2, <2>3 DEF Unsatisfiable
<1>4. CASE h.kind = "open" /\ h.from < size
  <2>1. parsed = [first |-> h.from, limit |-> size]
    BY <1>4 DEF ParseRange
  <2>2. Wanted(h, size) = {i \in 0..(size - 1) : h.from <= i}
    BY <1>4 DEF Wanted
  <2>3. h.from \in Wanted(h, size)
    BY <1>1, <1>4, <2>2
  <2>4. QED
    BY <1>1, <1>4, <2>1, <2>2, <2>3 DEF Unsatisfiable
<1>5. CASE /\ ~(h.kind = "suffix" /\ h.from # 0 /\ size # 0)
           /\ ~(h.kind = "bounded" /\ h.from < size /\ h.from <= h.to)
           /\ ~(h.kind = "open" /\ h.from < size)
  <2>1. parsed = Unsatisfiable
    BY <1>5 DEF ParseRange
  <2>2. Wanted(h, size) = {}
    BY <1>1, <1>5 DEF Wanted
  <2>3. 0..(0 - 1) = {}
    OBVIOUS
  <2>4. QED
    BY <2>1, <2>2, <2>3 DEF Unsatisfiable
<1>6. QED
  BY <1>2, <1>3, <1>4, <1>5

--------------------------------------------------------------------------------

\* The invariant holds at the start.
LEMMA AnswerInitOK == ASSUME AnswerSized PROVE AnswerInit => AnswerInv
<1>1. SUFFICES ASSUME AnswerInit PROVE AnswerInv
  OBVIOUS
<1>2. AnswerTypeOK
  <2>1. range \in [first : Nat, limit : Nat] /\ ends \in Nat /\ offset \in Nat
    BY <1>1 DEF AnswerInit, Unsatisfiable
  <2>2. QED
    BY <1>1, <2>1 DEF AnswerInit, AnswerTypeOK
<1>3. handling = "locating"
  BY <1>1 DEF AnswerInit
<1>4. QED
  BY <1>2, <1>3 DEF AnswerInv, Answered, PromisesWhatWasAsked, BodyFitsHeaders

\* An answer promises what was asked for.
LEMMA LocateOK == ASSUME AnswerSized, AnswerInv, Locate PROVE AnswerInv'
<1>1. /\ located' = disk /\ UNCHANGED <<disk, request, ends, shrunk>>
      /\ disk \in Files \cup {Missing}
      /\ request \in [ifMatch : Files \cup {Missing}, ifRange : Files \cup {Missing}, range : Headers]
  BY DEF Locate, AnswerInv, AnswerTypeOK
<1>2. CASE handling' = "refused" /\ UNCHANGED <<range, offset>>
  BY <1>1, <1>2 DEF AnswerInv, AnswerTypeOK, Answered, PromisesWhatWasAsked, BodyFitsHeaders
<1>3. CASE /\ disk # Missing /\ (request.range.kind = "none" \/ request.ifRange \notin {Missing, disk})
           /\ handling' = (IF disk.size = 0 THEN "ended" ELSE "opening") /\ Promise(0, disk.size)
  <2>1. disk \in Files /\ disk.size \in Nat
    BY <1>1, <1>3 DEF AnswerSized, Files
  <2>2. range' = [first |-> 0, limit |-> disk.size] /\ offset' = 0
    BY <1>3 DEF Promise
  <2>3. handling' \in {"opening", "ended"} /\ (handling' = "ended" => disk.size = 0)
    BY <1>3
  <2>4. ~Partial'
    BY <1>1, <1>3 DEF Partial
  <2>5. AnswerTypeOK'
    BY <1>1, <2>1, <2>2, <2>3 DEF AnswerInv, AnswerTypeOK
  <2>6. PromisesWhatWasAsked'
    BY <1>1, <2>2, <2>4 DEF PromisesWhatWasAsked
  <2>7. BodyFitsHeaders'
    BY <2>1, <2>2, <2>3 DEF BodyFitsHeaders
  <2>8. QED
    BY <1>1, <2>1, <2>2, <2>3, <2>5, <2>6, <2>7 DEF AnswerInv, Answered
<1>4. CASE /\ disk # Missing /\ request.range.kind # "none" /\ request.ifRange \in {Missing, disk}
           /\ handling' = "opening"
           /\ Promise(ParseRange(request.range, disk.size).first, ParseRange(request.range, disk.size).limit)
  <2> DEFINE parsed == ParseRange(request.range, disk.size)
  <2>1. disk \in Files /\ disk.size \in Nat
    BY <1>1, <1>4 DEF AnswerSized, Files
  <2>2. range' = [first |-> parsed.first, limit |-> parsed.limit] /\ offset' = parsed.first
    BY <1>4 DEF Promise
  <2>3. /\ parsed \in [first : Nat, limit : Nat]
        /\ parsed.first..(parsed.limit - 1) = Wanted(request.range, disk.size)
        /\ parsed.first <= parsed.limit /\ parsed.limit <= disk.size
    BY <1>1, <1>4, <2>1, RangesAreParsed
  <2> HIDE DEF parsed
  <2>4. Partial'
    BY <1>1, <1>4 DEF Partial
  <2>5. AnswerTypeOK'
    BY <1>1, <1>4, <2>2, <2>3 DEF AnswerInv, AnswerTypeOK
  <2>6. PromisesWhatWasAsked'
    BY <1>1, <2>2, <2>3, <2>4 DEF PromisesWhatWasAsked
  <2>7. BodyFitsHeaders'
    BY <1>4, <2>2, <2>3 DEF BodyFitsHeaders
  <2>8. QED
    BY <1>1, <1>4, <2>1, <2>2, <2>3, <2>5, <2>6, <2>7 DEF AnswerInv, Answered
<1>5. QED
  BY <1>2, <1>3, <1>4 DEF Locate

\* From here on the file may end sooner than promised, and that is remembered.
LEMMA OpenOK == ASSUME AnswerSized, AnswerInv, Open PROVE AnswerInv'
<1>1. UNCHANGED <<disk, request, located, range, offset>> /\ handling = "opening" /\ located \in Files
  BY DEF Open, AnswerInv, Answered
<1>2. CASE disk # Missing /\ handling' = "sending" /\ ends' = disk.size /\ shrunk' = (shrunk \/ disk.size < located.size)
  <2>1. disk.size \in Nat /\ located.size \in Nat
    BY <1>1, <1>2 DEF AnswerSized, Files, AnswerInv, AnswerTypeOK
  <2>2. shrunk' \in BOOLEAN /\ (ends' >= located'.size \/ shrunk')
    <3>1. shrunk' = (shrunk \/ disk.size < located.size)
      BY <1>2
    <3>2. CASE shrunk \/ disk.size < located.size
      BY <1>1, <1>2, <3>1, <3>2
    <3>3. CASE ~(shrunk \/ disk.size < located.size)
      <4>1. shrunk' = FALSE
        BY <3>1, <3>3
      <4>2. disk.size >= located.size
        BY <2>1, <3>3
      <4>3. QED
        BY <1>1, <1>2, <4>1, <4>2
    <3>4. QED
      BY <3>2, <3>3
  <2>3. AnswerTypeOK'
    BY <1>1, <1>2, <2>1, <2>2 DEF AnswerInv, AnswerTypeOK
  <2>4. PromisesWhatWasAsked'
    BY <1>1, <1>2 DEF AnswerInv, PromisesWhatWasAsked, Partial
  <2>5. BodyFitsHeaders'
    BY <1>1, <1>2 DEF AnswerInv, BodyFitsHeaders
  <2>6. Answered' => located' \in Files /\ range'.first <= range'.limit /\ range'.limit <= located'.size
    BY <1>1 DEF AnswerInv, Answered
  <2>7. QED
    BY <2>2, <2>3, <2>4, <2>5, <2>6 DEF AnswerInv
<1>3. CASE handling' = "refused" /\ UNCHANGED <<ends, shrunk>>
  BY <1>1, <1>3 DEF AnswerInv, AnswerTypeOK, Answered, PromisesWhatWasAsked, BodyFitsHeaders
<1>4. QED
  BY <1>2, <1>3 DEF Open

\* A chunk stays within the promise.
LEMMA SendChunkOK == ASSUME AnswerSized, AnswerInv, SendChunk PROVE AnswerInv'
<1>1. UNCHANGED <<disk, request, handling, located, range, ends, shrunk>> /\ handling = "sending"
  BY DEF SendChunk
<1>2. range.first \in Nat /\ range.limit \in Nat /\ ends \in Nat /\ offset \in Nat
  BY DEF AnswerInv, AnswerTypeOK
<1>3. offset' \in Nat /\ offset <= offset' /\ offset' <= range.limit
  BY <1>2, AnswerSized DEF AnswerSized, SendChunk
<1>4. QED
  BY <1>1, <1>2, <1>3
  DEF AnswerInv, AnswerTypeOK, Answered, PromisesWhatWasAsked, Partial, BodyFitsHeaders

\* A body that ends early is one whose file got shorter.
LEMMA SendEndsOK == ASSUME AnswerSized, AnswerInv, SendEnds PROVE AnswerInv'
<1>1. UNCHANGED <<disk, request, located, range, ends, offset, shrunk>> /\ handling = "sending" /\ handling' = "ended"
  BY DEF SendEnds
<1>2. range.limit \in Nat /\ ends \in Nat /\ offset \in Nat /\ located \in Files /\ located.size \in Nat
  BY <1>1, AnswerSized DEF AnswerSized, Files, AnswerInv, AnswerTypeOK, Answered
<1>3. offset = range.limit \/ shrunk
  BY <1>1, <1>2 DEF SendEnds, AnswerInv, Answered, BodyFitsHeaders
<1>4. QED
  BY <1>1, <1>2, <1>3
  DEF AnswerInv, AnswerTypeOK, Answered, PromisesWhatWasAsked, Partial, BodyFitsHeaders

\* The rest changes nothing the handler has read.
LEMMA OthersOK == ASSUME AnswerSized, AnswerInv, HangUp \/ Replace \/ Rewrite PROVE AnswerInv'
<1>1. CASE HangUp
  BY <1>1 DEF HangUp, AnswerInv, AnswerTypeOK, Answered, PromisesWhatWasAsked, BodyFitsHeaders
<1>2. CASE Replace
  BY <1>2 DEF Replace, AnswerInv, AnswerTypeOK, Answered, PromisesWhatWasAsked, Partial, BodyFitsHeaders
<1>3. CASE Rewrite
  <2>1. disk'.size \in Nat /\ located.size \in Nat
    BY <1>3 DEF AnswerSized, Files, Rewrite, AnswerInv, Answered
  <2>2. UNCHANGED <<request, handling, located, range, offset>> /\ disk' \in Files /\ ends' = disk'.size
    BY <1>3 DEF Rewrite
  <2>3. shrunk' \in BOOLEAN /\ (shrunk => shrunk') /\ (ends' >= located'.size \/ shrunk')
    <3>1. shrunk' = (shrunk \/ disk'.size < located.size)
      BY <1>3 DEF Rewrite
    <3>2. CASE shrunk \/ disk'.size < located.size
      BY <2>2, <3>1, <3>2
    <3>3. CASE ~(shrunk \/ disk'.size < located.size)
      <4>1. shrunk' = FALSE
        BY <3>1, <3>3
      <4>2. disk'.size >= located.size
        BY <2>1, <3>3
      <4>3. QED
        BY <2>2, <3>3, <4>1, <4>2
    <3>4. QED
      BY <3>2, <3>3
  <2>4. AnswerTypeOK'
    BY <2>1, <2>2, <2>3 DEF AnswerInv, AnswerTypeOK
  <2>5. PromisesWhatWasAsked'
    BY <2>2 DEF AnswerInv, PromisesWhatWasAsked, Partial
  <2>6. BodyFitsHeaders'
    BY <2>2, <2>3 DEF AnswerInv, BodyFitsHeaders
  <2>7. Answered' => located' \in Files /\ range'.first <= range'.limit /\ range'.limit <= located'.size
    BY <2>2 DEF AnswerInv, Answered
  <2>8. QED
    BY <2>3, <2>4, <2>5, <2>6, <2>7 DEF AnswerInv
<1>4. QED
  BY <1>1, <1>2, <1>3

\* The invariant is inductive.
LEMMA AnswerStepOK == ASSUME AnswerSized PROVE AnswerInv /\ [AnswerNext]_answerVars => AnswerInv'
<1>1. ASSUME AnswerInv, UNCHANGED answerVars PROVE AnswerInv'
  BY <1>1 DEF answerVars, AnswerInv, AnswerTypeOK, Answered, PromisesWhatWasAsked, Partial, BodyFitsHeaders
<1>2. QED
  BY <1>1, LocateOK, OpenOK, SendChunkOK, SendEndsOK, OthersOK DEF AnswerNext

\* The invariant of every behaviour.
LEMMA AnswerInvariant == ASSUME AnswerSized PROVE AnswerSpec => []AnswerInv
BY AnswerInitOK, AnswerStepOK, PTL DEF AnswerSpec

(* The status, content-range and content-length of sendLibraryFile promise what was asked for,  *)
(* of the file as it was looked at: the whole file when If-Range names another one.             *)
THEOREM AnswersPromiseWhatWasAsked == ASSUME AnswerSized PROVE AnswerSpec => []PromisesWhatWasAsked
<1>1. AnswerInv => PromisesWhatWasAsked
  BY DEF AnswerInv
<1>2. QED
  BY <1>1, AnswerInvariant, PTL

(* rangeReadable sends no byte beyond the content-length, and stops before it only when the     *)
(* file got shorter after it was looked at.                                                     *)
THEOREM BodiesFitTheirHeaders == ASSUME AnswerSized PROVE AnswerSpec => []BodyFitsHeaders
<1>1. AnswerInv => BodyFitsHeaders
  BY DEF AnswerInv
<1>2. QED
  BY <1>1, AnswerInvariant, PTL

--------------------------------------------------------------------------------
(* CatalogSync.                                                                *)

(* The library fits the pages a refresh reads: 2000 of 200 applications. *)
SyncSized ==
    /\ Apps \subseteq Nat \ {0} /\ IsFiniteSet(Apps)
    /\ Limit \in Nat \ {0} /\ MaxPages \in Nat \ {0} /\ Attempts \in Nat
    /\ Cardinality(Apps) <= MaxPages * Limit

(* What has not been published is owed, and the last event is the last publication. *)
Told ==
    /\ told <= rev /\ \A a \in Apps : stamp[a] <= rev /\ (stamp[a] > told => due)
    /\ news # <<>> => covered /\ news[Len(news)] = told

(* A console knows of every publication after its catalog, while it does not read a new one. *)
Heard ==
    /\ ~ready => ~covered
    /\ catalogRev <= rev
    /\ refreshing = "start" => ~ready
    /\ refreshing = "ended" => stale
    /\ refreshing = "no" /\ covered /\ told > catalogRev => news # <<>> \/ stale \/ dropped

(* Up to the cursor, what a refresh read is the library's, or changed after its first page. *)
Reading ==
    refreshing # "no" =>
        /\ firstRev <= rev
        /\ firstRev = Unread => cursor = 0
        /\ \A a \in Apps : a > cursor => acc[a] = Absent
        /\ \A a \in Apps \ silent : a <= cursor => acc[a] = lib[a] \/ stamp[a] > firstRev
        /\ firstRev = rev => \A a \in Apps \ silent : lib[a] = snap[a]
        /\ covered /\ firstRev # Unread /\ told > firstRev => news # <<>>

Passed(c) == {a \in Apps : a <= c}

(* Every page but the last is full. *)
Counted ==
    /\ ~cut
    /\ refreshing # "no" => pages < MaxPages /\ pages * Limit <= Cardinality(Passed(cursor))

SyncInv == SyncTypeOK /\ Told /\ Heard /\ Reading /\ RevisionIsCovered /\ Counted

--------------------------------------------------------------------------------

(* A refresh that begins has read nothing. *)
LEMMA SyncBeginOK ==
    ASSUME SyncSized, NEW n \in Nat, Begin(n)
    PROVE  /\ attempt' \in Nat /\ pages' \in Nat /\ cursor' \in Nat
           /\ firstRev' = Unread /\ mixed' = FALSE /\ acc' \in Library /\ snap' \in Library
           /\ \A a \in Apps : acc'[a] = Absent
           /\ cut' = FALSE /\ cursor' = 0 /\ pages' = 0
           /\ pages' < MaxPages /\ pages' * Limit <= Cardinality(Passed(cursor'))
           /\ \A a \in Apps : ~(a <= cursor')
<1>1. \A a \in Apps : ~(a <= 0)
  BY DEF SyncSized
<1>2. Passed(0) = {}
  BY <1>1, Zenon DEF Passed
<1>3. Cardinality(Passed(0)) = 0
  BY <1>2, FS_EmptySet, Zenon
<1>4. 0 < MaxPages /\ 0 * Limit <= Cardinality(Passed(0))
  BY <1>3 DEF SyncSized
<1>5. Nothing \in Library /\ \A a \in Apps : Nothing[a] = Absent
  BY DEF Nothing, Library
<1>6. acc' = Nothing /\ snap' = Nothing /\ cursor' = 0 /\ pages' = 0 /\ attempt' = n
      /\ firstRev' = Unread /\ mixed' = FALSE /\ cut' = FALSE
  BY DEF Begin
<1>7. pages' < MaxPages /\ pages' * Limit <= Cardinality(Passed(cursor'))
  BY <1>4, <1>6, Zenon
<1>8. acc' \in Library /\ snap' \in Library /\ \A a \in Apps : acc'[a] = Absent /\ ~(a <= cursor')
  BY <1>1, <1>5, <1>6, Zenon
<1>9. attempt' \in Nat /\ pages' \in Nat /\ cursor' \in Nat
  BY <1>6
<1> QED BY <1>6, <1>7, <1>8, <1>9, Zenon

(* The initial state satisfies the invariant. *)
LEMMA SyncInitOK == ASSUME SyncSized, SyncInit PROVE SyncInv
<1>1. SyncTypeOK
  <2>1. Nothing \in Library /\ [a \in Apps |-> 0] \in [Apps -> Nat] /\ <<>> \in Seq(Nat)
    BY DEF Nothing, Library
  <2> QED BY <2>1 DEF SyncInit, SyncTypeOK
<1>2. Told /\ Heard /\ Reading /\ Counted
  BY DEF SyncInit, Told, Heard, Reading, Counted
<1>3. RevisionIsCovered
  BY DEF SyncInit, RevisionIsCovered
<1> QED BY <1>1, <1>2, <1>3 DEF SyncInv

(* A change of the library is stamped, and owes a publication. *)
LEMMA ChangeOK ==
    ASSUME SyncSized, SyncInv, NEW lib2 \in Library, Change(lib2)
    PROVE  SyncInv'
<1> DEFINE Changed == {a \in Apps : lib2[a] # lib[a]}
<1>1. /\ UNCHANGED <<news, covered, told, ready, installing, refreshing>>
      /\ UNCHANGED <<attempt, pages, cursor, firstRev, mixed, acc, cut, snap>>
      /\ UNCHANGED <<stale, catalog, catalogRev, dropped>>
      /\ lib' = lib2 /\ rev' = rev + 1 /\ silent' = silent \ Changed /\ due' = (due \/ Changed # {})
      /\ stamp' = [a \in Apps |-> IF a \in Changed THEN rev + 1 ELSE stamp[a]]
  BY DEF Change, fetchVars, catalogVars
<1>2. /\ rev \in Nat /\ stamp \in [Apps -> Nat] /\ told \in Nat /\ catalogRev \in Nat
      /\ firstRev \in Nat \cup {Unread} /\ Changed \subseteq Apps
  BY DEF SyncInv, SyncTypeOK
<1>3. \A a \in Apps : \/ a \notin Changed /\ lib'[a] = lib[a] /\ stamp'[a] = stamp[a]
                      \/ a \in Changed /\ stamp'[a] = rev + 1
  <2> TAKE a \in Apps
  <2>1. stamp'[a] = IF a \in Changed THEN rev + 1 ELSE stamp[a]
    <3> HIDE DEF Changed
    <3> QED BY <1>1
  <2>2. a \notin Changed => lib'[a] = lib[a]
    BY <1>1, Zenon
  <2> QED BY <2>1, <2>2
<1>4. SyncTypeOK'
  <2>1. rev' \in Nat /\ silent' \subseteq Apps
    BY <1>1, <1>2 DEF SyncInv, SyncTypeOK
  <2>3. stamp' \in [Apps -> Nat]
    BY <1>1, <1>2
  <2>2. due' \in BOOLEAN
    BY <1>1, Zenon DEF SyncInv, SyncTypeOK
  <2> QED BY <1>1, <2>1, <2>2, <2>3, Zenon DEF SyncInv, SyncTypeOK
<1>5. Told'
  <2>1. ASSUME NEW a \in Apps PROVE stamp'[a] <= rev' /\ (stamp'[a] > told' => due')
    <3>1. CASE a \in Changed
      <4>1. due'
        BY <1>1, <3>1, Zenon
      <4> QED BY <1>1, <1>2, <1>3, <3>1, <4>1
    <3>2. CASE a \notin Changed
      <4>1. stamp'[a] = stamp[a] /\ stamp[a] \in Nat /\ stamp[a] <= rev /\ (stamp[a] > told => due)
        BY <1>2, <1>3, <3>2 DEF SyncInv, Told
      <4>2. due => due'
        BY <1>1, Zenon
      <4>3. rev' = rev + 1 /\ told' = told
        BY <1>1, Zenon
      <4> QED BY <1>2, <4>1, <4>2, <4>3
    <3> QED BY <3>1, <3>2
  <2> QED BY <1>1, <1>2, <2>1 DEF SyncInv, Told
<1>6. Heard'
  BY <1>1, <1>2 DEF SyncInv, Heard
<1>7. Reading'
  <2> SUFFICES ASSUME refreshing # "no" PROVE Reading'
    BY <1>1 DEF Reading
  <2>1. firstRev <= rev /\ firstRev < rev'
    BY <1>1, <1>2 DEF SyncInv, Reading, Unread
  <2>2. ASSUME NEW a \in Apps \ silent', a <= cursor PROVE acc[a] = lib'[a] \/ stamp'[a] > firstRev
    BY <1>1, <1>2, <1>3, <2>1, <2>2 DEF SyncInv, Reading, Unread
  <2> QED BY <1>1, <1>2, <2>1, <2>2 DEF SyncInv, Reading, Unread
<1>8. RevisionIsCovered'
  <2>1. catalogRev < rev + 1
    BY <1>2 DEF SyncInv, Heard
  <2> QED BY <1>1, <1>3, <2>1 DEF SyncInv, RevisionIsCovered
<1>9. Counted'
  BY <1>1 DEF SyncInv, Counted, Passed
<1> QED BY <1>4, <1>5, <1>6, <1>7, <1>8, <1>9 DEF SyncInv

(* A changed preference changes entries, and nothing else anybody keeps. *)
LEMMA SwitchPreferenceOK ==
    ASSUME SyncInv, NEW lib2 \in Library, SwitchPreference(lib2)
    PROVE  SyncInv'
<1>1. /\ UNCHANGED <<rev, due, news, covered, stamp, told, ready, installing, refreshing>>
      /\ UNCHANGED <<attempt, pages, cursor, firstRev, mixed, acc, cut, snap>>
      /\ UNCHANGED <<stale, catalog, catalogRev, dropped>>
      /\ lib' = lib2 /\ silent' = silent \cup {a \in Apps : lib2[a] # lib[a]}
  BY DEF SwitchPreference, fetchVars, catalogVars
<1>2. \A a \in Apps \ silent' : a \notin silent /\ lib'[a] = lib[a]
  BY <1>1, Zenon
<1>3. SyncTypeOK'
  BY <1>1 DEF SyncInv, SyncTypeOK
<1>4. Told' /\ Heard' /\ Counted'
  BY <1>1 DEF SyncInv, Told, Heard, Counted, Passed
<1>5. Reading' /\ RevisionIsCovered'
  BY <1>1, <1>2, Zenon DEF SyncInv, Reading, RevisionIsCovered
<1> QED BY <1>3, <1>4, <1>5 DEF SyncInv

(* What publications, the log, stops and polls do: the console's data stay. *)
LEMMA DataKept ==
    ASSUME SyncInv, UNCHANGED <<lib, rev, stamp, silent, catalog, catalogRev>>,
           UNCHANGED fetchVars,
           refreshing' = refreshing \/ refreshing' = "no",
           refreshing' # "no" /\ covered' /\ firstRev # Unread /\ told' > firstRev => news' # <<>>
    PROVE  Reading' /\ RevisionIsCovered' /\ Counted'
  BY DEF SyncInv, Reading, RevisionIsCovered, Counted, Passed, fetchVars

(* A publication tells the revision of now. *)
LEMMA PublishOK == ASSUME SyncInv, Publish PROVE SyncInv'
<1>1. /\ UNCHANGED <<lib, rev, covered, stamp, silent, ready, installing, refreshing>>
      /\ UNCHANGED <<stale, catalog, catalogRev, dropped>> /\ UNCHANGED fetchVars
      /\ told' = rev /\ due' \in {due, FALSE}
      /\ news' = IF covered THEN Append(news, rev) ELSE news
  BY DEF Publish, catalogVars
<1>2. news' \in Seq(Nat) /\ (covered => news' # <<>> /\ news'[Len(news')] = rev)
  BY <1>1 DEF SyncInv, SyncTypeOK
<1>3. SyncTypeOK'
  BY <1>1, <1>2, ZenonT(40) DEF SyncInv, SyncTypeOK, fetchVars
<1>4. Told'
  BY <1>1, <1>2 DEF SyncInv, SyncTypeOK, Told
<1>5. Heard'
  BY <1>1, <1>2 DEF SyncInv, Heard
<1>6. Reading' /\ RevisionIsCovered' /\ Counted'
  BY <1>1, <1>2, DataKept
<1> QED BY <1>3, <1>4, <1>5, <1>6 DEF SyncInv

(* The log drops events, or the console its cursor. *)
LEMMA ForgottenOK == ASSUME SyncInv, LogTrims \/ Stop PROVE SyncInv'
<1>1. /\ UNCHANGED <<lib, rev, due, stamp, silent, told, installing, refreshing>>
      /\ UNCHANGED <<stale, catalog, catalogRev, dropped>> /\ UNCHANGED fetchVars
      /\ covered' = FALSE /\ news' = <<>> /\ (ready' = ready \/ ready' = FALSE)
  BY DEF LogTrims, Stop, catalogVars
<1>2. SyncTypeOK'
  <2>1. <<>> \in Seq(Nat)
    OBVIOUS
  <2> QED BY <1>1, <2>1, ZenonT(40) DEF SyncInv, SyncTypeOK, fetchVars
<1>3. Told' /\ Heard'
  BY <1>1 DEF SyncInv, Told, Heard
<1>4. Reading' /\ RevisionIsCovered' /\ Counted'
  BY <1>1, DataKept
<1> QED BY <1>2, <1>3, <1>4 DEF SyncInv

(* A poll that starts over is told the revision of now. *)
LEMMA ResyncOK == ASSUME SyncInv, Resync PROVE SyncInv'
<1>1. /\ UNCHANGED <<lib, rev, due, stamp, silent, ready, installing, refreshing>>
      /\ UNCHANGED <<stale, catalog, catalogRev, dropped>> /\ UNCHANGED fetchVars
      /\ covered' = TRUE /\ news' = <<rev>> /\ told' = rev /\ ready /\ refreshing = "no"
  BY DEF Resync, catalogVars
<1>2. rev \in Nat /\ news' \in Seq(Nat) /\ news' # <<>> /\ news'[Len(news')] = rev
  <2>1. rev \in Nat
    BY DEF SyncInv, SyncTypeOK
  <2>2. <<rev>> \in Seq(Nat) /\ <<rev>> # <<>> /\ <<rev>>[Len(<<rev>>)] = rev
    BY <2>1
  <2> QED BY <1>1, <2>1, <2>2, Zenon
<1>3. SyncTypeOK'
  BY <1>1, <1>2 DEF SyncInv, SyncTypeOK, fetchVars
<1>4. Told' /\ Heard'
  BY <1>1, <1>2 DEF SyncInv, SyncTypeOK, Told, Heard
<1>5. Reading' /\ RevisionIsCovered' /\ Counted'
  BY <1>1, DataKept
<1> QED BY <1>3, <1>4, <1>5 DEF SyncInv

(* A refresh that begins, whatever else the step does, has read nothing of the library. *)
LEMMA BegunOK ==
    ASSUME SyncSized, SyncInv, NEW n \in Nat, Begin(n), refreshing' # "no",
           UNCHANGED <<lib, rev, stamp, silent, catalog, catalogRev>>
    PROVE  Reading' /\ RevisionIsCovered' /\ Counted'
<1>1. rev \in Nat /\ Unread = -1
  BY DEF SyncInv, SyncTypeOK, Unread
<1>2. Reading'
  <2>1. /\ firstRev' = Unread /\ cursor' = 0 /\ firstRev' <= rev' /\ firstRev' # rev'
        /\ \A a \in Apps : acc'[a] = Absent /\ ~(a <= cursor')
    <3>1. /\ firstRev' = Unread /\ cursor' = 0
          /\ \A a \in Apps : acc'[a] = Absent /\ ~(a <= cursor')
      BY SyncBeginOK
    <3> QED BY <1>1, <3>1
  <2> QED BY <2>1, Zenon DEF Reading
<1>3. RevisionIsCovered'
  BY DEF SyncInv, RevisionIsCovered
<1>4. Counted'
  BY SyncBeginOK DEF Counted
<1> QED BY <1>2, <1>3, <1>4

(* A session starts with reading the catalog. *)
LEMMA StartOK == ASSUME SyncSized, SyncInv, Start PROVE SyncInv'
<1>1. /\ UNCHANGED <<lib, rev, due, news, covered, stamp, silent, told, ready, installing>>
      /\ UNCHANGED <<stale, catalog, catalogRev, dropped>>
      /\ refreshing' = "start" /\ Begin(0) /\ ~ready
  BY DEF Start, catalogVars, serverVars
<1>2. 0 \in Nat
  OBVIOUS
<1>3. Told' /\ Heard'
  BY <1>1 DEF SyncInv, Told, Heard
<1>4. SyncTypeOK'
  BY <1>1, <1>2, SyncBeginOK DEF SyncInv, SyncTypeOK
<1>5. Reading' /\ RevisionIsCovered' /\ Counted'
  BY <1>1, <1>2, BegunOK
<1> QED BY <1>3, <1>4, <1>5 DEF SyncInv

(* The last element left is the first. *)
LEMMA LastOne ==
    ASSUME NEW s \in Seq(Nat), s # <<>>, Tail(s) = <<>>
    PROVE  s[Len(s)] = Head(s)
<1>1. Len(s) \in Nat /\ Len(s) # 0 /\ Len(Tail(s)) = Len(s) - 1
  OBVIOUS
<1>2. Len(<<>>) = 0
  OBVIOUS
<1>3. Len(Tail(s)) = 0
  BY <1>2, Zenon
<1>4. ASSUME NEW n \in Nat, 0 = n - 1 PROVE n = 1
  BY <1>4
<1>5. Len(s) = 1
  BY <1>1, <1>3, <1>4, Zenon
<1> QED BY <1>5

(* An event is no news, noted for after the install, or read for. *)
LEMMA TakeEventOK == ASSUME SyncSized, SyncInv, TakeEvent PROVE SyncInv'
<1>1. /\ UNCHANGED <<lib, rev, due, covered, stamp, silent, told, ready, installing>>
      /\ UNCHANGED <<catalog, catalogRev, dropped>>
      /\ ready /\ refreshing = "no" /\ covered /\ news # <<>> /\ news' = Tail(news)
  BY DEF TakeEvent
<1>2. news \in Seq(Nat) /\ news' \in Seq(Nat) /\ Head(news) \in Nat
  BY <1>1 DEF SyncInv, SyncTypeOK
<1>3. news' # <<>> => news'[Len(news')] = news[Len(news)]
  BY <1>1, <1>2
<1>4. news' = <<>> => Head(news) = told
  <2> HAVE news' = <<>>
  <2>1. news[Len(news)] = Head(news)
    BY <1>1, <1>2, LastOne
  <2> QED BY <1>1, <2>1 DEF SyncInv, Told
<1>5. told \in Nat /\ catalogRev \in Nat
  BY DEF SyncInv, SyncTypeOK
<1>6. Told'
  BY <1>1, <1>3 DEF SyncInv, Told
<1>7. CASE UNCHANGED <<refreshing, fetchVars>> /\ stale' \in {stale, TRUE}
             /\ (Head(news) = catalogRev \/ stale')
  <2>1. SyncTypeOK'
    BY <1>1, <1>2, <1>7, Zenon DEF SyncInv, SyncTypeOK, fetchVars
  <2>2. Heard'
    BY <1>1, <1>4, <1>5, <1>7 DEF SyncInv, Heard
  <2>3. Reading' /\ RevisionIsCovered' /\ Counted'
    BY <1>1, <1>7, DataKept
  <2> QED BY <1>6, <2>1, <2>2, <2>3 DEF SyncInv
<1>8. CASE refreshing' = "event" /\ Begin(0) /\ UNCHANGED stale
  <2>1. SyncTypeOK'
    BY <1>1, <1>2, <1>8, SyncBeginOK DEF SyncInv, SyncTypeOK
  <2>2. Heard'
    BY <1>1, <1>8 DEF SyncInv, Heard
  <2>3. Reading' /\ RevisionIsCovered' /\ Counted'
    BY <1>1, <1>8, BegunOK
  <2> QED BY <1>6, <2>1, <2>2, <2>3 DEF SyncInv
<1> QED BY <1>7, <1>8 DEF TakeEvent

(* An install begins, or ends with the refresh it put off. *)
LEMMA InstallOK == ASSUME SyncSized, SyncInv, BeginInstall \/ EndInstall PROVE SyncInv'
<1>1. /\ UNCHANGED <<lib, rev, due, news, covered, stamp, silent, told, ready>>
      /\ UNCHANGED <<stale, catalog, catalogRev, dropped>>
      /\ installing' \in BOOLEAN /\ refreshing = "no"
  BY DEF BeginInstall, EndInstall, catalogVars, serverVars
<1>2. CASE UNCHANGED <<refreshing, fetchVars>>
  <2>1. SyncTypeOK'
    BY <1>1, <1>2 DEF SyncInv, SyncTypeOK, fetchVars
  <2>2. Told' /\ Heard'
    BY <1>1, <1>2 DEF SyncInv, Told, Heard
  <2>3. Reading' /\ RevisionIsCovered' /\ Counted'
    BY <1>1, <1>2, DataKept
  <2> QED BY <2>1, <2>2, <2>3 DEF SyncInv
<1>3. CASE refreshing' = "ended" /\ Begin(0) /\ stale
  <2>1. SyncTypeOK'
    BY <1>1, <1>3, SyncBeginOK DEF SyncInv, SyncTypeOK
  <2>2. Told' /\ Heard'
    BY <1>1, <1>3 DEF SyncInv, Told, Heard
  <2>3. Reading' /\ RevisionIsCovered' /\ Counted'
    BY <1>1, <1>3, BegunOK
  <2> QED BY <2>1, <2>2, <2>3 DEF SyncInv
<1> QED BY <1>2, <1>3 DEF BeginInstall, EndInstall

(* A refresh that fails is owed, was for a session that does not start, or is dropped. *)
LEMMA FetchFailsOK == ASSUME SyncInv, FetchFails PROVE SyncInv'
<1>1. /\ UNCHANGED <<lib, rev, due, news, covered, stamp, silent, told, ready, installing>>
      /\ UNCHANGED <<stale, catalog, catalogRev>> /\ UNCHANGED fetchVars
      /\ refreshing' = "no" /\ dropped' = (dropped \/ refreshing = "event") /\ refreshing # "no"
  BY DEF FetchFails, serverVars
<1>2. dropped' \in BOOLEAN
  BY <1>1, Zenon DEF SyncInv, SyncTypeOK
<1>3. SyncTypeOK'
  BY <1>1, <1>2 DEF SyncInv, SyncTypeOK, fetchVars
<1>4. refreshing = "start" \/ refreshing = "ended" \/ dropped'
  BY <1>1 DEF SyncInv, SyncTypeOK
<1>5. Told' /\ Heard'
  BY <1>1, <1>4 DEF SyncInv, Told, Heard
<1>6. Reading' /\ RevisionIsCovered' /\ Counted'
  BY <1>1, DataKept
<1> QED BY <1>3, <1>5, <1>6 DEF SyncInv


--------------------------------------------------------------------------------
(* Pages.                                                                       *)

(* A full page moves the cursor past Limit more applications. *)
LEMMA PagesAreCounted ==
    ASSUME SyncSized, NEW c \in Nat, NEW page \in SUBSET Apps, NEW next \in Nat, c <= next,
           \A a \in page : c < a /\ a <= next,
           Cardinality(page) = Limit, NEW n \in Nat, n * Limit <= Cardinality(Passed(c))
    PROVE  (n + 1) * Limit <= Cardinality(Passed(next))
<1>1. /\ Passed(c) \in SUBSET Apps /\ Passed(next) \in SUBSET Apps /\ IsFiniteSet(Apps)
      /\ Passed(c) \cap page = {} /\ Passed(c) \cup page \subseteq Passed(next)
  <2>1. \A a \in Apps : a \in Nat
    BY DEF SyncSized
  <2>2. Passed(c) \in SUBSET Apps /\ Passed(next) \in SUBSET Apps /\ IsFiniteSet(Apps)
    BY DEF Passed, SyncSized
  <2>3. \A a \in Passed(c) : a \notin page
    BY <2>1 DEF Passed
  <2>4. \A a \in Passed(c) \cup page : a \in Passed(next)
    BY <2>1 DEF Passed
  <2> QED BY <2>2, <2>3, <2>4
<1>2. IsFiniteSet(page) /\ IsFiniteSet(Passed(c)) /\ IsFiniteSet(Passed(next))
  BY <1>1, FS_Subset
<1>3. Cardinality(Passed(c) \cup page) = Cardinality(Passed(c)) + Limit
  <2>1. Cardinality(Passed(c) \cap page) = 0
    BY <1>1, FS_EmptySet
  <2>2. Cardinality(Passed(c)) \in Nat /\ Limit \in Nat
    BY <1>2, FS_CardinalityType DEF SyncSized
  <2>3. Cardinality(Passed(c) \cup page)
            = Cardinality(Passed(c)) + Cardinality(page) - Cardinality(Passed(c) \cap page)
    BY <1>2, FS_Union, Zenon
  <2> QED BY <2>1, <2>2, <2>3
<1>4. Cardinality(Passed(c) \cup page) <= Cardinality(Passed(next))
  BY <1>1, <1>2, FS_Subset
<1>5. (n + 1) * Limit = n * Limit + Limit
  BY DEF SyncSized
<1>6. Cardinality(Passed(c)) \in Nat /\ Cardinality(Passed(next)) \in Nat /\ Limit \in Nat
      /\ n * Limit \in Nat
  BY <1>2, FS_CardinalityType DEF SyncSized
<1> QED BY <1>3, <1>4, <1>5, <1>6 DEF SyncSized

(* After as many full pages as a refresh reads there is no application left. *)
LEMMA NothingIsLeft ==
    ASSUME SyncSized, NEW next \in Nat, NEW n \in Nat, n * Limit <= Cardinality(Passed(next)),
           n >= MaxPages
    PROVE  \A a \in Apps : a <= next
<1>1. Passed(next) \in SUBSET Apps /\ IsFiniteSet(Apps)
  BY DEF Passed, SyncSized
<1>2. Cardinality(Passed(next)) <= Cardinality(Apps) /\ Cardinality(Passed(next)) \in Nat
      /\ Cardinality(Apps) \in Nat
  BY <1>1, FS_Subset, FS_CardinalityType
<1>3. MaxPages * Limit <= n * Limit /\ MaxPages * Limit \in Nat /\ n * Limit \in Nat
  BY DEF SyncSized
<1>4. Cardinality(Passed(next)) = Cardinality(Apps)
  BY <1>2, <1>3 DEF SyncSized
<1>5. Passed(next) = Apps
  BY <1>1, <1>4, FS_Subset
<1> QED BY <1>5 DEF Passed


(* A page: what it lists, and what it shows to be absent, is the library's entry. *)
LEMMA ReadOK ==
    ASSUME SyncSized, SyncInv, refreshing # "no", NEW page \in SUBSET Apps, IsPage(page)
    PROVE  /\ First \in Nat /\ First <= rev /\ Read(page) \in Library
           /\ \A a \in Apps \ silent :
                a <= cursor \/ (\E b \in page : a <= b) \/ page = Remaining
                    => Read(page)[a] = lib[a] \/ stamp[a] > First
           /\ First = rev => \A a \in Apps \ silent : lib[a] = (IF firstRev = Unread THEN lib ELSE snap)[a]
           /\ covered /\ told > First => news # <<>>
<1>1. /\ rev \in Nat /\ told \in Nat /\ told <= rev /\ firstRev \in Nat \cup {Unread} /\ firstRev <= rev
      /\ stamp \in [Apps -> Nat] /\ cursor \in Nat /\ \A a \in Apps : a \in Nat /\ a > 0
  BY DEF SyncSized, SyncInv, SyncTypeOK, Told, Reading
<1>2. First \in Nat /\ First <= rev
  BY <1>1 DEF First
<1>3. Read(page) \in Library
  BY DEF Read, Library, SyncInv, SyncTypeOK
<1>4. ASSUME NEW a \in Apps \ silent, a <= cursor \/ (\E b \in page : a <= b) \/ page = Remaining
      PROVE  Read(page)[a] = lib[a] \/ stamp[a] > First
  <2>1. CASE a \in page
    BY <2>1 DEF Read
  <2>2. CASE a \notin page /\ a <= cursor
    <3>1. firstRev # Unread /\ First = firstRev
      BY <1>1, <2>2 DEF First, SyncInv, Reading
    <3> QED BY <2>2, <3>1 DEF Read, SyncInv, Reading
  <2>3. CASE a \notin page /\ a > cursor
    <3>1. acc[a] = Absent
      BY <2>3 DEF SyncInv, Reading
    <3>2. a \notin Remaining
      <4>1. CASE page = Remaining
        BY <2>3, <4>1
      <4>2. CASE \E b \in page : a <= b
        <5>1. PICK b \in page : a <= b
          BY <4>2
        <5>2. a \in Remaining => b < a
          BY <2>3 DEF IsPage
        <5> QED BY <1>1, <5>1, <5>2
      <4>3. CASE a <= cursor
        BY <1>1, <2>3, <4>3
      <4> QED BY <1>4, <4>1, <4>2, <4>3
    <3>3. lib[a] = Absent
      BY <2>3, <3>2 DEF Remaining
    <3> QED BY <2>3, <3>1, <3>3 DEF Read
  <2> QED BY <1>1, <2>1, <2>2, <2>3
<1>5. First = rev => \A a \in Apps \ silent : lib[a] = (IF firstRev = Unread THEN lib ELSE snap)[a]
  BY DEF First, SyncInv, Reading
<1>6. covered /\ told > First => news # <<>>
  BY <1>1 DEF First, SyncInv, Reading
<1> QED BY <1>2, <1>3, <1>4, <1>5, <1>6

(* A page that says there is another. *)
LEMMA FetchPageOK ==
    ASSUME SyncSized, SyncInv, NEW page \in SUBSET Apps, NEW next \in page, FetchPage(page, next)
    PROVE  SyncInv'
<1>1. /\ UNCHANGED <<lib, rev, due, news, covered, stamp, silent, told>>
      /\ UNCHANGED <<stale, catalog, catalogRev, dropped, ready, installing, refreshing, attempt, cut>>
      /\ acc' = Read(page) /\ firstRev' = First /\ mixed' = Mixes
      /\ snap' = (IF firstRev = Unread THEN lib ELSE snap) /\ pages' = pages + 1 /\ cursor' = next
      /\ refreshing # "no" /\ IsPage(page) /\ page # Remaining /\ pages + 1 < MaxPages
      /\ \A a \in page : a <= next
  BY DEF FetchPage, serverVars, catalogVars
<1>2. next \in Nat /\ cursor \in Nat /\ pages \in Nat /\ next > cursor
      /\ \A a \in page : cursor < a
  BY <1>1 DEF SyncInv, SyncTypeOK, SyncSized, IsPage, Remaining
<1>3. \A a \in Apps : a \in Nat
  BY DEF SyncSized
<1>4. SyncTypeOK'
  <2>1. Mixes \in BOOLEAN
    BY DEF Mixes, SyncInv, SyncTypeOK
  <2>2. snap' \in Library
    BY <1>1 DEF SyncInv, SyncTypeOK
  <2>3. acc' \in Library /\ firstRev' \in Nat /\ pages' \in Nat /\ cursor' \in Nat
    BY <1>1, <1>2, ReadOK
  <2> QED BY <1>1, <2>1, <2>2, <2>3 DEF SyncInv, SyncTypeOK
<1>5. Told' /\ Heard'
  BY <1>1 DEF SyncInv, Told, Heard
<1>6. Reading'
  <2>1. First \in Nat /\ First <= rev /\ First # Unread
    BY <1>1, ReadOK DEF Unread
  <2>2. ASSUME NEW a \in Apps, a > next PROVE Read(page)[a] = Absent
    <3>1. a \notin page /\ a > cursor
      BY <1>1, <1>2, <1>3, <2>2
    <3> QED BY <1>1, <3>1 DEF Read, SyncInv, Reading
  <2>3. \A a \in Apps \ silent : a <= next => Read(page)[a] = lib[a] \/ stamp[a] > First
    BY <1>1, ReadOK
  <2>4. /\ First = rev => \A a \in Apps \ silent : lib[a] = (IF firstRev = Unread THEN lib ELSE snap)[a]
        /\ covered /\ told > First => news # <<>>
    BY <1>1, ReadOK
  <2> QED BY <1>1, <2>1, <2>2, <2>3, <2>4, Zenon DEF Reading
<1>7. RevisionIsCovered'
  BY <1>1 DEF SyncInv, RevisionIsCovered
<1>8. Counted'
  <2>1. pages * Limit <= Cardinality(Passed(cursor)) /\ Cardinality(page) = Limit
    BY <1>1 DEF SyncInv, Counted, IsPage
  <2>2. (pages + 1) * Limit <= Cardinality(Passed(next))
    BY <1>1, <1>2, <2>1, PagesAreCounted
  <2> QED BY <1>1, <2>2, Zenon DEF SyncInv, Counted
<1> QED BY <1>4, <1>5, <1>6, <1>7, <1>8 DEF SyncInv

(* The page after which a refresh stops is the last there is. *)
LEMMA TheLastIsTheLast ==
    ASSUME SyncSized, SyncInv, NEW page \in SUBSET Apps, FetchLastPage(page)
    PROVE  page = Remaining
<1> SUFFICES ASSUME page # Remaining PROVE FALSE
  OBVIOUS
<1>1. refreshing # "no" /\ IsPage(page) /\ pages + 1 >= MaxPages
  BY DEF FetchLastPage
<1>2. cursor \in Nat /\ pages \in Nat /\ \A a \in page : cursor < a /\ a \in Nat
  BY <1>1 DEF SyncInv, SyncTypeOK, SyncSized, IsPage, Remaining
<1>3. IsFiniteSet(page) /\ Cardinality(page) = Limit /\ Limit # 0
  BY <1>1, FS_Subset DEF SyncSized, IsPage
<1>4. PICK b \in Apps : b \in Remaining \ page
  BY <1>1 DEF IsPage, Remaining
<1>5. \A a \in page : a < b
  BY <1>1, <1>4 DEF IsPage
<1>6. b - 1 \in Nat /\ cursor <= b - 1 /\ \A a \in page : cursor < a /\ a <= b - 1
  BY <1>2, <1>4, <1>5 DEF SyncSized, Remaining
<1>7. pages * Limit <= Cardinality(Passed(cursor))
  BY <1>1 DEF SyncInv, Counted
<1>8. (pages + 1) * Limit <= Cardinality(Passed(b - 1))
  BY <1>2, <1>3, <1>6, <1>7, PagesAreCounted
<1>9. b <= b - 1
  BY <1>1, <1>2, <1>6, <1>8, NothingIsLeft
<1> QED BY <1>6, <1>9 DEF SyncSized


(* The last page: a catalog of two revisions is read again, or kept under the older one. *)
LEMMA FetchLastPageOK ==
    ASSUME SyncSized, SyncInv, NEW page \in SUBSET Apps, FetchLastPage(page)
    PROVE  SyncInv'
<1>1. /\ UNCHANGED <<lib, rev, due, news, covered, stamp, told, installing>>
      /\ refreshing # "no" /\ IsPage(page) /\ page = Remaining
  BY TheLastIsTheLast DEF FetchLastPage
<1>2. CASE /\ Begin(attempt + 1)
           /\ UNCHANGED <<catalogVars, ready, refreshing, silent>>
  <2>1. attempt + 1 \in Nat
    BY DEF SyncInv, SyncTypeOK
  <2>2. UNCHANGED <<stale, catalog, catalogRev, dropped>>
    BY <1>2 DEF catalogVars
  <2>3. SyncTypeOK'
    BY <1>1, <1>2, <2>1, <2>2, SyncBeginOK DEF SyncInv, SyncTypeOK
  <2>4. Told' /\ Heard'
    BY <1>1, <1>2, <2>2 DEF SyncInv, Told, Heard
  <2>5. Reading' /\ RevisionIsCovered' /\ Counted'
    BY <1>1, <1>2, <2>1, <2>2, BegunOK
  <2> QED BY <2>3, <2>4, <2>5 DEF SyncInv
<1>3. CASE /\ acc' = Read(page) /\ firstRev' = First /\ mixed' = Mixes
           /\ snap' = (IF firstRev = Unread THEN lib ELSE snap)
           /\ cut' = (page # Remaining)
           /\ catalog' = Read(page) /\ catalogRev' = First /\ stale' = FALSE /\ dropped' = FALSE
           /\ silent' = {a \in silent : Read(page)[a] # lib[a]}
           /\ ready' = (ready \/ refreshing = "start") /\ refreshing' = "no"
           /\ UNCHANGED <<attempt, pages, cursor>>
  <2>1. cut' = FALSE /\ Mixes \in BOOLEAN /\ ready' \in BOOLEAN
    BY <1>1, <1>3, Zenon DEF Mixes, SyncInv, SyncTypeOK
  <2>2. snap' \in Library /\ silent' \subseteq Apps
    BY <1>3 DEF SyncInv, SyncTypeOK
  <2>3. First \in Nat /\ First <= rev /\ Read(page) \in Library
    BY <1>1, ReadOK
  <2>4. SyncTypeOK'
    BY <1>1, <1>3, <2>1, <2>2, <2>3 DEF SyncInv, SyncTypeOK
  <2>5. covered /\ told > First => news # <<>>
    BY <1>1, ReadOK
  <2>6. Told' /\ Heard'
    BY <1>1, <1>3, <2>3, <2>5 DEF SyncInv, Told, Heard
  <2>7. RevisionIsCovered'
    <3> SUFFICES ASSUME NEW a \in Apps \ silent', Read(page)[a] # lib[a]
                 PROVE  stamp[a] > First
      BY <1>1, <1>3, Zenon DEF RevisionIsCovered
    <3>1. a \in Apps \ silent
      BY <1>3
    <3> QED BY <1>1, <3>1, ReadOK
  <2>8. Reading' /\ Counted'
    BY <1>3, <2>1, Zenon DEF Reading, Counted
  <2> QED BY <2>4, <2>6, <2>7, <2>8 DEF SyncInv
<1> QED BY <1>2, <1>3 DEF FetchLastPage

--------------------------------------------------------------------------------

(* Every step keeps the invariant. *)
LEMMA SyncStepOK == ASSUME SyncSized, SyncInv, [SyncNext]_syncVars PROVE SyncInv'
<1>1. CASE UNCHANGED syncVars
  <2>1. UNCHANGED <<lib, rev, due, news, covered, stamp, silent, told, stale, catalog, catalogRev,
                    dropped, ready, installing, refreshing>> /\ UNCHANGED fetchVars
    BY <1>1 DEF syncVars, serverVars, catalogVars
  <2>2. SyncTypeOK' /\ Told' /\ Heard'
    BY <2>1 DEF SyncInv, SyncTypeOK, Told, Heard, fetchVars
  <2>3. Reading' /\ RevisionIsCovered' /\ Counted'
    BY <2>1, DataKept DEF SyncInv, Reading
  <2> QED BY <2>2, <2>3 DEF SyncInv
<1>2. CASE SyncNext
  BY <1>2, ChangeOK, SwitchPreferenceOK, PublishOK, ForgottenOK, StartOK, ResyncOK, TakeEventOK,
     InstallOK, FetchPageOK, FetchLastPageOK, FetchFailsOK DEF SyncNext
<1> QED BY <1>1, <1>2

(* The invariant holds throughout. *)
LEMMA SyncInvariance == ASSUME SyncSized PROVE SyncSpec => []SyncInv
<1>1. SyncInit => SyncInv
  BY SyncInitOK
<1>2. SyncInv /\ [SyncNext]_syncVars => SyncInv'
  BY SyncStepOK
<1> QED BY <1>1, <1>2, PTL DEF SyncSpec

(* No change of the library is lost on the way to a connected console, whatever its events, its *)
(* installs and its refreshes do meanwhile: session.cpp's onEvent and refreshCatalog against    *)
(* the revision counter of repository.ts.                                                       *)
THEOREM NoChangeIsMissedByAConsole == ASSUME SyncSized PROVE SyncSpec => []NoChangeIsMissed
<1>1. ASSUME SyncInv PROVE NoChangeIsMissed
  <2> SUFFICES ASSUME ready, refreshing = "no", NEW a \in Apps \ silent, catalog[a] # lib[a],
                      ~due, covered, ~stale, ~dropped
               PROVE  \E i \in 1..Len(news) : news[i] # catalogRev
    BY DEF NoChangeIsMissed, WillBeRead
  <2>1. stamp[a] > catalogRev /\ stamp[a] <= told
    BY <1>1 DEF SyncInv, RevisionIsCovered, Told, SyncTypeOK
  <2>2. news # <<>> /\ told # catalogRev /\ news[Len(news)] = told
    BY <1>1, <2>1 DEF SyncInv, Heard, Told, SyncTypeOK
  <2>3. Len(news) \in 1..Len(news)
    BY <1>1, <2>2 DEF SyncInv, SyncTypeOK
  <2> QED BY <2>2, <2>3
<1> QED BY <1>1, SyncInvariance, PTL

(* A console never remembers a revision that has a change it does not show: ignoring an event   *)
(* with the revision it has loses nothing, even after pages of two revisions.                   *)
THEOREM ARememberedRevisionIsCovered == ASSUME SyncSized PROVE SyncSpec => []RevisionIsCovered
<1>1. SyncInv => RevisionIsCovered
  BY DEF SyncInv
<1> QED BY <1>1, SyncInvariance, PTL

(* paginateCatalog's pages reach the end of any library that fits the pages a refresh reads.    *)
THEOREM NoRefreshIsCut == ASSUME SyncSized PROVE SyncSpec => []NothingIsCut
<1>1. SyncInv => NothingIsCut
  BY DEF SyncInv, Counted, NothingIsCut
<1> QED BY <1>1, SyncInvariance, PTL

(* Pages of one revision make the catalog of one moment, although the library may change        *)
(* between any two of them.                                                                     *)
THEOREM PagesOfOneRevisionAreOneMoment == ASSUME SyncSized PROVE SyncSpec => [][UnmixedIsOneMoment]_syncVars
<1>1. ASSUME SyncInv PROVE UnmixedIsOneMoment
  <2> SUFFICES ASSUME NEW page \in SUBSET Apps, FetchLastPage(page), refreshing' = "no", ~mixed',
                      NEW a \in Apps \ silent
               PROVE  catalog'[a] = snap'[a]
    BY DEF UnmixedIsOneMoment
  <2>1. /\ refreshing # "no" /\ IsPage(page) /\ page = Remaining
        /\ catalog' = Read(page) /\ mixed' = Mixes
        /\ snap' = (IF firstRev = Unread THEN lib ELSE snap)
    BY <1>1, TheLastIsTheLast DEF FetchLastPage
  <2>2. First = rev /\ First \in Nat
    BY <1>1, <2>1, ReadOK DEF Mixes
  <2>3. Read(page)[a] = lib[a] \/ stamp[a] > First
    BY <1>1, <2>1, ReadOK
  <2>4. stamp[a] <= rev /\ stamp[a] \in Nat
    BY <1>1 DEF SyncInv, Told, SyncTypeOK
  <2>5. Read(page)[a] = lib[a]
    BY <2>2, <2>3, <2>4
  <2>6. lib[a] = (IF firstRev = Unread THEN lib ELSE snap)[a]
    BY <1>1, <2>1, <2>2, ReadOK
  <2> QED BY <2>1, <2>5, <2>6
<1> QED BY <1>1, SyncInvariance, PTL

--------------------------------------------------------------------------------
(* DeviceSessions.                                                             *)

Wired == Plugged \in [Links -> Consoles] /\ None \notin Consoles /\ OverNetwork \notin Links

Made(t, c) == t # 0 => owner[t] = c

(* Every token somebody has was made for the console that has it. *)
Owned ==
    /\ \A c \in Consoles : Made(rows[c].token, c) /\ Made(held[c], c) /\ Made(answer[c], c)
    /\ \A l \in Links : session[l].dev \in {None, Plugged[l]} /\ Made(session[l].token, Plugged[l])

(* A console that never gave up has the last token made for it, or is about to. *)
Current ==
    \A c \in Consoles \ gaveUp :
        /\ answer[c] # 0 => rows[c].token = answer[c]
        /\ held[c] # 0 /\ answer[c] = 0 => rows[c].token = held[c]

SessionsInv == SessionsTypeOK /\ Owned /\ Current /\ RevokedHasNoUsbJob

--------------------------------------------------------------------------------

(* Nobody has a token at the start. *)
LEMMA SessionsInitOK == SessionsInit => SessionsInv
<1> SUFFICES ASSUME SessionsInit PROVE SessionsInv
  OBVIOUS
<1>1. SessionsTypeOK
  <2>1. <<>> \in Seq(Consoles)
    OBVIOUS
  <2> QED BY <2>1 DEF SessionsInit, SessionsTypeOK, Gone
<1>2. Owned /\ Current /\ RevokedHasNoUsbJob
  BY DEF SessionsInit, Owned, Made, Current, RevokedHasNoUsbJob, Gone
<1> QED BY <1>1, <1>2 DEF SessionsInv

(* A token is accepted for the console it was made for. *)
LEMMA AcceptedIsOwned ==
    ASSUME SessionsInv, NEW c \in Consoles, NEW t, Accepts(t, c)
    PROVE  t \in Tokens /\ t # 0 /\ owner[t] = c /\ ~rows[c].revoked /\ rows[c].token = t
  BY DEF Accepts, SessionsInv, SessionsTypeOK, Owned, Made

(* What a link presents was made for the console plugged in. *)
LEMMA PresentedIsOwned ==
    ASSUME Wired, SessionsInv, NEW l \in Links
    PROVE  Plugged[l] \in Consoles /\ Presented(l) \in Tokens \cup {0} /\ Made(Presented(l), Plugged[l])
  BY DEF Wired, Presented, SessionsInv, SessionsTypeOK, Owned

(* A request over a link that is accepted comes from the console it is accepted for. *)
LEMMA SenderIsPlugged ==
    ASSUME Wired, SessionsInv, NEW l \in Links, NEW c \in Consoles, Accepts(Presented(l), c)
    PROVE  c = Plugged[l]
  BY AcceptedIsOwned, PresentedIsOwned DEF Made

(* A step that makes no token, and changes neither rows nor what consoles have. *)
LEMMA TokensKept ==
    ASSUME SessionsInv, UNCHANGED <<owner, rows, held, answer, gaveUp>>
    PROVE  /\ Current'
           /\ UNCHANGED session => Owned'
           /\ active' \subseteq active => RevokedHasNoUsbJob'
  BY DEF SessionsInv, Current, Owned, Made, RevokedHasNoUsbJob

(* Codes and settings. *)
LEMMA SettingsOK ==
    ASSUME SessionsInv, CreateCode \/ CodeExpires \/ PairRefused \/ RequireUsbPairing
    PROVE  SessionsInv'
<1>1. UNCHANGED <<owner, rows, session, open, active, held, answer, gaveUp>>
  BY DEF CreateCode, CodeExpires, PairRefused, RequireUsbPairing
<1>2. usbPairing' \in BOOLEAN
  BY Zenon DEF CreateCode, CodeExpires, PairRefused, RequireUsbPairing, SessionsInv, SessionsTypeOK
<1>3. code' = None \/ code' \in [tries : Nat, fresh : BOOLEAN]
  <2>1. CASE CreateCode
    BY <2>1 DEF CreateCode
  <2>2. CASE CodeExpires
    BY <2>2 DEF CodeExpires, SessionsInv, SessionsTypeOK
  <2>3. CASE PairRefused
    BY <2>3 DEF PairRefused, SessionsInv, SessionsTypeOK
  <2>4. CASE RequireUsbPairing
    BY <2>4 DEF RequireUsbPairing, SessionsInv, SessionsTypeOK
  <2> QED BY <2>1, <2>2, <2>3, <2>4
<1>4. SessionsTypeOK'
  BY <1>1, <1>2, <1>3 DEF SessionsInv, SessionsTypeOK, Tokens
<1> QED BY <1>1, <1>4, TokensKept DEF SessionsInv

(* What making a token does to the tokens there are. *)
LEMMA MadeOnce ==
    ASSUME SessionsInv, NEW c \in Consoles, owner' = Append(owner, c)
    PROVE  /\ owner' \in Seq(Consoles) /\ Len(owner') = Len(owner) + 1
           /\ Tokens \subseteq Tokens' /\ Len(owner) + 1 \in Tokens' /\ Len(owner) + 1 # 0
           /\ owner'[Len(owner) + 1] = c /\ \A t \in Tokens : owner'[t] = owner[t]
<1>1. owner \in Seq(Consoles)
  BY DEF SessionsInv, SessionsTypeOK
<1> QED BY <1>1 DEF Tokens

(* A new token: the console's row and the answer it waits for change, the link's session may. *)
LEMMA IssueOK ==
    ASSUME Wired, SessionsInv, NEW c \in Consoles, Asks(c), Issue(c),
           \/ UNCHANGED session
           \/ \E l \in Links : Plugged[l] = c /\ Serves(l, c, Len(owner) + 1),
           code' = code \/ code' = None,
           UNCHANGED <<usbPairing, open, active, held, gaveUp>>
    PROVE  SessionsInv'
<1> DEFINE n == Len(owner) + 1
<1>1. /\ owner' = Append(owner, c) /\ rows' = [rows EXCEPT ![c] = [token |-> n, revoked |-> FALSE]]
      /\ (answer' = answer /\ c \in gaveUp) \/ answer' = [answer EXCEPT ![c] = n]
  BY DEF Issue
<1>2. /\ owner' \in Seq(Consoles) /\ Tokens \subseteq Tokens' /\ n \in Tokens' /\ n # 0
      /\ owner'[n] = c /\ \A t \in Tokens : owner'[t] = owner[t]
  BY <1>1, MadeOnce
<1> HIDE DEF n
<1>3. session' \in [Links -> [up : BOOLEAN, dev : Consoles \cup {None}, token : Tokens' \cup {0}]]
  <2>1. CASE UNCHANGED session
    BY <1>2, <2>1 DEF SessionsInv, SessionsTypeOK
  <2>2. CASE \E l \in Links : Plugged[l] = c /\ Serves(l, c, n)
    BY <1>2, <2>2 DEF SessionsInv, SessionsTypeOK, Serves
  <2> QED BY <2>1, <2>2 DEF n
<1>4. rows' \in [Consoles -> [token : Tokens' \cup {0}, revoked : BOOLEAN]]
      /\ answer' \in [Consoles -> Tokens' \cup {0}] /\ held' \in [Consoles -> Tokens' \cup {0}]
  BY <1>1, <1>2 DEF SessionsInv, SessionsTypeOK
<1>5. SessionsTypeOK'
  BY <1>2, <1>3, <1>4 DEF SessionsInv, SessionsTypeOK
<1>6. ASSUME NEW t \in Tokens \cup {0}, NEW d, Made(t, d) PROVE Made(t, d)'
  BY <1>2, <1>6 DEF Made
<1>7. Owned'
  <2>1. \A d \in Consoles : Made(rows[d].token, d)' /\ Made(held[d], d)' /\ Made(answer[d], d)'
    <3> TAKE d \in Consoles
    <3>1. (rows'[d].token = n /\ d = c) \/ rows'[d].token = rows[d].token
      BY <1>1 DEF SessionsInv, SessionsTypeOK
    <3>2. (answer'[d] = n /\ d = c) \/ answer'[d] = answer[d]
      BY <1>1 DEF SessionsInv, SessionsTypeOK
    <3>3. held'[d] = held[d]
      OBVIOUS
    <3>4. /\ rows[d].token \in Tokens \cup {0} /\ held[d] \in Tokens \cup {0}
          /\ answer[d] \in Tokens \cup {0}
          /\ Made(rows[d].token, d) /\ Made(held[d], d) /\ Made(answer[d], d)
      BY DEF SessionsInv, SessionsTypeOK, Owned
    <3> QED BY <1>2, <3>1, <3>2, <3>3, <3>4 DEF Made
  <2>2. \A l \in Links : (session[l].dev \in {None, Plugged[l]} /\ Made(session[l].token, Plugged[l]))'
    <3> TAKE l \in Links
    <3>1. /\ session[l].dev \in {None, Plugged[l]} /\ Made(session[l].token, Plugged[l])
          /\ session[l].token \in Tokens \cup {0}
      BY DEF SessionsInv, SessionsTypeOK, Owned
    <3>2. session'[l] = session[l] \/ (Plugged[l] = c /\ session'[l].dev = c /\ session'[l].token = n)
      <4>1. CASE UNCHANGED session
        BY <4>1
      <4>2. CASE \E k \in Links : Plugged[k] = c /\ Serves(k, c, n)
        BY <4>2 DEF SessionsInv, SessionsTypeOK, Serves
      <4> QED BY <4>1, <4>2 DEF n
    <3> QED BY <1>2, <3>1, <3>2 DEF Made
  <2> QED BY <2>1, <2>2 DEF Owned
<1>8. Current'
  <2> SUFFICES ASSUME NEW d \in Consoles \ gaveUp
               PROVE  /\ answer'[d] # 0 => rows'[d].token = answer'[d]
                      /\ held[d] # 0 /\ answer'[d] = 0 => rows'[d].token = held[d]
    BY DEF Current
  <2>1. CASE d = c
    BY <1>1, <1>2, <2>1 DEF SessionsInv, SessionsTypeOK
  <2>2. CASE d # c
    BY <1>1, <2>2 DEF SessionsInv, SessionsTypeOK, Current
  <2> QED BY <2>1, <2>2
<1>9. RevokedHasNoUsbJob'
  BY <1>1 DEF SessionsInv, SessionsTypeOK, RevokedHasNoUsbJob
<1> QED BY <1>5, <1>7, <1>8, <1>9 DEF SessionsInv

(* A request over a link that keeps the token it presented, and answers with it or not. *)
LEMMA ServedOK ==
    ASSUME Wired, SessionsInv, NEW l \in Links, NEW c \in Consoles,
           Accepts(Presented(l), c), Serves(l, c, Presented(l)),
           UNCHANGED <<owner, rows>>
    PROVE  /\ c = Plugged[l]
           /\ session' \in [Links -> [up : BOOLEAN, dev : Consoles \cup {None},
                                      token : Tokens \cup {0}]]
           /\ \A k \in Links : session'[k].dev \in {None, Plugged[k]}
                               /\ Made(session'[k].token, Plugged[k])
<1>1. c = Plugged[l] /\ Presented(l) \in Tokens /\ Made(Presented(l), Plugged[l])
  BY SenderIsPlugged, AcceptedIsOwned, PresentedIsOwned
<1>2. session' \in [Links -> [up : BOOLEAN, dev : Consoles \cup {None}, token : Tokens \cup {0}]]
  BY <1>1 DEF SessionsInv, SessionsTypeOK, Serves
<1>3. ASSUME NEW k \in Links
      PROVE  session'[k].dev \in {None, Plugged[k]} /\ Made(session'[k].token, Plugged[k])
  <2>1. CASE k = l
    BY <1>1, <2>1 DEF SessionsInv, SessionsTypeOK, Serves
  <2>2. CASE k # l
    BY <2>2 DEF SessionsInv, SessionsTypeOK, Serves, Owned
  <2> QED BY <2>1, <2>2
<1> QED BY <1>1, <1>2, <1>3

(* usbHello with a token answers the console with the token of its row. *)
LEMMA HelloKnownOK ==
    ASSUME Wired, SessionsInv, NEW l \in Links, NEW c \in Consoles, HelloKnown(l, c)
    PROVE  SessionsInv'
<1> DEFINE t == Presented(l)
<1>1. /\ c = Plugged[l]
      /\ session' \in [Links -> [up : BOOLEAN, dev : Consoles \cup {None}, token : Tokens \cup {0}]]
      /\ \A k \in Links : session'[k].dev \in {None, Plugged[k]} /\ Made(session'[k].token, Plugged[k])
  BY ServedOK DEF HelloKnown
<1>2. t \in Tokens /\ t # 0 /\ owner[t] = c /\ rows[c].token = t
  BY AcceptedIsOwned DEF HelloKnown
<1>3. /\ UNCHANGED <<owner, rows, code, usbPairing, open, active, held, gaveUp>>
      /\ (answer' = answer /\ c \in gaveUp) \/ answer' = [answer EXCEPT ![c] = t]
  BY <1>1 DEF HelloKnown
<1> HIDE DEF t
<1>4. answer' \in [Consoles -> Tokens \cup {0}]
  BY <1>2, <1>3 DEF SessionsInv, SessionsTypeOK
<1>5. SessionsTypeOK'
  BY <1>1, <1>3, <1>4 DEF SessionsInv, SessionsTypeOK, Tokens
<1>6. Owned'
  <2>1. \A d \in Consoles : Made(answer'[d], d)
    BY <1>2, <1>3 DEF SessionsInv, SessionsTypeOK, Owned, Made
  <2> QED BY <1>1, <1>3, <2>1 DEF SessionsInv, Owned, Made
<1>7. Current'
  <2> SUFFICES ASSUME NEW d \in Consoles \ gaveUp
               PROVE  /\ answer'[d] # 0 => rows[d].token = answer'[d]
                      /\ held[d] # 0 /\ answer'[d] = 0 => rows[d].token = held[d]
    BY <1>3 DEF Current
  <2>1. CASE d = c
    BY <1>2, <1>3, <2>1 DEF SessionsInv, SessionsTypeOK
  <2>2. CASE d # c
    BY <1>3, <2>2 DEF SessionsInv, SessionsTypeOK, Current
  <2> QED BY <2>1, <2>2
<1>8. RevokedHasNoUsbJob'
  BY <1>3 DEF SessionsInv, RevokedHasNoUsbJob
<1> QED BY <1>5, <1>6, <1>7, <1>8 DEF SessionsInv

(* usbHello without a token makes one for the console plugged in. *)
LEMMA HelloNewOK ==
    ASSUME Wired, SessionsInv, NEW l \in Links, HelloNew(l)
    PROVE  SessionsInv'
<1> DEFINE c == Plugged[l]
<1>1. c \in Consoles /\ Asks(c) /\ Issue(c) /\ Plugged[l] = c /\ Serves(l, c, Len(owner) + 1)
      /\ UNCHANGED <<code, usbPairing, open, active, held, gaveUp>>
  BY DEF HelloNew, Wired
<1> QED BY <1>1, IssueOK

(* A pairing makes a token for the console that asks. *)
LEMMA PairOK ==
    ASSUME Wired, SessionsInv, NEW c \in Consoles, NEW via \in Carriers, Pair(c, via)
    PROVE  SessionsInv'
<1>1. /\ Asks(c) /\ Issue(c) /\ code' = None
      /\ UNCHANGED <<usbPairing, open, active, held, gaveUp>>
  BY DEF Pair
<1>2. UNCHANGED session \/ \E l \in Links : Plugged[l] = c /\ Serves(l, c, Len(owner) + 1)
  BY DEF Pair, Carriers
<1> QED BY <1>1, <1>2, IssueOK

(* A request over a link is taken for a console that is not revoked, so its claim is sound. *)
LEMMA UsbRequestOK ==
    ASSUME Wired, SessionsInv, NEW l \in Links, NEW c \in Consoles, UsbRequest(l, c)
    PROVE  SessionsInv'
<1>1. /\ session' \in [Links -> [up : BOOLEAN, dev : Consoles \cup {None}, token : Tokens \cup {0}]]
      /\ \A k \in Links : session'[k].dev \in {None, Plugged[k]} /\ Made(session'[k].token, Plugged[k])
  BY ServedOK DEF UsbRequest
<1>2. ~rows[c].revoked
  BY AcceptedIsOwned DEF UsbRequest
<1>3. /\ UNCHANGED <<owner, rows, code, usbPairing, open, held, answer, gaveUp>>
      /\ active' \subseteq active \cup {<<c, l>>}
  BY DEF UsbRequest
<1>4. active' \subseteq Consoles \X Carriers
  BY <1>3 DEF SessionsInv, SessionsTypeOK, Carriers
<1>5. SessionsTypeOK'
  BY <1>1, <1>3, <1>4 DEF SessionsInv, SessionsTypeOK, Tokens
<1>6. Owned'
  BY <1>1, <1>3 DEF SessionsInv, Owned, Made
<1>7. RevokedHasNoUsbJob'
  BY <1>2, <1>3 DEF SessionsInv, RevokedHasNoUsbJob
<1> QED BY <1>3, <1>5, <1>6, <1>7, TokensKept DEF SessionsInv

(* The requests over the network: what they claim is not claimed over a link. *)
LEMMA NetworkOK ==
    ASSUME Wired, SessionsInv, NEW c \in Consoles,
           NetworkRequest(c) \/ \E sender \in Consoles : Authenticate(c, sender)
    PROVE  SessionsInv'
<1>1. /\ UNCHANGED <<owner, rows, code, usbPairing, session, held, answer, gaveUp>>
      /\ open' \subseteq open \cup {c} /\ active' \subseteq active \cup {<<c, OverNetwork>>}
  BY DEF NetworkRequest, Authenticate
<1>2. SessionsTypeOK'
  BY <1>1 DEF SessionsInv, SessionsTypeOK, Tokens, Carriers
<1>3. RevokedHasNoUsbJob'
  BY <1>1 DEF SessionsInv, RevokedHasNoUsbJob, Wired
<1> QED BY <1>1, <1>2, <1>3, TokensKept DEF SessionsInv

(* A link comes up or ends: its session starts anew. *)
LEMMA LinkOK ==
    ASSUME Wired, SessionsInv, NEW l \in Links, Attach(l) \/ Detach(l)
    PROVE  SessionsInv'
<1>1. PICK u \in BOOLEAN : session' = [session EXCEPT ![l] = [up |-> u, dev |-> None, token |-> 0]]
  <2>1. CASE Attach(l)
    BY <2>1 DEF Attach
  <2>2. CASE Detach(l)
    BY <2>2 DEF Detach, Gone
  <2> QED BY <2>1, <2>2
<1>2. /\ UNCHANGED <<owner, rows, code, usbPairing, open, held, answer, gaveUp>>
      /\ active' \subseteq active
  BY DEF Attach, Detach
<1>3. session' \in [Links -> [up : BOOLEAN, dev : Consoles \cup {None}, token : Tokens \cup {0}]]
  BY <1>1 DEF SessionsInv, SessionsTypeOK, Gone
<1>4. \A k \in Links : session'[k].dev \in {None, Plugged[k]} /\ Made(session'[k].token, Plugged[k])
  BY <1>1 DEF SessionsInv, SessionsTypeOK, Owned, Gone, Made
<1>5. SessionsTypeOK'
  BY <1>2, <1>3 DEF SessionsInv, SessionsTypeOK, Tokens
<1>6. Owned'
  BY <1>2, <1>4 DEF SessionsInv, Owned, Made
<1> QED BY <1>2, <1>5, <1>6, TokensKept DEF SessionsInv

(* A revoke ends the jobs the console has. *)
LEMMA RevokeOK ==
    ASSUME Wired, SessionsInv, NEW c \in Consoles, Revoke(c)
    PROVE  SessionsInv'
<1>1. /\ rows' = [rows EXCEPT ![c].revoked = TRUE]
      /\ active' = active \ ({c} \X Carriers)
      /\ UNCHANGED <<owner, code, usbPairing, session, open, held, answer, gaveUp>>
  BY DEF Revoke
<1>2. SessionsTypeOK'
  BY <1>1, ZenonT(40) DEF SessionsInv, SessionsTypeOK, Tokens
<1>3. \A d \in Consoles : rows'[d].token = rows[d].token /\ (d # c => rows'[d] = rows[d])
  BY <1>1 DEF SessionsInv, SessionsTypeOK
<1>4. Owned' /\ Current'
  BY <1>1, <1>3 DEF SessionsInv, Owned, Current, Made
<1>5. RevokedHasNoUsbJob'
  BY <1>1, <1>3 DEF SessionsInv, RevokedHasNoUsbJob, Carriers
<1> QED BY <1>2, <1>4, <1>5 DEF SessionsInv

(* What the console saves, gives up and forgets. *)
LEMMA ConsoleOK ==
    ASSUME Wired, SessionsInv, NEW c \in Consoles, TakeToken(c) \/ GiveUp(c) \/ Forget(c)
    PROVE  SessionsInv'
<1>1. UNCHANGED <<owner, rows, code, usbPairing, session, open, active>>
  BY DEF TakeToken, GiveUp, Forget
<1>2. CASE TakeToken(c)
  <2>1. /\ answer[c] # 0 /\ held' = [held EXCEPT ![c] = answer[c]]
        /\ answer' = [answer EXCEPT ![c] = 0] /\ gaveUp' = gaveUp
    BY <1>2 DEF TakeToken
  <2> QED BY <1>1, <2>1 DEF SessionsInv, SessionsTypeOK, Owned, Made, Current, RevokedHasNoUsbJob, Tokens
<1>3. CASE GiveUp(c)
  <2>1. answer' = [answer EXCEPT ![c] = 0] /\ gaveUp' = gaveUp \cup {c} /\ held' = held
    BY <1>3 DEF GiveUp
  <2> QED BY <1>1, <2>1 DEF SessionsInv, SessionsTypeOK, Owned, Made, Current, RevokedHasNoUsbJob, Tokens
<1>4. CASE Forget(c)
  <2>1. answer[c] = 0 /\ held' = [held EXCEPT ![c] = 0] /\ answer' = answer /\ gaveUp' = gaveUp
    BY <1>4 DEF Forget
  <2> QED BY <1>1, <2>1 DEF SessionsInv, SessionsTypeOK, Owned, Made, Current, RevokedHasNoUsbJob, Tokens
<1> QED BY <1>2, <1>3, <1>4

(* Every step keeps the invariant. *)
LEMMA SessionsStepOK == ASSUME Wired, SessionsInv, [SessionsNext]_sessionVars PROVE SessionsInv'
<1>1. CASE CreateCode \/ CodeExpires \/ PairRefused \/ RequireUsbPairing
  BY <1>1, SettingsOK
<1>2. ASSUME NEW c \in Consoles, NEW via \in Carriers, Pair(c, via) PROVE SessionsInv'
  BY <1>2, PairOK
<1>3. ASSUME NEW c \in Consoles, NEW l \in Links, HelloKnown(l, c) \/ UsbRequest(l, c) PROVE SessionsInv'
  BY <1>3, HelloKnownOK, UsbRequestOK
<1>4. ASSUME NEW c \in Consoles,
             NetworkRequest(c) \/ \E sender \in Consoles : Authenticate(c, sender) PROVE SessionsInv'
  BY <1>4, NetworkOK
<1>5. ASSUME NEW c \in Consoles, Revoke(c) PROVE SessionsInv'
  BY <1>5, RevokeOK
<1>6. ASSUME NEW c \in Consoles, TakeToken(c) \/ GiveUp(c) \/ Forget(c) PROVE SessionsInv'
  BY <1>6, ConsoleOK
<1>7. ASSUME NEW l \in Links, HelloNew(l) \/ Attach(l) \/ Detach(l) PROVE SessionsInv'
  BY <1>7, HelloNewOK, LinkOK
<1>8. CASE UNCHANGED sessionVars
  BY <1>8 DEF sessionVars, SessionsInv, SessionsTypeOK, Owned, Made, Current, RevokedHasNoUsbJob, Tokens
<1> QED BY <1>1, <1>2, <1>3, <1>4, <1>5, <1>6, <1>7, <1>8 DEF SessionsNext

(* The invariant of every run. *)
LEMMA SessionsInvariance == ASSUME Wired PROVE SessionsSpec => []SessionsInv
<1>1. SessionsInv /\ [SessionsNext]_sessionVars => SessionsInv'
  BY SessionsStepOK
<1> QED BY <1>1, SessionsInitOK, PTL DEF SessionsSpec

--------------------------------------------------------------------------------

(* No token leads a console to the row of another, whatever was paired, revoked or replaced. *)
THEOREM NobodyIsMistaken == ASSUME Wired PROVE SessionsSpec => []NobodyIsTakenForAnother
<1>1. ASSUME SessionsInv PROVE NobodyIsTakenForAnother
  <2>1. \A c, d \in Consoles : Accepts(held[d], c) => c = d
    BY <1>1, AcceptedIsOwned DEF SessionsInv, Owned, Made
  <2>2. \A l \in Links : session[l].dev \in {None, Plugged[l]}
    BY <1>1 DEF SessionsInv, Owned
  <2>3. \A l \in Links, c \in Consoles : Accepts(session[l].token, c) => c = Plugged[l]
    BY <1>1, AcceptedIsOwned DEF SessionsInv, Owned, Made
  <2> QED BY <2>1, <2>2, <2>3 DEF NobodyIsTakenForAnother
<1> QED BY <1>1, SessionsInvariance, PTL

(* A console that waits for its answers keeps the token it is known by. *)
THEOREM AnsweredConsolesStayIn == ASSUME Wired PROVE SessionsSpec => []OnlyALostAnswerShutsOut
<1>1. SessionsInv => OnlyALostAnswerShutsOut
  BY DEF SessionsInv, Current, OnlyALostAnswerShutsOut
<1> QED BY <1>1, SessionsInvariance, PTL

(* A revoke takes back every job claimed over USB, and none is claimed after it. *)
THEOREM RevokeEndsUsbJobs == ASSUME Wired PROVE SessionsSpec => []RevokedHasNoUsbJob
<1>1. SessionsInv => RevokedHasNoUsbJob
  BY DEF SessionsInv
<1> QED BY <1>1, SessionsInvariance, PTL

(* The end of a link interrupts jobs of the console that was plugged in, and of no other. *)
THEOREM LinksEndTheirOwnJobs == ASSUME Wired PROVE SessionsSpec => [][EndsOnlyItsOwn]_sessionVars
<1>1. ASSUME SessionsInv, [SessionsNext]_sessionVars PROVE [EndsOnlyItsOwn]_sessionVars
  <2> SUFFICES ASSUME NEW l \in Links, Detach(l), NEW j \in active, j[1] # Plugged[l]
               PROVE  j \in active'
    BY DEF EndsOnlyItsOwn
  <2>1. j[1] \in Consoles /\ None \notin Consoles
    BY <1>1 DEF SessionsInv, SessionsTypeOK, Wired
  <2>2. j[1] # session[l].dev
    BY <1>1, <2>1 DEF SessionsInv, Owned
  <2> QED BY <2>2 DEF Detach
<1> QED BY <1>1, SessionsInvariance, PTL DEF SessionsSpec

--------------------------------------------------------------------------------
(* Pipeline: first the ring.                                                   *)

ARing == [at : [0..(Slots - 1) -> Items], w : 0..(Slots - 1), r : 0..(Slots - 1), n : 0..Slots,
          done : BOOLEAN, err : Errors \cup {NoError}]

Sound(q) == q \in ARing /\ q.w = Wrapped(q.r + q.n)

\* The k-th item in the ring, the oldest first.
Slot(q, k) == q.at[Wrapped(q.r + k - 1)]

\* What is in the ring are the chunks after `from`, in order, and the end if it is in.
Holds(q, from) ==
    \A k \in 1..q.n : Slot(q, k) = IF q.done /\ k = q.n THEN EndItem ELSE Data(from + k)

(* A push adds the item behind the ones that are there. *)
LEMMA RingPushed ==
    ASSUME NEW q, Sound(q), ~IsFull(q), NEW item \in Items, NEW p, p = Pushed(q, item)
    PROVE  /\ Sound(p)
           /\ p.n = q.n + 1 /\ p.done = (q.done \/ item.last) /\ p.err = q.err
           /\ Slot(p, p.n) = item
           /\ \A k \in 1..q.n : Slot(p, k) = Slot(q, k)
<1> USE SlotsAssumption
<1>1. /\ q.at \in [0..(Slots - 1) -> Items] /\ q.w \in 0..(Slots - 1) /\ q.r \in 0..(Slots - 1)
      /\ q.n \in 0..Slots /\ q.done \in BOOLEAN /\ q.err \in Errors \cup {NoError} /\ q.n < Slots
      /\ q.w = Wrapped(q.r + q.n) /\ item.last \in BOOLEAN
  BY DEF Sound, ARing, IsFull, Items
<1>2. /\ p.at = [q.at EXCEPT ![q.w] = item] /\ p.w = Wrapped(q.w + 1) /\ p.r = q.r /\ p.n = q.n + 1
      /\ p.done = (q.done \/ item.last) /\ p.err = q.err
  BY DEF Sound, ARing, Pushed
<1>3. Wrapped(q.w + 1) \in 0..(Slots - 1) /\ Wrapped(q.w + 1) = Wrapped(q.r + (q.n + 1))
  <2>1. CASE q.r + q.n < Slots
    BY <1>1, <2>1 DEF Wrapped
  <2>2. CASE q.r + q.n >= Slots
    <3>1. q.w = q.r + q.n - Slots
      BY <1>1, <2>2 DEF Wrapped
    <3>2. q.w + 1 < Slots
      BY <1>1, <2>2, <3>1
    <3> QED BY <1>1, <2>2, <3>1, <3>2 DEF Wrapped
  <2> QED BY <1>1, <2>1, <2>2
<1>4. p \in ARing
  <2>1. p = [at |-> p.at, w |-> p.w, r |-> p.r, n |-> p.n, done |-> p.done, err |-> p.err]
    BY DEF Sound, ARing, Pushed
  <2>2. [q.at EXCEPT ![q.w] = item] \in [0..(Slots - 1) -> Items]
    BY <1>1
  <2> QED BY <1>1, <1>2, <1>3, <2>1, <2>2, SMTT(30) DEF ARing
<1>5. ASSUME NEW k \in 1..q.n PROVE Wrapped(q.r + k - 1) # q.w /\ Wrapped(q.r + k - 1) \in 0..(Slots - 1)
  <2>1. q.w = IF q.r + q.n < Slots THEN q.r + q.n ELSE q.r + q.n - Slots
    BY <1>1 DEF Wrapped
  <2>2. k \in Nat /\ 1 <= k /\ k <= q.n
    BY <1>1
  <2>3. CASE q.r + k - 1 < Slots
    BY <1>1, <2>1, <2>2, <2>3, SMTT(30) DEF Wrapped
  <2>4. CASE q.r + k - 1 >= Slots
    BY <1>1, <2>1, <2>2, <2>4, SMTT(30) DEF Wrapped
  <2> QED BY <1>1, <2>2, <2>3, <2>4
<1>6. Wrapped(p.r + p.n - 1) = q.w
  BY <1>1, <1>2 DEF Wrapped
<1> QED BY <1>1, <1>2, <1>3, <1>4, <1>5, <1>6 DEF Sound, Slot

(* A pop takes the oldest item. *)
LEMMA RingPopped ==
    ASSUME NEW q, Sound(q), q.n > 0, NEW p, p = Popped(q)
    PROVE  /\ Sound(p)
           /\ p.n = q.n - 1 /\ p.done = q.done /\ p.err = q.err
           /\ Front(q) = Slot(q, 1) /\ Front(q) \in Items
           /\ \A k \in 1..p.n : Slot(p, k) = Slot(q, k + 1)
<1> USE SlotsAssumption
<1>1. /\ q.at \in [0..(Slots - 1) -> Items] /\ q.w \in 0..(Slots - 1) /\ q.r \in 0..(Slots - 1)
      /\ q.n \in 0..Slots /\ q.done \in BOOLEAN /\ q.err \in Errors \cup {NoError}
      /\ q.w = Wrapped(q.r + q.n)
  BY DEF Sound, ARing
<1>2. /\ p.at = q.at /\ p.w = q.w /\ p.r = Wrapped(q.r + 1) /\ p.n = q.n - 1 /\ p.done = q.done /\ p.err = q.err
  BY DEF Sound, ARing, Popped
<1>3. Wrapped(q.r + 1) \in 0..(Slots - 1) /\ Wrapped(Wrapped(q.r + 1) + (q.n - 1)) = q.w
  BY <1>1, SMTT(30) DEF Wrapped
<1>4. p \in ARing
  <2>1. p = [at |-> p.at, w |-> p.w, r |-> p.r, n |-> p.n, done |-> p.done, err |-> p.err]
    BY DEF Sound, ARing, Popped
  <2> QED BY <1>1, <1>2, <1>3, <2>1 DEF ARing
<1>5. ASSUME NEW k \in 1..p.n PROVE Wrapped(p.r + k - 1) = Wrapped(q.r + (k + 1) - 1)
  BY <1>1, <1>2, SMTT(30) DEF Wrapped
<1>6. Wrapped(q.r + 1 - 1) = q.r
  BY <1>1 DEF Wrapped
<1> QED BY <1>1, <1>2, <1>3, <1>4, <1>5, <1>6 DEF Sound, Slot, Front

(* An abort keeps what is in the ring, and the error of an earlier abort. *)
LEMMA RingAborted ==
    ASSUME NEW q, Sound(q), NEW e \in Errors \cup {NoError}, NEW p, p = Aborted(q, e)
    PROVE  /\ Sound(p)
           /\ p.n = q.n /\ p.done = q.done /\ p.err = IF q.err = NoError THEN e ELSE q.err
           /\ \A k \in 1..q.n : Slot(p, k) = Slot(q, k)
<1>1. p.at = q.at /\ p.w = q.w /\ p.r = q.r /\ p.n = q.n /\ p.done = q.done
  BY DEF Sound, ARing, Aborted
<1>2. p.err = IF q.err = NoError THEN e ELSE q.err
  BY DEF Sound, ARing, Aborted
<1>3. p \in ARing
  BY DEF Sound, ARing, Aborted
<1> QED BY <1>1, <1>2, <1>3 DEF Sound, Slot

(* A ring goes on holding consecutive chunks when the next one, or the end, is pushed, *)
(* when the oldest is taken and when it is aborted.                                    *)
LEMMA HoldsPushed ==
    ASSUME NEW q, Sound(q), ~IsFull(q), ~q.done, NEW from \in Nat, Holds(q, from),
           NEW item, item = EndItem \/ item = Data(from + q.n + 1)
    PROVE  Holds(Pushed(q, item), from)
<1> DEFINE p == Pushed(q, item)
<1>0. q.n \in Nat
  BY SlotsAssumption DEF Sound, ARing
<1>1. item \in Items /\ (item.last <=> item = EndItem)
  <2>1. CASE item = EndItem
    BY <2>1 DEF EndItem, Items
  <2>2. CASE item = Data(from + q.n + 1)
    <3>1. from + q.n + 1 \in Nat
      BY <1>0
    <3>2. item.last = FALSE /\ EndItem.last = TRUE
      BY <2>2 DEF Data, EndItem
    <3> QED BY <2>2, <3>1, <3>2 DEF Data, Items
  <2> QED BY <2>1, <2>2
<1>2. /\ p.n = q.n + 1 /\ p.done = (q.done \/ item.last) /\ Slot(p, p.n) = item
      /\ \A k \in 1..q.n : Slot(p, k) = Slot(q, k)
  BY <1>1, RingPushed
<1> HIDE DEF p
<1> USE <1>0
<1> SUFFICES ASSUME NEW k \in 1..p.n PROVE Slot(p, k) = IF p.done /\ k = p.n THEN EndItem ELSE Data(from + k)
  BY DEF Holds, p
<1>3. CASE k = p.n
  <2>1. from + k = from + q.n + 1
    BY <1>1, <1>2, <1>3
  <2>2. (p.done <=> item = EndItem) /\ Slot(p, k) = item
    BY <1>1, <1>2, <1>3
  <2> QED BY <1>3, <2>1, <2>2
<1>4. CASE k # p.n
  <2>1. k \in 1..q.n
    BY <1>1, <1>2, <1>4
  <2> QED BY <1>2, <1>4, <2>1 DEF Holds
<1> QED BY <1>3, <1>4

LEMMA HoldsPopped ==
    ASSUME NEW q, Sound(q), q.n > 0, NEW from \in Nat, Holds(q, from)
    PROVE  Holds(Popped(q), from + 1)
<1> DEFINE p == Popped(q)
<1>1. q.n \in Nat
  BY SlotsAssumption DEF Sound, ARing
<1>2. p.n = q.n - 1 /\ p.done = q.done /\ \A k \in 1..p.n : Slot(p, k) = Slot(q, k + 1)
  BY RingPopped
<1> HIDE DEF p
<1> SUFFICES ASSUME NEW k \in 1..p.n
             PROVE  Slot(p, k) = IF p.done /\ k = p.n THEN EndItem ELSE Data(from + 1 + k)
  BY DEF Holds, p
<1>3. k + 1 \in 1..q.n /\ (k + 1 = q.n <=> k = p.n) /\ from + 1 + k = from + (k + 1)
  BY <1>1, <1>2
<1> QED BY <1>2, <1>3 DEF Holds

LEMMA HoldsAborted ==
    ASSUME NEW q, Sound(q), NEW e \in Errors \cup {NoError}, NEW from, Holds(q, from)
    PROVE  Holds(Aborted(q, e), from)
<1> DEFINE p == Aborted(q, e)
<1>1. p.n = q.n /\ p.done = q.done /\ \A k \in 1..q.n : Slot(p, k) = Slot(q, k)
  BY RingAborted
<1> HIDE DEF p
<1> QED BY <1>1 DEF Holds, p

(* The threads while they still have something to put into a ring, or to take out. *)
Downloading == pc["reader"] \in {"spawn", "fetch", "push", "end"}
Decoding == pc["decoder"] \in {"pop", "emit", "short", "finish"}
Filling == pc["writer"] \in {"none", "pop"}

Places == {"spawn", "fetch", "push", "end", "pop", "emit", "short", "finish", "none", "capture", "abort", "done"}

PipelineShapes ==
    /\ Sound(compressed) /\ Sound(plain)
    /\ pc \in [Threads -> Places]
    /\ stream \in [done : 0..Chunks, got : 0..Chunks, failures : 0..MaxAttempts]

(* What was downloaded and not yet decoded is in the first ring. *)
ReaderInv ==
    /\ stream.got <= stream.done
    /\ pc["reader"] = "spawn" => pc["writer"] = "none"
    /\ pc["reader"] = "push" => stream.done < Chunks
    /\ pc["reader"] \in {"spawn", "fetch", "push"} => stream.failures < MaxAttempts
    /\ Downloading => ~compressed.done /\ stream.done = decoded + compressed.n

DecoderInv ==
    /\ Holds(compressed, decoded)
    /\ compressed.n > 0 => decoded + compressed.n <= IF compressed.done THEN Chunks + 1 ELSE Chunks
    /\ pc["decoder"] = "emit" => decoded > 0
    /\ Decoding => ~plain.done

(* What was decoded and not yet written is in the second ring, or in the decoder's hands. *)
WriterInv == Filling =>
    /\ Holds(plain, Len(written))
    /\ Decoding => decoded = Len(written) + plain.n + (IF pc["decoder"] = "emit" THEN 1 ELSE 0)

(* The rings are aborted with the error that was kept, the second by whoever aborted the first. *)
ErrorInv ==
    /\ compressed.err = fail
    /\ plain.err \in {NoError, fail}
    /\ fail # NoError /\ plain.err = NoError => \E t \in Threads : pc[t] = "abort"
    /\ \A t \in Threads : pc[t] = "abort" =>
           /\ plain.err = NoError => thrown[t] = fail
           /\ \A u \in Threads : pc[u] = "abort" => u = t

PipelineInv ==
    /\ TypeOK /\ PipelineShapes
    /\ ReaderInv /\ DecoderInv /\ WriterInv
    /\ WrittenInOrder
    /\ ErrorInv

\* The constants, and what the shapes say of each ring.
LEMMA PipelineSizes ==
    ASSUME PipelineInv
    PROVE  /\ Slots \in Nat \ {0} /\ Chunks \in Nat /\ MaxAttempts \in Nat \ {0}
           /\ Sound(compressed) /\ compressed.n \in 0..Slots /\ compressed.done \in BOOLEAN
           /\ Sound(plain) /\ plain.n \in 0..Slots /\ plain.done \in BOOLEAN
           /\ stream.done \in 0..Chunks /\ stream.got \in 0..Chunks /\ stream.failures \in 0..MaxAttempts
           /\ decoded \in 0..Chunks
           /\ written \in Seq(Nat) /\ Len(written) \in Nat
  BY SlotsAssumption, PipelineAssumption, SMTT(30) DEF PipelineInv, PipelineShapes, TypeOK, Sound, ARing

\* A sound ring is a ring of the model's type.
LEMMA SoundIsOK == ASSUME NEW q, Sound(q) PROVE RingOK(q)
  BY DEF Sound, ARing, RingOK

\* An empty ring holds anything.
LEMMA EmptyIsSound == Sound(EmptyRing) /\ EmptyRing.n = 0 /\ ~EmptyRing.done /\ EmptyRing.err = NoError
<1> USE SlotsAssumption
<1>1. Data(0) \in Items /\ 0 \in 0..(Slots - 1) /\ 0 \in 0..Slots
  BY DEF Data, Items
<1>2. [i \in 0..(Slots - 1) |-> Data(0)] \in [0..(Slots - 1) -> Items]
  BY <1>1
<1>3. EmptyRing \in ARing
  BY <1>1, <1>2 DEF EmptyRing, ARing
<1> QED BY <1>3 DEF EmptyRing, Sound, Wrapped

(* What the moves of the threads do to `pc`. *)
LEMMA GoOK ==
    ASSUME pc \in [Threads -> Places], NEW t \in Threads, NEW p \in Places, Go(t, p)
    PROVE  /\ pc' \in [Threads -> Places] /\ pc'[t] = p
           /\ \A u \in Threads : u # t => pc'[u] = pc[u]
  BY DEF Go

LEMMA ThrowOK ==
    ASSUME TypeOK, pc \in [Threads -> Places], NEW t \in Threads, NEW e \in Errors, Throw(t, e)
    PROVE  /\ pc' \in [Threads -> Places] /\ pc'[t] = "capture"
           /\ \A u \in Threads : u # t => pc'[u] = pc[u]
           /\ thrown' \in [Threads -> Errors \cup {NoError}]
           /\ \A u \in Threads : u # t => thrown'[u] = thrown[u]
  BY DEF Throw, TypeOK, Places

LEMMA RingThrowsOK ==
    ASSUME NEW q, Sound(q), NEW t, RingThrows(t, q)
    PROVE  \E e \in Errors : Throw(t, e)
<1>1. q.err \in Errors \cup {NoError} /\ "cancelled" \in Errors
  BY DEF Sound, ARing, Errors
<1>2. CASE cancel
  BY <1>1, <1>2 DEF RingThrows
<1>3. CASE ~cancel
  BY <1>1, <1>3 DEF RingThrows
<1> QED BY <1>2, <1>3

(* ErrorInv only looks at the rings' errors, `fail`, `thrown` and who is between the two aborts. *)
LEMMA ErrorKept ==
    ASSUME ErrorInv, compressed'.err = compressed.err, plain'.err = plain.err, fail' = fail,
           \A t \in Threads : pc'[t] = "abort" <=> pc[t] = "abort",
           \A t \in Threads : pc[t] = "abort" => thrown'[t] = thrown[t]
    PROVE  ErrorInv'
<1>1. compressed'.err = fail' /\ plain'.err \in {NoError, fail'}
  BY DEF ErrorInv
<1>2. fail' # NoError /\ plain'.err = NoError => \E t \in Threads : pc'[t] = "abort"
  BY DEF ErrorInv
<1>3. ASSUME NEW t \in Threads, pc'[t] = "abort"
      PROVE  /\ plain'.err = NoError => thrown'[t] = fail'
             /\ \A u \in Threads : pc'[u] = "abort" => u = t
  BY <1>3 DEF ErrorInv
<1> QED BY <1>1, <1>2, <1>3 DEF ErrorInv

(* The type invariant follows from the shapes and what the threads may be doing. *)
LEMMA PipelineTyped ==
    ASSUME PipelineShapes',
           mode' \in {"plain", "block", "solid"} /\ used' \in Nat,
           pc'["reader"] \in {"spawn", "fetch", "push", "end", "capture", "abort", "done"},
           pc'["decoder"] \in {"pop", "emit", "short", "finish", "capture", "abort", "done"},
           pc'["writer"] \in {"none", "pop", "capture", "abort", "done"},
           decoded' \in 0..Chunks, thrown' \in [Threads -> Errors \cup {NoError}],
           result' \in {"none", "failed", "accepted", "mismatch"}, fail' \in Errors \cup {NoError},
           written' \in Seq(Nat), cancel' \in BOOLEAN, troubles' \in Nat
    PROVE  TypeOK'
<1>1. RingOK(compressed') /\ RingOK(plain')
  BY SoundIsOK DEF PipelineShapes
<1>2. stream'.done \in 0..Chunks /\ stream'.got \in 0..Chunks /\ stream'.failures \in 0..MaxAttempts
  BY DEF PipelineShapes
<1> QED BY <1>1, <1>2 DEF TypeOK, RingOK

(* Any thread that throws leaves the invariant as it is: it puts in and takes out nothing more. *)
LEMMA ThrownOK ==
    ASSUME PipelineInv, NEW t \in Threads, NEW e \in Errors, Throw(t, e), pc[t] \notin {"abort", "none"},
           UNCHANGED <<mode, used, compressed, plain, decoded, fail, written, cancel, result>>,
           troubles' \in Nat,
           stream' \in [done : 0..Chunks, got : 0..Chunks, failures : 0..MaxAttempts],
           stream'.got <= stream'.done, t # "reader" => stream' = stream
    PROVE  PipelineInv'
<1>1. /\ pc' \in [Threads -> Places] /\ pc'[t] = "capture"
      /\ \A u \in Threads : u # t => pc'[u] = pc[u]
      /\ thrown' \in [Threads -> Errors \cup {NoError}]
      /\ \A u \in Threads : u # t => thrown'[u] = thrown[u]
  BY ThrowOK DEF PipelineInv, PipelineShapes
<1>2. "reader" \in Threads /\ "decoder" \in Threads /\ "writer" \in Threads
  BY DEF Threads
<1>3. PipelineShapes'
  BY <1>1 DEF PipelineInv, PipelineShapes, Sound
<1>4. /\ pc'["reader"] = "capture" \/ (pc'["reader"] = pc["reader"] /\ t # "reader")
      /\ pc'["decoder"] = "capture" \/ pc'["decoder"] = pc["decoder"]
      /\ pc'["writer"] = "capture" \/ pc'["writer"] = pc["writer"]
  BY <1>1, <1>2
<1>5. TypeOK'
  <2>1. /\ pc'["reader"] \in {"spawn", "fetch", "push", "end", "capture", "abort", "done"}
        /\ pc'["decoder"] \in {"pop", "emit", "short", "finish", "capture", "abort", "done"}
        /\ pc'["writer"] \in {"none", "pop", "capture", "abort", "done"}
    BY <1>4 DEF PipelineInv, TypeOK
  <2> QED BY <1>1, <1>3, <2>1, PipelineTyped DEF PipelineInv, TypeOK
<1>6. ReaderInv'
  <2>1. CASE pc'["reader"] = "capture"
    BY <2>1 DEF ReaderInv, Downloading
  <2>2. CASE pc'["reader"] = pc["reader"] /\ t # "reader"
    <3>1. pc'["reader"] = "spawn" => pc'["writer"] = "none"
      BY <1>1, <1>2, <2>2 DEF PipelineInv, ReaderInv
    <3> QED BY <2>2, <3>1 DEF PipelineInv, ReaderInv, Downloading
  <2> QED BY <1>4, <2>1, <2>2
<1>7. DecoderInv'
  BY <1>4 DEF PipelineInv, DecoderInv, Decoding, Holds, Slot
<1>8. WriterInv'
  BY <1>4 DEF PipelineInv, WriterInv, Decoding, Filling, Holds, Slot
<1>9. WrittenInOrder'
  BY DEF PipelineInv, WrittenInOrder
<1>10. ErrorInv'
  <2>1. \A u \in Threads : (pc'[u] = "abort" <=> pc[u] = "abort") /\ (pc[u] = "abort" => thrown'[u] = thrown[u])
    BY <1>1
  <2> QED BY <2>1, ErrorKept DEF PipelineInv
<1> QED BY <1>3, <1>5, <1>6, <1>7, <1>8, <1>9, <1>10 DEF PipelineInv

(* The reader moves on without touching the rings. *)
LEMMA ReaderMovesOK ==
    ASSUME PipelineInv, Downloading, pc' \in [Threads -> Places],
           pc'["reader"] \in {"fetch", "push", "end"},
           \A u \in Threads : u # "reader" => pc'[u] = pc[u],
           UNCHANGED <<mode, used, compressed, plain, decoded, thrown, fail, written, result>>,
           cancel' \in BOOLEAN, troubles' \in Nat,
           stream' \in [done : 0..Chunks, got : 0..Chunks, failures : 0..MaxAttempts],
           stream'.got <= stream'.done, stream'.done = stream.done,
           pc'["reader"] = "push" => stream.done < Chunks,
           pc'["reader"] \in {"fetch", "push"} => stream'.failures < MaxAttempts
    PROVE  PipelineInv'
<1>2. pc'["decoder"] = pc["decoder"] /\ pc'["writer"] = pc["writer"]
  BY DEF Threads
<1>3. PipelineShapes'
  BY DEF PipelineInv, PipelineShapes, Sound
<1>5. TypeOK'
  <2>1. /\ pc'["reader"] \in {"spawn", "fetch", "push", "end", "capture", "abort", "done"}
        /\ pc'["decoder"] \in {"pop", "emit", "short", "finish", "capture", "abort", "done"}
        /\ pc'["writer"] \in {"none", "pop", "capture", "abort", "done"}
    BY <1>2 DEF PipelineInv, TypeOK
  <2> QED BY <1>3, <2>1, PipelineTyped DEF PipelineInv, TypeOK
<1>6. ReaderInv'
  BY DEF PipelineInv, ReaderInv, Downloading
<1>7. DecoderInv'
  BY <1>2 DEF PipelineInv, DecoderInv, Decoding, Holds, Slot
<1>8. WriterInv'
  BY <1>2 DEF PipelineInv, WriterInv, Decoding, Filling, Holds, Slot
<1>9. WrittenInOrder'
  BY DEF PipelineInv, WrittenInOrder
<1>10. ErrorInv'
  <2>1. \A u \in Threads : (pc'[u] = "abort" <=> pc[u] = "abort") /\ (pc[u] = "abort" => thrown'[u] = thrown[u])
    BY DEF Downloading
  <2> QED BY <2>1, ErrorKept DEF PipelineInv
<1> QED BY <1>3, <1>5, <1>6, <1>7, <1>8, <1>9, <1>10 DEF PipelineInv

\* The invariant holds at the start.
LEMMA PipelineInitOK == ASSUME Init PROVE PipelineInv
<1> USE SlotsAssumption, PipelineAssumption
<1>1. Sound(compressed) /\ compressed.n = 0 /\ ~compressed.done /\ compressed.err = NoError
  BY EmptyIsSound DEF Init
<1>2. Sound(plain) /\ plain.n = 0 /\ ~plain.done /\ plain.err = NoError
  BY EmptyIsSound DEF Init
<1>3. /\ pc \in [Threads -> Places]
      /\ pc["reader"] = "spawn" /\ pc["decoder"] = "pop" /\ pc["writer"] = "none"
      /\ \A t \in Threads : pc[t] # "abort"
  BY DEF Init, Threads, Places
<1>4. /\ stream \in [done : 0..Chunks, got : 0..Chunks, failures : 0..MaxAttempts]
      /\ stream.done = 0 /\ stream.got = 0 /\ stream.failures = 0
  BY DEF Init
<1>5. written = <<>> /\ Len(written) = 0 /\ written \in Seq(Nat)
  BY DEF Init
<1>6. PipelineShapes
  BY <1>1, <1>2, <1>3, <1>4 DEF PipelineShapes
<1>7. TypeOK
  <2>1. decoded \in 0..Chunks /\ used \in Nat /\ thrown \in [Threads -> Errors \cup {NoError}]
    BY DEF Init
  <2>2. RingOK(compressed) /\ RingOK(plain)
    BY <1>1, <1>2, SoundIsOK
  <2> QED BY <1>3, <1>4, <1>5, <2>1, <2>2 DEF Init, TypeOK
<1>8. Holds(compressed, decoded) /\ Holds(plain, Len(written))
  BY <1>1, <1>2 DEF Holds
<1>9. ReaderInv
  BY <1>1, <1>3, <1>4 DEF Init, ReaderInv, Downloading
<1>10. DecoderInv
  BY <1>1, <1>2, <1>3, <1>8 DEF DecoderInv, Decoding
<1>11. WriterInv
  BY <1>2, <1>3, <1>5, <1>8 DEF Init, WriterInv, Filling, Decoding
<1>12. WrittenInOrder
  BY <1>5 DEF WrittenInOrder
<1>13. ErrorInv
  BY <1>1, <1>2, <1>3 DEF Init, ErrorInv
<1> QED BY <1>6, <1>7, <1>9, <1>10, <1>11, <1>12, <1>13 DEF PipelineInv

\* The steps of the reader, of the network and of the user that touch no ring.
LEMMA ReceiveChunkOK == ASSUME PipelineInv, ReceiveChunk PROVE PipelineInv'
<1> USE DEF ReceiveChunk
<1>1. "reader" \in Threads /\ "cancelled" \in Errors /\ "push" \in Places
  BY DEF Threads, Errors, Places
<1>2. /\ pc \in [Threads -> Places] /\ pc["reader"] = "fetch"
      /\ stream \in [done : 0..Chunks, got : 0..Chunks, failures : 0..MaxAttempts]
      /\ stream.got <= stream.done /\ stream.failures < MaxAttempts
  BY DEF PipelineInv, PipelineShapes, ReaderInv
<1>3. CASE cancel
  BY <1>1, <1>2, <1>3, ThrownOK DEF PipelineInv, TypeOK
<1>4. CASE ~cancel
  <2>1. /\ pc' \in [Threads -> Places] /\ pc'["reader"] = "push"
        /\ \A u \in Threads : u # "reader" => pc'[u] = pc[u]
    BY <1>1, <1>2, <1>4, GoOK
  <2> QED BY <1>2, <1>4, <2>1, ReaderMovesOK DEF Downloading, PipelineInv, TypeOK
<1> QED BY <1>3, <1>4

LEMMA StreamEndsOK == ASSUME PipelineInv, StreamEnds PROVE PipelineInv'
<1> USE DEF StreamEnds
<1>1. "reader" \in Threads /\ "end" \in Places
  BY DEF Threads, Places
<1>2. /\ pc \in [Threads -> Places] /\ pc["reader"] = "fetch"
      /\ stream \in [done : 0..Chunks, got : 0..Chunks, failures : 0..MaxAttempts]
      /\ stream.got <= stream.done
  BY DEF PipelineInv, PipelineShapes, ReaderInv
<1>3. /\ pc' \in [Threads -> Places] /\ pc'["reader"] = "end"
      /\ \A u \in Threads : u # "reader" => pc'[u] = pc[u]
  BY <1>1, <1>2, GoOK
<1> QED BY <1>2, <1>3, ReaderMovesOK DEF Downloading, PipelineInv, TypeOK

LEMMA DropOK == ASSUME PipelineInv, Drop PROVE PipelineInv'
<1> USE DEF Drop
<1>1. "reader" \in Threads /\ "network" \in Errors
  BY DEF Threads, Errors
<1>2. /\ pc \in [Threads -> Places] /\ pc["reader"] = "fetch"
      /\ stream \in [done : 0..Chunks, got : 0..Chunks, failures : 0..MaxAttempts]
      /\ stream.got <= stream.done /\ stream.failures < MaxAttempts
  BY DEF PipelineInv, PipelineShapes, ReaderInv
<1>3. Chunks \in Nat /\ MaxAttempts \in Nat \ {0} /\ troubles' \in Nat
  BY PipelineAssumption DEF PipelineInv, TypeOK, Spend
<1>4. /\ stream' \in [done : 0..Chunks, got : 0..Chunks, failures : 0..MaxAttempts]
      /\ stream'.done = stream.done /\ stream'.got = 0 /\ stream'.failures = AfterDrop.failures
  <2>1. (IF stream.got > 0 THEN 1 ELSE stream.failures + 1) \in 0..MaxAttempts
    BY <1>2, <1>3
  <2>2. stream' = [done |-> stream.done, got |-> 0, failures |-> IF stream.got > 0 THEN 1 ELSE stream.failures + 1]
    BY <1>2 DEF AfterDrop
  <2>3. 0 \in 0..Chunks /\ stream.done \in 0..Chunks
    BY <1>2, <1>3
  <2> QED BY <2>1, <2>2, <2>3
<1>5. stream'.got <= stream'.done
  BY <1>2, <1>3, <1>4
<1>6. CASE AfterDrop.failures >= MaxAttempts
  BY <1>1, <1>2, <1>3, <1>4, <1>5, <1>6, ThrownOK
<1>7. CASE ~(AfterDrop.failures >= MaxAttempts)
  <2>1. stream'.failures < MaxAttempts
    BY <1>3, <1>4, <1>7
  <2>2. pc' = pc /\ thrown' = thrown
    BY <1>7
  <2> QED BY <1>2, <1>3, <1>4, <1>5, <2>1, <2>2, ReaderMovesOK DEF Downloading, PipelineInv, TypeOK
<1> QED BY <1>6, <1>7

LEMMA CloseEarlyOK == ASSUME PipelineInv, CloseEarly PROVE PipelineInv'
<1> USE DEF CloseEarly
<1>1. "reader" \in Threads /\ "end" \in Places
  BY DEF Threads, Places
<1>2. /\ pc \in [Threads -> Places] /\ pc["reader"] = "fetch"
      /\ stream \in [done : 0..Chunks, got : 0..Chunks, failures : 0..MaxAttempts]
      /\ stream.got <= stream.done /\ stream.failures < MaxAttempts
  BY DEF PipelineInv, PipelineShapes, ReaderInv
<1>3. Chunks \in Nat /\ MaxAttempts \in Nat \ {0} /\ troubles' \in Nat
  BY PipelineAssumption DEF PipelineInv, TypeOK, Spend
<1>4. CASE stream.got > 0
  <2>1. /\ stream' \in [done : 0..Chunks, got : 0..Chunks, failures : 0..MaxAttempts]
        /\ stream'.done = stream.done /\ stream'.got = 0 /\ stream'.failures = 0
    <3>1. stream' = [done |-> stream.done, got |-> 0, failures |-> 0]
      BY <1>2, <1>4
    <3>2. 0 \in 0..Chunks /\ 0 \in 0..MaxAttempts /\ stream.done \in 0..Chunks
      BY <1>2, <1>3
    <3> QED BY <3>1, <3>2
  <2>2. stream'.got <= stream'.done /\ stream'.failures < MaxAttempts
    BY <1>2, <1>3, <2>1
  <2>3. pc' = pc
    BY <1>4
  <2> QED BY <1>2, <1>3, <2>1, <2>2, <2>3, ReaderMovesOK DEF Downloading, PipelineInv, TypeOK
<1>5. CASE ~(stream.got > 0)
  <2>1. /\ pc' \in [Threads -> Places] /\ pc'["reader"] = "end"
        /\ \A u \in Threads : u # "reader" => pc'[u] = pc[u]
    BY <1>1, <1>2, <1>5, GoOK
  <2> QED BY <1>2, <1>3, <1>5, <2>1, ReaderMovesOK DEF Downloading, PipelineInv, TypeOK
<1> QED BY <1>4, <1>5

LEMMA RefuseOK == ASSUME PipelineInv, Refuse PROVE PipelineInv'
<1> USE DEF Refuse
<1>1. "reader" \in Threads /\ "refused" \in Errors
  BY DEF Threads, Errors
<1>2. /\ stream \in [done : 0..Chunks, got : 0..Chunks, failures : 0..MaxAttempts]
      /\ stream.got <= stream.done /\ troubles' \in Nat
  BY DEF PipelineInv, PipelineShapes, ReaderInv, TypeOK, Spend
<1> QED BY <1>1, <1>2, ThrownOK

LEMMA PipelineCancelOK == ASSUME PipelineInv, Cancel PROVE PipelineInv'
<1>1. /\ pc \in [Threads -> Places] /\ pc["reader"] = "fetch"
      /\ stream \in [done : 0..Chunks, got : 0..Chunks, failures : 0..MaxAttempts]
      /\ stream.got <= stream.done /\ stream.failures < MaxAttempts
  BY DEF Cancel, PipelineInv, PipelineShapes, ReaderInv
<1> QED BY <1>1, ReaderMovesOK DEF Cancel, Downloading, PipelineInv, TypeOK

\* The writer's thread is started, or cannot be.
LEMMA SpawnWriterOK == ASSUME PipelineInv, SpawnWriter PROVE PipelineInv'
<1> USE DEF SpawnWriter
<1>1. /\ pc' \in [Threads -> Places] /\ pc["reader"] = "spawn" /\ pc["writer"] = "none"
      /\ pc'["reader"] = "fetch" /\ pc'["writer"] = "pop" /\ pc'["decoder"] = pc["decoder"]
      /\ \A t \in Threads : pc'[t] = "abort" <=> pc[t] = "abort"
  BY DEF PipelineInv, PipelineShapes, ReaderInv, Threads, Places
<1>2. PipelineShapes'
  BY <1>1 DEF PipelineInv, PipelineShapes, Sound
<1>3. TypeOK'
  BY <1>1, <1>2, PipelineTyped DEF PipelineInv, TypeOK
<1>4. ReaderInv'
  BY <1>1 DEF PipelineInv, ReaderInv, Downloading
<1>5. DecoderInv'
  BY <1>1 DEF PipelineInv, DecoderInv, Decoding, Holds, Slot
<1>6. WriterInv'
  BY <1>1 DEF PipelineInv, WriterInv, Decoding, Filling, Holds, Slot
<1>7. WrittenInOrder' /\ ErrorInv'
  BY <1>1, ErrorKept DEF PipelineInv, WrittenInOrder
<1> QED BY <1>2, <1>3, <1>4, <1>5, <1>6, <1>7 DEF PipelineInv

LEMMA SpawnFailsOK == ASSUME PipelineInv, SpawnFails PROVE PipelineInv'
<1> USE DEF SpawnFails
<1>1. /\ pc' \in [Threads -> Places] /\ pc["reader"] = "spawn" /\ pc["writer"] = "none"
      /\ pc'["reader"] = "capture" /\ pc'["writer"] = "done" /\ pc'["decoder"] = pc["decoder"]
      /\ \A t \in Threads : pc'[t] = "abort" <=> pc[t] = "abort"
  BY DEF PipelineInv, PipelineShapes, ReaderInv, Threads, Places
<1>2. /\ thrown' \in [Threads -> Errors \cup {NoError}]
      /\ \A t \in Threads : pc[t] = "abort" => thrown'[t] = thrown[t]
      /\ troubles' \in Nat
  BY <1>1 DEF PipelineInv, TypeOK, Threads, Errors, Spend
<1>3. PipelineShapes'
  BY <1>1 DEF PipelineInv, PipelineShapes, Sound
<1>4. TypeOK'
  BY <1>1, <1>2, <1>3, PipelineTyped DEF PipelineInv, TypeOK
<1>5. ReaderInv'
  BY <1>1 DEF PipelineInv, ReaderInv, Downloading
<1>6. DecoderInv'
  BY <1>1 DEF PipelineInv, DecoderInv, Decoding, Holds, Slot
<1>7. WriterInv'
  BY <1>1 DEF WriterInv, Filling
<1>8. WrittenInOrder' /\ ErrorInv'
  BY <1>1, <1>2, ErrorKept DEF PipelineInv, WrittenInOrder
<1> QED BY <1>3, <1>4, <1>5, <1>6, <1>7, <1>8 DEF PipelineInv

\* The reader puts a chunk, or the end, into the first ring.
LEMMA PushChunkOK == ASSUME PipelineInv, PushChunk PROVE PipelineInv'
<1> USE DEF PushChunk
<1>1. /\ pc' \in [Threads -> Places] /\ pc["reader"] = "push" /\ pc'["reader"] = "fetch"
      /\ pc'["decoder"] = pc["decoder"] /\ pc'["writer"] = pc["writer"]
      /\ \A t \in Threads : pc'[t] = "abort" <=> pc[t] = "abort"
  BY GoOK DEF PipelineInv, PipelineShapes, Threads, Places
<1>2. /\ ~compressed.done /\ stream.done = decoded + compressed.n /\ stream.done < Chunks
      /\ stream.got <= stream.done /\ stream.failures < MaxAttempts
      /\ Holds(compressed, decoded)
  BY <1>1 DEF PipelineInv, ReaderInv, DecoderInv, Downloading
<1>3. /\ Chunks \in Nat /\ Sound(compressed) /\ compressed.n \in Nat /\ decoded \in Nat /\ ~IsFull(compressed)
      /\ stream.done \in 0..Chunks /\ stream.got \in 0..Chunks /\ stream.failures \in 0..MaxAttempts
  BY PipelineSizes DEF CanPush
<1>4. stream.done + 1 = decoded + compressed.n + 1 /\ stream.done + 1 \in Nat
  BY <1>2, <1>3
<1>5. Data(stream.done + 1) \in Items /\ Data(stream.done + 1).last = FALSE
  BY <1>4 DEF Data, Items
<1>6. /\ Sound(compressed') /\ compressed'.n = compressed.n + 1 /\ ~compressed'.done
      /\ compressed'.err = compressed.err
  <2>1. /\ Sound(compressed') /\ compressed'.n = compressed.n + 1
        /\ compressed'.done = (compressed.done \/ FALSE) /\ compressed'.err = compressed.err
    BY <1>3, <1>5, RingPushed
  <2> QED BY <1>2, <2>1
<1>7. Holds(compressed', decoded)
  BY <1>2, <1>3, <1>4, HoldsPushed
<1>8. /\ stream' \in [done : 0..Chunks, got : 0..Chunks, failures : 0..MaxAttempts]
      /\ stream'.done = stream.done + 1 /\ stream'.got = stream.got + 1 /\ stream'.failures = stream.failures
  <2>1. stream \in [done : 0..Chunks, got : 0..Chunks, failures : 0..MaxAttempts]
    BY DEF PipelineInv, PipelineShapes
  <2>2. stream' = [done |-> stream.done + 1, got |-> stream.got + 1, failures |-> stream.failures]
    BY <2>1
  <2>3. stream.done + 1 \in 0..Chunks /\ stream.got + 1 \in 0..Chunks
    BY <1>2, <1>3
  <2> QED BY <1>3, <2>2, <2>3
<1>9. PipelineShapes'
  BY <1>1, <1>6, <1>8 DEF PipelineInv, PipelineShapes, Sound
<1>10. TypeOK'
  <2>1. UNCHANGED <<mode, used, decoded, thrown, result, fail, written, cancel, troubles>>
    OBVIOUS
  <2>2. TypeOK
    BY DEF PipelineInv
  <2> HIDE DEF PushChunk
  <2> QED BY <1>1, <1>9, <2>1, <2>2, PipelineTyped DEF TypeOK
<1>11. ReaderInv'
  <2>1. stream'.got <= stream'.done /\ stream'.done = decoded + compressed'.n
    BY <1>2, <1>3, <1>6, <1>8
  <2> QED BY <1>1, <1>2, <1>6, <1>8, <2>1 DEF ReaderInv, Downloading
<1>12. DecoderInv'
  <2>1. decoded + compressed'.n <= Chunks
    BY <1>2, <1>3, <1>6
  <2> QED BY <1>1, <1>6, <1>7, <2>1 DEF PipelineInv, DecoderInv, Decoding
<1>13. WriterInv'
  BY <1>1 DEF PipelineInv, WriterInv, Decoding, Filling, Holds, Slot
<1>14. WrittenInOrder' /\ ErrorInv'
  BY <1>1, <1>6, ErrorKept DEF PipelineInv, WrittenInOrder
<1> QED BY <1>9, <1>10, <1>11, <1>12, <1>13, <1>14 DEF PipelineInv

LEMMA PushEndOK == ASSUME PipelineInv, PushEnd PROVE PipelineInv'
<1> USE DEF PushEnd
<1>1. /\ pc' \in [Threads -> Places] /\ pc["reader"] = "end" /\ pc'["reader"] = "done"
      /\ pc'["decoder"] = pc["decoder"] /\ pc'["writer"] = pc["writer"]
      /\ \A t \in Threads : pc'[t] = "abort" <=> pc[t] = "abort"
  BY GoOK DEF PipelineInv, PipelineShapes, Threads, Places
<1>2. /\ ~compressed.done /\ stream.done = decoded + compressed.n
      /\ stream.got <= stream.done /\ Holds(compressed, decoded)
  BY <1>1 DEF PipelineInv, ReaderInv, DecoderInv, Downloading
<1>3. /\ Chunks \in Nat /\ Sound(compressed) /\ compressed.n \in Nat /\ decoded \in Nat /\ ~IsFull(compressed)
      /\ stream.done \in 0..Chunks
  BY PipelineSizes DEF CanPush
<1>4. EndItem \in Items /\ EndItem.last = TRUE
  BY DEF EndItem, Items
<1>5. /\ Sound(compressed') /\ compressed'.n = compressed.n + 1 /\ compressed'.done
      /\ compressed'.err = compressed.err
  BY <1>2, <1>3, <1>4, RingPushed
<1>6. Holds(compressed', decoded)
  BY <1>2, <1>3, HoldsPushed
<1>7. PipelineShapes'
  BY <1>1, <1>5 DEF PipelineInv, PipelineShapes, Sound
<1>8. TypeOK'
  <2>1. UNCHANGED <<mode, used, decoded, thrown, result, fail, written, cancel, troubles>>
    OBVIOUS
  <2>2. TypeOK
    BY DEF PipelineInv
  <2> HIDE DEF PushEnd
  <2> QED BY <1>1, <1>7, <2>1, <2>2, PipelineTyped DEF TypeOK
<1>9. ReaderInv'
  BY <1>1, <1>2 DEF ReaderInv, Downloading
<1>10. DecoderInv'
  <2>1. decoded + compressed'.n <= Chunks + 1
    BY <1>2, <1>3, <1>5
  <2> QED BY <1>1, <1>5, <1>6, <2>1 DEF PipelineInv, DecoderInv, Decoding
<1>11. WriterInv'
  BY <1>1 DEF PipelineInv, WriterInv, Decoding, Filling, Holds, Slot
<1>12. WrittenInOrder' /\ ErrorInv'
  BY <1>1, <1>5, ErrorKept DEF PipelineInv, WrittenInOrder
<1> QED BY <1>7, <1>8, <1>9, <1>10, <1>11, <1>12 DEF PipelineInv

\* The first error is kept and the rings are aborted with it, one after the other.
LEMMA CaptureOK == ASSUME PipelineInv, NEW t \in Threads, Capture(t) PROVE PipelineInv'
<1> USE DEF Capture
<1>1. /\ pc' \in [Threads -> Places] /\ pc[t] = "capture" /\ pc'[t] = "abort"
      /\ \A u \in Threads : u # t => pc'[u] = pc[u]
      /\ \A u \in Threads : pc[u] # "abort"
  BY GoOK DEF PipelineInv, PipelineShapes, Places
<1>2. thrown[t] \in Errors \cup {NoError} /\ fail \in Errors \cup {NoError} /\ Sound(compressed)
  BY DEF PipelineInv, PipelineShapes, TypeOK
<1>3. /\ Sound(compressed') /\ compressed'.n = compressed.n /\ compressed'.done = compressed.done
      /\ compressed'.err = IF compressed.err = NoError THEN thrown[t] ELSE compressed.err
  BY <1>2, RingAborted
<1>4. Holds(compressed', decoded)
  BY <1>2, HoldsAborted DEF PipelineInv, DecoderInv
<1>5. \A u \in Threads : pc'[u] = pc[u] \/ (pc[u] = "capture" /\ pc'[u] = "abort")
  BY <1>1
<1>6. /\ pc'["reader"] = pc["reader"] \/ (pc["reader"] = "capture" /\ pc'["reader"] = "abort")
      /\ pc'["decoder"] = pc["decoder"] \/ (pc["decoder"] = "capture" /\ pc'["decoder"] = "abort")
      /\ pc'["writer"] = pc["writer"] \/ (pc["writer"] = "capture" /\ pc'["writer"] = "abort")
  BY <1>5 DEF Threads
<1>7. PipelineShapes'
  BY <1>1, <1>3 DEF PipelineInv, PipelineShapes, Sound
<1>8. TypeOK'
  <2>1. /\ UNCHANGED <<mode, used, decoded, thrown, result, written, cancel, troubles>>
        /\ fail' \in Errors \cup {NoError}
    BY <1>2
  <2>2. TypeOK
    BY DEF PipelineInv
  <2> HIDE DEF Capture
  <2>3. /\ pc'["reader"] \in {"spawn", "fetch", "push", "end", "capture", "abort", "done"}
        /\ pc'["decoder"] \in {"pop", "emit", "short", "finish", "capture", "abort", "done"}
        /\ pc'["writer"] \in {"none", "pop", "capture", "abort", "done"}
    BY <1>6, <2>2 DEF TypeOK
  <2> QED BY <1>7, <2>1, <2>2, <2>3, PipelineTyped DEF TypeOK
<1>9. ReaderInv'
  BY <1>3, <1>6 DEF PipelineInv, ReaderInv, Downloading
<1>10. DecoderInv'
  BY <1>3, <1>4, <1>6 DEF PipelineInv, DecoderInv, Decoding
<1>11. WriterInv'
  BY <1>6 DEF PipelineInv, WriterInv, Decoding, Filling, Holds, Slot
<1>12. WrittenInOrder'
  BY DEF PipelineInv, WrittenInOrder
<1>13. ErrorInv'
  <2>1. /\ compressed.err = fail /\ plain.err \in {NoError, fail} /\ (fail # NoError => plain.err # NoError)
    BY <1>1 DEF PipelineInv, ErrorInv
  <2>2. compressed'.err = fail' /\ plain.err \in {NoError, fail'}
    BY <1>3, <2>1
  <2>3. plain.err = NoError => thrown[t] = fail'
    BY <2>1
  <2>4. \A u \in Threads : pc'[u] = "abort" => u = t
    BY <1>1
  <2> QED BY <1>1, <2>2, <2>3, <2>4 DEF ErrorInv
<1> QED BY <1>7, <1>8, <1>9, <1>10, <1>11, <1>12, <1>13 DEF PipelineInv

LEMMA AbortPlainOK == ASSUME PipelineInv, NEW t \in Threads, AbortPlain(t) PROVE PipelineInv'
<1> USE DEF AbortPlain
<1>1. /\ pc' \in [Threads -> Places] /\ pc[t] = "abort" /\ pc'[t] = "done"
      /\ \A u \in Threads : u # t => pc'[u] = pc[u]
  BY GoOK DEF PipelineInv, PipelineShapes, Places
<1>2. thrown[t] \in Errors \cup {NoError} /\ Sound(plain)
  BY DEF PipelineInv, PipelineShapes, TypeOK
<1>3. /\ Sound(plain') /\ plain'.n = plain.n /\ plain'.done = plain.done
      /\ plain'.err = IF plain.err = NoError THEN thrown[t] ELSE plain.err
  BY <1>2, RingAborted
<1>4. Filling => Holds(plain', Len(written))
  BY <1>2, HoldsAborted DEF PipelineInv, WriterInv
<1>5. \A u \in Threads : pc'[u] = pc[u] \/ (pc[u] = "abort" /\ pc'[u] = "done")
  BY <1>1
<1>6. /\ pc'["reader"] = pc["reader"] \/ (pc["reader"] = "abort" /\ pc'["reader"] = "done")
      /\ pc'["decoder"] = pc["decoder"] \/ (pc["decoder"] = "abort" /\ pc'["decoder"] = "done")
      /\ pc'["writer"] = pc["writer"] \/ (pc["writer"] = "abort" /\ pc'["writer"] = "done")
  BY <1>5 DEF Threads
<1>7. PipelineShapes'
  BY <1>1, <1>3 DEF PipelineInv, PipelineShapes, Sound
<1>8. TypeOK'
  <2>1. UNCHANGED <<mode, used, decoded, thrown, result, fail, written, cancel, troubles>>
    OBVIOUS
  <2>2. TypeOK
    BY DEF PipelineInv
  <2> HIDE DEF AbortPlain
  <2>3. /\ pc'["reader"] \in {"spawn", "fetch", "push", "end", "capture", "abort", "done"}
        /\ pc'["decoder"] \in {"pop", "emit", "short", "finish", "capture", "abort", "done"}
        /\ pc'["writer"] \in {"none", "pop", "capture", "abort", "done"}
    BY <1>6, <2>2 DEF TypeOK
  <2> QED BY <1>7, <2>1, <2>2, <2>3, PipelineTyped DEF TypeOK
<1>9. ReaderInv'
  BY <1>6 DEF PipelineInv, ReaderInv, Downloading
<1>10. DecoderInv'
  BY <1>3, <1>6 DEF PipelineInv, DecoderInv, Decoding, Holds, Slot
<1>11. WriterInv'
  BY <1>3, <1>4, <1>6 DEF PipelineInv, WriterInv, Decoding, Filling
<1>12. WrittenInOrder'
  BY DEF PipelineInv, WrittenInOrder
<1>13. ErrorInv'
  <2>1. /\ compressed.err = fail /\ plain.err \in {NoError, fail}
        /\ plain.err = NoError => thrown[t] = fail
        /\ \A u \in Threads : pc[u] = "abort" => u = t
    BY <1>1 DEF PipelineInv, ErrorInv
  <2>2. plain'.err = fail'
    BY <1>3, <2>1
  <2>3. \A u \in Threads : pc'[u] # "abort"
    BY <1>1, <2>1
  <2> QED BY <2>1, <2>2, <2>3 DEF ErrorInv
<1> QED BY <1>7, <1>8, <1>9, <1>10, <1>11, <1>12, <1>13 DEF PipelineInv

(* The decoder moves within its loop, taking `by` chunks; the rings, what is written and    *)
(* the errors are dealt with by the caller.                                                 *)
LEMMA DecoderMoves ==
    ASSUME PipelineInv, NEW p \in {"pop", "emit", "short", "finish", "done"}, Go("decoder", p),
           pc["decoder"] # "abort"
    PROVE  /\ pc' \in [Threads -> Places] /\ pc'["decoder"] = p
           /\ pc'["reader"] = pc["reader"] /\ pc'["writer"] = pc["writer"]
           /\ \A u \in Threads : pc'[u] = "abort" <=> pc[u] = "abort"
<1>1. "decoder" \in Threads /\ "reader" \in Threads /\ "writer" \in Threads /\ p \in Places
  BY DEF Threads, Places
<1> QED BY <1>1, GoOK DEF PipelineInv, PipelineShapes

\* The decoder finds the end of the first ring.
LEMMA DecodeEndOK ==
    ASSUME PipelineInv, Decode, compressed.n = 0 \/ Front(compressed).v = 0
    PROVE  PipelineInv'
<1> USE DEF Decode
<1>1. pc["decoder"] = "pop" /\ Sound(compressed) /\ compressed.n \in Nat /\ decoded \in Nat
  BY PipelineSizes
<1>2. EndOfInput(decoded) \in {"short", "finish"}
  BY DEF EndOfInput
<1>3. /\ pc' \in [Threads -> Places] /\ pc'["decoder"] \in {"short", "finish"}
      /\ pc'["reader"] = pc["reader"] /\ pc'["writer"] = pc["writer"]
      /\ \A u \in Threads : pc'[u] = "abort" <=> pc[u] = "abort"
  <2>1. Go("decoder", EndOfInput(decoded))
    OBVIOUS
  <2> QED BY <1>1, <1>2, <2>1, DecoderMoves
<1>4. /\ Sound(compressed') /\ compressed'.n = 0 /\ compressed'.done = compressed.done
      /\ compressed'.err = compressed.err /\ (compressed.n = 0 \/ compressed.done)
  <2>1. CASE compressed.n = 0
    BY <1>1, <2>1
  <2>2. CASE compressed.n # 0
    <3>1. compressed' = Popped(compressed) /\ compressed.n > 0
      BY <1>1, <2>2
    <3>2. /\ Sound(compressed') /\ compressed'.n = compressed.n - 1 /\ compressed'.done = compressed.done
          /\ compressed'.err = compressed.err /\ Front(compressed) = Slot(compressed, 1)
      BY <1>1, <3>1, RingPopped
    <3>3. Slot(compressed, 1) = IF compressed.done /\ 1 = compressed.n THEN EndItem ELSE Data(decoded + 1)
      BY <1>1, <3>1 DEF PipelineInv, DecoderInv, Holds
    <3>4. Data(decoded + 1).v # 0
      BY <1>1 DEF Data
    <3>5. compressed.done /\ compressed.n = 1
      BY <2>2, <3>2, <3>3, <3>4
    <3> QED BY <3>2, <3>5
  <2> QED BY <2>1, <2>2
<1>5. decoded' = decoded
  OBVIOUS
<1>6. UNCHANGED <<mode, used, plain, stream, thrown, fail, written, cancel, result, troubles>>
  OBVIOUS
<1> HIDE DEF Decode
<1>7. PipelineShapes'
  BY <1>3, <1>4, <1>6 DEF PipelineInv, PipelineShapes, Sound
<1>8. TypeOK'
  <2>1. TypeOK
    BY DEF PipelineInv
  <2>2. /\ pc'["reader"] \in {"spawn", "fetch", "push", "end", "capture", "abort", "done"}
        /\ pc'["decoder"] \in {"pop", "emit", "short", "finish", "capture", "abort", "done"}
        /\ pc'["writer"] \in {"none", "pop", "capture", "abort", "done"}
    BY <1>3, <2>1 DEF TypeOK
  <2> QED BY <1>5, <1>6, <1>7, <2>1, <2>2, PipelineTyped DEF TypeOK
<1>9. ReaderInv'
  BY <1>3, <1>4, <1>5, <1>6 DEF PipelineInv, ReaderInv, Downloading
<1>10. DecoderInv'
  <2>1. Holds(compressed', decoded')
    BY <1>4 DEF Holds
  <2> QED BY <1>1, <1>3, <1>4, <1>6, <2>1 DEF PipelineInv, DecoderInv, Decoding
<1>11. WriterInv'
  BY <1>1, <1>3, <1>5, <1>6 DEF PipelineInv, WriterInv, Decoding, Filling, Holds, Slot
<1>12. WrittenInOrder' /\ ErrorInv'
  BY <1>3, <1>4, <1>6, ErrorKept DEF PipelineInv, WrittenInOrder
<1> QED BY <1>7, <1>8, <1>9, <1>10, <1>11, <1>12 DEF PipelineInv

\* The decoder takes the next chunk.
LEMMA DecodeChunkOK ==
    ASSUME PipelineInv, Decode, compressed.n # 0, Front(compressed).v # 0
    PROVE  PipelineInv'
<1> USE DEF Decode
<1>1. /\ pc["decoder"] = "pop" /\ Sound(compressed) /\ compressed.n \in Nat /\ compressed.n > 0 /\ decoded \in Nat
      /\ Chunks \in Nat /\ compressed.done \in BOOLEAN /\ stream.done \in Nat
      /\ Len(written) \in Nat /\ plain.n \in Nat
  BY PipelineSizes
<1>2. /\ pc' \in [Threads -> Places] /\ pc'["decoder"] = "emit"
      /\ pc'["reader"] = pc["reader"] /\ pc'["writer"] = pc["writer"]
      /\ \A u \in Threads : pc'[u] = "abort" <=> pc[u] = "abort"
  BY <1>1, DecoderMoves
<1>3. /\ Sound(compressed') /\ compressed'.n = compressed.n - 1 /\ compressed'.done = compressed.done
      /\ compressed'.err = compressed.err /\ Front(compressed) = Slot(compressed, 1)
  BY <1>1, RingPopped
<1>4. Slot(compressed, 1) = IF compressed.done /\ 1 = compressed.n THEN EndItem ELSE Data(decoded + 1)
  BY <1>1 DEF PipelineInv, DecoderInv, Holds
<1>5. ~(compressed.done /\ compressed.n = 1) /\ decoded' = decoded + 1
  BY <1>3, <1>4 DEF EndItem, Data
<1>6. Holds(compressed', decoded')
  BY <1>1, <1>5, HoldsPopped DEF PipelineInv, DecoderInv
<1>7. decoded + compressed.n <= IF compressed.done THEN Chunks + 1 ELSE Chunks
  BY <1>1 DEF PipelineInv, DecoderInv
<1>8. decoded' \in 0..Chunks
  BY <1>1, <1>5, <1>7
<1>9. UNCHANGED <<mode, used, plain, stream, thrown, fail, written, cancel, result, troubles>>
  OBVIOUS
<1> HIDE DEF Decode
<1>10. PipelineShapes'
  BY <1>2, <1>3, <1>9 DEF PipelineInv, PipelineShapes, Sound
<1>11. TypeOK'
  <2>1. TypeOK
    BY DEF PipelineInv
  <2>2. /\ pc'["reader"] \in {"spawn", "fetch", "push", "end", "capture", "abort", "done"}
        /\ pc'["decoder"] \in {"pop", "emit", "short", "finish", "capture", "abort", "done"}
        /\ pc'["writer"] \in {"none", "pop", "capture", "abort", "done"}
    BY <1>2, <2>1 DEF TypeOK
  <2> QED BY <1>8, <1>9, <1>10, <2>1, <2>2, PipelineTyped DEF TypeOK
<1>11a. decoded' + compressed'.n = decoded + compressed.n /\ decoded' > 0
  <2>1. compressed'.n = compressed.n - 1 /\ decoded' = decoded + 1
    BY <1>3, <1>5
  <2>2. compressed.n \in Int /\ decoded \in Nat
    BY <1>1
  <2> QED BY <2>1, <2>2
<1>12. ReaderInv'
  BY <1>11a, <1>2, <1>3, <1>9 DEF PipelineInv, ReaderInv, Downloading
<1>13. DecoderInv'
  BY <1>11a, <1>1, <1>2, <1>3, <1>6, <1>7, <1>9 DEF PipelineInv, DecoderInv, Decoding
<1>14. WriterInv'
  <2>1. Filling => Holds(plain, Len(written)) /\ decoded = Len(written) + plain.n
    BY <1>1 DEF PipelineInv, WriterInv, Decoding
  <2>2. Filling => decoded' = Len(written) + plain.n + 1
    BY <1>1, <1>5, <2>1
  <2> QED BY <1>2, <1>9, <2>1, <2>2 DEF WriterInv, Filling, Holds, Slot
<1>15. WrittenInOrder' /\ ErrorInv'
  BY <1>2, <1>3, <1>9, ErrorKept DEF PipelineInv, WrittenInOrder
<1> QED BY <1>10, <1>11, <1>12, <1>13, <1>14, <1>15 DEF PipelineInv

\* The decoder hands on a chunk, or the end.
LEMMA EmitOK == ASSUME PipelineInv, Emit PROVE PipelineInv'
<1> USE DEF Emit
<1>1. /\ pc["decoder"] = "emit" /\ Sound(plain) /\ plain.n \in Nat /\ plain.done \in BOOLEAN /\ ~IsFull(plain)
      /\ decoded \in Nat /\ Len(written) \in Nat
  BY PipelineSizes DEF CanPush
<1>2. /\ pc' \in [Threads -> Places] /\ pc'["decoder"] \in {"pop", "finish"}
      /\ pc'["reader"] = pc["reader"] /\ pc'["writer"] = pc["writer"]
      /\ \A u \in Threads : pc'[u] = "abort" <=> pc[u] = "abort"
  <2>1. Go("decoder", IF mode # "plain" /\ decoded = used THEN "finish" ELSE "pop")
    OBVIOUS
  <2> QED BY <1>1, <2>1, DecoderMoves
<1>3. Data(decoded) \in Items /\ Data(decoded).last = FALSE
  BY <1>1 DEF Data, Items
<1>4. ~plain.done
  BY <1>1 DEF PipelineInv, DecoderInv, Decoding
<1>5. Sound(plain') /\ plain'.n = plain.n + 1 /\ ~plain'.done /\ plain'.err = plain.err
  <2>1. /\ Sound(plain') /\ plain'.n = plain.n + 1 /\ plain'.done = (plain.done \/ FALSE)
        /\ plain'.err = plain.err
    BY <1>1, <1>3, RingPushed
  <2> QED BY <1>4, <2>1
<1>6. Filling => decoded = Len(written) + plain.n + 1
  BY <1>1 DEF PipelineInv, WriterInv, Decoding
<1>7. Filling => Holds(plain', Len(written))
  <2> SUFFICES ASSUME Filling PROVE Holds(plain', Len(written))
    OBVIOUS
  <2>1. Holds(plain, Len(written))
    BY DEF PipelineInv, WriterInv
  <2> QED BY <1>1, <1>4, <1>6, <2>1, HoldsPushed
<1>8. UNCHANGED <<mode, used, compressed, stream, decoded, thrown, fail, written, cancel, result, troubles>>
  OBVIOUS
<1> HIDE DEF Emit
<1>9. PipelineShapes'
  BY <1>2, <1>5, <1>8 DEF PipelineInv, PipelineShapes, Sound
<1>10. TypeOK'
  <2>1. TypeOK
    BY DEF PipelineInv
  <2>2. /\ pc'["reader"] \in {"spawn", "fetch", "push", "end", "capture", "abort", "done"}
        /\ pc'["decoder"] \in {"pop", "emit", "short", "finish", "capture", "abort", "done"}
        /\ pc'["writer"] \in {"none", "pop", "capture", "abort", "done"}
    BY <1>2, <2>1 DEF TypeOK
  <2> QED BY <1>8, <1>9, <2>1, <2>2, PipelineTyped DEF TypeOK
<1>11. ReaderInv'
  BY <1>2, <1>8 DEF PipelineInv, ReaderInv, Downloading
<1>12. DecoderInv'
  BY <1>2, <1>5, <1>8 DEF PipelineInv, DecoderInv, Decoding, Holds, Slot
<1>13. WriterInv'
  <2>1. Filling => decoded = Len(written) + plain'.n
    BY <1>1, <1>5, <1>6
  <2> QED BY <1>2, <1>7, <1>8, <2>1, <1>1 DEF WriterInv, Filling
<1>14. WrittenInOrder' /\ ErrorInv'
  BY <1>2, <1>5, <1>8, ErrorKept DEF PipelineInv, WrittenInOrder
<1> QED BY <1>9, <1>10, <1>11, <1>12, <1>13, <1>14 DEF PipelineInv

LEMMA FinishOK == ASSUME PipelineInv, Finish PROVE PipelineInv'
<1> USE DEF Finish
<1>1. /\ pc["decoder"] = "finish" /\ Sound(plain) /\ plain.n \in Nat /\ plain.done \in BOOLEAN /\ ~IsFull(plain)
      /\ Len(written) \in Nat
  BY PipelineSizes DEF CanPush
<1>2. /\ pc' \in [Threads -> Places] /\ pc'["decoder"] = "done"
      /\ pc'["reader"] = pc["reader"] /\ pc'["writer"] = pc["writer"]
      /\ \A u \in Threads : pc'[u] = "abort" <=> pc[u] = "abort"
  BY <1>1, DecoderMoves
<1>3. EndItem \in Items
  BY DEF EndItem, Items
<1>4. ~plain.done
  BY <1>1 DEF PipelineInv, DecoderInv, Decoding
<1>5. Sound(plain') /\ plain'.err = plain.err
  BY <1>1, <1>3, RingPushed
<1>6. Filling => Holds(plain', Len(written))
  BY <1>1, <1>4, HoldsPushed DEF PipelineInv, WriterInv
<1>7. UNCHANGED <<mode, used, compressed, stream, decoded, thrown, fail, written, cancel, result, troubles>>
  OBVIOUS
<1> HIDE DEF Finish
<1>8. PipelineShapes'
  BY <1>2, <1>5, <1>7 DEF PipelineInv, PipelineShapes, Sound
<1>9. TypeOK'
  <2>1. TypeOK
    BY DEF PipelineInv
  <2>2. /\ pc'["reader"] \in {"spawn", "fetch", "push", "end", "capture", "abort", "done"}
        /\ pc'["decoder"] \in {"pop", "emit", "short", "finish", "capture", "abort", "done"}
        /\ pc'["writer"] \in {"none", "pop", "capture", "abort", "done"}
    BY <1>2, <2>1 DEF TypeOK
  <2> QED BY <1>7, <1>8, <2>1, <2>2, PipelineTyped DEF TypeOK
<1>10. ReaderInv'
  BY <1>2, <1>7 DEF PipelineInv, ReaderInv, Downloading
<1>11. DecoderInv'
  BY <1>2, <1>7 DEF PipelineInv, DecoderInv, Decoding, Holds, Slot
<1>12. WriterInv'
  BY <1>2, <1>6, <1>7 DEF WriterInv, Filling, Decoding
<1>13. WrittenInOrder' /\ ErrorInv'
  BY <1>2, <1>5, <1>7, ErrorKept DEF PipelineInv, WrittenInOrder
<1> QED BY <1>8, <1>9, <1>10, <1>11, <1>12, <1>13 DEF PipelineInv

\* Any of the threads may end with an exception of its own or of a ring.
LEMMA ThreadThrowsOK ==
    ASSUME PipelineInv, ReaderThrows \/ DecodeFails \/ DecoderThrows \/ WriterThrows
    PROVE  PipelineInv'
<1>1. /\ Sound(compressed) /\ Sound(plain) /\ troubles \in Nat
      /\ stream \in [done : 0..Chunks, got : 0..Chunks, failures : 0..MaxAttempts] /\ stream.got <= stream.done
      /\ "reader" \in Threads /\ "decoder" \in Threads /\ "writer" \in Threads /\ "format" \in Errors
  BY DEF PipelineInv, PipelineShapes, ReaderInv, TypeOK, Threads, Errors
<1>2. CASE ReaderThrows
  <2>1. PICK e \in Errors : Throw("reader", e)
    BY <1>1, <1>2, RingThrowsOK DEF ReaderThrows
  <2> QED BY <1>1, <1>2, <2>1, ThrownOK DEF ReaderThrows, PipelineInv
<1>3. CASE DecodeFails
  <2>1. Throw("decoder", "format") /\ troubles' \in Nat /\ pc["decoder"] \in {"short", "emit"}
    BY <1>1, <1>3 DEF DecodeFails, Spend
  <2> QED BY <1>1, <1>3, <2>1, ThrownOK DEF DecodeFails
<1>4. CASE DecoderThrows
  <2>1. (\E e \in Errors : Throw("decoder", e)) /\ pc["decoder"] \in {"pop", "emit", "finish"}
    BY <1>1, <1>4, RingThrowsOK DEF DecoderThrows
  <2>2. PICK e \in Errors : Throw("decoder", e)
    BY <2>1
  <2> QED BY <1>1, <1>4, <2>1, <2>2, ThrownOK DEF DecoderThrows
<1>5. CASE WriterThrows
  <2>1. PICK e \in Errors : Throw("writer", e)
    BY <1>1, <1>5, RingThrowsOK DEF WriterThrows
  <2> QED BY <1>1, <1>5, <2>1, ThrownOK DEF WriterThrows
<1> QED BY <1>2, <1>3, <1>4, <1>5

\* The writer takes the next item from the second ring.
LEMMA WriteOK == ASSUME PipelineInv, Write PROVE PipelineInv'
<1> USE DEF Write
<1>1. /\ pc["writer"] = "pop" /\ Sound(plain) /\ plain.n \in Nat /\ plain.done \in BOOLEAN
      /\ written \in Seq(Nat) /\ Len(written) \in Nat /\ decoded \in Nat
  BY PipelineSizes
<1>2. /\ pc' \in [Threads -> Places] /\ pc'["writer"] \in {"pop", "done"}
      /\ pc'["reader"] = pc["reader"] /\ pc'["decoder"] = pc["decoder"]
      /\ \A u \in Threads : pc'[u] = "abort" <=> pc[u] = "abort"
  <2>1. pc' = pc \/ Go("writer", "done")
    OBVIOUS
  <2>2. pc \in [Threads -> Places] /\ "done" \in Places /\ "writer" \in Threads
    BY DEF PipelineInv, PipelineShapes, Places, Threads
  <2>3. CASE pc' = pc
    BY <1>1, <2>2, <2>3
  <2>4. CASE Go("writer", "done")
    <3>1. /\ pc' \in [Threads -> Places] /\ pc'["writer"] = "done"
          /\ \A u \in Threads : u # "writer" => pc'[u] = pc[u]
      BY <2>2, <2>4, GoOK
    <3> QED BY <1>1, <3>1 DEF Threads
  <2> QED BY <2>1, <2>3, <2>4
<1>3. /\ Holds(plain, Len(written))
      /\ Decoding => decoded = Len(written) + plain.n + (IF pc["decoder"] = "emit" THEN 1 ELSE 0)
      /\ Decoding => ~plain.done
      /\ WrittenInOrder
  BY <1>1 DEF PipelineInv, WriterInv, Filling, DecoderInv
<1>4. UNCHANGED <<mode, used, compressed, stream, decoded, thrown, fail, cancel, result, troubles>>
  OBVIOUS
(* What it does to the ring and to the file. *)
<1>5. /\ Sound(plain') /\ plain'.done = plain.done /\ plain'.err = plain.err
      /\ written' \in Seq(Nat) /\ WrittenInOrder'
      /\ pc'["writer"] = "pop" =>
             /\ Holds(plain', Len(written'))
             /\ Len(written') + plain'.n = Len(written) + plain.n
  <2>1. CASE plain.n = 0
    <3>1. pc'["writer"] = "done" /\ plain' = plain /\ written' = written
      BY <1>1, <2>1 DEF Go, PipelineInv, PipelineShapes, Threads
    <3> QED BY <1>1, <1>3, <3>1 DEF WrittenInOrder
  <2>2. CASE plain.n # 0
    <3>1. plain' = Popped(plain) /\ plain.n > 0
      BY <1>1, <2>2
    <3>2. /\ Sound(plain') /\ plain'.n = plain.n - 1 /\ plain'.done = plain.done /\ plain'.err = plain.err
          /\ Front(plain) = Slot(plain, 1)
      BY <1>1, <3>1, RingPopped
    <3>3. Slot(plain, 1) = IF plain.done /\ 1 = plain.n THEN EndItem ELSE Data(Len(written) + 1)
      BY <1>1, <3>1, <1>3 DEF Holds
    <3>4. CASE plain.done /\ plain.n = 1
      <4>1. Front(plain).v = 0 /\ Front(plain).last
        BY <3>2, <3>3, <3>4 DEF EndItem
      <4>2. written' = written /\ pc'["writer"] = "done"
        BY <2>2, <4>1 DEF Go, PipelineInv, PipelineShapes, Threads
      <4> QED BY <1>1, <1>3, <3>2, <4>2 DEF WrittenInOrder
    <3>5. CASE ~(plain.done /\ plain.n = 1)
      <4>1. Front(plain).v = Len(written) + 1
        BY <3>2, <3>3, <3>5 DEF Data
      <4>2. written' = Append(written, Len(written) + 1)
        BY <1>1, <2>2, <4>1
      <4>3. /\ written' \in Seq(Nat) /\ Len(written') = Len(written) + 1
            /\ \A i \in 1..Len(written) : written'[i] = written[i]
            /\ written'[Len(written) + 1] = Len(written) + 1
        BY <1>1, <4>2
      <4>4. WrittenInOrder'
        <5> SUFFICES ASSUME NEW i \in 1..Len(written') PROVE written'[i] = i
          BY DEF WrittenInOrder
        <5>1. i \in 1..Len(written) \/ i = Len(written) + 1
          BY <1>1, <4>3
        <5> QED BY <1>3, <4>3, <5>1 DEF WrittenInOrder
      <4>5. Holds(plain', Len(written'))
        BY <1>1, <1>3, <3>1, <4>3, HoldsPopped
      <4>6. Len(written') + plain'.n = Len(written) + plain.n
        BY <1>1, <3>2, <4>3
      <4> QED BY <3>2, <4>3, <4>4, <4>5, <4>6
    <3> QED BY <3>4, <3>5
  <2> QED BY <2>1, <2>2
<1> HIDE DEF Write
<1>6. PipelineShapes'
  BY <1>2, <1>4, <1>5 DEF PipelineInv, PipelineShapes, Sound
<1>7. TypeOK'
  <2>1. TypeOK
    BY DEF PipelineInv
  <2>2. /\ pc'["reader"] \in {"spawn", "fetch", "push", "end", "capture", "abort", "done"}
        /\ pc'["decoder"] \in {"pop", "emit", "short", "finish", "capture", "abort", "done"}
        /\ pc'["writer"] \in {"none", "pop", "capture", "abort", "done"}
    BY <1>2, <2>1 DEF TypeOK
  <2> QED BY <1>4, <1>5, <1>6, <2>1, <2>2, PipelineTyped DEF TypeOK
<1>8. ReaderInv'
  <2>1. pc["reader"] # "spawn"
    BY <1>1 DEF PipelineInv, ReaderInv
  <2> QED BY <1>2, <1>4, <2>1 DEF PipelineInv, ReaderInv, Downloading
<1>9. DecoderInv'
  BY <1>2, <1>4, <1>5 DEF PipelineInv, DecoderInv, Decoding, Holds, Slot
<1>10. WriterInv'
  <2> SUFFICES ASSUME Filling'
               PROVE  /\ Holds(plain', Len(written'))
                      /\ Decoding' => decoded' = Len(written') + plain'.n + (IF pc'["decoder"] = "emit" THEN 1 ELSE 0)
    BY DEF WriterInv
  <2>1. pc'["writer"] = "pop"
    BY <1>2 DEF Filling
  <2>2. Decoding' <=> Decoding
    BY <1>2 DEF Decoding
  <2> QED BY <1>2, <1>3, <1>4, <1>5, <2>1, <2>2
<1>11. ErrorInv'
  BY <1>2, <1>4, <1>5, ErrorKept DEF PipelineInv
<1> QED BY <1>5, <1>6, <1>7, <1>8, <1>9, <1>10, <1>11 DEF PipelineInv

LEMMA WriteFailsOK == ASSUME PipelineInv, WriteFails PROVE PipelineInv'
<1> USE DEF WriteFails
<1>1. /\ pc["writer"] = "pop" /\ Sound(plain) /\ plain.n > 0 /\ pc["reader"] # "spawn"
      /\ "writer" \in Threads /\ "reader" \in Threads /\ "decoder" \in Threads /\ "write" \in Errors
  BY DEF PipelineInv, PipelineShapes, ReaderInv, Threads, Errors
<1>2. /\ pc' \in [Threads -> Places] /\ pc'["writer"] = "capture"
      /\ \A u \in Threads : u # "writer" => pc'[u] = pc[u]
      /\ thrown' \in [Threads -> Errors \cup {NoError}]
      /\ \A u \in Threads : u # "writer" => thrown'[u] = thrown[u]
  BY <1>1, ThrowOK DEF PipelineInv, PipelineShapes
<1>3. Sound(plain') /\ plain'.done = plain.done /\ plain'.err = plain.err
  BY <1>1, RingPopped
<1>4. pc'["reader"] = pc["reader"] /\ pc'["decoder"] = pc["decoder"]
  BY <1>1, <1>2
<1>5. /\ UNCHANGED <<mode, used, compressed, stream, decoded, fail, written, cancel, result>>
      /\ troubles' \in Nat
  BY DEF Spend, PipelineInv, TypeOK
<1> HIDE DEF WriteFails
<1>6. PipelineShapes'
  BY <1>2, <1>3, <1>5 DEF PipelineInv, PipelineShapes, Sound
<1>7. TypeOK'
  <2>1. TypeOK
    BY DEF PipelineInv
  <2>2. /\ pc'["reader"] \in {"spawn", "fetch", "push", "end", "capture", "abort", "done"}
        /\ pc'["decoder"] \in {"pop", "emit", "short", "finish", "capture", "abort", "done"}
    BY <1>4, <2>1 DEF TypeOK
  <2> QED BY <1>2, <1>5, <1>6, <2>1, <2>2, PipelineTyped DEF TypeOK
<1>8. ReaderInv'
  BY <1>1, <1>4, <1>5 DEF PipelineInv, ReaderInv, Downloading
<1>9. DecoderInv'
  BY <1>3, <1>4, <1>5 DEF PipelineInv, DecoderInv, Decoding, Holds, Slot
<1>10. WriterInv'
  BY <1>2 DEF WriterInv, Filling
<1>11. WrittenInOrder'
  BY <1>5 DEF PipelineInv, WrittenInOrder
<1>12. ErrorInv'
  <2>1. \A u \in Threads : (pc'[u] = "abort" <=> pc[u] = "abort") /\ (pc[u] = "abort" => thrown'[u] = thrown[u])
    BY <1>1, <1>2
  <2> QED BY <1>3, <1>5, <2>1, ErrorKept DEF PipelineInv
<1> QED BY <1>6, <1>7, <1>8, <1>9, <1>10, <1>11, <1>12 DEF PipelineInv

\* The threads are joined.
LEMMA JoinOK == ASSUME PipelineInv, Join PROVE PipelineInv'
<1>1. /\ UNCHANGED <<mode, used, compressed, plain, pc, stream, decoded, thrown, fail, written, cancel, troubles>>
      /\ result' \in {"none", "failed", "accepted", "mismatch"}
  BY DEF Join
<1> QED BY <1>1, SMTT(30) DEF PipelineInv, PipelineShapes, TypeOK, RingOK, Sound, ReaderInv, Downloading, DecoderInv, Decoding,
           WriterInv, Filling, Holds, Slot, WrittenInOrder, ErrorInv

LEMMA PipelineStutterOK == ASSUME PipelineInv, UNCHANGED vars PROVE PipelineInv'
<1>1. /\ UNCHANGED <<mode, used, compressed, plain, pc, stream, decoded>>
      /\ UNCHANGED <<thrown, fail, written, cancel, result, troubles>>
  BY DEF vars
<1> QED BY <1>1, SMTT(30) DEF PipelineInv, PipelineShapes, TypeOK, RingOK, Sound, ReaderInv, Downloading, DecoderInv, Decoding,
           WriterInv, Filling, Holds, Slot, WrittenInOrder, ErrorInv

(* Each thread, the network and the user keep the invariant, at every interleaving of the threads. *)
THEOREM PipelineInductive == Spec => []PipelineInv
<1>1. Init => PipelineInv
  BY PipelineInitOK
<1>2. PipelineInv /\ [Next]_vars => PipelineInv'
  <2> SUFFICES ASSUME PipelineInv, [Next]_vars PROVE PipelineInv'
    OBVIOUS
  <2>1. \A t \in Threads : Capture(t) => PipelineInv'
    BY CaptureOK
  <2>2. \A t \in Threads : AbortPlain(t) => PipelineInv'
    BY AbortPlainOK
  <2>3. "reader" \in Threads /\ "decoder" \in Threads /\ "writer" \in Threads
    BY DEF Threads
  <2>4. CASE Reader
    BY <2>1, <2>2, <2>3, <2>4, SpawnWriterOK, SpawnFailsOK, ReceiveChunkOK, PushChunkOK, StreamEndsOK, PushEndOK,
       ThreadThrowsOK DEF Reader
  <2>5. CASE Network
    BY <2>5, DropOK, CloseEarlyOK, RefuseOK DEF Network
  <2>6. CASE Cancel
    BY <2>6, PipelineCancelOK
  <2>7. CASE Decoder
    BY <2>1, <2>2, <2>3, <2>7, DecodeEndOK, DecodeChunkOK, EmitOK, FinishOK, ThreadThrowsOK DEF Decoder
  <2>8. CASE Writer
    BY <2>1, <2>2, <2>3, <2>8, WriteOK, WriteFailsOK, ThreadThrowsOK DEF Writer
  <2>9. CASE Join
    BY <2>9, JoinOK
  <2>10. CASE Rest \/ UNCHANGED vars
    BY <2>10, PipelineStutterOK DEF Rest
  <2> QED BY <2>4, <2>5, <2>6, <2>7, <2>8, <2>9, <2>10 DEF Next
<1> QED BY <1>1, <1>2, PTL DEF Spec

(* The type invariant of the pipeline. *)
THEOREM PipelineIsTyped == Spec => []TypeOK
<1>1. PipelineInv => TypeOK
  BY DEF PipelineInv
<1> QED BY <1>1, PipelineInductive, PTL

(* Nothing is lost, doubled or reordered between the network and the placeholder, for rings and *)
(* entries of any size.                                                                         *)
THEOREM BytesArriveInOrder == Spec => []WrittenInOrder
<1>1. PipelineInv => WrittenInOrder
  BY DEF PipelineInv
<1> QED BY <1>1, PipelineInductive, PTL

(* Whoever hears of a failure through a ring hears of the one that came first. *)
THEOREM TheFirstErrorIsTold == Spec => []FirstErrorIsTold
<1>1. PipelineInv => FirstErrorIsTold
  BY DEF PipelineInv, ErrorInv, FirstErrorIsTold
<1> QED BY <1>1, PipelineInductive, PTL
=============================================================================
