------------------------------ MODULE NczEncoder ------------------------------
(***************************************************************************)
(* encodeNcz (formats/src/ncz-encode.ts) over a ZstdWorkerPool             *)
(* (library/zstd-pool.ts): the blocks of an NCA are read in order,         *)
(* compressed by several workers at once, and written in order as the      *)
(* oldest one finishes.  Workers answer in any order, and crash; reads and *)
(* writes fail; the compression is cancelled, and the pool closed under    *)
(* the encoder.                                                            *)
(*                                                                         *)
(* A block is its number, which is also the id of its job in the pool.  A  *)
(* worker slot with no job is an idle worker, or room to spawn one.        *)
(***************************************************************************)
EXTENDS Integers, Sequences

CONSTANTS
    Slots,      \* the workers a pool may have (size)
    Blocks,     \* blocks of the NCA (blockCount)
    Parallel    \* parallelBlocks

VARIABLES
    waiting,    \* #waiting: jobs no worker has yet
    busy,       \* #busy: the job of each slot, or 0
    answer,     \* the promise of each block
    closed,     \* #closed
    pc,         \* where encodeNcz stands
    blocksRead, \* block: how many were handed to the pool
    inFlight,   \* inFlight
    oldest,     \* the block whose promise or write is awaited, or 0
    sizes,      \* the block table: which block's size each entry holds, or 0
    stored,     \* the blocks appended to the file
    aborted     \* the signal

pool == <<waiting, busy, answer, closed>>
encoder == <<pc, blocksRead, inFlight, oldest, sizes, stored>>
nczVars == <<waiting, busy, answer, closed, pc, blocksRead, inFlight, oldest, sizes, stored, aborted>>

Block == 1..Blocks

NczInit ==
    /\ waiting = <<>> /\ busy = [w \in Slots |-> 0]
    /\ answer = [b \in Block |-> "none"] /\ closed = FALSE
    /\ pc = "turning" /\ blocksRead = 0 /\ inFlight = <<>> /\ oldest = 0
    /\ sizes = [b \in Block |-> 0] /\ stored = <<>>
    /\ aborted = FALSE

--------------------------------------------------------------------------------
(* The pool.                                                                   *)

(* #dispatch: the next job goes to a free slot.  Its loop never comes round twice: it is run   *)
(* for every job queued and for every slot freed, and WorkIsShared says what it leaves.         *)
Dispatch(queue, jobs) ==
    \/ /\ queue # <<>>
       /\ \E w \in Slots :
              /\ jobs[w] = 0
              /\ busy' = [jobs EXCEPT ![w] = Head(queue)]
       /\ waiting' = Tail(queue)
    \/ /\ queue = <<>> \/ \A w \in Slots : jobs[w] # 0
       /\ waiting' = queue /\ busy' = jobs

\* The worker in slot w answers: compressed, or zstd failed.
Reply ==
    /\ \E w \in Slots, result \in {"done", "failed"} :
           /\ busy[w] # 0
           /\ answer' = [answer EXCEPT ![busy[w]] = result]
           /\ Dispatch(waiting, [busy EXCEPT ![w] = 0])
    /\ UNCHANGED <<closed, encoder, aborted>>

(* #lose: the worker crashes and its job fails.  The exit event that follows the error finds   *)
(* the worker already gone.                                                                     *)
Lose ==
    /\ \E w \in Slots :
           /\ busy[w] # 0
           /\ answer' = [answer EXCEPT ![busy[w]] = "failed"]
           /\ Dispatch(waiting, [busy EXCEPT ![w] = 0])
    /\ UNCHANGED <<closed, encoder, aborted>>

\* close: of the encoder's caller when it is over, or of a server that stops.
Close ==
    /\ ~closed /\ closed' = TRUE
    /\ answer' = [b \in Block |-> IF answer[b] = "pending" THEN "failed" ELSE answer[b]]
    /\ waiting' = <<>> /\ busy' = [w \in Slots |-> 0]
    /\ UNCHANGED <<encoder, aborted>>

--------------------------------------------------------------------------------
(* The encoder.                                                                *)

\* Whatever it fails of, the blocks in flight are let go.
Fail ==
    /\ pc' = "failed"
    /\ inFlight' = <<>>
    /\ UNCHANGED <<blocksRead, oldest, sizes, stored>>

\* The top of either loop; a cancel is heard here.
TurnAborts ==
    /\ pc = "turning" /\ aborted
    /\ blocksRead < Blocks \/ inFlight # <<>>
    /\ Fail
    /\ UNCHANGED <<pool, aborted>>

NextBlock ==
    /\ pc = "turning" /\ ~aborted /\ blocksRead < Blocks
    /\ pc' = "reading"
    /\ UNCHANGED <<pool, blocksRead, inFlight, oldest, sizes, stored, aborted>>

\* Every block was handed over: the rest is written.
Drain ==
    /\ pc = "turning" /\ ~aborted /\ blocksRead = Blocks /\ inFlight # <<>>
    /\ pc' = "awaiting"
    /\ oldest' = Head(inFlight) /\ inFlight' = Tail(inFlight)
    /\ UNCHANGED <<pool, blocksRead, sizes, stored, aborted>>

FinishEncoding ==
    /\ pc = "turning" /\ blocksRead = Blocks /\ inFlight = <<>>
    /\ pc' = "done"
    /\ UNCHANGED <<pool, blocksRead, inFlight, oldest, sizes, stored, aborted>>

\* compress of the pool: queued and dispatched, or refused by a closed pool.
Compress(b) ==
    \/ /\ ~closed
       /\ answer' = [answer EXCEPT ![b] = "pending"]
       /\ Dispatch(Append(waiting, b), busy)
    \/ /\ closed
       /\ answer' = [answer EXCEPT ![b] = "failed"]
       /\ UNCHANGED <<waiting, busy>>

\* The block was read; with enough in flight the oldest is waited for.
ReadBlock ==
    /\ pc = "reading"
    /\ blocksRead' = blocksRead + 1
    /\ Compress(blocksRead + 1)
    /\ LET flying == Append(inFlight, blocksRead + 1)
       IN \/ /\ Len(flying) >= Parallel
             /\ pc' = "awaiting"
             /\ oldest' = Head(flying) /\ inFlight' = Tail(flying)
          \/ /\ Len(flying) < Parallel
             /\ pc' = "turning"
             /\ inFlight' = flying
             /\ UNCHANGED oldest
    /\ UNCHANGED <<closed, sizes, stored, aborted>>

ReadFails ==
    /\ pc = "reading"
    /\ Fail
    /\ UNCHANGED <<pool, aborted>>

\* flushOldest: its size, compressed or raw, goes into the table before it is written.
TakeOldest ==
    /\ pc = "awaiting" /\ answer[oldest] = "done"
    /\ pc' = "writing"
    /\ sizes' = [sizes EXCEPT ![Len(stored) + 1] = oldest]
    /\ UNCHANGED <<pool, blocksRead, inFlight, oldest, stored, aborted>>

OldestFailed ==
    /\ pc = "awaiting" /\ answer[oldest] = "failed"
    /\ Fail
    /\ UNCHANGED <<pool, aborted>>

WriteBlock ==
    /\ pc = "writing"
    /\ pc' = "turning"
    /\ stored' = Append(stored, oldest) /\ oldest' = 0
    /\ UNCHANGED <<pool, blocksRead, inFlight, sizes, aborted>>

WriteFails ==
    /\ pc = "writing"
    /\ Fail
    /\ UNCHANGED <<pool, aborted>>

\* Someone cancels the compression.
Abort ==
    /\ ~aborted /\ aborted' = TRUE
    /\ UNCHANGED <<pool, encoder>>

--------------------------------------------------------------------------------

Pool == Reply \/ Lose \/ Close
Encoder ==
    \/ TurnAborts \/ NextBlock \/ Drain \/ FinishEncoding
    \/ ReadBlock \/ ReadFails \/ TakeOldest \/ OldestFailed \/ WriteBlock \/ WriteFails

NczNext == Pool \/ Encoder \/ Abort

NczSpec == NczInit /\ [][NczNext]_nczVars

--------------------------------------------------------------------------------

NczTypeOK ==
    /\ waiting \in Seq(Block) /\ busy \in [Slots -> 0..Blocks]
    /\ answer \in [Block -> {"none", "pending", "done", "failed"}]
    /\ closed \in BOOLEAN /\ aborted \in BOOLEAN
    /\ pc \in {"turning", "reading", "awaiting", "writing", "done", "failed"}
    /\ blocksRead \in 0..Blocks /\ inFlight \in Seq(Block) /\ oldest \in 0..Blocks
    /\ sizes \in [Block -> 0..Blocks] /\ stored \in Seq(Block)

(* Workers answer in any order, the file has the blocks in theirs, each with its own size in    *)
(* the table, and all of them when encodeNcz returns.                                           *)
InOrder ==
    /\ \A i \in 1..Len(stored) : stored[i] = i /\ sizes[i] = i
    /\ pc = "done" => Len(stored) = Blocks

(* The encoder never waits for a block nobody works on: one that is unanswered is queued or     *)
(* with a worker, and none is queued while a worker is free.  No two workers have the same one. *)
WorkIsShared ==
    /\ \A b \in Block : answer[b] = "pending" =>
           \/ \E i \in 1..Len(waiting) : waiting[i] = b
           \/ \E w \in Slots : busy[w] = b
    /\ waiting # <<>> => \A w \in Slots : busy[w] # 0
    /\ \A v, w \in Slots : v # w /\ busy[v] = busy[w] => busy[v] = 0
    /\ pc = "awaiting" => answer[oldest] # "none"

(* "Holds about `parallelBlocks` blocks in memory": read, and neither written nor let go.       *)
MemoryIsBounded == Len(inFlight) + (IF oldest = 0 THEN 0 ELSE 1) <= Parallel

================================================================================
