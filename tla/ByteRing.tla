------------------------------ MODULE ByteRing ------------------------------
(***************************************************************************)
(* The bounded ring between two threads of an install (ByteRing of         *)
(* install/pipeline.cpp): slots filled at `w`, emptied at `r`, `n` of them *)
(* in use, `done` once the last slot is in, and the error that aborted it. *)
(* Each operator is what one critical section does to the ring.            *)
(***************************************************************************)
EXTENDS Integers, Sequences

CONSTANTS
    Slots,      \* how many slots (8 of 1 MiB in runPipeline)
    NoError     \* err_ is null

ASSUME SlotsAssumption == Slots \in Nat \ {0}

(* A slot: a chunk of data (0 for none) and whether the stream ends with it. *)
Items == [v : Nat, last : BOOLEAN]
EndItem == [v |-> 0, last |-> TRUE]
Data(v) == [v |-> v, last |-> FALSE]

EmptyRing == [at |-> [i \in 0..(Slots - 1) |-> Data(0)], w |-> 0, r |-> 0, n |-> 0, done |-> FALSE, err |-> NoError]

(* (i + 1) % slots_.size() *)
Wrapped(i) == IF i < Slots THEN i ELSE i - Slots

IsFull(q) == q.n >= Slots

(* Faulty variant of Pushed: the writing position is not wrapped in time. *)
PushedOver(q, item) ==
    [q EXCEPT !.at[q.w] = item, !.n = @ + 1, !.done = @ \/ item.last,
              !.w = IF q.w + 2 < Slots THEN q.w + 1 ELSE 0]

Pushed(q, item) ==
    [q EXCEPT !.at[q.w] = item, !.w = Wrapped(@ + 1), !.n = @ + 1, !.done = @ \/ item.last]

Front(q) == q.at[q.r]
Popped(q) == [q EXCEPT !.r = Wrapped(@ + 1), !.n = @ - 1]

(* Faulty variant of Aborted: a later error takes the place of the first. *)
AbortedAgain(q, e) == [q EXCEPT !.err = e]

Aborted(q, e) == IF q.err = NoError THEN [q EXCEPT !.err = e] ELSE q

(* pop() waits while there is nothing to return and nothing to report. *)
HasAnswer(q) == q.n > 0 \/ q.done \/ q.err # NoError

(* What the ring holds, oldest first: the queue it stands for. *)
Contents(q) == [i \in 1..q.n |-> q.at[Wrapped(q.r + i - 1)]]
=============================================================================
