----------------------------- MODULE RingBuffer -----------------------------
(***************************************************************************)
(* The ring of async_port/ring_buffer.hpp: free-running indices of the     *)
(* machine's word, masked only where the array is accessed.  Every public  *)
(* operation holds the ring's mutex from its first line to its last, so    *)
(* each is one action.  Masking with size_mask_ is % N, N a power of two.  *)
(* The vectors handed to Read, Peek and Write are as long as is asked for. *)
(***************************************************************************)
EXTENDS Integers, Sequences, SequencesExt

CONSTANTS
  Items,              \* T
  N,                  \* size of the array
  Words,              \* values of a size_t
  MaxBurst            \* model bound: longest burst written or read

ASSUME RingBufferAssumption ==
  /\ Items # {}
  /\ N \in Nat \ {0}
  /\ Words \in Nat /\ Words > N /\ Words % N = 0
  /\ MaxBurst \in 0..(Words - 1)    \* a burst's length is a size_t

VARIABLES
  ring,               \* buffer_, write_index_, read_index_
  enable_overwrite,   \* enable_overwrite_, set by the constructor
  answer              \* what the last call returned

ringVars == <<ring, enable_overwrite, answer>>

Rings == [buffer : [0..(N - 1) -> Items], write : 0..(Words - 1), read : 0..(Words - 1)]
Bursts == UNION {[1..n -> Items] : n \in 0..MaxBurst}

\* buffer_ is not initialised.
RingInit ==
  /\ ring \in [buffer : [0..(N - 1) -> Items], write : {0}, read : {0}]
  /\ enable_overwrite \in BOOLEAN
  /\ answer = <<>>

After(index) == (index + 1) % Words
Occupied(r) == ((r.write - r.read) % Words) % N
Empty(r) == r.read = r.write
Full(r) == After(r.write) % N = r.read % N

\* Mistake: the slot that tells a full ring from an empty one is not left out.
FreeSizeAll(r) == N - Occupied(r)
FreeSize(r) == N - 1 - Occupied(r)

\* The body of Write's loop.  A ring that refuses one item refuses the rest.
Put(r, item) ==
  IF Full(r) /\ ~enable_overwrite THEN r
  ELSE [buffer |-> [r.buffer EXCEPT ![r.write % N] = item],
        write |-> After(r.write),
        read |-> IF Full(r) THEN After(r.read) ELSE r.read]

Write(data) ==
  /\ ring' = FoldLeft(Put, ring, data)
  /\ answer' = <<(ring'.write - ring.write) % Words>>

\* The body of Read's loop.
Take(got, i) ==
  IF Empty(got.ring) THEN got
  ELSE [ring |-> [got.ring EXCEPT !.read = After(@)],
        data |-> Append(got.data, got.ring.buffer[got.ring.read % N])]

Read(btr) ==
  LET got == FoldLeft(Take, [ring |-> ring, data |-> <<>>], [i \in 1..btr |-> i])
  IN  ring' = got.ring /\ answer' = got.data

Peek(btp) ==
  LET n == IF btp < Occupied(ring) THEN btp ELSE Occupied(ring)
  IN  /\ answer' = [i \in 1..n |-> ring.buffer[((ring.read + i - 1) % Words) % N]]
      /\ UNCHANGED ring

PeekAt(n) ==
  /\ answer' = IF n >= Occupied(ring)
                 THEN <<>> ELSE <<ring.buffer[((ring.read + n) % Words) % N]>>
  /\ UNCHANGED ring

\* GetOccupiedSize, GetFreeSize, IsEmpty, IsFull.
Sizes ==
  /\ answer' = <<Occupied(ring), FreeSize(ring), Empty(ring), Full(ring)>>
  /\ UNCHANGED ring

Reset == ring' = [ring EXCEPT !.write = 0, !.read = 0] /\ UNCHANGED answer

RingNext ==
  /\ \/ \E data \in Bursts : Write(data)
     \/ \E n \in 0..MaxBurst : Read(n) \/ Peek(n) \/ PeekAt(n)
     \/ Sizes
     \/ Reset
  /\ UNCHANGED enable_overwrite

RingSpec == RingInit /\ [][RingNext]_ringVars

-----------------------------------------------------------------------------
(* Properties.                                                               *)

\* The indices never drift further apart than the ring can tell.
IndicesAgree ==
  /\ ring \in Rings
  /\ (ring.write - ring.read) % Words < N

\* Through every wrap of the array and of the indices the ring is a bounded
\* queue, and what the calls answer is what the queue would.
Unread == [i \in 1..Occupied(ring) |-> ring.buffer[(ring.read + i - 1) % N]]
Queue == INSTANCE ByteQueue WITH
           Room <- N - 1, overwrite <- enable_overwrite, queue <- Unread
ImplementsQueue == Queue!QueueSpec
=============================================================================
