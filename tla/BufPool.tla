------------------------------- MODULE BufPool -------------------------------
(***************************************************************************)
(* The buffer pool (buf.rs): free lists of BytesMut buffers by size class, *)
(* and the tasks that take buffers from it.  A buffer is what capacity()   *)
(* says of it and whose bytes are in it.  Its user fills it, splits frames *)
(* off its front, lets it grow, and gives it back with or without clearing *)
(* it.  The memory behind a buffer, which a split does not release, is     *)
(* left out: the pool never looks at it.                                   *)
(***************************************************************************)
EXTENDS Naturals, Sequences

CONSTANTS
  Users,            \* tasks; each has at most one buffer
  Sizes,            \* SIZE_CLASSES, ascending
  MaxPoolPerClass,
  Requests,         \* values of min_size
  MaxCap            \* bound on what a buffer grows to

ASSUME SizesAssumption ==
  /\ Sizes \in Seq(Nat) /\ \A i, j \in 1..Len(Sizes) : i < j => Sizes[i] < Sizes[j]
  /\ MaxPoolPerClass \in Nat /\ MaxCap \in Nat
  /\ Requests \subseteq 0..MaxCap /\ \A i \in 1..Len(Sizes) : Sizes[i] <= MaxCap

Classes == 1..Len(Sizes)
Buffer == [cap : 0..MaxCap, bytes : SUBSET Users]

VARIABLES
  buckets,   \* [Classes -> the free buffers, last in first out]
  state,     \* [Users -> "none" or "taken"]
  buf        \* [Users -> the buffer it has]

bufVars == <<buckets, state, buf>>

\* BytesMut::with_capacity
WithCapacity(n) == [cap |-> n, bytes |-> {}]

\* class_for: the first class that is large enough, as a set of at most one.
ClassFor(size) == {i \in Classes : Sizes[i] >= size /\ \A j \in Classes : j < i => Sizes[j] < size}

\* Vec::pop
Popped(q) == [i \in 1..(Len(q) - 1) |-> q[i]]

ClearedNot(b) == b   \* (mutant) a free buffer is handed out as it is

\* buf.clear(): the bytes are gone, the capacity stays what it is.
Cleared(b) == [b EXCEPT !.bytes = {}]

\* get pops the class's last free buffer and clears it,
GetPooled(u, n) ==
  /\ state[u] = "none"
  /\ \E c \in ClassFor(n) :
       /\ buckets[c] # <<>>
       /\ buf' = [buf EXCEPT ![u] = Cleared(buckets[c][Len(buckets[c])])]
       /\ buckets' = [buckets EXCEPT ![c] = Popped(@)]
  /\ state' = [state EXCEPT ![u] = "taken"]

\* or allocates one of the size of the class, or of the size asked for when
\* no class is large enough.
GetNew(u, n) ==
  /\ state[u] = "none"
  /\ \/ \E c \in ClassFor(n) : buckets[c] = <<>> /\ buf' = [buf EXCEPT ![u] = WithCapacity(Sizes[c])]
     \/ ClassFor(n) = {} /\ buf' = [buf EXCEPT ![u] = WithCapacity(n)]
  /\ state' = [state EXCEPT ![u] = "taken"]
  /\ UNCHANGED buckets

\* put goes by the capacity the buffer has now; one that is too large for every
\* class, or whose class is full, is freed.  A dropped frame or frame reader
\* clears its buffer first; drain_and_close and raw_to_grpc do not.
Put(u) ==
  /\ state[u] = "taken"
  /\ state' = [state EXCEPT ![u] = "none"]
  /\ \E b \in {buf[u], [buf[u] EXCEPT !.bytes = {}]} :
       buckets' = [c \in Classes |->
                     IF c \in ClassFor(b.cap) /\ Len(buckets[c]) < MaxPoolPerClass
                     THEN Append(buckets[c], b) ELSE buckets[c]]
  /\ buf' = [buf EXCEPT ![u] = WithCapacity(0)]

\* The user writes into the capacity it has.
Fill(u) ==
  /\ state[u] = "taken" /\ buf[u].cap > 0
  /\ buf' = [buf EXCEPT ![u].bytes = @ \cup {u}]
  /\ UNCHANGED <<buckets, state>>

\* It writes more than that: BytesMut takes its whole allocation back, when nobody
\* holds what was split off it, or moves to another one.
Grow(u, n) ==
  /\ state[u] = "taken" /\ n > buf[u].cap
  /\ \E k \in n..MaxCap :
       buf' = [buf EXCEPT ![u] = [cap |-> k, bytes |-> @.bytes \cup {u}]]
  /\ UNCHANGED <<buckets, state>>

\* next_frame splits a complete frame off the front, which takes its capacity along;
\* what is left may be empty.
SplitTo(u, n) ==
  /\ state[u] = "taken" /\ buf[u].bytes # {} /\ n <= buf[u].cap
  /\ \E left \in {{}, buf[u].bytes} :
       buf' = [buf EXCEPT ![u] = [cap |-> @.cap - n, bytes |-> left]]
  /\ UNCHANGED <<buckets, state>>

BufInit ==
  /\ buckets = [c \in Classes |-> <<>>]
  /\ state = [u \in Users |-> "none"]
  /\ buf = [u \in Users |-> WithCapacity(0)]

BufNext ==
  \E u \in Users :
    \/ \E n \in Requests : GetPooled(u, n) \/ GetNew(u, n)
    \/ Put(u) \/ Fill(u)
    \/ \E n \in 1..MaxCap : SplitTo(u, n) \/ Grow(u, n)

BufSpec == BufInit /\ [][BufNext]_bufVars
-----------------------------------------------------------------------------
(* Properties *)

\* Every variable keeps its type.
BufTypeOK ==
  /\ buckets \in [Classes -> Seq(Buffer)]
  /\ state \in [Users -> {"none", "taken"}]
  /\ buf \in [Users -> Buffer]

\* The bytes in a buffer are those of the task that has it, whoever had it before
\* and however it was given back: no frame is made of another session's bytes.
OwnBytes == \A u \in Users : state[u] = "taken" => buf[u].bytes \subseteq {u}
=============================================================================
