------------------------------ MODULE Kmempool ------------------------------
(***************************************************************************)
(* kmempool (kavl/kmempool.c): fixed-size objects cut from chunks.  A      *)
(* freed object goes to a buffer and is handed out again before anything   *)
(* new is; chunks are given back only with the pool.  An object is the     *)
(* pair of its chunk and its place in it.  A call is one step.             *)
(***************************************************************************)
EXTENDS Integers, Sequences

CONSTANTS
  ChunkSize,   \* chunk_size, the objects in a chunk (0x10000)
  Step,        \* what the buffer grows by beside its half (16)
  MaxChunks    \* bound: no more chunks

VARIABLES
  t,           \* the pool, and the objects its client has (held)
  answer       \* there is no answer to compare: what was given is in held

vars == <<t, answer>>

Silent == [op |-> "none"]

(***************************************************************************)
(* kmp_init2 and kmp_add_chunk.  p is the next object of the last chunk.   *)
(***************************************************************************)
NewPool == [n_chunk |-> 1, p |-> 0, buf |-> <<>>, m_buf |-> 0, held |-> {}]

WithRoom(T) == IF T.p = ChunkSize THEN [T EXCEPT !.n_chunk = @ + 1, !.p = 0] ELSE T

(***************************************************************************)
(* The calls.                                                              *)
(***************************************************************************)
AllocBuffered_Kept ==
  /\ t.buf # <<>>
  /\ t' = [t EXCEPT !.held = @ \cup {t.buf[Len(t.buf)]}]
  /\ answer' = Silent

\* kmp_alloc of an object that was freed
AllocBuffered ==
  /\ t.buf # <<>>
  /\ t' = [t EXCEPT !.buf = SubSeq(@, 1, Len(@) - 1), !.held = @ \cup {t.buf[Len(t.buf)]}]
  /\ answer' = Silent

\* kmp_alloc of an object that is new
AllocNew ==
  LET T == WithRoom(t)
  IN  /\ t.buf = <<>>
      /\ T.n_chunk <= MaxChunks
      /\ t' = [T EXCEPT !.p = @ + 1, !.held = @ \cup {<<T.n_chunk, T.p>>}]
      /\ answer' = Silent

\* kmp_free, by the client that holds the object
Free(o) ==
  /\ o \in t.held
  /\ t' = [t EXCEPT !.m_buf = IF Len(t.buf) = @ THEN @ + @ \div 2 + Step ELSE @,
                    !.buf = Append(@, o),
                    !.held = @ \ {o}]
  /\ answer' = Silent

\* kmp_destroy, and kmp_init2 for another client
DestroyInit ==
  /\ t' = NewPool
  /\ answer' = Silent

Init == t = NewPool /\ answer = Silent

Next ==
  \/ AllocBuffered
  \/ AllocNew
  \/ DestroyInit
  \/ \E o \in t.held : Free(o)

Spec == Init /\ [][Next]_vars

-----------------------------------------------------------------------------
\* the objects ever cut from a chunk
Cut == {o \in (1..t.n_chunk) \X (0..(ChunkSize - 1)) : o[1] < t.n_chunk \/ o[2] < t.p}

Buffered == {t.buf[n] : n \in 1..Len(t.buf)}

\* An object has one owner: it is buffered once, or one client holds it, and
\* none is lost; what is buffered fits in the buffer.
ObjectsHaveOneOwner ==
  /\ t.p <= ChunkSize
  /\ Len(t.buf) <= t.m_buf
  /\ \A m, n \in 1..Len(t.buf) : t.buf[m] = t.buf[n] => m = n
  /\ Buffered \cap t.held = {}
  /\ Buffered \cup t.held = Cut
=============================================================================
