------------------------------ MODULE ChunkFifo ------------------------------
(***************************************************************************)
(* The queue that the pointers of chunk.c implement: chunks are appended   *)
(* at the back, leave at the front, and at most MaxUnused of those that    *)
(* left are kept for reuse.  Which chunk object carries the bytes is not   *)
(* visible, only how many there are and how many were read.                *)
(*                                                                         *)
(* A sweep begins with a chunk that counts as read: one that is empty or   *)
(* whose offset is that of its last byte.  From then on every chunk leaves *)
(* until the queue is empty, read or not: this is what the code does, not  *)
(* what its comments say (see OnlyReadLeave in ChunkQueue).                *)
(***************************************************************************)
EXTENDS Naturals, Sequences

CONSTANTS Sizes,      \* the byte counts one read can deliver
          MaxUnused   \* chunks kept for reuse (4 in chunk.c)

VARIABLES queue,      \* bytes and offset of each chunk in use, front first
          spare,      \* number of chunks kept for reuse
          sweeping    \* a chunk counted as read, so all behind it leave too

fifoVars == <<queue, spare, sweeping>>

Init == queue = <<>> /\ spare = 0 /\ sweeping = FALSE

\* A read appends one chunk, of which nothing is read; a spare one is reused
\* when there is one.
Append_(n) ==
    /\ ~sweeping
    /\ queue' = Append(queue, [bytes |-> n, offset |-> 0])
    /\ spare' = IF spare = 0 THEN 0 ELSE spare - 1
    /\ UNCHANGED sweeping

\* Every chunk gets the offset of its last byte.
Mark ==
    /\ ~sweeping
    /\ queue' = [i \in DOMAIN queue |-> [bytes  |-> queue[i].bytes,
                                         offset |-> queue[i].bytes - 1]]
    /\ UNCHANGED <<spare, sweeping>>

CountsAsRead(c) == c.bytes = 0 \/ c.offset = c.bytes - 1

\* The front chunk leaves and is kept unless enough are spare.
Drop ==
    /\ queue # <<>>
    /\ sweeping \/ CountsAsRead(Head(queue))
    /\ queue' = Tail(queue)
    /\ spare' = IF spare >= MaxUnused THEN spare ELSE spare + 1
    /\ sweeping' = TRUE

\* A sweep ends when nothing is left.
Stop ==
    /\ sweeping /\ queue = <<>>
    /\ sweeping' = FALSE
    /\ UNCHANGED <<queue, spare>>

Next == Mark \/ Drop \/ Stop \/ \E n \in Sizes : Append_(n)

Spec == Init /\ [][Next]_fifoVars
==============================================================================
