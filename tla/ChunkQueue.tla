----------------------------- MODULE ChunkQueue ------------------------------
(***************************************************************************)
(* A chunkqueue of multi_progress/chunk.c with the buffers of buffer.c, at *)
(* the level of its pointers: the list of chunks in use (head, tail), the  *)
(* list of reusable ones (unused), and the size arithmetic of the buffers. *)
(*                                                                         *)
(* The operations are those the connection code performs: a read appends a *)
(* chunk and fills it, _conn_process_read and _conn_write_response remove  *)
(* finished chunks, conn_reset empties the queue.  The loop of             *)
(* chunkqueue_remove_finished_chunks takes one step per iteration.         *)
(***************************************************************************)
EXTENDS Integers, FiniteSets, Sequences

CONSTANTS Chunk,      \* addresses malloc can return for a chunk
          NULL,
          Sizes,      \* byte counts a read delivers
          Block,      \* rounding of buffer_append (128)
          MaxUnused   \* reusable chunks kept (4)

ASSUME ChunkQueueAssumption ==
    /\ IsFiniteSet(Chunk) /\ NULL \notin Chunk
    /\ Sizes \subseteq Nat \ {0}
    /\ Block \in Nat \ {0}
    /\ MaxUnused \in Nat

VARIABLES
    alloc,        \* chunks that are allocated
    next, offset, \* fields of a chunk
    bused, bsize, \* used and size of its buffer
    head, tail, unused, unused_chunks,
    loop,         \* "idle", or inside the loop for "remove" or "reset"
    is_finished   \* the local of the loop

queueVars == <<alloc, next, offset, bused, bsize, head, tail, unused, unused_chunks,
               loop, is_finished>>

\* chunkqueue_new, and no chunk yet.
QueueInit ==
    /\ alloc = {}
    /\ next = [c \in Chunk |-> NULL]
    /\ offset = [c \in Chunk |-> 0]
    /\ bused = [c \in Chunk |-> 0]
    /\ bsize = [c \in Chunk |-> 0]
    /\ head = NULL /\ tail = NULL
    /\ unused = NULL /\ unused_chunks = 0
    /\ loop = "idle" /\ is_finished = FALSE

------------------------------------------------------------------------------
\* Mutant: the size is rounded down to a block.
grown_size_Down(u, sz, n) ==
    IF sz - u < n THEN LET less == n - (sz - u) IN sz + less - (less % Block)
    ELSE sz

\* buffer_append: the size of a buffer of size sz with u bytes used after room
\* was made for n more.
grown_size(u, sz, n) ==
    IF sz = 0 THEN n + (Block - (n % Block))
    ELSE IF sz - u < n
         THEN LET less == n - (sz - u) IN sz + less + (Block - (less % Block))
         ELSE sz

\* A fresh buffer, which has no memory yet, and the buffer of a chunk that is
\* allocated or is about to be.
buffer_new == [used |-> 0, size |-> 0]
mem(c) == IF c \in alloc THEN [used |-> bused[c], size |-> bsize[c]] ELSE buffer_new

chunk_new(c) == c \notin alloc /\ alloc' = alloc \cup {c}

\* chunk_free, and with it buffer_free.
chunk_free(c) == alloc' = alloc \ {c}

\* chunkqueue_get_unused_chunk: a fresh chunk when none is unused, otherwise
\* the first unused one, taken off its list.
get_unused_chunk(c) ==
    \/ /\ unused = NULL
       /\ chunk_new(c)
       /\ UNCHANGED <<unused, unused_chunks>>
    \/ /\ unused = c
       /\ c # NULL
       /\ unused' = next[c]
       /\ unused_chunks' = unused_chunks - 1
       /\ UNCHANGED alloc

\* Mutants: the chunk keeps its link into the unused list; the chunk goes to
\* the front.
append_chunk_Linked(c) ==
    /\ next' = IF tail # NULL THEN [next EXCEPT ![tail] = c] ELSE next
    /\ tail' = c
    /\ head' = IF head = NULL THEN c ELSE head

append_chunk_Front(c) ==
    /\ next' = [next EXCEPT ![c] = head]
    /\ tail' = IF tail = NULL THEN c ELSE tail
    /\ head' = c

\* chunkqueue_append_chunk, on a chunk whose next is NULL.
append_chunk(c) ==
    /\ next' = IF tail # NULL THEN [next EXCEPT ![c] = NULL, ![tail] = c]
                              ELSE [next EXCEPT ![c] = NULL]
    /\ tail' = c
    /\ head' = IF head = NULL THEN c ELSE head

\* _conn_handle_read and _cgi_handle_read: chunkqueue_get_append_chunk, then
\* buffer_append of the n bytes that were read.
get_append_chunk(c, n) ==
    /\ loop = "idle"
    /\ get_unused_chunk(c)
    /\ append_chunk(c)
    /\ bused' = [bused EXCEPT ![c] = mem(c).used + n]
    /\ bsize' = [bsize EXCEPT ![c] = grown_size(mem(c).used, mem(c).size, n)]
    /\ offset' = IF c \in alloc THEN offset ELSE [offset EXCEPT ![c] = 0]
    /\ UNCHANGED <<loop, is_finished>>

\* chunkqueue_remove_finished_chunks is called on the queue.
remove_finished_chunks ==
    /\ loop = "idle"
    /\ loop' = "remove" /\ is_finished' = FALSE
    /\ UNCHANGED <<alloc, next, offset, bused, bsize, head, tail, unused,
                   unused_chunks>>

\* for (c = p; c; c = c->next): where the links lead from p, one step per
\* index; NULL from the end of the list on.
Walk(link, p) ==
    LET at[k \in 0 .. Cardinality(Chunk)] ==
            IF k = 0 THEN p
            ELSE IF at[k - 1] = NULL THEN NULL ELSE link[at[k - 1]]
    IN  at

\* The list at p, front first; longer than Chunk when the links cycle.
ListFrom(link, p) ==
    LET at == Walk(link, p)
        len == Cardinality({k \in DOMAIN at : at[k] # NULL})
    IN  [k \in 1 .. len |-> at[k - 1]]

Elems(s) == {s[i] : i \in DOMAIN s}

\* Mutant: chunks are not marked as read before they are removed.
chunkqueue_reset_Unmarked ==
    /\ loop = "idle"
    /\ loop' = "reset" /\ is_finished' = FALSE
    /\ UNCHANGED <<alloc, next, offset, bused, bsize, head, tail, unused,
                   unused_chunks>>

\* chunkqueue_reset marks every chunk in use as read, then removes them.
chunkqueue_reset ==
    /\ loop = "idle"
    /\ offset' = [c \in Chunk |-> IF c \in Elems(ListFrom(next, head))
                                  THEN bused[c] - 1 ELSE offset[c]]
    /\ loop' = "reset" /\ is_finished' = FALSE
    /\ UNCHANGED <<alloc, next, bused, bsize, head, tail, unused, unused_chunks>>

\* The loop's test for a chunk that was read to its end.
Finished(c) == bused[c] = 0 \/ offset[c] = bused[c] - 1

\* Mutant: the limit on unused chunks lets one more in.
recycle_KeepMore(c) ==
    /\ head' = next[c]
    /\ tail' = IF c = tail THEN NULL ELSE tail
    /\ IF unused_chunks > MaxUnused
       THEN chunk_free(c) /\ UNCHANGED <<next, unused, unused_chunks>>
       ELSE /\ next' = [next EXCEPT ![c] = unused]
            /\ unused' = c
            /\ unused_chunks' = unused_chunks + 1
            /\ UNCHANGED alloc

\* Unlink the front chunk and free it or keep it for reuse.
recycle(c) ==
    /\ head' = next[c]
    /\ tail' = IF c = tail THEN NULL ELSE tail
    /\ IF unused_chunks >= MaxUnused
       THEN chunk_free(c) /\ UNCHANGED <<next, unused, unused_chunks>>
       ELSE /\ next' = [next EXCEPT ![c] = unused]
            /\ unused' = c
            /\ unused_chunks' = unused_chunks + 1
            /\ UNCHANGED alloc

\* The loop goes on: there is a front chunk, and it or one removed earlier in
\* this call was finished.
Removable == head # NULL /\ (is_finished \/ Finished(head))

\* The bytes are forgotten, the memory is kept.
buffer_reset(c) == bused' = [bused EXCEPT ![c] = 0]

chunk_reset(c) ==
    /\ offset' = [offset EXCEPT ![c] = 0]
    /\ buffer_reset(c)

\* One iteration of the loop.  is_finished is not cleared between iterations.
RemoveOne ==
    /\ loop # "idle"
    /\ Removable
    /\ is_finished' = TRUE
    /\ chunk_reset(head)
    /\ recycle(head)
    /\ UNCHANGED <<bsize, loop>>

\* The loop ends: the queue is empty or its front chunk is not finished.
RemoveDone ==
    /\ loop # "idle"
    /\ ~Removable
    /\ loop' = "idle" /\ is_finished' = FALSE
    /\ UNCHANGED <<alloc, next, offset, bused, bsize, head, tail, unused,
                   unused_chunks>>

QueueNext ==
    \/ \E c \in Chunk, n \in Sizes : get_append_chunk(c, n)
    \/ remove_finished_chunks
    \/ chunkqueue_reset
    \/ RemoveOne
    \/ RemoveDone

QueueSpec == QueueInit /\ [][QueueNext]_queueVars

------------------------------------------------------------------------------
InQueue == ListFrom(next, head)
Reusable == ListFrom(next, unused)

QueueTypeOK ==
    /\ alloc \subseteq Chunk
    /\ next \in [Chunk -> Chunk \cup {NULL}]
    /\ offset \in [Chunk -> Nat]
    /\ bused \in [Chunk -> Nat] /\ bsize \in [Chunk -> Nat]
    /\ {head, tail, unused} \subseteq Chunk \cup {NULL}
    /\ unused_chunks \in 0 .. MaxUnused
    /\ loop \in {"idle", "remove", "reset"} /\ is_finished \in BOOLEAN

\* Every allocated chunk is on exactly one of the two lists, once: the moves
\* between them leak none, free none that is linked, and make no cycle.  tail
\* is the last chunk in use, so the next append extends the list, and
\* unused_chunks counts the unused list.
ListsIntact ==
    /\ Elems(InQueue) \cup Elems(Reusable) = alloc
    /\ Len(InQueue) + Len(Reusable) = Cardinality(alloc)
    /\ IF InQueue = <<>> THEN tail = NULL
                         ELSE tail = InQueue[Len(InQueue)] /\ next[tail] = NULL
    /\ unused_chunks = Len(Reusable)

\* buffer_append never copies past the allocation of a chunk, be it fresh or
\* recycled with the size of an earlier use, and a chunk taken from the unused
\* list carries no bytes of that use.
BuffersSound ==
    /\ \A c \in alloc : bused[c] <= bsize[c]
    /\ \A i \in DOMAIN Reusable :
          bused[Reusable[i]] = 0 /\ offset[Reusable[i]] = 0

\* Both lists and the buffers of their chunks are sound, between and within the
\* calls of chunkqueue_append, chunkqueue_remove_finished and chunkqueue_reset.
QueueSound == QueueTypeOK /\ ListsIntact /\ BuffersSound

\* conn_reset hands the next client an empty queue.
ResetEmpties == [][loop = "reset" /\ loop' = "idle" => head = NULL]_queueVars

\* The comments at chunk.c:165 and 173 say that the chunks that leave are empty
\* or read to the end, and by chunk.c:42 an offset of 0 marks a chunk of which
\* not one byte was read.  So a chunk with bytes that the loop removes, other
\* than for a reset, should have an offset.  It need not: the only byte of a
\* chunk has the offset 0, and is_finished stays set for the chunks behind the
\* first that left.
OnlyReadLeave ==
    [][loop = "remove" /\ head' # head => bused[head] = 0 \/ offset[head] # 0]_queueVars

\* The pointers implement the queue of ChunkFifo.
Fifo == INSTANCE ChunkFifo WITH
            queue <- [i \in DOMAIN InQueue |-> [bytes  |-> bused[InQueue[i]],
                                                offset |-> offset[InQueue[i]]]],
            spare <- unused_chunks,
            sweeping <- is_finished
ImplementsFifo == Fifo!Spec
==============================================================================
