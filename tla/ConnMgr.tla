------------------------------- MODULE ConnMgr -------------------------------
(***************************************************************************)
(* The connection pool of one worker of the multi_progress server:         *)
(* multi_progress/conn.c (conn_mgr_*, conn_reset, _conn_handle_err) and    *)
(* the accept path of multi_progress/server.c (_server_handle_listen).     *)
(*                                                                         *)
(* The pool is an array ptr of conn objects.  The first `used' of them     *)
(* serve a client, the rest are free for reuse.  A conn records its own    *)
(* position in ndx, so that an error callback, which is only given the     *)
(* conn, can find the slot; removal swaps the conn with the last used one. *)
(*                                                                         *)
(* A conn object is named by the order in which conn_new made it: conns    *)
(* 0 .. size-1 exist.  The code never frees one while the worker runs.     *)
(***************************************************************************)
EXTENDS Integers, FiniteSets

CONSTANTS Sock,      \* descriptors accept() can return
          MaxConns,  \* srv->max_conns
          Grow       \* the pool grows by this many conns (128 in conn.c)

NoNdx == -1          \* c->ndx of a conn that is in no used slot
NoFd  == -1          \* c->fd of a conn without a socket

ASSUME ConnMgrAssumption ==
    /\ MaxConns \in Nat
    /\ Grow \in Nat \ {0}
    /\ NoFd \notin Sock

VARIABLES
    size,     \* cm->size: allocated slots
    used,     \* cm->used: slots in use
    ptr,      \* cm->ptr: slot -> conn
    ndx,      \* conn -> its slot, or NoNdx
    fd,       \* conn -> its socket, or NoFd
    bev,      \* conn -> state of its bufferevent
    open      \* client sockets the worker holds open

poolVars == <<size, used, ptr, ndx, fd, bev, open>>

\* "null": never registered or bufferevent_new failed; "freed": the pointer
\* dangles, since conn_reset frees the bufferevent and leaves c->bev alone.
BevState == {"null", "live", "freed"}

Slots == 0 .. size - 1

InUse(c) == ndx[c] # NoNdx

------------------------------------------------------------------------------
\* conn_mgr_new: nothing is allocated before the first connection.
Init ==
    /\ size = 0
    /\ used = 0
    /\ ptr = [i \in {} |-> i]
    /\ ndx = [i \in {} |-> NoNdx]
    /\ fd  = [i \in {} |-> NoFd]
    /\ bev = [i \in {} |-> "null"]
    /\ open = {}

\* The size after conn_mgr_add_conn made sure of a free slot.
GrownSize ==
    IF size = 0 THEN Grow
    ELSE IF size = used THEN size + Grow ELSE size

\* f extended to the conns of the grown pool, new ones getting v (conn_new).
Extend(f, v) == [c \in 0 .. GrownSize - 1 |-> IF c \in Slots THEN f[c] ELSE v]

GrownPtr == [i \in 0 .. GrownSize - 1 |-> IF i \in Slots THEN ptr[i] ELSE i]

\* conn_mgr_add_conn(cm, s), where b is what conn_register_event leaves in bev.
conn_mgr_add_conn(s, b) ==
    LET c == GrownPtr[used]
    IN  /\ size' = GrownSize
        /\ ptr' = GrownPtr
        /\ ndx' = [Extend(ndx, NoNdx) EXCEPT ![c] = used]
        /\ used' = used + 1
        /\ fd' = [Extend(fd, NoFd) EXCEPT ![c] = s]
        /\ bev' = [Extend(bev, "null") EXCEPT ![c] = b]

\* Mutant: the socket is not closed.
conn_reset_NoClose(c) ==
    /\ bev' = [bev EXCEPT ![c] = "freed"]
    /\ open' = open
    /\ fd' = [fd EXCEPT ![c] = NoFd]

\* conn_reset(c): free the bufferevent, close the socket, forget the slot.
conn_reset(c) ==
    /\ bev' = [bev EXCEPT ![c] = "freed"]
    /\ open' = open \ {fd[c]}
    /\ fd' = [fd EXCEPT ![c] = NoFd]

\* conn_mgr_del_conn, the conn in the last used slot.
DelTail(c) ==
    /\ ndx[c] = used - 1
    /\ ndx' = [ndx EXCEPT ![c] = NoNdx]
    /\ ptr' = ptr

\* Mutant of the swap: the moved conn keeps its old index.
DelSwap_NoIndexFix(c) ==
    /\ ndx[c] # used - 1
    /\ ptr' = [ptr EXCEPT ![ndx[c]] = ptr[used - 1], ![used - 1] = c]
    /\ ndx' = [ndx EXCEPT ![c] = NoNdx]

\* conn_mgr_del_conn, any other: c changes places with the last used conn.
DelSwap(c) ==
    /\ ndx[c] # used - 1
    /\ LET last == ptr[used - 1]
       IN  /\ ptr' = [ptr EXCEPT ![ndx[c]] = last, ![used - 1] = c]
           /\ ndx' = [ndx EXCEPT ![last] = ndx[c], ![c] = NoNdx]

\* Mutant: the slot is reset after the swap instead of the conn.
conn_mgr_del_conn_ResetSlot(c) ==
    /\ InUse(c)
    /\ DelTail(c) \/ DelSwap(c)
    /\ used' = used - 1
    /\ size' = size
    /\ conn_reset(ptr[used - 1])

\* conn_mgr_del_conn(cm, c), for a conn that is in the array; on any other it
\* returns at once.
conn_mgr_del_conn(c) ==
    /\ InUse(c)
    /\ DelTail(c) \/ DelSwap(c)
    /\ used' = used - 1
    /\ size' = size
    /\ conn_reset(c)

------------------------------------------------------------------------------
\* Mutant: the limit is tested after one connection too many.
Full_Late == used > MaxConns + 1

\* _server_handle_listen.  When the pool is over the limit, or when accept
\* fails because another worker took the connection, nothing changes.
Full == used > MaxConns

server_handle_listen(s, b) ==
    /\ ~Full
    /\ s \notin open
    /\ conn_mgr_add_conn(s, b)
    /\ open' = open \cup {s}

\* _conn_handle_err: libevent reports end of file or an error on a conn's
\* bufferevent.
conn_handle_err(c) ==
    /\ bev[c] = "live"
    /\ conn_mgr_del_conn(c)

Next ==
    \/ \E s \in Sock, b \in {"live", "null"} : server_handle_listen(s, b)
    \/ \E c \in Slots : conn_handle_err(c)

Spec == Init /\ [][Next]_poolVars

------------------------------------------------------------------------------
\* The shape of the pool's state.
Shape ==
    /\ size \in Nat
    /\ used \in 0 .. size
    /\ ptr \in [Slots -> Slots]
    /\ ndx \in [Slots -> Slots \cup {NoNdx}]
    /\ fd  \in [Slots -> Sock \cup {NoFd}]
    /\ bev \in [Slots -> BevState]
    /\ open \subseteq Sock

\* Every used slot holds a conn that knows its slot, every free slot a conn
\* that knows it is free, a conn is found at the index it records, and no conn
\* sits in two slots: what lets conn_mgr_del_conn find and swap slots given
\* only the conn.
IndexConsistent ==
    /\ \A i \in 0 .. used - 1 : ndx[ptr[i]] = i
    /\ \A i \in used .. size - 1 : ndx[ptr[i]] = NoNdx
    /\ \A c \in Slots : InUse(c) => ndx[c] < used /\ ptr[ndx[c]] = c
    /\ \A i, j \in Slots : ptr[i] = ptr[j] => i = j

\* Sockets and conns in use correspond one to one: no accepted socket is lost
\* by the swaps of conn_mgr_del_conn, none is shared by two conns, and a free
\* conn holds none (conn_reset closed it).
SocketsOwned ==
    /\ \A c \in Slots : IF InUse(c) THEN fd[c] \in open ELSE fd[c] = NoFd
    /\ \A c, d \in Slots : InUse(c) /\ InUse(d) /\ fd[c] = fd[d] => c = d
    /\ \A s \in open : \E c \in Slots : InUse(c) /\ fd[c] = s

\* A conn with a registered bufferevent is in use, so the callbacks
\* _conn_handle_read and _conn_handle_err never get a returned conn.
CallbacksInUse == \A c \in Slots : bev[c] = "live" => InUse(c)

\* The test of the accept path, used > max_conns, admits one connection more
\* than max_conns and no further, and the pool allocates less than one growth
\* step beyond that.
Bounded ==
    /\ used <= MaxConns + 1
    /\ size < MaxConns + 1 + Grow

\* Slots, indices and counts of the pool stay in their ranges, with the limit
\* that the accept path enforces.
TypeOK == Shape /\ Bounded

\* Whatever clients come and go, the three tell the same: the slots and their
\* indices, the sockets and the conns that own them, the counts and the limit.
PoolConsistent == TypeOK /\ IndexConsistent /\ SocketsOwned

KeepsOthers ==
    \A c \in Slots : InUse(c) /\ InUse(c)' => fd'[c] = fd[c] /\ bev'[c] = bev[c]

\* Deleting or adding a connection leaves every other client's conn alone:
\* a conn that stays in use keeps its socket and its bufferevent.
SurvivorsUntouched == [][KeepsOthers]_poolVars
==============================================================================
