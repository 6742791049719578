# TLA+ models of donkeyji

donkeyji is a collection of small server programs and the libraries they grew
from, most of them in C.  This directory models the parts with state and
concurrency worth checking:

* **multi_progress**, a pre-forking CGI server: a master that keeps a fixed
  number of workers alive, workers that serve connections from a libevent loop;
* **mytimer**, a timer service: a binary heap of timers and a loop that sleeps
  until the next one is due and calls it;
* **cs/my_event**, an event library in the manner of libevent: the loop, and
  its buffers and buffered events;
* **cs/my_xy3**, a packet server on edge-triggered epoll, with its client, and
  the Lua functions that call each other through it;
* **mydb**, the data formats and remote calls of a database server;
* **mempool**, an allocator of cells of one size;
* **cgihandler**, the Python framework of FastCGI programs: requests, database
  transactions, sessions and uploads.

Contents: [inventory](#inventory), [modules](#modules-and-the-code-they-model),
[runs](#runs), [proofs](#proofs), [findings](#findings),
[facts about the code](#facts-about-the-code),
[what is left out](#what-is-not-modelled),
[plan](#plan).

## Inventory

State, operations and interactions of every part, the behaviour that is hard
to get right, and what makes the part correct.  `PROJECT.json` has the same
list with sources and status, and every hazard at its line.

### multi_progress (modelled)

| Part | State | Operations | What is hard | Correct when |
|---|---|---|---|---|
| master (`process.c`) | none but the process table and the signals the kernel and libevent hold for it | start the workers, SIGCHLD callback (`wait`, fork one), SIGINT/SIGTERM callback (kill the group, exit) | signals of one kind merge; `wait` blocks inside a callback; the child inherits undelivered signal counts; nobody waits for workers at shutdown | workers are neither lost nor multiplied; the server comes back after its last worker died; a shutdown reaches everybody |
| worker loop (`server.c`, `conn.c`) | one pool, per conn two chunk queues and a bufferevent; one pipe per CGI program | accept, read, error, CGI read and CGI error callbacks | callbacks keep pointers to conns that are swapped, returned and handed to another client meanwhile | a conn never mixes clients; a client that hangs up gets its slot released; no callback stops the worker |
| connection pool (`conn.c`) | array of conns, `used`, the index each conn keeps | add, delete by swap with the last, reset | the swap has to keep indices, sockets and bufferevents together over any sequence of calls | index and array agree; sockets and conns in use correspond; others are untouched |
| chunk queue and buffers (`chunk.c`, `buffer.c`) | two linked lists of chunks, a count, offset and size of each buffer | append, remove finished, reset | the same nodes move between the lists for the lifetime of a connection; unsigned sizes | no chunk is lost or linked twice; memory suffices; recycled chunks are empty |
| configuration, log, test client | none that matters | | | not modelled |

The master and the workers interact by fork, exit and signals only.  A worker
calls the pool, the pool resets queues, CGI programs reach a worker through
pipes.  A worker that hangs (module Worker) is a cause of an incomplete
shutdown (module MasterWorker).

### mytimer (modelled)

| Part | State | Operations | What is hard | Correct when |
|---|---|---|---|---|
| heap (`min_heap.c`) | array `p`, `n`, `a`, and in each timer its slot | push, erase, pop, top, reserve | erase in the middle may need either direction; growth at the boundary; slots must be right after every move | heap order, back pointers, top is least; it is a queue of timers |
| timer service (`timer.c`, `list.c`, `select.c`) | heap, list `tl` of due timers, list `ml` of all wrappers | `once_call`, `multi_call`, the loop, init, destroy | callbacks register timers and free their own wrapper while the list is walked; rounding in every round; failing pushes | never early; every wrapper in exactly one place; all timers are called; nothing unset is followed, nothing is freed twice |
| Lua binding (`ltimer.c`) | references to Lua functions | | | not modelled: to the service it is a callback that may register timers |

### cs/my_event and cs/my_xy3

| Part | State | Operations | What is hard | Correct when |
|---|---|---|---|---|
| event loop (`event.c`, `epoll.c`, `signal.c`) | inserted, active and signal queues, two counters, `ncalls`, two pointers for each descriptor, what epoll was told | `event_add`, `event_del`, the dispatch of epoll, the signal handler, the loop | a signal may arrive between the reading and the clearing of `evsigcaught`; callbacks delete events that are already active; one descriptor has two events and one registration | queues, flags and counters agree; pointers and epoll agree; no caught signal is lost except in the window of the clearing; a ready event and a signal are served |
| buffers (`buffer.c`) | memory, `misalign`, `off`, `totallen` | add, drain, align, expand | what was drained decides whether bytes are moved, the memory doubled, or both | bytes keep their order and lie inside the memory |
| buffered events (`evbuffer.c`, callbacks of `main.c`) | two events, two buffers, marks | read and write callbacks, write, read, marks, error callback | an event is taken away before its callback and added again by it, or not; each result of `recv` and `send` has its own way out | what is written gets out or the connection ends; nothing is lost in silence |
| packet buffer (`databuf.cpp`) | `_head`, `_tail`, `_left`, `_len` | append raw or as a packet, cut, take a packet, grow | space is kept in a field of its own while data moves | no copy leaves the buffer; what comes out is what went in |
| server (`server.cpp`, `op_epoll.cpp`) | `_clients`, `_count`, `_fpos`, `_fdCnt`, `_queue`, a read and a write buffer per client | accept, receive, send, leave, one event per round to the scripts | readiness is announced once; packets arrive and leave in pieces; host ids are given out again while events of the last owner are queued | the tables agree; the events of a host id are in order; packets are the ones that were sent |
| client (`client.cpp`, `main_c.cpp`) | connection state, two buffers | connect, send, receive | the same partial reads and writes | as the server |
| protocol (`proto_s.cpp`, `proto_c.cpp`, `arg.cpp`) | `_ptos`, a buffer per call | load a file, pack a call, unpack and call | two copies of nearly the same code; the number of a call is a position in a list that the other program may have cut short; `-1` and `0` for failure | every call that is packed whole arrives once, with its values, and is answered; nothing else is called |

The loop of `my_event` and the handler of its signals share `evsigcaught`; the
handler also writes to a socket pair, whose other end is an event of the loop.
Server and client of `my_xy3` share the buffer and the class `Client`.

The buffered events are what `EventLoop` makes of two events of a descriptor;
the protocol hands its packets to the server and the client.

### mydb (protocol and data formats modelled)

| Part | State | Operations | What is hard | Correct when |
|---|---|---|---|---|
| data formats (`data_format.c`) | the table of argument types, the operations of each table type | pack, unpack and describe numbers, strings, arrays and tables | encoders and decoders are separate code; widths change at 255 and 65535; tables nest | what is packed is unpacked |
| remote calls (`protocol.c`) | `_s_protos`, `for_maker`, `for_caller`, counters | load, add, update, pack, send, unpack, check id | a load can fail in several places after it had effects; updates delete objects that closures point to | slots hold whole protocols under their number; functions pack for the slot they are named after; equal check ids mean equal layouts |
| buffers and server (`buf.c`, `db_svr.c`) | | | | not modelled |

### mempool (modelled)

State: the list of blocks, and in each the number and the first of its free
cells; the cells themselves hold the rest of the chain.  Operations:
`allocMem`, `freeMem`.  Hard: a block that is moved to the front takes over
the successor of the old front, which leaves the list with its cells; the last
number of a chain is never written.  Correct when no cell is handed out twice
and nothing unwritten is followed.

### cgihandler (modelled)

| Part | State | Operations | What is hard | Correct when |
|---|---|---|---|---|
| requests (`cgi_fcgi.py`, `cgiext_jon.py`) | header and page finished, the exception on its way | the hooks of `real_process`, pages, `exception_handle` | anything may raise, after any part of the page was sent | the browser gets one header and one answer |
| database (`database.py`) | `_trans`, the connection, which outlives requests | begin, modify, query, commit, roll back, `Transaction.__del__` | errors between MySQL and `_trans`; two Transaction objects on one connection | no work of a request is committed by another, and none in part; a Transaction has a transaction behind it |
| sessions (`cgi_session.py`, `cgi_share_session.py`) | files or rows with age, the browser's cookie and its pages | create, check, update, remove | several log-ins in one browser, expiry, other processes | a request acts for the user who made the page it comes from |
| uploads (`upload_session.py`) | saved files and made directories | save, roll back in `__del__` | the clean-up stops at the first thing it cannot remove; not every exception of a save is caught | nothing of a failed upload stays but what the system refuses to remove; the result says whether it failed |

### Not modelled

`rank` (a sketch that does not compile), `server_maps` (does not compile as
committed; half of it is generated), `aoi` (a sketch without the notifications
it is about), `mydb/buf.c` and `db_svr.c` (`db_init` always ends by freeing what
it made and returning -1).
Also not: `cs/my_enet`, `cs/libevent_test`, `cs/hgd`, `webx` (sketches and
trials of libraries, most functions empty), `lua_framework`, `lua_import`,
`mylog`, `mod` (glue, module loading, text output), `cpp`, `c_oop`,
`google_proto`, `py_proto`, `Test` (exercises), `stat`, `tools`, `setup`,
`shell`, `data`, `wiki`, `my_note` (scripts, vendored code, notes).

## Modules and the code they model

```
ChunkFifo  <--implements--  ChunkQueue <-- ChunkQueue_proofs
                                |                       chunk.c, buffer.c
                                | (as RemoveFinished)
ConnMgr    <----INSTANCE---  Worker <-- Worker_proofs   conn.c, server.c
   ^                            | (a hung worker)  |
ConnMgr_proofs <----------------|--INSTANCE--------+
                             MasterWorker <-EXTENDS+    process.c

TimerQueue <--implements--  MinHeap  <-- MinHeap_proofs min_heap.c
   ^                           ^             |
   |                        MCMinHeap        | (symmetry set)
   +---------INSTANCE------  Timer <-EXTENDS-+          timer.c, list.c, select.c

EventLoop  <---EXTENDS-----  EventLoop_proofs           event.c, epoll.c, signal.c

Evbuffer   <---EXTENDS-----  Bufferevent <---+          buffer.c, evbuffer.c, main.c
                                             | EXTENDS
                                     HostServer_proofs
                                             | EXTENDS
DataBuf    <---EXTENDS-----  HostServer <----+          databuf.cpp, server.cpp,
                                                        op_epoll.cpp, client.cpp

ProtoSlots  <--EXTENDS---+                              protocol.c (loading)
                         |
PackedBytes <--EXTENDS---+-  RemoteCalls <-+            protocol.c (calls)
     ^                                     |
     +------ DataFormat <----EXTENDS-------+-  Protocol data_format.c, protocol.c
                                                  ^
                             MCProtocol ----------+

XyProto                                                 proto_s.cpp, proto_c.cpp, arg.cpp

Allocator  <--implements--  MemPool  <-- MemPool_proofs --EXTENDS--> RemoteCalls
                                                        memorypool.cpp

CgiDatabase, CgiSession, CgiUpload                      database.py, cgi_session.py, ...
           <---INSTANCE----  CgiHandler                 cgi_fcgi.py, cgiext_jon.py
                                ^
                 MCCgiHandler, CgiHandler_proofs

MCRequests:  ConnMgr | ChunkQueue | MCCgiHandler        side by side, for TLC
MCServices:  Worker | MasterWorker | Timer
MCProtocols: MCProtocol | MemPool | XyProto
```

A module `X_proofs` holds the theorems about `X`.  Four of them extend a second
component and hold its theorems too: Worker_proofs those of MasterWorker,
MinHeap_proofs those of Timer, HostServer_proofs those of Bufferevent (both have
buffers that grow by doubling), and MemPool_proofs those of ProtoSlots and RemoteCalls.  So that
both can be extended, one of the components prefixes what every specification
has: its next-state relation is `MasterNext`, `TimerNext`, `BevNext`, `QueueNext`,
`HeapNext`, `CgiNext`, `SlotsNext` or `CallsNext`, and likewise for the others.

The last three modules put components side by side that do not interact, so that one
run checks several.  A behaviour is of one of them, chosen at the beginning, and the
others stay at one of their initial states: the states of such a run are the sum
of those of its parts, not the product, and nothing is claimed of the parts together.

Operators keep the names of the functions they model; leading underscores are
dropped.  A definition whose name is that of another one with a suffix
(`conn_reset_NoClose`) is a mutant: a plausible mistake in that code, used to
see that the property it is listed with in `PROJECT.json` notices.

### ConnMgr

Variables are the fields of `struct conn_mgr` (`size`, `used`, `ptr`) and, as
functions on conns, those of `struct conn` (`ndx`, `fd`, `bev`).  Conns are
numbered in the order `conn_new` makes them and are never freed while the
worker runs.  `open` is the set of client sockets the kernel holds for the
worker, which the code keeps nowhere: it is what tells a socket that leaked
from one that was closed.  Two actions change the pool:
`server_handle_listen` (with `conn_mgr_add_conn` and `conn_register_event`;
`bufferevent_new` may fail, which the code ignores) and `conn_handle_err`
(with `conn_mgr_del_conn` and `conn_reset`).  `conn_mgr_free` and `conn_free`
are never called.

### ChunkQueue and ChunkFifo

ChunkQueue has the pointers: `next` of every chunk, `head`, `tail` and
`unused`.  The loop of `chunkqueue_remove_finished_chunks` takes one step per
iteration, with `is_finished` as in the code, set before the loop and not for
each chunk.  `grown_size` is the arithmetic of `buffer_append`.  Bytes are
counted, their values are not kept.  ChunkFifo is the queue that this
implements: chunks with their bytes and offsets, and a number of spare ones.  A
sweep starts only with a chunk that counts as read (`CountsAsRead`) and then
takes everything behind it, read or not.  That is the code's behaviour and not
what its comments ask, which is `OnlyReadLeave` (see [findings](#findings)).
The refinement mapping follows the links from `head`.

### Worker

One worker with clients that connect, send and hang up, and CGI programs that
write and exit.  It contains ConnMgr as `Pool` and adds the queues of each
conn.  A chunk is its number of bytes together with the client whose request
it belongs to, so that bytes of one client found with another are visible.
Chunk queues are sequences here: ChunkQueue shows that the pointers behave like
one, and `RemoveFinished` is its loop for chunks whose offset is 0, which all
are because no code in the worker ever advances an offset.
`conn_handle_read` is one action, as the callback runs without interruption:
read, remove finished, parse (fork the CGI program), write.  When the write
loop does not end, `hung` is set and no callback is called any more.  A
connection whose `bufferevent_new` failed (`bev` is `"null"`) stays in the pool
and has no callbacks.

### MasterWorker

Processes are counted by kind: `idle`, `told` (a SIGINT is on its way),
`stuck`, `zombies`, and `rogue` for CGI children whose `execve` failed and
which then run on as workers.  A signal to the master is pending (at most one
of a kind), then caught (libevent's handler counts it), then a callback still
to be called; the handler may run between any two steps, the callbacks only in
the loop.  `sig_callback_chld` and what follows it are four actions
because `wait` can block and signals arrive in between.  libevent is not in
the repository; it is modelled from how `process.c` uses it: handlers restart
system calls and callbacks are called in the order of signal numbers.

### MinHeap and TimerQueue

MinHeap takes a step for each iteration of `min_heap_shift_up_` and
`min_heap_shift_down_`, with the element in hand and the hole in the array, so
that the invariants of the loops can be stated and proved.  TimerQueue is what
`timer.c` needs: a set of timers with their time left, that are added, removed
and aged together.  Aging all elements by the same amount is safe for a heap,
which is part of what is checked.

### Timer

The loop of `timer_loop`: sleep (`Sleep`), subtract the time slept
(`timer_update_all`), move due timers to `tl` (`Expire`), call them (`Call`,
`MultiReturns`, `OnceReturns`).  In the callback (`at = "call"`) any timer may
be registered.  The clock is finer than the microseconds of the code: `phase`
is the remainder, and both the conversion of a request and each clock reading
round down as the code does.  `served` is a history variable of the property
NeverEarly.  An access through the pointer `m_list_insert` leaves unset ends
in `at = "wild"`, a second free in `at = "doublefree"`; nothing happens after
that.  The safety properties say nothing special of these: they hold up to that
point, and that `"wild"` is reached at all is a finding.  `orderly`, chosen at the
beginning, is the condition under which `Fires` is stated: such a program registers
nothing while a once timer waits, so that a once timer that returns is at the head
of `ml`.

### EventLoop

An I/O event is a descriptor with a direction.  `slot` stands for the pointers
`evread` and `evwrite` of `epollop->fds`, `watched` and `mask` for what the
kernel was told: `epoll_add` and `epoll_del` choose between ADD, MOD and DEL
from the pointers and do not look at the answer, so the two may come apart.
One round of the loop is `WaitReturns` or `WaitInterrupted`, the processing of
signals, `Collect` for each descriptor that was reported, then `CallFirst` for
each active event and `CallAgain` for the further calls of the signal's.  `evsignal_handler` may run between any two of these.
`evsignal_activate` and `evsignal_clear` are separate steps for that reason:
`late` counts the signals between the reading of `evsigcaught` and its
clearing, which the code forgets.  `evsignal_cb` reads all the bytes of the
socket pair whatever was counted meanwhile; `SignalServed` is therefore about
signals that come when no such call is due (`Draining`), and those that come then
may wait for the next signal.  While a callback runs (`pc = "call"`) events
are added and deleted, the one that is running and those still to be called
among them.  The `timeval` that the loop hands to `epoll_wait` is not
initialised, so a wait may end without anything at any time.  The `timeout`
queue is left out: nothing takes events from it, as `timeout_process` is empty.

### HostServer and DataBuf

DataBuf has the operations of `DataBuf` on a record of its fields, with the
bytes between `_head` and `_tail`.  A step of HostServer is one descriptor of a
round, one packet taken out of a read buffer, the end of a descriptor's turn
with the departure of the client, or `doRead` with its one event.  Only one
event is handed to the scripts in each round, so the queue may hold the LEAVE
of one client and the NEW and the packets of the next for the same host id;
`EventsInOrder` says how far that may go.  The kernel is modelled where it
matters: sockets as byte sequences in each direction, edges (`edge`) that are
reported once, `recv` of `RecvMax` bytes, `send` of a part, and what becomes of
a `send` to a program that was killed (`link`): the first is swallowed, the
answer of the dead host arrives later, the next raises SIGPIPE, for which
the server has no handler (`pc = "killed"`).  The script is `s_test`, which
answers a packet with the same arguments.  Of the fields of `EpollOp`, `_rt` is
commented out in `op_epoll.h` but used by `op_epoll.cpp` and `server.cpp`; the
model has the behaviour of those two files.  `shutDown`, which `startUp` calls
first, pops the empty `_queue` (`server.cpp:85`).  This is undefined; with the
deque of libstdc++ the front is then one past the end, so that the next event
pushed is never read.  That event is the NEW of the first connection: it is
alone in its round, and `doRead`, which finds nothing, follows where the model
takes it off the queue and does nothing with it.  From there on the states are
the same.

### Evbuffer and Bufferevent

Evbuffer has the operations of `buffer.c` on a record of the memory's cells,
`misalign` and `off`; bytes are moved, aligned and copied cell by cell, so that
a byte that is lost or repeated shows.  Bufferevent is a connection of
`main.c`: `bufferevent_readcb` and `bufferevent_writecb` split by what `recv`
and `send` return (`ReadSome`, `ReadAgain`, ...).  The bytes of each direction
are numbered, so that order and completeness are statements about sequences.
Two facts decide what can be promised: `evbuffer_setcb` is empty, so a read
that stopped at the high mark is resumed only by `bufferevent_setwatermark`;
and `evbuffer.c:83` compares the mark of writing after a read (`Pauses`).
`Scheduled` therefore speaks of reading without a mark.

### PackedBytes, DataFormat, ProtoSlots, RemoteCalls and Protocol

DataFormat has the bytes.  A byte has 16 values in the run, so that strings of
the long form and numbers of each width stay small; the operators are written
for any `Byte`.  `lua_number2int` makes an int of a number before it is packed:
`Wraps` says whether the build takes it modulo the width of an int or gives the
least int, the two things the conversions of Lua do.  A pack that fails is the
empty sequence.  PackedBytes is what
the formats and the calls both need of a buffer.

ProtoSlots has the
objects ever made (`objs`), the slots that point to them, and which of them a
function in `for_caller` still points to, because `update_protocol` deletes
objects that closures hold.  `load` says how each file ends, including the
errors that leave by a jump of Lua past the clean-up.  What is read of the
arguments is a parameter of its operations (`list`).

RemoteCalls extends ProtoSlots with table types, packing, sending and
unpacking.  What an argument is and how it becomes bytes are its constants
(`ReadType`, `ReadList`, `PackArg`, `UnpackArg`, `CutArg`), because table types
nest and the formats are RECURSIVE operators, in a module that no theorem may
reach.  `FormatsAgree` is what it asks of them.  `pack` drops the receivers that cannot
be reached and those that do not fit behind the arguments; `send_pack_data`
sends the string that a script got from `pack_protocol` to whatever `Vfd` the
script names (`Vfds`), as `protocol.c:566` checks neither, so a packet records
whether `pack` chose its receivers (`chosen`).  Protocol extends RemoteCalls and DataFormat, and
has what takes the text of files apart (`arglist_proc`, `NewTable`) and the
check id; `Protocols.cfg` gives the constants of RemoteCalls these operators.  A packet carries what
was packed and from what, for `Delivered`.

The sources as committed do not
compile (string constants and braces are broken over lines) and
`db_buf_alloc_pack` has its body commented out; they are modelled as they read,
with a buffer of `MAXTONETD` bytes.  A failed assertion ends the model
(`aborted`).  `calc_hashnr` has no collisions.  The text it is given is a
sequence of the parts that names are written of (`Spelling`), with no border
between a name and the type behind it, as the code appends them.  The fields of
tables are of base types, as `data_format.c:462` says of them.

### XyProto

A server and clients load the same files in the same order; a client may know
only the first few.  `marshal` adds up what the arguments return, -1 included,
as the code does: a number that is zero is refused, the next argument begins one
byte earlier, and the number of the call may be overwritten.  Each packet keeps
the call it was packed for (`of`).  String arguments read an unset length and
return nothing, which ends the model (`undefined`).

### MemPool and Allocator

`chain` is the list of blocks, `blocks` their memory with the numbers in the
cells, `lost` the blocks that dropped out of the list.  The number in the last
cell of a new block is any of `Garbage`.  Allocator is the promise: a cell that
is handed out is one nobody has.

### CgiHandler, CgiDatabase, CgiSession and CgiUpload

The three small modules have the operations of one file each as sets of
outcomes: the state after it and what it raised.  CgiHandler is one process
that answers requests one after the other: `stage` is the hook that comes next,
`exc` the exception on its way.  Applications override `handle_request`, so
the model calls any of the operations there, a bounded number of times, each
with all its outcomes.  An error of MySQL is passed on or caught by the
application; it may be one with which MySQL ends the transaction, of which the
object knows nothing (`Refused(RolledBack(d))`).  A row is recorded with the
transaction the object takes it to belong to (`RowOf`), whether or not the
server has one.  What a handler holds is deleted when `process` returns
(`DropLocals`), after the error page; of an upload one removal, any, may be
refused by the system (`DropUpload`), and `safe_save` has the exceptions it
catches (`failed_session`) and those it does not (`NotCaught`).  Time and the other processes of the pool
age and remove sessions (`Others`).  `jar` and `tabs` are the browser: one
cookie, and the pages it still shows, each with the `sid` it was made with.

## Runs

| Run | Module | States | What it shows |
|---|---|---|---|
| `requests` | MCRequests | 1,642 thousand | *connections*: every order of accepts and errors on a pool that grows twice: `PoolConsistent` (bounds, indices, sockets); no step touches another client's conn (`SurvivorsUntouched`).  *chunks*: lists, ends, memory and recycled chunks (`QueueSound`), `ResetEmpties`; refinement of ChunkFifo (`ImplementsFifo`).  *cgi*: `OneAnswer`, `WorkContained`, `UploadUndone`, `RightUser` |
| `services` | MCServices | 293 thousand | *worker*: what is read from a client stays with it (`ReadsIsolated`), slots and CGI bufferevents are released (`Released`).  *master*: workers are neither lost nor multiplied, no `wait` without a dead child unless one was stopped, no merged signal without a death (`WorkersAccounted`); `NeverDiesOut`, and the server `Revives`; a shutdown reaches all that can react (`ShutdownReaches`).  *timer*: `NeverEarly`, one place for each wrapper and a clean return (`OnePlace`), every timer is called (`Fires`) |
| `minheap` | MCMinHeap | 365 thousand | heap order, back pointers and array bounds (`HeapSound`); refinement of TimerQueue with the least timer on top (`ImplementsQueue`) |
| `eventloop` | EventLoop | 120 thousand | queues, counters, pointers and epoll (`TablesSound`), signals from handler to callback and a read of the pair that never blocks (`SignalsSound`); ready events and signals are served (`EventServed`, `SignalServed`) |
| `bufferevent` | Bufferevent | 402 thousand | bytes stay in order through every move of the buffers and none is dropped in silence (`BytesKept`), the events wait for what there is to do (`Scheduled`), the mark holds (`MarkKept`), what is written gets out (`WriteEnds`) |
| `hostserver` | HostServer | 490 thousand | tables (`TablesAgree`), order of events for reused host ids (`EventsInOrder`), requests and answers over partial reads and sends (`PacketsWhole`), hang-ups that are announced as such (`HangupNoticed`) |
| `protocols` | MCProtocols | 700 thousand | *mydb*: slots and numbers after failed loads and updates (`SlotsSound`), the objects functions pack for (`CallsOwned`), unpacking of what was packed at the limits of each type, and receivers that can be reached (`Delivered`).  *pool*: list, cells and chains of every reachable pool (`PoolSound`); refinement of Allocator (`ImplementsAllocator`).  *xy3*: what is packed whole arrives (`CallsArrive`) |
| `chunk_unread` | ChunkQueue | | violates `OnlyReadLeave` |
| `timer_unlink` | Timer | | violates `UnlinksDefined` |
| `protocol_checkid` | MCProtocol | | violates `CheckedLayout` |
| `xy_refused` | MCProtocols | | violates `OnlyCallsMade` |
| `cgi_result` | MCCgiHandler | | violates `ResultTells` |

The last five check one property each, which a comment of the code asserts and the
code does not keep; see [findings](#findings).

### Bounds

* `requests`, connections: `MaxConns = 3` admits four conns, `Grow = 2` makes the pool
  grow from empty and again; five sockets, so one is always left over.  Deletion of
  the first, a middle and the last slot all occur.
* `requests`, chunks: four chunks with `MaxUnused = 2`, so that a chunk is kept for
  reuse, is freed because two are kept, and both lists are long enough for
  head, middle and tail to differ.  Sizes 1, 4 and 5 with blocks of 4 are below,
  on and above the block.
* `requests`, cgi: two requests with four calls on the database, so that a transaction
  left open by the first meets the second; two with three calls on uploads of
  two names into a directory or one inside it; three with two calls on
  sessions, with two log-ins of two users.  An application is about one of the
  three, because their states are independent.
* `services`, worker: three clients on at most two conns, so a conn is used again by
  another client while a CGI program of the first is running; two requests;
  reads of one byte (finished at once) and two (kept).  Outputs have one byte:
  the first chunk of two or more ends a worker (`hung`, see `conn.c:306` below), and
  with it everything the properties speak of.
* `services`, master: two workers as in the code, three deaths (more than workers), one
  stop, two outside SIGINTs, one failed `execve`, two failed forks.
* `services`, timer: two wrappers, two nanoseconds to the microsecond, requests up to
  four, a sleep up to two longer than asked, callbacks that take up to one,
  three registrations, so that a wrapper is used again; programs that are `orderly`
  and others.
* `minheap`: six timers give three levels, and an erase whose replacement has
  to go up needs that many; times 0 to 2 with ties, aged down to -2; the array
  grows from 2 to 4 to 8 slots.  Timers are interchangeable and used as a
  symmetry set; no liveness is checked in that run.
* `eventloop`: a listening descriptor and one client descriptor with both
  directions, so that two events share one registration, next to the socket
  pair; two signals, so that one can arrive while the other is counted,
  cleared, waiting as an active event or being called.
* `bufferevent`: three bytes come and four go, in calls of at most two, with a
  first size of two cells: the memory is doubled twice, and aligned instead of
  grown when bytes were drained before.  The kernel takes two bytes.  Marks are
  0 and 2, so that one read in two reaches the mark.
* `hostserver`: three programs on two positions, so that one is refused or a
  host id is used again; two packets among all programs.  A packet has three
  bytes, two of them header; buffers of three bytes, `recv` of two and sends
  that may stop after two cut every packet, make the read buffer grow and the
  write buffer refuse.  `HidLimit = 1` is the greatest host id; the limit of
  1024 in `doSend` against up to 3600 positions is not a case of this
  run.  Programs are alike and start in the order of their numbers.
* `protocols`, mydb: a process keeps at most two loaded protocols besides slot 0, both
  together three; one table type; one packet under way.  That is enough for an
  update to replace the only owner of a function and for a failed load between
  two good ones.  Values lie at the limits of the encodings: strings of 14 and
  15 bytes, numbers up to one that an int does not have (65535, where a byte has 16
  values; all numbers of four bytes are read back in the assumption `MCNumbers`), an array of more than a byte's worth of elements, a table with a
  field missing.  `Vfds` is one receiver that cannot be reached, next to one that can.
* `protocols`, pool: three blocks of two cells: the third can be moved past one that
  stays, which is where the list loses a block.  `Garbage` has a number inside
  a block and one outside.
* `protocols`, xy3: two clients that loaded all of the four files or fewer, and two
  calls; a call for the server, its answer, a call longer than the buffer of eight
  bytes, and one without arguments.  The numbers are 0, which `marshal` refuses, 1 and
  3: when the refused one is first, 3 is written over the number of the call.

Deadlock is not checked where the program may stop: a pool (or worker) whose
clients are all connected and silent, a master and workers that wait for
signals, a timer loop that sleeps with an empty heap, an event loop without
events, a packet server in `epoll_wait` or killed, a connection that was
freed, protocols whose bounds are used up, a pool without places for blocks, a
CGI process that is gone.  `minheap` checks it.

### Fairness

* Worker: a callback that stays ready is called (weak fairness of each
  callback): every round of `event_dispatch` serves all active events, and all
  have the same priority.  Nothing is assumed of clients and CGI programs.
* MasterWorker: the kernel runs the master and delivers pending signals, and a
  worker that has a signal and is in its loop handles it.  Deaths, stops,
  hangs and forks of CGI children are never owed.
* Timer: the thread runs and callbacks return (weak fairness of `LoopStep`).
  In addition a sleep that lasts long enough for the clock to show it happens
  again and again if it always can (strong fairness): without it a model with
  timers of zero microseconds could loop for ever while no time passes, which
  a real clock does not allow.
* EventLoop: the thread runs, callbacks return, and `epoll_wait` returns when
  something it waits for is ready (weak fairness of both).  Nothing is assumed
  of the descriptors, of signals, or of the waits that end early.
* Bufferevent: the loop runs and calls what is active (weak fairness), a
  `send` that may be tried again and again takes something at some time or
  fails (strong fairness: `EAGAIN` for ever would mean a kernel that reports
  room it does not have), and the peer reads or resets.
* HostServer: the server's thread runs.  Nothing is assumed of the programs.

`services` assumes the fairness of all its parts.  Of a part that stays as it begins it
asks nothing: no callback of the worker is ready, `timer_loop` was not called,
and the conditions on the master are on its steps in its own behaviours
(`service = "master"`).

## Proofs

`tlapm` checks every theorem for all values of the constants, from the named
assumption of each module: `ConnMgrAssumption`, `ChunkQueueAssumption`,
`WorkerAssumption`, `MasterWorkerAssumption`, `MinHeapAssumption`,
`TimerAssumption`, `EventLoopAssumption`, `MinLenAssumption`,
`BuffereventAssumption`, `DataBufAssumption`, `HostServerAssumption`,
`PoolAssumption`, `ByteAssumption`, `RoomAssumption` and `CgiHandlerAssumption`.  They say
that limits, times and amounts are naturals, that growth steps, blocks, reads and
the resolution of the clock are positive, that the values that mean "none" are
not elements, and that the events of the loop are distinct.  Four say more: a
byte has at least ten values (the head of a number is at most 9), the
chunks that can be allocated are finitely many, blocks of the memory pool
are smaller than 2^16 bytes, and the packets of HostServer have 1 to 100 bytes, which is
what `Pto_c::pack` makes.  TLC evaluates the same assumptions in the runs.

**ConnMgr_proofs.** The conjunction `IInv` of all invariants of the pool is
inductive (`PoolInvariant`), none of its parts is: removal finds the conn
through `ndx`, so that sockets stay unique needs the indices right, and that
the conn swapped away still has its index needs `ptr` injective.  The proof
has one step for each action and under it one for each conjunct; growth is
dealt with once, in `GrownFacts`; `AddFacts` and `DelFacts` say what an
addition and a removal do to the pool, and `AcceptIInv` and `ErrIInv` that the
two actions keep the invariant.  From it follow `TypeCorrect` (`TypeOK` is the
types, `Shape`, with the bound, `Bounded`), `IndexCorrect`, `SocketsCorrect`,
together `PoolCorrect`, further `CallbacksCorrect`, `PoolBounded` and, for the
action property, `SurvivorsCorrect`.

**ChunkQueue_proofs.** The invariant is stated about sequences: `Chain(link, s,
p)` says that the links lead from `p` through the elements of `s`, each met
once, to `NULL`; `Lists` that `head` and `unused` start two such chains, which
share nothing and make up the allocated chunks.  `OneWalk` and `ListIs` show
that the recursive `ListFrom` of the model yields exactly this `s`: the equation
of the recursion has one solution on a chain, as a least place where two
solutions differ cannot exist (`LeastElement`).  The lemmas
`ChainPush`, `ChainTail`, `ChainAppend` and `ChainFrame` are the four things the
code does to a list; `Appended`, `Taken` and `Removed` put them together for
each operation.  `Bytes` gives every chunk in use a byte, which is what keeps
the offset that `chunkqueue_reset` stores from wrapping; `Marked` says that
a reset has finished every chunk before it removes the first.  From
`QueueInvariant` follow `QueueCorrect`, `ResetCorrect` and, step by step, the
refinement `QueueImplementsFifo`.

**Worker_proofs.** The accept and the error callback of the worker are the pool's
operations (`SameListen`, `SameErr`), all other steps leave the pool alone
(`StepUsesPool`); so what ConnMgr_proofs shows of the pool on its own holds in the
worker (`PoolStaysSound`).  This saves the
worker's invariant `IInv` any word about indices.  Its part `Isolated` says that
every chunk of a `read_q` came from the client the conn serves, and is inductive
beside the pool's invariant (`WorkerInvariant`).  The step that needs both is the error
callback, where the conn of another slot moves and the queues of the returned one
are emptied; `LiveServes` says that a conn with callbacks is in the pool, also after a
`bufferevent_new` that failed.  `ReadsCorrect` follows.

**Worker_proofs, the master.** `MasterInv` is `MasterTypeOK` with `Conservation`,
which is inductive (`InvCorrect`); `AccountsCorrect` puts the parts of
`WorkersAccounted` together.  `WaitFindsTheDead` and `UnseenDeathsMerged`, the
parts of `DeathsSignalled`, are inductive relative to it: each action changes both sides of the inequality
alike, and the merged signals are counted where one is lost.  `NeverDiesOut`
is the result of interest, and is inductive relative to `MasterTypeOK` and
`Conservation`: the death of the last worker raises a SIGCHLD, which stays
pending, counted or owed to a callback until a `wait`, and `Conservation`
provides the zombie which that `wait` finds, so that the callback forks.

**MinHeap_proofs, the heap.** The loops work on an array with a hole, so the
invariant `IInv` describes that array: which slots hold timers that know their
slot (`Known`), what is in the hand (`Hand`), and in `Order` that the order
holds around the hole and across it (the parent of the hole is at most the
children of the hole), that the element in hand fits above what is below the
hole when it goes up, and, in an erase, that the last slot stays behind the
hole.  From it follow `TypeCorrect`, `HeapOrderCorrect`, `BackPointersCorrect`
and their conjunction `HeapCorrect`.  `HeapImplementsQueue` is the refinement:
`PushAdds`, `EraseRemoves` and `UpdateAges` for the three calls, `LoopsStutter`
for the steps of the loops.  That the least timer is on top (`RootLeast`) would
be an induction along the way to the root; it is instead a statement about the
smallest slot that holds a timer before the root's, which has a parent.

**MinHeap_proofs, the timer loop.** `LoopInv` has two parts of interest.
`Places` divides the wrappers of `ml` among the heap, `tl` and those lost to a
failed push, in every state: where the code follows the unset `prev`, the behaviour
ends with the state before it, and nothing is said of what the code does then.  `MakesUp` is the
arithmetic of `NeverEarly`: what a timer has left makes up for what it was not
served yet, but for the rounding of its request; each clock reading may take a
microsecond more (`SleepStep`, `RoundFacts`).  `TimersHaveOnePlace` and
`TimersNeverEarly` follow.

**EventLoop_proofs.** `IInv` adds to the tables the phase of the loop:
events are activated only when a result is there and called only when all of it
is handled (`Phases`), a signal event on the queue has calls to make
(`Calls`), and the socket pair has a byte whenever it was reported or its event
is active (`PairBytes`), which is why its callback does not block.
`RemoveFacts`, `TailFacts` and `ConcatFacts` are about queues without
repetition; `EpollAddFacts` and `EpollDelFacts` say what the kernel watches
after each choice of ADD, MOD and DEL, the failing ones included.  From
`LoopInvariant` follow `TablesCorrect` and `SignalsCorrect`.

**HostServer_proofs, buffered events.** The bytes of a direction are numbered:
`Counts(s, n)` says that the sequence `s` is `n + 1, n + 2, ...`, and `Holds(b,
n)` the same of the cells in use of a buffer.  `BufInv` is that the numbering
goes on from the buffer into the kernel's queue without a gap (`InSide`,
`OutSide`), next to what events are added in which state (`Life`).  The lemmas
on Evbuffer (`DrainFacts`, `AlignFacts`, `ExpandFacts`, `PutFacts`) say that no
operation moves a byte out of its place; `DoubledFacts` that the doubling ends,
at the first large enough of the lengths it goes through (`Powers`).
`BytesStayInOrder`, `EventsWait` and `MarkHolds` follow.

**HostServer_proofs, the packet server.** `HostInv` has five parts.  `HostState`
is the tables: the types, the counts, which program is at which position
(`Places`) and what the kernel knows of each connection (`Links`).
`EventsInOrder` is inductive once that is known of a step: a step leaves the
queue alone while the positions keep their programs (`OrderStays`), adds one
event at its end (`OrderAppend`), or takes its head away (`OrderTail`).
`Requests` is about the way to the server: the bytes of a program that are in
its buffer, the socket and the server's buffer, followed by what of a packet was
not sent before the connection broke, are the frames of packets not yet
events.  `Numbered` gives each of these events the number of its packet by
counting the packets from it on; a queue that loses its head keeps the numbers
of the rest (`TailPackets`).  `Answers` is the way back.  The lemmas on DataBuf
(`NewLenFacts`, `GrowFacts`, `CutFacts`, `PackFacts`) say what each operation
makes of a sound buffer, and `FramesFirst` and `TakeFirst` that a stream which
starts with frames, cut anywhere, gives the first packet back once enough of it is
there.  The actions share their code, as the server's functions do; each is
first brought into a form of its own (`Admits`, `Handles`, `Receives`,
`Leaves`, `Serves`, `Rounds`, `Asks`), then there is one lemma for each part and
action, and `HostNext` puts them together.  From `HostInvariant` follow
`TablesAlwaysAgree`, `EventsStayInOrder` and `PacketsArriveWhole`.

**MemPool_proofs.** `PoolSound` is inductive by itself (`PoolStaysSound`).  Its
part `FreeChains` says for each block of the list that a way exists along the
numbers in its cells, through exactly the free ones and each once, as long as
the count says.  Three lemmas are about ways: a new block has one (`WayNew`),
taking the first cell leaves the rest of one (`WayTaken`), and giving a cell
back puts it in front (`WayGiven`).  The number in the last cell is outside all
of them, which is why it is never followed.  `AllFree` and `WholeTest` are the
counting argument behind the deletion of a block: a way as long as the block
goes through all its cells, so no cell of it is in use.  `WithoutKnown`,
`DeleteChain` and `ToFrontChain` are the list.  Lost blocks keep their cells:
`LiveInside` includes them and `freeMem` does not find them.
`PoolImplementsAllocator` follows step by step: the cell that is returned was
free (`AllocSound`), so it is the `Alloc` of Allocator.

**MemPool_proofs, the table of protocols.** `SlotsInv` says for each process
(`Table`) that every slot has the object of its number, whole and not deleted
(`InSlot`), no object twice, and that every function points to an object that
failed, to the one in the slot of its number, or past a slot that has another
protocol by now (`Owned`).  `FailedLoad` and `WholeLoad` are the two ways a load
ends, for a slot that is new or is given away; `LoadsOne` that the other process
does not notice.  `SlotsCorrect` and `CallsCorrect` follow for `SlotsSpec`, where
the outcome of reading the arguments is anything; no assumption is needed.

**MemPool_proofs, the remote calls.** `CallsDelivered` is `Delivered` for every
`Byte`, size of the buffer, list of receivers and order of loads, calls and
arrivals.  `CallsInv` says that every packet on its way, and every string a
script has, was made by `marshal` from values that fit some list of arguments
(`PacketSound`), that every object has an id and arguments in `A`, and that the
last call was right (`CallRight`); the packet keeps the arguments of its sender
because the sender's object may be updated before it arrives.  The core is
`ReadsBack`: the loop of `unpack` stands, after each argument, where the loop of
`marshal` stood (`MarshalledGrows`, `Prefixes`, `RestTwice`); both loops are
functions on `0 .. n`, whose existence is `Recursion` and whose steps are counted
by `Upward`.  `IdFacts` says that a reader can tell an id of one byte from one of
three.  `ReceiversFit` says that the list of receivers ends where the buffer does.

The theorem has one hypothesis: there is a set `A` of argument types for which
`FormatsAgree(A, Seq(A), Seq(Bytes))` holds, that is, reading the files makes no types
outside `A`, and `UnpackArg` gives back what `PackArg` packed, with its length,
whatever follows.  It says nothing of loading, calls, the buffer
or the order of arguments.  For the formats of `data_format.c` this is an
induction over types and powers of `Byte`, which stays with TLC: MCProtocol
assumes it for all argument types its files can make (`MCTypes`), all its
values, the types known first with up to two more, and up to two bytes behind,
and TLC evaluates that assumption (`MCFormats`) before the run.

`CallsImplementSlots` says that the calls load files as `SlotsSpec` does and
otherwise leave the table alone, so that `SlotsCorrect` and `CallsCorrect` are
about them as well.

**CgiHandler_proofs.** Four invariants for four parts of the state that do not
depend on each other.  `SessionInv`: every stored session belongs to the user its number was
made for, and whoever a request acts for was found under the key it brought;
`RightUserCorrect` follows.  `WorkInv`: a row is
recorded with its unit, the time between two settings of `_trans`; the rows of a unit
are of one request, and those that the server does not hold in an open transaction
are all committed or all undone (`DbSound`), unless `_trans` and the server have parted
(`Parted`: `_trans` is set and nothing is open, so that rows are autocommitted) since
the application caught an error of MySQL.  `KeptBy` says of each operation that only
such an error parts them; only the stages that hold a transaction object have
one open (`Apart`, `WorkStep`), and there is one lemma for each operation of the
database with all its outcomes.  `WorkContainedCorrect` follows.  `PageInv`: what the browser got, by stage:
nothing in the early hooks, a header that is first and finished, a page that
is whole or broken off by the exception on its way; `OneAnswerCorrect` follows.
`UploadInv`: what the upload of the current request noted as saved is on the
disk, and while one is over nothing is saved.  `FilesRemoved` and `DirsRemoved`
say what the two loops of `__del__` leave when one removal, any or none, is refused:
all before it are gone (`StopsAt`, `Gone`), as is shown by the least step at which
the loops could differ from that (`Steps`, `StepsExist`, `WalkKeeps`); a file that
was saved twice stops the loop as well, because it is no longer there the second time.
`DeletedUndone` puts the two together, and `UploadUndoneCorrect` follows.

### Only checked by TLC

* All liveness properties (`Released`, `Revives`, `ShutdownReaches`, `Fires`,
  `EventServed`, `SignalServed`, `WriteEnds`, `HangupNoticed`): fairness is beyond the prover.
* The formats of DataFormat: that each type is read back as it was packed
  (`FormatsAgree`).  Table types nest, so the formats are RECURSIVE operators, and
  what they compute for every input would be an induction over data.
* `CallsArrive`: the server takes a packet apart with the arguments of its own
  files, and `marshal` goes on after a failed argument (see below), so that what a packet
  can be taken for depends on the files; TLC decides it for those of the run.

## Findings

Where the code does not do what its own comments say.  Each is a run that violates the
property which states the comment.

* `chunk_unread`: `chunkqueue_remove_finished_chunks` recycles unread chunks.
  `chunk.c:165` says that it puts the chunks that are processed into the unused list,
  and `chunk.c:42` that an offset of 0 means that not one byte was read.  But
  `chunk.c:174` takes `offset == used - 1` for read to the end, which a chunk of one
  byte satisfies with offset 0; and `is_finished` is cleared before the loop and not
  for each chunk, so that everything behind it goes as well.  The run appends one byte and
  calls the loop (`OnlyReadLeave`).
* `timer_unlink`: `m_list_remove` (`list.c:152`) unlinks a wrapper that is not the head
  through `t->prev`, which `m_list_insert` never sets.  `list.c:135` asks of
  the caller only that `t` is a node of the list, as `once_cb` makes sure.  In the run
  a once timer is registered, then another one, and the first returns
  (`UnlinksDefined`).
* `xy_refused`: `marshal` (`proto_c.cpp:296`) compares what an argument used with 0, but
  arguments return -1 on failure ("means an error", `arg.cpp:18`).  The error of
  `proto_c.cpp:297`, `pack argument fail`, is never raised: -1 is added, the next argument
  goes in one byte earlier, over the number of the call when the first one failed,
  and the server calls another function (`OnlyCallsMade`).  `proto_s.cpp:298` is the same.
* `protocol_checkid`: `get_check_id` is to verify that two processes have the same
  protocols (`protocol.h:82`, `protocol.c:12`), but it appends names of fields and types with
  nothing between them: `{x="dword"}` and `{xd="word"}` give the same text, and the
  same bytes are then read as different types (`CheckedLayout`).
* `cgi_result`: "file save result is True means save file successed" says
  `upload_session.py:14`.  The exceptions for a part without a file name (`KeyError` at
  line 65) or with a name or a body of another type (`TypeError`, `AttributeError` at
  lines 70 and 71) pass the clauses that set `_session_result`: `safe_save` raises, the result stays True, and `__del__` keeps the
  files and directories of the failed upload (`ResultTells`).

## Facts about the code

What the models contain and a reader of the properties should know:

* `server.c:58` tests `used > max_conns`: one connection more than configured is
  admitted, and the proved bound is `max_conns + 1`.
* `conn.c:67` ignores that `bufferevent_new` failed: the connection keeps its slot and its
  socket as long as the worker runs, because no callback is ever called for it.
  `Released` is about the clients that were registered (`Registered`).
* `conn.c:379` queues CGI output on the conn it has a pointer to, also when that
  conn was returned to the pool and serves another client; `ReadsIsolated` is therefore
  about what is read from clients.  `conn.c:306` loops for ever on the first chunk of
  two or more bytes (`hung`), and `Released` excepts a worker that hangs.
* `process.c:169` exits after it signalled the workers and does not see whether
  they do: `ShutdownReaches` excepts the workers that hang.
* `timer.c`: a timer that the loop would reach only through the unset `prev`
  (`timer_unlink` above) is called or not; `Fires` is about programs that are `orderly`.
* `signal.c:20`: `evsignal_cb` reads all bytes of the socket pair, also those of a signal
  that came after the counts were read; that signal then waits until something else wakes
  the loop.  `SignalServed` excepts it by `Draining`.
* `memorypool.cpp:149` loses the block that was at the front of the list.  Its
  cells are never handed out again, and freeing them does nothing.
* `evbuffer.c:83` compares the wrong mark; `main.c:22` ends the program when one
  `send` does not take everything that was left.
* `data_format.c:45` makes an int of a number before it is packed, so that those from
  2^31 to 2^32 - 1, which the unsigned head at `data_format.c:69` has room for, come back as
  a negative int.  `CutArg` says what a receiver gets, and `Delivered` asks for that.
* `protocol.c:566`: `send_pack_data` looks neither at the receiver nor at the length of
  the string that the script gives it; `Delivered` promises receivers that can be reached only where
  `pack` chose them.
* `protocol.c:630` deletes an object that a script's function may still point
  to; `CallsOwned` says when.
* `arg.cpp`: a number that is zero is refused, with -1; it is one of the arguments that
  `xy_refused` is about.
* `database.py:52`: `begin` trusts `_trans`, and an error with which MySQL ends the
  transaction does not reset it.  When the application catches that error and goes on,
  its rows are autocommitted one by one: `WorkContained` excepts those (`caught`).
* `upload_session.py:25`: a removal that the system refuses ends the clean-up, and so does a
  file that was saved twice; `UploadUndone` says what is gone before that.
* `cgi_session.py:35`: a step that fails after `NewSession` leaves a file without
  a key; `cgi_session.py:122` returns the opposite of what the name says.

## What is not modelled

* Contents of requests, responses and the environment of CGI programs.
* Inside libevent: the epoll descriptor and the signal socket pair that master
  and workers share after the fork.
* Allocation failure, except where the code goes on after it: `bufferevent_new`
  in the pool, `min_heap_reserve` in the timers.
* In `my_event`, priorities other than the one that is used, timeouts, and the
  deletion of signal events (`evsignal_del` is empty).
* In `my_xy3`, failing `epoll_ctl`, an interrupted `epoll_wait`, `startUp` and `shutDown`
  as steps (HostServer says what the pop of the empty queue comes to), and the
  functions no program calls (`Server::process`, `setTimer`, `doBroadcast`).
* Numbers of descriptors: the pipes of CGI programs are never closed.
* Wrap-around of sizes at 2^32: queues and heaps cannot get that long before
  memory is used up.
* In `mydb`, reading of the description files, counters of calls and bytes, the
  destructor at exit, and strings for `send_pack_data` that are not from
  `pack_protocol`: a script that makes its own may send anything.
* In `mempool`, sizes of 2^16 bytes and more, a cell freed twice, and units of
  more than 4 bytes, whose size is computed from the member being set.
* In `cgihandler`, the text of pages and parameters, `cgi_util`,
  `cgi_image_validater`, `sendmsg`, and a database that is connected again.
* The programs listed as not modelled in the inventory.

## Plan

Done: everything above.  What is left, most useful first:

1. Findings that have no run yet: the slot kept after a failed `bufferevent_new`,
   CGI output that reaches another client, the swallowed byte of `evsignal_cb`, numbers
   that come back negative.
2. A proof of `FormatsAgree` for the flat types of mydb (numbers, strings, arrays
   of them), in a module without RECURSIVE operators: `CallsDelivered` would then
   hold without a hypothesis for arguments that are not tables.
3. A loop that puts Bufferevent on EventLoop, in place of the assumptions about
   it that Bufferevent makes.
4. Two CGI processes over one database, when the repository has a program that
   depends on it.
