-------------------------------- MODULE Worker --------------------------------
(***************************************************************************)
(* One worker process of the multi_progress server: its event loop calls   *)
(* the accept, read and error callbacks of the client connections and the  *)
(* callbacks of the pipes of the CGI programs that requests start          *)
(* (multi_progress/conn.c).  The connection pool is module ConnMgr.        *)
(*                                                                         *)
(* Client n is the n-th connection the worker accepts.  A chunk is the     *)
(* number of bytes it holds and the client whose request they belong to.   *)
(* No code ever advances the offset of a chunk (bufferevent_write returns  *)
(* 0, not a byte count), so a chunk in a queue has offset 0 and counts as  *)
(* finished exactly when it holds one byte; then everything behind it is   *)
(* dropped too (module ChunkQueue).                                        *)
(***************************************************************************)
EXTENDS Integers, FiniteSets, Sequences

CONSTANTS MaxClients,   \* connections the worker accepts in the model
          MaxConns, Grow,
          MaxRequests,  \* bounds the reads of the model
          MaxBytes,     \* bytes one read can deliver
          MaxOutput     \* bytes the output of one CGI program can have

ASSUME WorkerAssumption ==
    /\ MaxClients \in Nat /\ MaxRequests \in Nat
    /\ MaxBytes \in Nat /\ MaxOutput \in Nat
    /\ MaxConns \in Nat /\ Grow \in Nat \ {0}

Client == 1 .. MaxClients

VARIABLES size, used, ptr, ndx, fd, bev, open

Pool == INSTANCE ConnMgr WITH Sock <- Client

VARIABLES
    read_q, write_q,  \* conn -> sequence of chunks
    joined,           \* number of clients that have connected
    sends,            \* requests sent so far, at most MaxRequests
    input,            \* client -> bytes waiting in its bufferevent
    eof,              \* clients that hung up
    cgi,              \* the CGI processes started, in order
    hung              \* the worker is caught in _conn_write_response

poolVars == <<size, used, ptr, ndx, fd, bev, open>>
connVars == <<read_q, write_q>>
clientVars == <<joined, sends, input, eof>>
vars == <<poolVars, connVars, clientVars, cgi, hung>>

Slots == 0 .. size - 1

Chunk == [bytes : Nat \ {0}, from : Client]
CgiState == {"running", "exited", "released"}

Init ==
    /\ Pool!Init
    /\ read_q = [c \in {} |-> <<>>]
    /\ write_q = [c \in {} |-> <<>>]
    /\ joined = 0
    /\ sends = 0
    /\ input = [s \in Client |-> 0]
    /\ eof = {}
    /\ cgi = <<>>
    /\ hung = FALSE

------------------------------------------------------------------------------
\* chunkqueue_remove_finished_chunks on chunks that nobody has read from.
RemoveFinished(q) == IF q # <<>> /\ Head(q).bytes = 1 THEN <<>> ELSE q

\* Mutant: conn_new leaves a conn without its queues.
server_handle_listen_NoQueues(s) ==
    /\ ~hung
    /\ s = joined + 1
    /\ \E b \in {"live", "null"} : Pool!server_handle_listen(s, b)
    /\ joined' = s
    /\ UNCHANGED <<connVars, sends, input, eof, cgi, hung>>

\* _server_handle_listen.  When bufferevent_new fails, conn_register_event
\* leaves bev NULL and the conn stays in the pool.
server_handle_listen(s) ==
    /\ ~hung
    /\ s = joined + 1
    /\ \E b \in {"live", "null"} : Pool!server_handle_listen(s, b)
    /\ joined' = s
    /\ read_q' = Pool!Extend(read_q, <<>>)
    /\ write_q' = Pool!Extend(write_q, <<>>)
    /\ UNCHANGED <<sends, input, eof, cgi, hung>>

\* _conn_parse_request: pipe and fork start a CGI process for conn c; when
\* either fails no callback is registered.
conn_parse_request(c) ==
    \/ cgi' = Append(cgi, [state |-> "running", conn |-> c, from |-> fd[c],
                           pipe |-> 0, wrote |-> FALSE])
    \/ cgi' = cgi

\* _conn_write_response: the loop over write_q neither advances to the next
\* chunk nor changes the chunk, so it ends only when the queue is empty.
conn_write_response(c) ==
    /\ write_q' = [write_q EXCEPT ![c] = RemoveFinished(@)]
    /\ hung' = (RemoveFinished(write_q[c]) # <<>>)

\* _conn_handle_read with _conn_process_read.
conn_handle_read(c) ==
    /\ ~hung
    /\ bev[c] = "live"
    /\ input[fd[c]] > 0
    /\ input' = [input EXCEPT ![fd[c]] = 0]
    /\ read_q' = [read_q EXCEPT ![c] =
           RemoveFinished(Append(@, [bytes |-> input[fd[c]], from |-> fd[c]]))]
    /\ conn_parse_request(c)
    /\ conn_write_response(c)
    /\ UNCHANGED <<poolVars, joined, sends, eof>>

\* Mutant: read_q is not reset.
conn_reset_queues_NoRead(c) ==
    /\ read_q' = read_q
    /\ write_q' = [write_q EXCEPT ![c] = <<>>]

\* conn_reset's part on the queues.
conn_reset_queues(c) ==
    /\ read_q' = [read_q EXCEPT ![c] = <<>>]
    /\ write_q' = [write_q EXCEPT ![c] = <<>>]

\* libevent reports the end of the stream once the pending bytes were read.
AtEnd(c) == fd[c] \in eof /\ input[fd[c]] = 0

\* _conn_handle_err.
conn_handle_err(c) ==
    /\ ~hung
    /\ bev[c] = "live"
    /\ AtEnd(c)
    /\ Pool!conn_handle_err(c)
    /\ conn_reset_queues(c)
    /\ UNCHANGED <<clientVars, cgi, hung>>

\* _cgi_handle_read: the output is queued on the conn the callback was
\* registered with, whoever uses that conn now.
cgi_handle_read(k) ==
    /\ ~hung
    /\ cgi[k].state \in {"running", "exited"} /\ cgi[k].pipe > 0
    /\ write_q' = [write_q EXCEPT ![cgi[k].conn] =
           Append(@, [bytes |-> cgi[k].pipe, from |-> cgi[k].from])]
    /\ cgi' = [cgi EXCEPT ![k].pipe = 0]
    /\ UNCHANGED <<poolVars, read_q, clientVars, hung>>

\* Mutant: the bufferevent is kept.
cgi_handle_err_Keep(k) ==
    /\ ~hung
    /\ cgi[k].state = "exited" /\ cgi[k].pipe = 0
    /\ UNCHANGED vars

\* _cgi_handle_err: the bufferevent is freed, the pipe stays open.
cgi_handle_err(k) ==
    /\ ~hung
    /\ cgi[k].state = "exited" /\ cgi[k].pipe = 0
    /\ cgi' = [cgi EXCEPT ![k].state = "released"]
    /\ UNCHANGED <<poolVars, connVars, clientVars, hung>>

------------------------------------------------------------------------------
\* The environment: clients send and hang up, CGI programs write and exit.
ClientSends(s, n) ==
    /\ s \in 1 .. joined /\ s \notin eof /\ input[s] = 0
    /\ sends < MaxRequests
    /\ sends' = sends + 1
    /\ input' = [input EXCEPT ![s] = n]
    /\ UNCHANGED <<poolVars, connVars, joined, eof, cgi, hung>>

ClientHangsUp(s) ==
    /\ s \in 1 .. joined /\ s \notin eof
    /\ eof' = eof \cup {s}
    /\ UNCHANGED <<poolVars, connVars, joined, sends, input, cgi, hung>>

CgiWrites(k, n) ==
    /\ cgi[k].state = "running" /\ ~cgi[k].wrote    \* one output per program
    /\ cgi' = [cgi EXCEPT ![k].pipe = n, ![k].wrote = TRUE]
    /\ UNCHANGED <<poolVars, connVars, clientVars, hung>>

CgiExits(k) ==
    /\ cgi[k].state = "running"
    /\ cgi' = [cgi EXCEPT ![k].state = "exited"]
    /\ UNCHANGED <<poolVars, connVars, clientVars, hung>>

Next ==
    \/ \E s \in Client : server_handle_listen(s) \/ ClientHangsUp(s)
    \/ \E s \in Client, n \in 1 .. MaxBytes : ClientSends(s, n)
    \/ \E k \in DOMAIN cgi, n \in 1 .. MaxOutput : CgiWrites(k, n)
    \/ \E k \in DOMAIN cgi : CgiExits(k)
    \/ \E c \in Slots : conn_handle_read(c)
    \/ \E c \in Slots : conn_handle_err(c)
    \/ \E k \in DOMAIN cgi : cgi_handle_read(k)
    \/ \E k \in DOMAIN cgi : cgi_handle_err(k)

\* Each loop of event_dispatch calls every callback that is ready, so a
\* callback that stays ready is called.  Clients and CGI programs owe nothing.
Fairness ==
    /\ \A c \in 0 .. MaxConns + Grow :
           /\ WF_vars(c \in Slots /\ conn_handle_read(c))
           /\ WF_vars(c \in Slots /\ conn_handle_err(c))
    /\ \A k \in 1 .. MaxRequests :
           /\ WF_vars(k \in DOMAIN cgi /\ cgi_handle_read(k))
           /\ WF_vars(k \in DOMAIN cgi /\ cgi_handle_err(k))

Spec == Init /\ [][Next]_vars /\ Fairness

------------------------------------------------------------------------------
TypeOK ==
    /\ Pool!TypeOK
    /\ read_q \in [Slots -> Seq(Chunk)]
    /\ write_q \in [Slots -> Seq(Chunk)]
    /\ joined \in 0 .. MaxClients /\ eof \subseteq 1 .. joined
    /\ input \in [Client -> 0 .. MaxBytes]
    /\ sends \in 0 .. MaxRequests
    /\ cgi \in Seq([state : CgiState, conn : Slots, from : Client,
                    pipe : 0 .. MaxOutput, wrote : BOOLEAN])
    /\ hung \in BOOLEAN

\* A conn's read_q holds bytes of the client it serves now, and nothing when
\* it is free: reuse of conns never mixes up what clients sent.
ReadsIsolated ==
    /\ TypeOK
    /\ \A c \in Slots : \A i \in DOMAIN read_q[c] :
          Pool!InUse(c) /\ read_q[c][i].from = fd[c]

\* The worker has a bufferevent for client s, so libevent calls it back.
Registered(s) == \E c \in Slots : fd[c] = s /\ bev[c] = "live"

\* A client that hangs up gets its slot and socket released, whoever else is
\* connected and whatever conn it is moved to, if it is registered; nothing
\* ever releases those of a client whose bufferevent_new failed.
SlotReleased == \A s \in Client : (s \in eof /\ Registered(s)) ~> s \notin open

\* The output of a CGI program is taken from its pipe even when the client
\* that asked for it is gone, and its bufferevent is released at its end.
CgiReleased ==
    \A k \in 1 .. MaxRequests :
        (k \in DOMAIN cgi /\ cgi[k].state = "exited")
            ~> (k \in DOMAIN cgi /\ cgi[k].state = "released")

\* Nothing a registered client or a CGI program held stays with the worker for
\* ever, if the outputs of programs have one byte.  After one of two bytes the
\* loop of _conn_write_response never leaves the chunk that holds it.
Released == SlotReleased /\ CgiReleased
==============================================================================
