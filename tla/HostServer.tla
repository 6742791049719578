------------------------------ MODULE HostServer -------------------------------
(***************************************************************************)
(* The packet server of cs/my_xy3 (server.cpp, op_epoll.cpp, main_s.cpp)   *)
(* with the programs that connect to it (main_c.cpp), both made of the     *)
(* Client of client.cpp.  The server gives each connection a host id, the  *)
(* position in _clients, turns what happens to it into events on _queue,   *)
(* and hands one event to the scripts after each round of epoll.  The      *)
(* script s_test answers a packet at once, with the same arguments.        *)
(*                                                                         *)
(* epoll is edge-triggered: edge is the set of descriptors with something  *)
(* that was not reported yet.                                              *)
(***************************************************************************)
EXTENDS DataBuf, FiniteSets, SequencesExt

CONSTANTS Conn,        \* connecting programs, numbers from 1
          Listen,      \* _listenSock
          NULL,        \* an empty position, or no connection
          MaxClients,  \* _max positions
          HidLimit,    \* the greatest host id that is sent to (1024)
          RecvMax,     \* bytes of one recv (1024)
          Lens,        \* lengths of packets, at most 100: the buf of Pto_c::pack
          Partial,     \* bytes that a send may take of more
          MaxPackets   \* bounds the packets of all programs

Pos == 0 .. MaxClients - 1
\* Descriptors of accepted sockets; a new one gets the least that is free.
Fd == 1 .. MaxClients

\* A Client of the server; _state is 2 from assign on.
Client == [sock : Fd, state : {0, 2}, hid : Pos, rbuf : Buffers, wbuf : Buffers]

ASSUME HostServerAssumption ==
    /\ Conn \subseteq Nat \ {0}
    /\ MaxClients \in Nat \ {0} /\ RecvMax \in Nat \ {0}
    /\ HidLimit \in Nat /\ MaxPackets \in Nat
    /\ Lens \subseteq 1 .. 100 /\ Partial \subseteq Nat
    /\ Listen \notin Nat /\ NULL \notin Nat /\ NULL \notin Client

VARIABLES
    pc,          \* "wait", "events", "packs", or "killed" by SIGPIPE
    clients,     \* _clients: NULL or a Client
    count,       \* _count
    fpos,        \* _fpos, a map from descriptors to positions
    fdCnt,       \* _fdCnt of EpollOp
    queue,       \* _queue
    events, cur, \* descriptors of this round to do, the position in hand
    sock,        \* the kernel: descriptor -> the connection behind it
    edge, backlog,
    peer,        \* the programs: "none", "1", "2", "0" (_state) or "exited"
    cw, cr,      \* _wbuf and _rbuf of each program
    up, down,    \* bytes in the socket to the server, and to the program
    link,        \* the server's socket: "open", "fin", "bounced", "dead", "rst"
    shut,        \* connections whose socket the server closed
    asked, noted, got \* packets made, turned into events, and received

serverVars == <<clients, count, fpos, fdCnt, queue>>
roundVars == <<pc, events, cur>>
kernelVars == <<sock, edge, backlog, up, down, link, shut>>
peerVars == <<peer, cw, cr, asked, got>>
vars == <<serverVars, roundVars, kernelVars, peerVars, noted>>

NewClient(f, pos) ==
    [sock |-> f, state |-> 2, hid |-> pos, rbuf |-> Empty, wbuf |-> Empty]

NoMap == [f \in {} |-> 0]

\* startUp, with the listening socket in epoll.  Before that shutDown takes an
\* element out of _queue, which is empty: std::queue then passes over the next
\* event that is pushed.  This is the NEW of the first connection, alone in its
\* round, and doRead comes next: it finds nothing where it would take an event
\* that on_new does nothing with.  So the steps below are those of a queue that
\* begins empty.
Init ==
    /\ pc = "wait"
    /\ clients = [p \in Pos |-> NULL] /\ count = 0
    /\ fpos = NoMap /\ fdCnt = 1
    /\ queue = <<>>
    /\ events = {} /\ cur = NULL
    /\ sock = [f \in Fd |-> NULL] /\ edge = {} /\ backlog = <<>>
    /\ peer = [c \in Conn |-> "none"]
    /\ cw = [c \in Conn |-> Empty] /\ cr = [c \in Conn |-> Empty]
    /\ up = [c \in Conn |-> <<>>] /\ down = [c \in Conn |-> <<>>]
    /\ link = [c \in Conn |-> "open"] /\ shut = {}
    /\ asked = [c \in Conn |-> <<>>] /\ noted = [c \in Conn |-> 0]
    /\ got = [c \in Conn |-> <<>>]

\* The k-th packet of c; its bytes tell it from all others, as the sum of c and
\* k is the root of them.
Packet(c, k, len) == [i \in 1 .. len |-> (c + k) * (c + k) + c]

FdOf(c) == {f \in Fd : sock[f] = c}

\* Client::doRecv: what is left of a buffer when its first packet was taken.
Rest(b) == cutData(b, PackSize(b) + HeadLen)

\* send takes n of size bytes.
Takes(n, size) == n = size \/ (n \in Partial /\ n < size)

------------------------------------------------------------------------------
\* The programs.

\* doConnect; the kernel completes the connection before it is accepted.
\* Programs are alike and start in the order of their numbers.
doConnect(c) ==
    /\ pc # "killed" /\ peer[c] = "none"
    /\ \A d \in Conn : d < c => peer[d] # "none"
    /\ peer' = [peer EXCEPT ![c] = "1"]
    /\ backlog' = Append(backlog, c)
    /\ edge' = edge \cup {Listen}
    /\ UNCHANGED <<serverVars, roundVars, sock, up, down, link, shut, cw, cr, asked,
                   noted, got>>

\* Client::process before it knows that the connection is there: tryConnect.
tryConnect(c) ==
    /\ peer[c] = "1"
    /\ peer' = [peer EXCEPT ![c] = "2"]
    /\ UNCHANGED <<serverVars, roundVars, kernelVars, cw, cr, asked, noted, got>>

\* A script calls for_caller: pack and doSend.
ScriptSends(c, len) ==
    /\ peer[c] \in {"1", "2"}
    /\ Cardinality(UNION {{c0} \X DOMAIN asked[c0] : c0 \in Conn}) < MaxPackets
    /\ LET body == Packet(c, Len(asked[c]) + 1, len)
       IN  /\ cw' = [cw EXCEPT ![c] = appendPack(cw[c], body)]
           /\ asked' = IF Fits(cw[c], body)
                       THEN [asked EXCEPT ![c] = Append(@, body)] ELSE asked
    /\ UNCHANGED <<serverVars, roundVars, kernelVars, peer, cr, noted, got>>

\* One round of main_loop of main_c: process and doRecv.  tryRecv is one recv,
\* and one packet is taken from the buffer.
ClientRound(c, n) ==
    /\ peer[c] = "2"
    /\ LET m == IF Len(down[c]) < RecvMax THEN Len(down[c]) ELSE RecvMax
           closed == m = 0 /\ c \in shut
           b == IF m = 0 THEN cr[c]
                ELSE appendRawData(cr[c], SubSeq(down[c], 1, m))
       IN  /\ down' = [down EXCEPT ![c] = SubSeq(@, m + 1, Len(@))]
           /\ IF HasPack(b)
              THEN /\ got' = [got EXCEPT ![c] = Append(@, Body(b))]
                   /\ cr' = [cr EXCEPT ![c] = Rest(b)]
              ELSE cr' = [cr EXCEPT ![c] = b] /\ UNCHANGED got
           /\ Takes(n, getDataSize(cw[c]))
           /\ cw' = [cw EXCEPT ![c] = cutData(@, n)]
           /\ peer' = [peer EXCEPT ![c] = IF closed THEN "0" ELSE @]
           /\ IF c \in shut
              THEN UNCHANGED <<up, edge>>
              ELSE /\ up' = [up EXCEPT ![c] = @ \o SubSeq(cw[c].data, 1, n)]
                   /\ edge' = IF n > 0 THEN edge \cup FdOf(c) ELSE edge
           /\ m + n > 0 \/ closed \/ HasPack(b)
    /\ UNCHANGED <<serverVars, roundVars, sock, backlog, link, shut, asked, noted>>

\* A program is killed, as start.py does; with answers unread its kernel resets
\* the connection.  The end of one that was refused concerns nobody.
Exits(c) ==
    /\ peer[c] \in {"1", "2"} /\ c \notin shut
    /\ peer' = [peer EXCEPT ![c] = "exited"]
    /\ link' = [link EXCEPT ![c] = IF down[c] = <<>> THEN "fin" ELSE "rst"]
    /\ edge' = edge \cup FdOf(c)
    /\ down' = [down EXCEPT ![c] = <<>>]
    /\ cw' = [cw EXCEPT ![c] = Empty] /\ cr' = [cr EXCEPT ![c] = Empty]
    /\ UNCHANGED <<serverVars, roundVars, sock, backlog, up, shut, asked, noted, got>>

\* The answer of a host that is gone to what the server sent it.
ResetArrives(c) ==
    /\ link[c] = "bounced"
    /\ link' = [link EXCEPT ![c] = "dead"]
    /\ edge' = edge \cup FdOf(c)
    /\ UNCHANGED <<serverVars, roundVars, sock, backlog, up, down, shut, peerVars,
                   noted>>

------------------------------------------------------------------------------
\* The server: Server::dispatch.

\* doDispatch.  Room for _fdCnt events is room for all.
doDispatch ==
    /\ pc = "wait" /\ edge # {}
    /\ events' = edge /\ edge' = {}
    /\ pc' = "events"
    /\ UNCHANGED <<serverVars, cur, sock, backlog, up, down, link, shut, peerVars,
                   noted>>

\* A socket goes into epoll, which reports at once what is there already.
addFd(f, c) ==
    /\ fdCnt' = fdCnt + 1
    /\ edge' = IF up[c] # <<>> \/ link[c] # "open" THEN edge \cup {f} ELSE edge

rmFd(f) == fdCnt' = fdCnt - 1 /\ edge' = edge \ {f}

\* The destructor of a Client closes its socket.
CloseSock(f) ==
    /\ sock' = [sock EXCEPT ![f] = NULL]
    /\ shut' = shut \cup {sock[f]}

Free == {p \in Pos : clients[p] = NULL}
Least(S) == CHOOSE x \in S : \A y \in S : x <= y

\* Mutant: the position is not counted.
Admit_NoCount(c) ==
    LET pos == Least(Free)
        f == Least({x \in Fd : sock[x] = NULL})
    IN  /\ sock' = [sock EXCEPT ![f] = c]
        /\ clients' = [clients EXCEPT ![pos] = NewClient(f, pos)]
        /\ fpos' = [x \in DOMAIN fpos \cup {f} |-> IF x = f THEN pos ELSE fpos[x]]
        /\ addFd(f, c)
        /\ queue' = Append(queue, [event |-> "new", hid |-> pos, of |-> c])
        /\ UNCHANGED <<count, shut>>

\* An accepted socket gets a position and goes into epoll.
Admit(c) ==
    LET pos == Least(Free)
        f == Least({x \in Fd : sock[x] = NULL})
    IN  /\ sock' = [sock EXCEPT ![f] = c]
        /\ clients' = [clients EXCEPT ![pos] = NewClient(f, pos)]
        /\ count' = count + 1
        /\ fpos' = [x \in DOMAIN fpos \cup {f} |-> IF x = f THEN pos ELSE fpos[x]]
        /\ addFd(f, c)
        /\ queue' = Append(queue, [event |-> "new", hid |-> pos, of |-> c])
        /\ UNCHANGED shut

\* One accept for any number of connections that are waiting.
HandleListen ==
    /\ pc = "events" /\ Listen \in events
    /\ events' = events \ {Listen}
    /\ IF backlog = <<>>
       THEN UNCHANGED <<serverVars, sock, edge, backlog, shut>>
       ELSE /\ backlog' = Tail(backlog)
            /\ IF count >= MaxClients \/ Free = {}
               THEN /\ shut' = shut \cup {Head(backlog)}
                    /\ UNCHANGED <<serverVars, sock, edge>>
               ELSE Admit(Head(backlog))
    /\ UNCHANGED <<pc, cur, up, down, link, peerVars, noted>>

\* tryRecv: one recv.  What is left in the socket is not announced again.
Received(c) == IF Len(up[c]) < RecvMax THEN Len(up[c]) ELSE RecvMax

\* Mutant: the end of the stream is taken for nothing to read.
HungUp_Reset(c) == up[c] = <<>> /\ link[c] = "rst"

\* recv returns 0, or an error, but only when everything was read.
HungUp(c) == up[c] = <<>> /\ link[c] # "open"

\* What send, with something to send, does to a connection that was reset: an
\* error that recv has not reported is returned, and otherwise SIGPIPE, which
\* nobody handles, kills the server.
SendFails(c) == link[c] = "rst" /\ up[c] # <<>>
SendKills(c) == link[c] = "dead" \/ (link[c] = "rst" /\ up[c] = <<>>)

\* Mutant: what was not sent is dropped.
Unsent_None(b, n) == cutData(b, getDataSize(b))

\* What is left of _wbuf when n bytes were sent.
Unsent(b, n) == cutData(b, n)

\* A connection in the events: tryRecv, then trySend of n bytes.
HandleConn(f, n) ==
    /\ pc = "events" /\ f \in events
    /\ events' = events \ {f}
    /\ LET pos == fpos[f]
           ct == clients[pos]
           c == sock[f]
           m == Received(c)
           size == getDataSize(ct.wbuf)
       IN  /\ up' = [up EXCEPT ![c] = SubSeq(@, m + 1, Len(@))]
           /\ clients' = [clients EXCEPT ![pos] =
                 [ct EXCEPT !.rbuf = IF m = 0 THEN @
                                     ELSE appendRawData(@, SubSeq(up[c], 1, m)),
                            !.state = IF HungUp(c) \/ (size > 0 /\ SendFails(c))
                                      THEN 0 ELSE @,
                            !.wbuf = Unsent(@, n)]]
           /\ cur' = pos
           /\ CASE size = 0 -> n = 0 /\ pc' = "packs" /\ UNCHANGED <<down, link>>
                [] size > 0 /\ SendKills(c) ->
                      n = 0 /\ pc' = "killed" /\ UNCHANGED <<down, link>>
                [] size > 0 /\ SendFails(c) ->
                      n = 0 /\ pc' = "packs" /\ UNCHANGED <<down, link>>
                [] size > 0 /\ link[c] = "open" ->
                      /\ Takes(n, size) /\ pc' = "packs"
                      /\ down' = [down EXCEPT ![c] = @ \o SubSeq(ct.wbuf.data, 1, n)]
                      /\ UNCHANGED link
                [] OTHER ->
                      /\ n = size /\ pc' = "packs"
                      /\ link' = [link EXCEPT ![c] = "bounced"]
                      /\ UNCHANGED down
    /\ UNCHANGED <<count, fpos, fdCnt, queue, sock, edge, backlog, shut, peerVars,
                   noted>>

\* Mutant: only the body is taken from the buffer.
doRecv_Body ==
    /\ pc = "packs" /\ HasPack(clients[cur].rbuf)
    /\ LET ct == clients[cur]
           c == sock[ct.sock]
       IN  /\ clients' = [clients EXCEPT ![cur].rbuf = cutData(@, PackSize(@))]
           /\ queue' = Append(queue, [event |-> "data", hid |-> ct.hid, of |-> c,
                                      data |-> Body(ct.rbuf)])
           /\ noted' = [noted EXCEPT ![c] = @ + 1]
    /\ UNCHANGED <<count, fpos, fdCnt, roundVars, kernelVars, peerVars>>

\* doRecv: a complete packet becomes an event.
doRecv ==
    /\ pc = "packs" /\ HasPack(clients[cur].rbuf)
    /\ LET ct == clients[cur]
           c == sock[ct.sock]
       IN  /\ clients' = [clients EXCEPT ![cur].rbuf = Rest(@)]
           /\ queue' = Append(queue, [event |-> "data", hid |-> ct.hid, of |-> c,
                                      data |-> Body(ct.rbuf)])
           /\ noted' = [noted EXCEPT ![c] = @ + 1]
    /\ UNCHANGED <<count, fpos, fdCnt, roundVars, kernelVars, peerVars>>

\* Mutant: nothing is told of it.
Leave_Silent(pos) ==
    LET ct == clients[pos]
    IN  /\ clients' = [clients EXCEPT ![pos] = NULL]
        /\ rmFd(ct.sock) /\ CloseSock(ct.sock)
        /\ count' = count - 1
        /\ fpos' = [x \in DOMAIN fpos \ {ct.sock} |-> fpos[x]]
        /\ UNCHANGED queue

\* rmFd, the event, and the destructor of the Client, which closes the socket.
Leave(pos) ==
    LET ct == clients[pos]
    IN  /\ clients' = [clients EXCEPT ![pos] = NULL]
        /\ rmFd(ct.sock) /\ CloseSock(ct.sock)
        /\ fpos' = [x \in DOMAIN fpos \ {ct.sock} |-> fpos[x]]
        /\ count' = count - 1
        /\ queue' = Append(queue, [event |-> "leave", hid |-> ct.hid,
                                   of |-> sock[ct.sock]])

ConnDone ==
    /\ pc = "packs" /\ ~HasPack(clients[cur].rbuf)
    /\ pc' = "events" /\ cur' = NULL
    /\ IF clients[cur].state = 0
       THEN Leave(cur)
       ELSE UNCHANGED <<serverVars, sock, edge, shut>>
    /\ UNCHANGED <<events, backlog, up, down, link, peerVars, noted>>

\* Server::doSend, to whoever has the host id now.
doSend(hid, body) ==
    IF hid > HidLimit \/ clients[hid] = NULL THEN UNCHANGED clients
    ELSE clients' = [clients EXCEPT ![hid].wbuf = appendPack(@, body)]

\* on_new and on_leave do nothing, on_data runs the script.
on_event(e) ==
    IF e.event = "data" THEN doSend(e.hid, e.data) ELSE UNCHANGED clients

\* After the round doRead takes one event.
doRead ==
    /\ pc = "events" /\ events = {}
    /\ pc' = "wait"
    /\ IF queue = <<>> THEN UNCHANGED <<clients, queue>>
       ELSE queue' = Tail(queue) /\ on_event(Head(queue))
    /\ UNCHANGED <<count, fpos, fdCnt, events, cur, kernelVars, peerVars, noted>>

ServerStep ==
    \/ doDispatch \/ HandleListen
    \/ \E f \in Fd : \E n \in 0 .. BufLen : HandleConn(f, n)
    \/ doRecv \/ ConnDone \/ doRead

Next ==
    \/ ServerStep
    \/ \E c \in Conn :
          \/ doConnect(c) \/ tryConnect(c) \/ Exits(c) \/ ResetArrives(c)
          \/ \E len \in Lens : ScriptSends(c, len)
          \/ \E n \in 0 .. BufLen : ClientRound(c, n)

Spec == Init /\ [][Next]_vars

\* The server's thread runs.
FairSpec == Spec /\ WF_vars(ServerStep)

------------------------------------------------------------------------------
NumSeq(s) == \A i \in DOMAIN s : s[i] \in Nat

EventOK(e) ==
    /\ e.event \in {"new", "data", "leave"} /\ e.hid \in Pos /\ e.of \in Conn
    /\ e.event = "data" => NumSeq(e.data)

(* Types, and the geometry of every buffer: neither the growth of a read   *)
(* buffer nor a write buffer at its limit ever copies past its end.        *)
TypeOK ==
    /\ pc \in {"wait", "events", "packs", "killed"}
    /\ \A p \in Pos :
          clients[p] # NULL =>
              /\ clients[p].sock \in Fd /\ clients[p].state \in {0, 2}
              /\ clients[p].hid \in Pos
              /\ Sound(clients[p].rbuf) /\ Sound(clients[p].wbuf)
              /\ NumSeq(clients[p].rbuf.data) /\ NumSeq(clients[p].wbuf.data)
    /\ count \in 0 .. MaxClients /\ fdCnt \in Nat
    /\ DOMAIN fpos \subseteq Fd /\ \A f \in DOMAIN fpos : fpos[f] \in Pos
    /\ \A i \in DOMAIN queue : EventOK(queue[i])
    /\ events \subseteq Fd \cup {Listen} /\ edge \subseteq Fd \cup {Listen}
    /\ cur \in Pos \cup {NULL}
    /\ sock \in [Fd -> Conn \cup {NULL}]
    /\ peer \in [Conn -> {"none", "1", "2", "0", "exited"}]
    /\ \A c \in Conn : Sound(cw[c]) /\ Sound(cr[c])
    /\ link \in [Conn -> {"open", "fin", "bounced", "dead", "rst"}]
    /\ noted \in [Conn -> Nat]

(* _clients, _count, _fpos and _fdCnt tell the same: each open socket has  *)
(* one position, found through _fpos, and epoll_wait has room for one      *)
(* event of every descriptor.  No event of a round is for a socket that    *)
(* was closed earlier in the round.                                        *)
TablesAgree ==
    /\ TypeOK
    /\ count = Cardinality(Pos \ Free) /\ fdCnt = count + 1
    /\ DOMAIN fpos = {f \in Fd : sock[f] # NULL}
    /\ \A f \in DOMAIN fpos :
          clients[fpos[f]] # NULL /\ clients[fpos[f]].sock = f
    /\ \A p \in Pos \ Free :
          clients[p].hid = p /\ clients[p].sock \in DOMAIN fpos
                             /\ fpos[clients[p].sock] = p
    /\ (events \cup edge) \ {Listen} \subseteq DOMAIN fpos

\* Two events of one host id with none of its events between them, and the
\* last event of a host id.
Adjacent(i, j) ==
    /\ i < j /\ queue[i].hid = queue[j].hid
    /\ \A k \in i + 1 .. j - 1 : queue[k].hid # queue[i].hid

LastOfHid(i) == \A k \in i + 1 .. Len(queue) : queue[k].hid # queue[i].hid

(* For each host id the events are NEW, then packets of that connection,   *)
(* then LEAVE, and again; and the last of them is what the position holds  *)
(* now.  So a script that handles a packet late answers another program    *)
(* only while the LEAVE and the NEW in between are still on the queue.     *)
EventsInOrder ==
    /\ \A i, j \in DOMAIN queue : Adjacent(i, j) =>
          IF queue[j].event = "new" THEN queue[i].event = "leave"
          ELSE queue[i].event # "leave" /\ queue[i].of = queue[j].of
    /\ \A i \in DOMAIN queue : LastOfHid(i) =>
          LET ct == clients[queue[i].hid]
          IN  IF queue[i].event = "leave" THEN ct = NULL
              ELSE ct # NULL /\ sock[ct.sock] = queue[i].of

\* The bytes of the packets c made that are no events yet.
Frames(ps) == FlattenSeq([i \in DOMAIN ps |-> Frame(ps[i])])
Outstanding(c) == Frames(SubSeq(asked[c], noted[c] + 1, Len(asked[c])))

\* The bytes between a program and the server's events.
Unread(c) ==
    IF FdOf(c) = {} THEN <<>> ELSE clients[fpos[Least(FdOf(c))]].rbuf.data
InTransit(c) == Unread(c) \o up[c] \o cw[c].data

\* The packets of c on the queue from position i on.
PacketsFrom(c, i) == {j \in i .. Len(queue) : queue[j].event = "data" /\ queue[j].of = c}

(* The packets a program sends become events once, whole and in the order  *)
(* they were sent, wherever recv and send cut the stream and whatever the  *)
(* buffers do: the bytes on their way are those of the packets to come,    *)
(* less what died with the program.                                        *)
RequestsFramed ==
    /\ \A i \in DOMAIN queue : queue[i].event = "data" =>
          LET c == queue[i].of
          IN  queue[i].data = asked[c][noted[c] + 1 - Cardinality(PacketsFrom(c, i))]
    /\ \A c \in Conn \ shut :
          IF peer[c] = "exited" THEN IsPrefix(InTransit(c), Outstanding(c))
          ELSE InTransit(c) = Outstanding(c)

(* What a program receives are packets that were sent to the server and    *)
(* became events, each whole, although a write buffer is sent in parts and *)
(* refuses an answer it has no room for.                                   *)
AnswersWhole ==
    \A c \in Conn : \A i \in DOMAIN got[c] :
        \E d \in Conn : \E k \in 1 .. noted[d] : got[c][i] = asked[d][k]

(* Both ways: whatever is cut on the way arrives whole or not at all.      *)
PacketsWhole == RequestsFramed /\ AnswersWhole

(* A program that hangs up leaves, its position is free again, provided    *)
(* the end of the stream is all there is to read when it is announced.     *)
(* With bytes before it, tryRecv reads those and returns, and the end is   *)
(* not announced again: the position stays taken.                          *)
HangupNoticed ==
    \A c \in Conn :
        (link[c] # "open" /\ up[c] = <<>> /\ FdOf(c) \cap edge # {})
            ~> (FdOf(c) = {} \/ pc = "killed")
==============================================================================
