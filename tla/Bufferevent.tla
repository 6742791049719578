------------------------------ MODULE Bufferevent -----------------------------
(* src/cs/my_event/evbuffer.c with the callbacks of main.c: one connection     *)
(* that new_client accepts, its two events, its two buffers, and the peer.     *)
(* The events are what EventLoop makes of them: one that was added is called   *)
(* once its descriptor is ready, after the loop has taken it away again (it    *)
(* has no EV_PERSIST), the reading one before the writing one.  No timeout     *)
(* ever expires (timeout_process is empty).                                    *)
(*                                                                             *)
(* The program's own calls may come before and after any callback: the library *)
(* does nothing after the callbacks it makes.  The bytes of either direction   *)
(* are numbered as they are written.                                           *)
EXTENDS Evbuffer, FiniteSets

CONSTANTS MaxIn, MaxOut,  \* bounds: bytes the peer and the program write
          Chunk,          \* bound: bytes of one call
          SndBuf,         \* room of the kernel for what is sent
          Marks           \* the values of low and high marks

ASSUME BuffereventAssumption == Chunk \in Nat /\ Marks \subseteq Nat

VARIABLES state,      \* "none", "open", "freed", or "exit": the program has ended
          added,      \* ev_read and ev_write, where they wait for the descriptor
          active,     \* and those the loop is about to call
          input, output, wm_read, wm_write, enabled,
          remote,       \* "open", "closed", or "reset": it refuses what is sent
          sent, inq,  \* bytes the peer has written, those of them in the kernel
          written, outq, received, \* bytes the program has written, those in the kernel, those with the peer
          drained     \* bytes the program took out of input

bufVars == <<input, output, wm_read, wm_write, enabled>>
inVars == <<sent, inq, drained>>
outVars == <<written, outq, received>>
bevVars == <<state, added, active, bufVars, remote, inVars, outVars>>

NoMark == [low |-> 0, high |-> 0]
Span(a, b) == [i \in 1..(b - a) |-> a + i]  \* a+1 .. b

BevInit ==
  /\ state = "none" /\ added = {} /\ active = {}
  /\ input = evbuffer_new /\ output = evbuffer_new
  /\ wm_read = NoMark /\ wm_write = NoMark /\ enabled = {}
  /\ remote = "open" /\ sent = 0 /\ inq = <<>> /\ drained = 0
  /\ written = 0 /\ outq = <<>> /\ received = 0

-------------------------------------------------------------------------------
(* The program.                                                                *)

(* bufferevent_new, and bufferevent_enable of both directions. *)
new_client ==
  /\ state = "none"
  /\ state' = "open" /\ added' = {"r", "w"} /\ enabled' = {"r", "w"}
  /\ UNCHANGED <<active, input, output, wm_read, wm_write, remote, inVars, outVars>>

(* event_add does nothing for an event that is added or active. *)
AddEvent(ev) == added' = IF ev \in active THEN added ELSE added \union {ev}

bufferevent_write(n) ==
  /\ state = "open" /\ written + n <= MaxOut
  /\ output' = evbuffer_add(output, Span(written, written + n))
  /\ written' = written + n
  /\ IF "w" \in enabled THEN AddEvent("w") ELSE UNCHANGED added
  /\ UNCHANGED <<state, active, input, wm_read, wm_write, enabled, remote, inVars, outq, received>>

(* bufferevent_read leaves the bytes where they are; the program drains them.  *)
Drains(n) ==
  /\ state = "open" /\ input.off > 0
  /\ LET size == IF input.off < n THEN input.off ELSE n
     IN input' = evbuffer_drain(input, size) /\ drained' = drained + size
  /\ UNCHANGED <<state, added, active, output, wm_read, wm_write, enabled, remote, sent, inq, outVars>>

(* Mutant: the read event is not added again.                                  *)
read_pressure_cb_Never(high) == UNCHANGED added

(* bufferevent_read_pressure_cb *)
read_pressure_cb(high) ==
  IF (high = 0 \/ input.off < high) /\ "r" \in enabled THEN AddEvent("r") ELSE UNCHANGED added

bufferevent_setwatermark(ev, low, high) ==
  /\ state = "open"
  /\ IF ev = "r" THEN wm_read' = [low |-> low, high |-> high] /\ UNCHANGED wm_write
     ELSE wm_write' = [low |-> low, high |-> high] /\ UNCHANGED wm_read
  /\ read_pressure_cb(wm_read'.high)
  /\ UNCHANGED <<state, active, input, output, enabled, remote, inVars, outVars>>

-------------------------------------------------------------------------------
(* The loop and the callbacks.                                                 *)

Readable == inq # <<>> \/ remote # "open"
Writable == Len(outq) < SndBuf \/ remote = "reset"

(* Mutant: a descriptor that can be read is not asked whether it can be written. *)
Woken_One == {ev \in added : (ev = "r" /\ Readable) \/ (ev = "w" /\ Writable /\ ~("r" \in added /\ Readable))}

Woken == {ev \in added : remote = "reset" \/ (ev = "r" /\ Readable) \/ (ev = "w" /\ Writable)}

(* epoll_dispatch: a peer that has reset the connection wakes both events.     *)
Poll ==
  /\ state = "open" /\ active = {}
  /\ Woken # {} /\ active' = Woken
  /\ UNCHANGED <<state, added, bufVars, remote, inVars, outVars>>

Taken(ev) == added \ {ev}  \* event_del, in event_process_active
Due(ev) == state = "open" /\ ev \in active /\ (ev = "w" => "r" \notin active)

(* Mutant: the connection is closed with what is left.                         *)
client_errorcb_Drops ==
  /\ state' = "freed" /\ added' = {} /\ active' = {}
  /\ UNCHANGED <<outVars, output>>

(* client_errorcb: what is left of the output is sent with one call.  If it    *)
(* takes less, or fails, the program ends (event_err; a connection that was    *)
(* reset raises SIGPIPE, which nobody handles).                                *)
client_errorcb ==
  /\ IF output.off > 0 /\ (remote = "reset" \/ output.off > SndBuf - Len(outq))
     THEN state' = "exit" /\ UNCHANGED <<outq, output>>
     ELSE /\ state' = "freed"
          /\ outq' = outq \o Content(output) /\ output' = evbuffer_drain(output, output.off)
  /\ added' = {} /\ active' = {}  \* bufferevent_free
  /\ UNCHANGED <<written, received>>

(* Mutant: the room is not taken from the mark.                                *)
Room_None(n) == n

(* evbuffer_read takes all there is; a high mark leaves the room below it.     *)
Room(n) == IF wm_read.high = 0 \/ n < wm_read.high - input.off THEN n ELSE wm_read.high - input.off

(* wm_write.high, where the mark of reading is meant: mostly 0, and then the   *)
(* event is taken away after every read.                                       *)
Pauses(len) == wm_read.high # 0 /\ len >= wm_write.high /\ ~(wm_read.low # 0 /\ len < wm_read.low)

ReadNone ==  \* the mark is reached: the event is not added again
  /\ wm_read.high # 0 /\ wm_read.high <= input.off
  /\ added' = Taken("r") /\ active' = active \ {"r"}
  /\ UNCHANGED <<state, bufVars, inVars, outVars>>
ReadSome ==
  /\ inq # <<>> /\ (wm_read.high = 0 \/ wm_read.high > input.off)
  /\ LET n == Room(Len(inq))
         data == SubSeq(inq, 1, n)
     IN /\ inq' = SubSeq(inq, n + 1, Len(inq))
        /\ input' = Put(evbuffer_expand(input, n), data)
        /\ added' = IF Pauses(input'.off) THEN Taken("r") ELSE added \union {"r"}
  /\ active' = active \ {"r"}
  /\ UNCHANGED <<state, output, wm_read, wm_write, enabled, sent, drained, outVars>>
ReadAgain ==  \* EINTR, when the memory has been made
  /\ inq # <<>> /\ (wm_read.high = 0 \/ wm_read.high > input.off)
  /\ input' = evbuffer_expand(input, Room(Len(inq)))
  /\ active' = active \ {"r"}
  /\ UNCHANGED <<state, added, output, wm_read, wm_write, enabled, inVars, outVars>>
ReadFails ==  \* the end of the stream, an error, or no memory for what came
  /\ wm_read.high = 0 \/ wm_read.high > input.off
  /\ \/ inq = <<>> /\ remote # "open"
     \/ inq # <<>> /\ (remote = "reset" \/ Reallocs(input, Room(Len(inq))))
  /\ client_errorcb
  /\ UNCHANGED <<input, wm_read, wm_write, enabled, inVars>>

bufferevent_readcb ==
  /\ Due("r")
  /\ ReadNone \/ ReadSome \/ ReadAgain \/ ReadFails
  /\ UNCHANGED remote

WriteSome ==
  /\ \E n \in 1..output.off :
       /\ n <= SndBuf - Len(outq) /\ remote # "reset"
       /\ outq' = outq \o SubSeq(Content(output), 1, n)
       /\ output' = evbuffer_drain(output, n)
  /\ added' = IF output'.off # 0 THEN added \union {"w"} ELSE Taken("w")
  /\ active' = active \ {"w"}
  /\ UNCHANGED <<state, input, wm_read, wm_write, enabled, inVars, written, received>>
WriteNone ==
  /\ output.off = 0 /\ added' = Taken("w") /\ active' = active \ {"w"}
  /\ UNCHANGED <<state, bufVars, inVars, outVars>>
WriteAgain ==  \* EAGAIN
  /\ output.off # 0 /\ active' = active \ {"w"} /\ UNCHANGED <<state, added, bufVars, inVars, outVars>>
WriteFails ==
  /\ output.off # 0 /\ remote = "reset"
  /\ state' = "exit" /\ added' = {} /\ active' = {}
  /\ UNCHANGED <<bufVars, inVars, outVars>>

bufferevent_writecb ==
  /\ Due("w")
  /\ WriteSome \/ WriteNone \/ WriteAgain \/ WriteFails
  /\ UNCHANGED remote

-------------------------------------------------------------------------------
(* The peer.                                                                   *)

PeerWrites == /\ remote = "open" /\ state # "exit"
              /\ \E n \in 1..Chunk : /\ sent + n <= MaxIn
                                     /\ inq' = inq \o Span(sent, sent + n) /\ sent' = sent + n
              /\ UNCHANGED <<state, added, active, bufVars, remote, drained, outVars>>
PeerReads == /\ remote # "reset" /\ outq # <<>>
             /\ Head(outq) = received + 1
             /\ outq' = Tail(outq) /\ received' = Head(outq)
             /\ UNCHANGED <<state, added, active, bufVars, remote, inVars, written>>
PeerCloses == /\ remote = "open" /\ state = "open" /\ remote' = "closed"
              /\ UNCHANGED <<state, added, active, bufVars, inVars, outVars>>
PeerResets == /\ remote \in {"open", "closed"} /\ state = "open" /\ remote' = "reset"
              /\ UNCHANGED <<state, added, active, bufVars, inVars, outVars>>

BevNext ==
  \/ new_client
  \/ \E n \in 1..Chunk : bufferevent_write(n) \/ Drains(n)
  \/ \E low \in Marks, high \in Marks : bufferevent_setwatermark("r", low, high)
  \/ \E high \in Marks : bufferevent_setwatermark("w", 0, high)  \* its low mark is never read
  \/ Poll \/ bufferevent_readcb \/ bufferevent_writecb
  \/ PeerWrites \/ PeerReads \/ PeerCloses \/ PeerResets

(* The loop goes on, a call of send takes something in the end, and the peer   *)
(* reads what is there.                                                        *)
Fairness == /\ WF_bevVars(Poll) /\ WF_bevVars(bufferevent_readcb) /\ WF_bevVars(bufferevent_writecb)
            /\ SF_bevVars(Due("w") /\ (WriteSome \/ WriteFails) /\ UNCHANGED remote)
            /\ WF_bevVars(PeerReads)
BevSpec == BevInit /\ [][BevNext]_bevVars /\ Fairness

-------------------------------------------------------------------------------
(* Bytes arrive as they were written, in both directions and through every     *)
(* growth and move of the buffers, and never lie outside the memory            *)
(* (evbuffer_expand, evbuffer_align, evbuffer_drain).                          *)
BytesInOrder ==
  /\ InMemory(input) /\ InMemory(output)
  /\ Content(input) \o inq = Span(drained, sent)
  /\ state # "exit" => outq \o Content(output) = Span(received, written)

(* No byte is lost in silence: a connection that is freed has sent all that    *)
(* was written to it, or the program has ended (client_errorcb).               *)
FreedEmpty == state = "freed" => output.off = 0 /\ added = {} /\ active = {}

(* None is lost, in the buffers or with the connection.                        *)
BytesKept == BytesInOrder /\ FreedEmpty

(* Between callbacks the connection waits for what it has to do: for the       *)
(* descriptor to take what is written, and, without a high mark, to read.      *)
(* (With one it may stop for good: evbuffer_setcb is empty, and the mark of    *)
(* writing is compared.)                                                       *)
Scheduled == state = "open" =>
  /\ output.off # 0 => "w" \in added
  /\ wm_read.high = 0 => "r" \in added

(* A read never fills the input above its high mark (bufferevent_readcb).      *)
MarkKept == [][input'.off > input.off => wm_read.high = 0 \/ input'.off <= wm_read.high]_bevVars

(* What is written gets out, or the connection ends.                           *)
WriteEnds == output.off # 0 /\ state = "open" ~> output.off = 0 \/ state # "open"
===============================================================================
