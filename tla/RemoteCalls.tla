------------------------------ MODULE RemoteCalls ------------------------------
(* src/mydb/protocol.c: the remote calls of two processes, which load their    *)
(* protocols as in ProtoSlots.  A script calls a function of for_caller, which *)
(* packs its arguments and sends them; for each packet that arrives a          *)
(* script's function is called.                                                *)
(*                                                                             *)
(* What an argument is, and how it becomes bytes and comes back, are           *)
(* parameters here: Protocol takes them from DataFormat.                       *)
(*                                                                             *)
(* External: g_out_buf, hook_send and netd.  db_buf_alloc_pack (its body is    *)
(* commented out) gives room for MAXTONETD bytes, and what goes to             *)
(* s_data_sender reaches the other process whole and in order.                 *)
EXTENDS PackedBytes, ProtoSlots, FiniteSets

CONSTANTS TypeFiles,  \* the description files of table types
          FirstTypes, \* the types every process knows
          ReadType(_, _), ReadList(_, _),  \* what it makes of the text of a table type, of a list
          PackArg(_, _), UnpackArg(_, _),  \* pack, unpack of an argument
          CutArg(_, _),                    \* a value, as far as an int and its type can carry it
          ValuesOf(_),  \* the values the scripts pass for a type
          Dests,      \* the destinations they pass: [multi, vfds]
          Vfds,       \* those they send a packed string to
          VFD_NULL, VfdSize, MAXTONETD,
          MaxTypes, MaxNet  \* bounds: table types a process keeps, packets packed or on their way

ASSUME RoomAssumption ==
  /\ VFD_NULL \in Nat /\ VfdSize \in Nat \ {0} /\ MAXTONETD \in Nat
  /\ (\A dest \in Dests : dest.vfds \in Seq(Int)) /\ Vfds \subseteq Int

VARIABLES packed, \* the string a script got from pack_protocol
          net,    \* the packets on their way to the process
          got     \* the outcome of unpack_data, when it was the last step

protoVars == <<slotVars, types>>
callVars == <<protoVars, packed, net, got, aborted>>

NoCall == [did |-> FALSE]

CallsInit ==
  /\ SlotsInit
  /\ types = [p \in Peers |-> FirstTypes]
  /\ packed = [p \in Peers |-> <<>>]
  /\ net = [p \in Peers |-> <<>>]
  /\ got = [p \in Peers |-> NoCall]

-------------------------------------------------------------------------------
(* Types, and the files of protocols.                                          *)

add_arg_type(p, t) ==
  LET arg == ReadType(types[p], t)
  IN /\ aborted = {}
     /\ Cardinality({i \in DOMAIN types[p] : types[p][i].kind = "table"}) < MaxTypes
     /\ arg.kind # "none"  \* else an error is raised before the type is kept
     /\ types' = [types EXCEPT ![p] = Append(@, arg)]
     /\ got' = [q \in Peers |-> NoCall]
     /\ UNCHANGED <<slotVars, packed, net, aborted>>

(* A file is loaded, new or under the number of another.                       *)
LoadFile(p, f) ==
  LET list == ReadList(types[p], f.args)
  IN /\ add_protocol(p, f, list) \/ \E id \in 0..MaxLoads : update_protocol(p, id, f, list)
     /\ got' = [q \in Peers |-> NoCall]
     /\ UNCHANGED <<packed, net>>

-------------------------------------------------------------------------------
(* Packing: for_caller.func(vfd, ...) of a script.                             *)

IdBytes(id) == IF id < Byte THEN <<id>> ELSE <<0, id % Byte, (id \div Byte) % Byte>>

(* The bytes after the id and so many arguments.  An argument that cannot be   *)
(* packed gives no bytes, and the loop ends there.                             *)
Marshalled(self, vals) ==
  LET buf[i \in 0..Len(self.args)] ==
        IF i = 0 THEN IdBytes(self.id) ELSE buf[i - 1] \o PackArg(self.args[i], vals[i])
  IN buf

marshal(self, vals) ==
  LET all == Marshalled(self, vals)[Len(self.args)]
  IN IF Len(all) > MAXTONETD \/ \E i \in 1..Len(self.args) : PackArg(self.args[i], vals[i]) = <<>>
     THEN <<>> ELSE all

(* The lists of values that a script may pass for args.                        *)
Inputs(args) ==
  LET lists[i \in 0..Len(args)] ==
        IF i = 0 THEN {<<>>} ELSE {Append(vals, v) : vals \in lists[i - 1], v \in ValuesOf(args[i])}
  IN lists[Len(args)]

(* Those of the list who are reachable, and as many of them as fit behind the  *)
(* packet.  A single receiver is not written there.                            *)
Recipients(dest, used) ==
  LET room == IF dest.multi THEN (MAXTONETD - used) \div VfdSize ELSE 1
      to[i \in 0..Len(dest.vfds)] ==
        IF i = 0 THEN <<>>
        ELSE IF dest.vfds[i] > VFD_NULL /\ Len(to[i - 1]) < room THEN Append(to[i - 1], dest.vfds[i])
        ELSE to[i - 1]
  IN to[Len(dest.vfds)]

(* A packet also carries what the model wants to know when it arrives: who     *)
(* packed it and from what, and whether pack chose its receivers.              *)
Packet(self, vals, bytes, to, multi, chosen) ==
  [bytes |-> bytes, to |-> to, multi |-> multi, args |-> self.args, name |-> self.name, vals |-> vals,
   chosen |-> chosen]
OnTheirWay == FoldFunction(LAMBDA s, n : n + Len(s), 0, net) + FoldFunction(LAMBDA s, n : n + Len(s), 0, packed)
Send(p, packet) == /\ net' = [net EXCEPT ![Other(p)] = Append(@, packet)]
                   /\ UNCHANGED aborted

Usable(p, o) == aborted = {} /\ o # 0 /\ o \notin freed[p]

pack(p, n) ==
  LET o == forCaller[p][n]
      self == objs[p][o]
  IN /\ Usable(p, o)
     /\ IF self.id = 0
        THEN aborted' = aborted \union {p} /\ UNCHANGED net  \* assert in marshal
        ELSE /\ OnTheirWay < MaxNet
             /\ \E vals \in Inputs(self.args) :
                  LET bytes == marshal(self, vals)
                  IN \E dest \in Dests :
                       LET to == Recipients(dest, Len(bytes))
                       IN /\ bytes # <<>> /\ to # <<>>  \* else nothing is sent
                          /\ Send(p, Packet(self, vals, bytes, to, dest.multi, TRUE))
     /\ got' = [q \in Peers |-> NoCall]
     /\ UNCHANGED <<protoVars, packed>>

(* A script may also have the packet as a string, and send it later.           *)
pack_protocol(p, n) ==
  LET o == forCaller[p][n]
      self == objs[p][o]
  IN /\ Usable(p, o) /\ self.id # 0 /\ OnTheirWay < MaxNet
     /\ \E vals \in Inputs(self.args) :
          LET bytes == marshal(self, vals)
          IN /\ bytes # <<>>
             /\ packed' = [packed EXCEPT ![p] = <<Packet(self, vals, bytes, <<>>, FALSE, TRUE)>>]
     /\ got' = [q \in Peers |-> NoCall]
     /\ UNCHANGED <<protoVars, net, aborted>>

(* Nothing is checked: not the receiver, nor that the string fits the buffer,   *)
(* as one of pack_protocol does (protocol.h: data that was packed before).      *)
send_pack_data(p, vfd) ==
  /\ aborted = {} /\ packed[p] # <<>>
  /\ LET pk == Head(packed[p])
     IN Send(p, Packet(pk, pk.vals, pk.bytes, <<vfd>>, FALSE, FALSE))
  /\ packed' = [packed EXCEPT ![p] = <<>>]
  /\ got' = [q \in Peers |-> NoCall]
  /\ UNCHANGED protoVars

-------------------------------------------------------------------------------
(* Unpacking.                                                                  *)

FormatError == -1  \* XYNET_ERROR_UNPACK_FORMAT
ScriptError == -2  \* XYNET_ERROR_UNPACK_SCRIPT

(* Mutant: the length of an argument is not added to what was read before.     *)
Unpacked_Last(self, buf) ==
  LET read[i \in 0..Len(self.args)] ==
        IF i = 0 THEN [n |-> 0, vals |-> <<>>]
        ELSE LET st == read[i - 1]
                 u == UnpackArg(self.args[i], Rest(buf, st.n))
             IN IF st.n < 0 \/ u.n = 0 THEN [st EXCEPT !.n = FormatError]
                ELSE [n |-> u.n, vals |-> Append(st.vals, u.v)]
  IN read

(* How far buf is read after so many arguments, and what they are.             *)
Unpacked(self, buf) ==
  LET read[i \in 0..Len(self.args)] ==
        IF i = 0 THEN [n |-> 0, vals |-> <<>>]
        ELSE LET st == read[i - 1]
                 u == UnpackArg(self.args[i], Rest(buf, st.n))
             IN IF st.n < 0 \/ u.n = 0 THEN [st EXCEPT !.n = FormatError]
                ELSE [n |-> st.n + u.n, vals |-> Append(st.vals, u.v)]
  IN read

unpack(self, buf) == IF ~self.ref THEN [n |-> FormatError] ELSE Unpacked(self, buf)[Len(self.args)]

(* The script's function may fail (it is called only with a whole packet).     *)
unpack_data(p, fails) ==
  LET packet == Head(net[p])
      buf == packet.bytes
      head == IF buf[1] = 0 THEN 3 ELSE 1
      id == IF buf[1] = 0 THEN buf[2] + Byte * buf[3] ELSE buf[1]
      o == objs[p][slots[p][id + 1]]
      u == unpack(o, Rest(buf, head))
      known == Has(buf, head) /\ id < Len(slots[p])
      seen == [packet EXCEPT !.to = <<>>, !.multi = FALSE, !.chosen = TRUE]
  IN /\ aborted = {} /\ net[p] # <<>>
     /\ fails => known /\ u.n >= 0
     /\ got' = [q \in Peers |->
          IF q # p THEN NoCall
          ELSE IF ~known THEN [did |-> TRUE, packet |-> seen, res |-> FormatError, proto |-> net_protocol(0)]
          ELSE IF u.n < 0 THEN [did |-> TRUE, packet |-> seen, res |-> FormatError, proto |-> o]
          ELSE [did |-> TRUE, packet |-> seen, res |-> IF fails THEN ScriptError ELSE head + u.n,
                proto |-> o, vals |-> u.vals]]
     /\ net' = [net EXCEPT ![p] = Tail(@)]
     /\ UNCHANGED <<protoVars, packed, aborted>>

CallsNext == \E p \in Peers :
  \/ \E t \in TypeFiles : add_arg_type(p, t)
  \/ \E f \in Files : LoadFile(p, f)
  \/ \E n \in FuncNames : pack(p, n) \/ pack_protocol(p, n)
  \/ \E vfd \in Vfds : send_pack_data(p, vfd)
  \/ \E fails \in BOOLEAN : unpack_data(p, fails)

CallsSpec == CallsInit /\ [][CallsNext]_callVars

-------------------------------------------------------------------------------
(* What Delivered asks of the formats.  The processes' types, known, are in A, *)
(* and so are those that they make of the files; and a value that can be       *)
(* packed is read back from its bytes, whatever bytes follow them.             *)
FormatsAgree(A, Lists, Tails) ==
  /\ FirstTypes \in Seq(A)
  /\ \A known \in Lists :
       /\ \A t \in TypeFiles : ReadType(known, t).kind = "none" \/ ReadType(known, t) \in A
       /\ \A f \in Files : /\ ReadList(known, f.args).args \in Seq(A)
                           /\ ReadList(known, f.args).types \in Seq(A)
  /\ \A a \in A : \A v \in ValuesOf(a) :
       /\ PackArg(a, v) \in Seq(Bytes)
       /\ PackArg(a, v) # <<>> => \A rest \in Tails :
            UnpackArg(a, PackArg(a, v) \o rest) = [n |-> Len(PackArg(a, v)), v |-> CutArg(a, v)]

(* A packet whose arguments the receiver describes in the same way is read to  *)
(* its last byte and hands the script the values that were packed, whatever    *)
(* their types and sizes, as far as an int and the types carry them; and it    *)
(* fits the buffer together with its list of receivers, among whom pack leaves *)
(* nobody unreachable (net_protocol::pack, marshal, unpack).                   *)
Delivered == \A p \in Peers :
  /\ got[p].did /\ got[p].packet.args = got[p].proto.args /\ got[p].proto.ref =>
       /\ got[p].res \in {Len(got[p].packet.bytes), ScriptError}
       /\ got[p].vals = [i \in DOMAIN got[p].packet.args |-> CutArg(got[p].packet.args[i], got[p].packet.vals[i])]
  /\ \A i \in DOMAIN net[p] :
       /\ Len(net[p][i].bytes) + (IF net[p][i].multi THEN VfdSize * Len(net[p][i].to) ELSE 0) <= MAXTONETD
       /\ net[p][i].chosen => \A j \in DOMAIN net[p][i].to : net[p][i].to[j] > VFD_NULL
===============================================================================
