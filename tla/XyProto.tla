-------------------------------- MODULE XyProto --------------------------------
(* src/cs/my_xy3/proto_s.cpp, proto_c.cpp and arg.cpp: Lua functions called     *)
(* over the network.  A server and its clients load the same .pto files in the  *)
(* same order; the position of a file is the number in the packets.  A file     *)
(* whose name begins with the letter of the side gives the number to a function *)
(* of for_maker there, and on the other side puts a function into for_caller    *)
(* that packs its arguments and sends them.                                     *)
(*                                                                              *)
(* Packets arrive whole and in order (HostServer models how).  Numbers are      *)
(* small, and as in a double of a small number only the last byte tells them    *)
(* apart.  "undefined" ends the model: a string argument (ArgString::pack       *)
(* returns no value, ArgString::unpack reads a length half set), a packet of    *)
(* negative length, a call with two values missing on the stack of Lua.         *)
EXTENDS Integers, Sequences, SequencesExt, TLC

CONSTANTS Client,
          Files,           \* the .pto files: for whom, whether that function exists, the types
          Numbers,         \* what scripts pass; Missing is no argument at all
          Missing,
          BufLen,          \* the buffer of pack
          NumberLen, DwordLen,
          MaxCalls         \* bound: calls of all clients

VARIABLES ptos,  \* each program's protocols (_ptos), or "stopped"
          net,   \* packets under way to the server and to each client: the bytes,
                 \* and the call they were packed for
          sent,  \* the calls the scripts of each client made
          served,\* the calls the functions of the server got from each client,
          got,   \* and each client got, with the calls they were packed for
          undefined
vars == <<ptos, net, sent, served, got, undefined>>

Program == Client \union {"server"}

-------------------------------------------------------------------------------
(* arg.cpp: what an argument takes in the buffer, -1 when it does not go in.    *)
Zeros(n) == [i \in 1..n |-> 0]
Refused == [len |-> -1, bytes |-> <<>>]

ArgDword_pack(v, room) ==
  IF DwordLen > room THEN Refused
  ELSE [len |-> DwordLen, bytes |-> <<v>> \o Zeros(DwordLen - 1)]

(* Zero is refused, as if it were an error. *)
ArgNumber_pack(v, room) ==
  IF v = 0 \/ NumberLen > room THEN Refused
  ELSE [len |-> NumberLen, bytes |-> Zeros(NumberLen - 1) \o <<v>>]

ArgString_pack(v, room) == IF 2 > room THEN Refused ELSE [len |-> "undefined", bytes |-> <<>>]

ArgDword_unpack(bytes) == IF DwordLen > Len(bytes) THEN Refused ELSE [len |-> DwordLen, value |-> bytes[1]]
ArgNumber_unpack(bytes) ==
  IF NumberLen > Len(bytes) THEN Refused ELSE [len |-> NumberLen, value |-> bytes[NumberLen]]
ArgString_unpack(bytes) == IF 2 > Len(bytes) THEN Refused ELSE [len |-> "undefined", value |-> 0]

Pack(type, v, room) ==
  CASE type = "dword" -> ArgDword_pack(v, room)
    [] type = "number" -> ArgNumber_pack(v, room)
    [] type = "string" -> ArgString_pack(v, room)
Unpack(type, bytes) ==
  CASE type = "dword" -> ArgDword_unpack(bytes)
    [] type = "number" -> ArgNumber_unpack(bytes)
    [] type = "string" -> ArgString_unpack(bytes)

getArg(type) == type \in {"string", "dword", "number"}

-------------------------------------------------------------------------------
(* Loading one file after the other.  The two sides are twins, but for the      *)
(* letter that makes a side the maker.  A function of the other side goes into  *)
(* for_caller (the script's Call), one of this side must be in for_maker.       *)
Known(list) == \A i \in DOMAIN list : getArg(list[i])
Made(id, file, isMaker) == [id |-> id, isMaker |-> isMaker, args |-> file.args]

procType_s(file) == file.for \in {"s", "c"}
isMaker_s(file) == file.for = "s"
procFunc_s(file) == isMaker_s(file) => file.defined
procArg_s(file) == Known(file.args)
load_s(file) == procType_s(file) /\ procFunc_s(file) /\ procArg_s(file)

(* The error of a file that does not load ends the preload script, and with it  *)
(* the program.                                                                 *)
addPto_s(list, file) ==
  IF list # "stopped" /\ load_s(file) THEN Append(list, Made(Len(list), file, isMaker_s(file))) ELSE "stopped"

procType_c(file) == file.for \in {"c", "s"}
isMaker_c(file) == file.for = "c"
procFunc_c(file) == isMaker_c(file) => file.defined
procArg_c(file) == Known(file.args)
load_c(file) == procType_c(file) /\ procFunc_c(file) /\ procArg_c(file)
addPto_c(list, file) ==
  IF list # "stopped" /\ load_c(file) THEN Append(list, Made(Len(list), file, isMaker_c(file))) ELSE "stopped"

preload_s(files) == FoldLeft(addPto_s, <<>>, files)
preload_c(files) == FoldLeft(addPto_c, <<>>, files)

-------------------------------------------------------------------------------
(* Sending.  What an argument used is added up, also the -1 of one that was     *)
(* refused: the next goes in one byte before.                                   *)
Put(buf, at, bytes) == [i \in DOMAIN buf |-> IF i > at /\ i <= at + Len(bytes) THEN bytes[i - at] ELSE buf[i]]

(* first: where the arguments begin in what the script passed, behind the       *)
(* client on the server's side.                                                 *)
marshal(pto, passed, first) ==
  LET step[i \in 0..Len(pto.args)] ==
        IF i = 0 THEN [buf |-> Put(Zeros(BufLen), 0, <<pto.id>>), used |-> 1]
        ELSE LET was == step[i - 1]
                 arg == Pack(pto.args[i], passed[first + i - 1], BufLen - was.used)
             IN  IF was.used \notin Nat \/ arg.len \notin Int THEN [was EXCEPT !.used = -1]
                 ELSE [buf |-> Put(was.buf, was.used, arg.bytes), used |-> was.used + arg.len]
  IN  step[Len(pto.args)]

Complete(pto, passed, first) ==
  \A i \in DOMAIN pto.args : first + i - 1 \in DOMAIN passed /\ passed[first + i - 1] # Missing

(* A call from Lua raises when an argument is missing; sends; or sends nothing  *)
(* when nothing was used.                                                       *)
CallOf(pto, values) == [f |-> pto.id, values |-> values]
Sending(pto, passed, first, to, call, n) ==
  LET m == marshal(pto, passed, first)
      packet == [data |-> SubSeq(m.buf, 1, m.used), of |-> call]
  IN  IF ~Complete(pto, passed, first) \/ m.used = 0 THEN [net |-> n, undefined |-> FALSE]
      ELSE IF m.used < 0 THEN [net |-> n, undefined |-> TRUE]
      ELSE [net |-> [n EXCEPT ![to] = Append(@, packet)], undefined |-> FALSE]

(* Mutant: both sides take the arguments from the same place.                   *)
pack_s_First(pto, vfd, values, n) == Sending(pto, <<vfd>> \o values, 1, vfd, CallOf(pto, values), n)

pack_s(pto, vfd, values, n) == Sending(pto, <<vfd>> \o values, 2, vfd, CallOf(pto, values), n)

pack_c(pto, c, values, n) ==
  LET o == Sending(pto, values, 1, "server", CallOf(pto, values), [n EXCEPT !["server"] = <<>>])
      new == o.net["server"]
  IN  [net |-> [n EXCEPT !["server"] = @ \o [i \in DOMAIN new |-> [from |-> c, data |-> new[i].data, of |-> new[i].of]]],
       undefined |-> o.undefined]

-------------------------------------------------------------------------------
(* Receiving: the values of a packet.  One that is too short gives no value,    *)
(* and moves what is read back by one.                                          *)
Values(pto, data) ==
  LET step[i \in 0..Len(pto.args)] ==
        IF i = 0 THEN [read |-> 1, values |-> <<>>, missing |-> 0]
        ELSE LET was == step[i - 1]
                 at == IF was.read < 0 THEN 0 ELSE was.read
                 arg == Unpack(pto.args[i], SubSeq(data, at + 1, Len(data)))
             IN  IF was.missing > 1 THEN was
                 ELSE IF arg.len = -1 THEN [was EXCEPT !.read = @ - 1, !.missing = @ + 1]
                 ELSE [was EXCEPT !.read = was.read + arg.len, !.values = Append(@, arg.value)]
  IN  step[Len(pto.args)]

HasString(pto) == \E i \in DOMAIN pto.args : pto.args[i] = "string"

(* unpackData and unpack: the function is called, or nothing happens: for a     *)
(* number that nothing was loaded for, one that is not for this side, or when a *)
(* value is missing, so that Lua finds no function.                             *)
Outcome(list, data) ==
  IF data = <<>> \/ data[1] >= Len(list) THEN [call |-> FALSE, undefined |-> FALSE]
  ELSE LET pto == list[data[1] + 1]
           v == Values(pto, data)
       IN  IF ~pto.isMaker THEN [call |-> FALSE, undefined |-> FALSE]
           ELSE IF HasString(pto) \/ v.missing > 1 THEN [call |-> FALSE, undefined |-> TRUE]
           ELSE [call |-> v.missing = 0, undefined |-> FALSE, f |-> pto.id, values |-> v.values]

-------------------------------------------------------------------------------
Init ==
  /\ \E known \in [Client -> 0..Len(Files)] :   \* some clients are older than some files
       ptos = [p \in Program |-> IF p = "server" THEN preload_s(Files) ELSE preload_c(SubSeq(Files, 1, known[p]))]
  /\ net = [p \in Program |-> <<>>] /\ undefined = FALSE
  /\ sent = [c \in Client |-> <<>>] /\ served = [c \in Client |-> <<>>] /\ got = [c \in Client |-> <<>>]

(* A script of the client calls for_caller[f]. *)
Call(c) ==
  /\ FoldFunction(+, 0, [d \in Client |-> Len(sent[d])]) < MaxCalls
  /\ ptos[c] # "stopped"
  /\ \E i \in DOMAIN ptos[c] : \E values \in [1..Len(ptos[c][i].args) -> Numbers \union {Missing}] :
       LET o == pack_c(ptos[c][i], c, values, net) IN
       /\ ~ptos[c][i].isMaker
       /\ net' = o.net /\ undefined' = o.undefined
       /\ sent' = [sent EXCEPT ![c] = Append(@, [f |-> i - 1, values |-> values])]
  /\ UNCHANGED <<ptos, served, got>>

(* The server's function calls the client back with what it got, by the next    *)
(* number that is for clients (preload_s.lua).                                  *)
Reply(f) == CHOOSE i \in DOMAIN Files : i > f + 1 /\ Files[i].for = "c" /\ \A j \in (f + 2)..(i - 1) : Files[j].for # "c"
HasReply(f) == \E i \in DOMAIN Files : i > f + 1 /\ Files[i].for = "c"

unpackData_s ==
  /\ net["server"] # <<>> /\ ptos["server"] # "stopped"
  /\ LET p == Head(net["server"])
         o == Outcome(ptos["server"], p.data)
         n == [net EXCEPT !["server"] = Tail(@)]
         r == IF o.call /\ HasReply(o.f) THEN pack_s(ptos["server"][Reply(o.f)], p.from, o.values, n)
              ELSE [net |-> n, undefined |-> o.undefined]
     IN  /\ net' = r.net /\ undefined' = r.undefined
         /\ served' = IF o.call THEN [served EXCEPT ![p.from] = Append(@, [f |-> o.f, values |-> o.values, of |-> p.of])]
                      ELSE served
  /\ UNCHANGED <<ptos, sent, got>>

unpackData_c(c) ==
  /\ net[c] # <<>> /\ net' = [net EXCEPT ![c] = Tail(@)]
  /\ LET p == Head(net[c])
         o == Outcome(ptos[c], p.data)
     IN  /\ undefined' = o.undefined
         /\ got' = IF o.call THEN [got EXCEPT ![c] = Append(@, [f |-> o.f, values |-> o.values, of |-> p.of])] ELSE got
  /\ UNCHANGED <<ptos, sent, served>>

Next == ~undefined /\ (unpackData_s \/ \E c \in Client : Call(c) \/ unpackData_c(c))
Spec == Init /\ [][Next]_vars

-------------------------------------------------------------------------------
(* Whether marshal packs all of a call: nothing is missing or refused, as a     *)
(* number that is zero or what does not fit is, and no argument is a string.    *)
Size(types) == LET size[i \in 0..Len(types)] == IF i = 0 THEN 1
                     ELSE size[i - 1] + IF types[i] = "dword" THEN DwordLen ELSE NumberLen
               IN  size[Len(types)]
Packs(c) ==
  /\ \A i \in DOMAIN Files[c.f + 1].args :
       /\ i \in DOMAIN c.values /\ c.values[i] # Missing
       /\ Files[c.f + 1].args[i] # "string"
       /\ Files[c.f + 1].args[i] = "number" => c.values[i] # 0
  /\ Size(Files[c.f + 1].args) <= BufLen

(* Of what was called, what came of calls that marshal packed whole.            *)
Came(calls) == SelectSeq(calls, LAMBDA x : Packs(x.of))
AsSent(calls) == [i \in DOMAIN calls |-> calls[i] @@ [of |-> calls[i]]]

(* The server gets every call of which all was packed, once, in order, with the *)
(* values and from the client it was made with, whatever other calls, that were *)
(* packed in part, come in between; and a client gets each answer in the same   *)
(* way, if it knows it (marshal and unpack of both sides, the vfd in front of   *)
(* the arguments, the numbers from addPto).                                     *)
Answers(calls, c) ==
  LET answered == SelectSeq(calls, LAMBDA x : HasReply(x.f) /\ Reply(x.f) <= Len(ptos[c]))
      answers == [i \in DOMAIN answered |-> [f |-> Reply(answered[i].f) - 1, values |-> answered[i].values]]
  IN  AsSent(SelectSeq(answers, Packs))
From(c) == SelectSeq(net["server"], LAMBDA p : p.from = c)
CallsArrive ==
  \A c \in Client :
    LET good == AsSent(SelectSeq(sent[c], Packs)) IN
    /\ IsPrefix(Came(served[c]), good) /\ (From(c) = <<>> => Came(served[c]) = good)
    /\ IsPrefix(Came(got[c]), Answers(served[c], c)) /\ (net[c] = <<>> => Came(got[c]) = Answers(served[c], c))

(* What marshal says of an argument that does not go in, "pack argument fail",  *)
(* with an error that ends the call: what the server's functions get are the    *)
(* calls that were made.  marshal looks for 0 where the arguments return -1,    *)
(* goes on one byte earlier, and may write over the number of the call.         *)
OnlyCallsMade ==
  \A c \in Client : \A i \in DOMAIN served[c] : \E k \in DOMAIN sent[c] :
    sent[c][k] = [f |-> served[c][i].f, values |-> served[c][i].values]
===============================================================================
