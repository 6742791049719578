------------------------------ MODULE DataFormat ------------------------------
(* src/mydb/data_format.c: how a value of the scripts becomes bytes and comes  *)
(* back.  An argument type is a record with a "kind": one of the five base     *)
(* types, an array of a type, or a table that a description file lays out.  A  *)
(* value is <<"num", n>>, <<"str", bytes>> or <<"tab", function>> (an array is *)
(* a table whose function is a sequence).                                      *)
(*                                                                             *)
(* The source returns the number of bytes packed or read, with 0 for failure;  *)
(* here Pack returns the bytes themselves and fails with <<>>, which also      *)
(* stands for a raised error: its callers give up on both.  Every Pack of the  *)
(* source checks the room that is left, so that all of them succeed when the   *)
(* bytes they make together fit: the one check is in RemoteCalls!marshal.      *)
EXTENDS PackedBytes, SequencesExt, TLC

CONSTANTS MaxTableDeep,  \* max_table_deep, 10 in the source
          Wraps          \* whether lua_number2int wraps in this build

ASSUME DeepAssumption == MaxTableDeep \in Nat /\ Wraps \in BOOLEAN

-------------------------------------------------------------------------------
(* Integers in memory: little-endian bytes, two's complement.                  *)

ToBytes(n, w) == [i \in 1..w |-> (n \div Byte^(i - 1)) % Byte]
FromBytes(s) == FoldLeft(LAMBDA acc, b : acc * Byte + b, 0, Reverse(s))
Signed(n, w) == LET m == n % (Byte^w) IN IF 2 * m >= Byte^w THEN m - Byte^w ELSE m

(* External: Lua's numbers are doubles.  One that is no int is the least int    *)
(* (a cast, on amd64), or is wrapped (the trick of luaconf.h, on i386).         *)
lua_number2int(n) ==
  LET int == Signed(n, 4)
  IN IF int = n \/ Wraps THEN int ELSE -(Byte^4 \div 2)

Failed == [n |-> 0]
Read(n, v) == [n |-> n, v |-> v]

-------------------------------------------------------------------------------
(* number: a byte with the sign in bit 0 and the width above it, then the      *)
(* magnitude in that width.                                                    *)

PackNumber(n) ==
  LET num == lua_number2int(n)
      data == IF num < 0 THEN -num ELSE num
      w == CHOOSE k \in 1..4 : data < Byte^k /\ \A j \in 1..(k - 1) : data >= Byte^j
  IN <<2 * w + (IF num < 0 THEN 1 ELSE 0)>> \o ToBytes(data, w)

UnpackNumber(buf) ==
  LET w == buf[1] \div 2
      data == Signed(FromBytes(SubSeq(buf, 2, 1 + w)), 4)
  IN IF ~Has(buf, 1) \/ w \notin 1..4 \/ ~Has(buf, 1 + w) THEN Failed
     ELSE Read(1 + w, <<"num", Signed(IF buf[1] % 2 = 1 THEN -data ELSE data, 4)>>)

(* byte comes back unsigned, word and dword signed. *)
Width == [byte |-> 1, word |-> 2, dword |-> 4]
Narrow(kind, n) == IF kind = "byte" THEN n % Byte ELSE Signed(n, Width[kind])
UnpackFixed(kind, buf) ==
  LET w == Width[kind]
  IN IF ~Has(buf, w) THEN Failed ELSE Read(w, <<"num", Narrow(kind, FromBytes(SubSeq(buf, 1, w)))>>)

(* string: its length plus one in a byte, or a 0 and two bytes.                *)
PackString(s) ==
  LET id == Len(s) + 1
  IN CASE id < Byte -> <<id>> \o s
       [] id >= Byte /\ id < Byte^2 -> <<0>> \o ToBytes(id, 2) \o s
       [] OTHER -> <<>>

UnpackString(buf) ==
  LET long == buf[1] = 0
      head == IF long THEN 3 ELSE 1
      len == (IF long THEN FromBytes(SubSeq(buf, 2, 3)) ELSE buf[1]) - 1
  IN IF ~Has(buf, 1) \/ ~Has(buf, head) \/ len < 0 \/ ~Has(buf, head + len) THEN Failed
     ELSE Read(head + len, <<"str", SubSeq(buf, head + 1, head + len)>>)

-------------------------------------------------------------------------------
(* A table is described by its fields in the order lua_next meets them, each   *)
(* with the name of a known type or with the description of a table inside;    *)
(* _travel_table turns that into operations.  _cur_table_deep is never taken   *)
(* back when a table ends: it counts the tables, however deep they are.        *)

TypeName(arg) == IF arg.kind = "table" THEN arg.name ELSE arg.kind
NoArg == [kind |-> "none"]
get_arg(known, name) ==
  IF \E i \in DOMAIN known : TypeName(known[i]) = name
  THEN known[SelectInSeq(known, LAMBDA a : TypeName(a) = name)] ELSE NoArg

RECURSIVE _travel_table(_, _), Tables(_)
_travel_table(known, desc) ==
  FlattenSeq([i \in DOMAIN desc |->
      IF desc[i].in = <<>> THEN <<[op |-> "push_value", key |-> desc[i].key, arg |-> get_arg(known, desc[i].type)]>>
      ELSE <<[op |-> "tb_begin", key |-> desc[i].key]>> \o _travel_table(known, desc[i].in)])
  \o <<[op |-> "tb_end"]>>
Tables(desc) == FoldLeft(LAMBDA acc, field : acc + IF field.in = <<>> THEN 0 ELSE Tables(field.in), 1, desc)

BaseTypes == [i \in 1..5 |-> [kind |-> <<"number", "byte", "word", "dword", "string">>[i]]]
Readable(known, desc) ==
  /\ Tables(desc) <= MaxTableDeep
  /\ \A i \in DOMAIN _travel_table(known, desc) :
       LET o == _travel_table(known, desc)[i] IN o.op = "push_value" => o.arg # NoArg
TableArg(name, known, desc) == [kind |-> "table", name |-> name, ops |-> _travel_table(known, desc)]

-------------------------------------------------------------------------------
RECURSIVE Pack(_, _)

(* The source pushes a table on the stack of Lua for tb_begin, pops it for     *)
(* tb_end, and packs the field of the top one for push_value.                  *)
PackTable(ops, f) ==
  LET Step(st, o) ==
        LET top == Head(st.stack)
            field == top[o.key]
            more == Pack(o.arg, field)
        IN CASE st.bad -> st
             [] ~st.bad /\ o.op = "tb_end" -> [st EXCEPT !.stack = Tail(@)]
             [] ~st.bad /\ o.op # "tb_end" /\ o.key \notin DOMAIN top -> [st EXCEPT !.bad = TRUE]
             [] ~st.bad /\ o.op = "tb_begin" /\ o.key \in DOMAIN top ->
                  IF field[1] = "tab" THEN [st EXCEPT !.stack = <<field[2]>> \o @] ELSE [st EXCEPT !.bad = TRUE]
             [] ~st.bad /\ o.op = "push_value" /\ o.key \in DOMAIN top ->
                  [st EXCEPT !.out = @ \o more, !.bad = more = <<>>]
      end == FoldLeft(Step, [stack |-> <<f>>, out |-> <<>>, bad |-> FALSE], ops)
  IN IF end.bad THEN <<>> ELSE end.out

(* A size of 0 stands for a length that is sent, in one byte. *)
PackArray(arg, s) ==
  LET len == IF arg.size = 0 THEN Len(s) ELSE arg.size
      parts == [i \in 1..len |-> Pack(arg.base, s[i])]
  IN IF len >= Byte \/ len > Len(s) \/ \E i \in 1..len : parts[i] = <<>> THEN <<>>
     ELSE (IF arg.size = 0 THEN <<len>> ELSE <<>>) \o FlattenSeq(parts)

Pack(arg, v) ==
  CASE arg.kind = "number" /\ v[1] = "num" -> PackNumber(v[2])
    [] arg.kind \in DOMAIN Width /\ v[1] = "num" -> ToBytes(lua_number2int(v[2]), Width[arg.kind])
    [] arg.kind = "string" /\ v[1] = "str" -> PackString(v[2])
    [] arg.kind = "array" /\ v[1] = "tab" -> PackArray(arg, v[2])
    [] arg.kind = "table" /\ v[1] = "tab" -> PackTable(arg.ops, v[2])
    [] OTHER -> <<>>

-------------------------------------------------------------------------------
RECURSIVE Unpack(_, _)

(* The tables under construction are a stack of [tab, key]; the last tb_end    *)
(* is left out, the table that remains is the result.                          *)
UnpackTable(ops, buf) ==
  LET Put(frame, k, v) == [frame EXCEPT !.tab = (k :> v) @@ @]
      Step(st, o) ==
        LET got == Unpack(o.arg, Rest(buf, st.n))
            outer == st.stack[2]
        IN CASE st.bad -> st
             [] ~st.bad /\ o.op = "tb_begin" -> [st EXCEPT !.stack = <<[tab |-> <<>>, key |-> o.key]>> \o @]
             [] ~st.bad /\ o.op = "tb_end" ->
                  [st EXCEPT !.stack = <<Put(outer, Head(@).key, <<"tab", Head(@).tab>>)>> \o Tail(Tail(@))]
             [] ~st.bad /\ o.op = "push_value" ->
                  IF got.n = 0 THEN [st EXCEPT !.bad = TRUE]
                  ELSE [st EXCEPT !.n = @ + got.n, !.stack = <<Put(Head(@), o.key, got.v)>> \o Tail(@)]
      end == FoldLeft(Step, [stack |-> <<[tab |-> <<>>, key |-> ""]>>, n |-> 0, bad |-> FALSE], Front(ops))
  IN IF end.bad THEN Failed ELSE Read(end.n, <<"tab", Head(end.stack).tab>>)

UnpackArray(arg, buf) ==
  LET head == IF arg.size = 0 THEN 1 ELSE 0
      len == IF arg.size = 0 THEN buf[1] ELSE arg.size
      Step(st, i) ==
        LET got == Unpack(arg.base, Rest(buf, st.n))
        IN IF st.n < 0 \/ got.n = 0 THEN [st EXCEPT !.n = -1]
           ELSE [n |-> st.n + got.n, s |-> Append(st.s, got.v)]
      end == FoldLeft(Step, [n |-> head, s |-> <<>>], [i \in 1..len |-> i])
  IN IF ~Has(buf, head) \/ end.n < 0 THEN Failed ELSE Read(end.n, <<"tab", end.s>>)

Unpack(arg, buf) ==
  CASE arg.kind = "number" -> UnpackNumber(buf)
    [] arg.kind \in DOMAIN Width -> UnpackFixed(arg.kind, buf)
    [] arg.kind = "string" -> UnpackString(buf)
    [] arg.kind = "array" -> UnpackArray(arg, buf)
    [] arg.kind = "table" -> UnpackTable(arg.ops, buf)
===============================================================================
