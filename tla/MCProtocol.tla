------------------------------ MODULE MCProtocol ------------------------------
(* Bytes of 16 values: a number takes up to 4 bytes, -32768 .. 32767, and a    *)
(* string of 15 or more needs the long head.                                   *)
EXTENDS Protocol

Arg(type) == [type |-> type, size |-> -1]
ArrayOf(type, size) == [type |-> type, size |-> size]
File(side, func, ends, args) == [side |-> side, func |-> func, ends |-> ends, args |-> args]

MCFiles == {
  File("client", "say", "table", <<Arg("number"), Arg("string")>>),
  File("client", "say", "no list", <<>>),
  File("client", "move", "table", <<ArrayOf("word", 2), Arg("array"), Arg("byte")>>),
  File("client", "say", "table", <<Arg("item"), ArrayOf("byte", 0)>>),
  File("server", "say", "table", <<Arg("dword")>>),
  File("nobody", "say", "table", <<>>),
  File("server", "move", "nothing", <<>>),
  File("server", "move", "no list", <<>>)}

Field(k, type) == [key |-> k, type |-> type, in |-> <<>>]
MCTypeFiles == {
  [name |-> "item", desc |-> <<Field("a", "byte"), [key |-> "b", type |-> "", in |-> <<Field("c", "string")>>]>>],
  [name |-> "deep", desc |-> <<[key |-> "a", type |-> "", in |-> <<Field("c", "byte")>>],
                               [key |-> "b", type |-> "", in |-> <<Field("c", "byte")>>]>>]}

(* Two layouts of one type whose texts are the same: "x" and "d"+"word", and    *)
(* "x"+"d" and "word".                                                          *)
MCSpelling == [dword |-> <<"d", "word">>, xd |-> <<"x", "d">>]
MCBorders == {[name |-> "item", desc |-> <<Field("x", "dword")>>],
              [name |-> "item", desc |-> <<Field("xd", "word")>>]}
MCItems == {File("client", "say", "table", <<Arg("item")>>)}

Num(n) == <<"num", n>>
Str(n) == <<"str", [i \in 1..n |-> 7]>>
Tab(f) == <<"tab", f>>
MCSamples ==
  [number |-> {Str(1), Num(65535)},
   byte |-> {Num(n) : n \in {-1}},
   word |-> {Num(n) : n \in {-129, 200}},
   dword |-> {Num(30000)},
   string |-> {Str(n) : n \in {14, 15}},
   array |-> {Tab(<<>>), Tab([i \in 1..15 |-> Num(IF i = 2 THEN -2 ELSE i)]), Tab([i \in 1..16 |-> Num(i)])},
   item |-> {Tab([a |-> Num(3), b |-> Tab([c |-> Str(0)])]), Tab([a |-> Num(2)])},
   deep |-> {}]

MCDests == {[multi |-> FALSE, vfds |-> <<11>>],
            [multi |-> TRUE, vfds |-> <<11, 9, 12, 13, 14>>]}
MCHandlers == [p \in Peers |-> IF p = "client" THEN {"say", "move"} ELSE {"say"}]

(* The formats, for the constants of RemoteCalls: those are not recursive, so   *)
(* that TLC's statistics need not unfold the types inside a type there.         *)
MCPack(arg, v) == Pack(arg, v)
MCUnpack(arg, buf) == Unpack(arg, buf)
MCCut(arg, v) == Cut(arg, v)

(* Every int comes back, and every other number as the int it became; strings   *)
(* come back on both sides of the longest that has a short head.                *)
ASSUME MCNumbers ==
  \A n \in -Byte^4..Byte^4 :
    UnpackNumber(PackNumber(n)) = Read(Len(PackNumber(n)), <<"num", lua_number2int(n)>>)
ASSUME MCStrings ==
  \A n \in 0..2 * Byte :
    UnpackString(PackString(Str(n)[2])) = Read(n + (IF n < Byte - 1 THEN 1 ELSE 3), Str(n))

(* The argument types that these files make, in whatever order they are loaded, *)
(* and that their formats keep what Delivered needs: with the types a process   *)
(* knows first and up to two more of them, and up to two bytes of a next one.   *)
MCTables == {t \in {NewTable(BaseTypes, u) : u \in TypeFiles} : t # NoArg}
MCTypes ==
  Range(BaseTypes) \union MCTables
  \union UNION {Range(arglist_proc(BaseTypes \o <<t>>, f.args).types) : t \in MCTables, f \in Files}
ASSUME MCFormats ==
  LET Few == BoundedSeq(MCTypes, 2)
  IN FormatsAgree(MCTypes, Few \union {BaseTypes \o more : more \in Few}, BoundedSeq(Bytes, 2))
===============================================================================
