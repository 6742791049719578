------------------------------ MODULE ProtoSlots ------------------------------
(* src/mydb/protocol.c: the protocols that two processes, the "client" and the *)
(* "server" (cur_char), have loaded.  Each numbers them in the order it loads  *)
(* them, gives its scripts a function for each protocol that the other side    *)
(* implements, and may load one again under its number.  What is read of the   *)
(* arguments is left to RemoteCalls: list, in every operation, is what it      *)
(* makes of them.                                                              *)
EXTENDS Integers, Sequences, Functions

CONSTANTS Files,           \* the description files of protocols
          Handlers,        \* per process, the functions in its for_maker
          MaxLoads, MaxAll \* bounds: protocols a process and both load

VARIABLES objs,      \* per process, the net_protocol objects ever made
          slots,     \* _s_protos, as positions of objs; slot 0 is slots[p][1]
          freed,     \* the objects deleted
          types,     \* _s_args
          forCaller, \* for_caller: per function, the object its closure points to
          aborted    \* the processes that failed an assertion; the model ends with the first

slotVars == <<objs, slots, freed, forCaller>>

Peers == {"client", "server"}
Other(p) == CHOOSE q \in Peers : q # p
FuncNames == {f.func : f \in Files}

net_protocol(id) == [id |-> id, name |-> "", maker |-> FALSE, ref |-> FALSE, args |-> <<>>, whole |-> FALSE]

SlotsInit ==
  /\ objs = [p \in Peers |-> <<net_protocol(0)>>]
  /\ slots = [p \in Peers |-> <<1>>]
  /\ freed = [p \in Peers |-> {}]
  /\ forCaller = [p \in Peers |-> [n \in FuncNames |-> 0]]
  /\ aborted = {}

-------------------------------------------------------------------------------
(* Mutant: func_proc leaves a function alone that the scripts already have.    *)
load_Once(p, f, list) ==
  [bound |-> f.side # p /\ forCaller[p][f.func] = 0,
   args |-> list.args, types |-> list.types, res |-> list.res]

(* What loading file f makes of a new object: whether its function is bound    *)
(* for the scripts, its arguments, and how it ends.  "raised" leaves by a jump *)
(* of Lua, past whatever the caller does with a failure.                       *)
load(p, f, list) ==
  LET maker == f.side = p
      early(bound, res) == [bound |-> bound, args |-> <<>>, types |-> types[p], res |-> res]
      lacking == f.ends # "nothing" /\ maker /\ f.func \notin Handlers[p]
  IN CASE f.side \notin Peers \/ lacking -> early(FALSE, "raised")
       [] f.side \in Peers /\ f.ends = "nothing" -> early(FALSE, "error")
       [] f.side \in Peers /\ f.ends = "no list" /\ ~lacking -> early(~maker, "error")
       [] OTHER -> [bound |-> ~maker, args |-> list.args, types |-> list.types, res |-> list.res]

Loaded(p, f, id, l) == [id |-> id, name |-> f.func, maker |-> f.side = p, ref |-> f.side = p /\ l.res = "ok",
                        args |-> l.args, whole |-> l.res = "ok"]

(* The object and what loading it did, whatever became of it.  One that failed *)
(* before anything pointed to it is not kept.                                  *)
Kept(l) == l.bound \/ l.res = "ok"
Load(p, f, id, l) ==
  /\ aborted = {}
  /\ Len(objs[p]) <= MaxLoads /\ Len(objs[p]) + Len(objs[Other(p)]) < MaxAll + 2
  /\ objs' = [objs EXCEPT ![p] = IF Kept(l) THEN Append(@, Loaded(p, f, id, l)) ELSE @]
  /\ forCaller' = IF l.bound THEN [forCaller EXCEPT ![p][f.func] = Len(objs[p]) + 1] ELSE forCaller
  /\ types' = [types EXCEPT ![p] = l.types]
  /\ aborted' = IF l.res = "crash" THEN aborted \union {p} ELSE aborted

(* Mutant: a protocol that failed to load takes its number all the same.       *)
add_protocol_Always(p, f, list) ==
  LET l == load(p, f, list)
  IN /\ Load(p, f, Len(slots[p]), l)
     /\ slots' = IF Kept(l) THEN [slots EXCEPT ![p] = Append(@, Len(objs[p]) + 1)] ELSE slots
     /\ UNCHANGED freed

add_protocol(p, f, list) ==
  LET l == load(p, f, list)
  IN /\ Load(p, f, Len(slots[p]), l)
     /\ slots' = IF l.res = "ok" THEN [slots EXCEPT ![p] = Append(@, Len(objs[p]) + 1)] ELSE slots
     /\ UNCHANGED freed

update_protocol(p, id, f, list) ==
  LET l == load(p, f, list)
      new == Len(objs[p]) + 1
  IN /\ id < Len(slots[p])
     /\ Load(p, f, id, l)
     /\ CASE l.res = "ok" -> /\ slots' = [slots EXCEPT ![p][id + 1] = new]
                             /\ freed' = [freed EXCEPT ![p] = @ \union {slots[p][id + 1]}]
          [] l.res = "error" /\ l.bound -> /\ freed' = [freed EXCEPT ![p] = @ \union {new}]
                                           /\ UNCHANGED slots
          [] OTHER -> UNCHANGED <<slots, freed>>

(* Loading by itself, whatever the arguments are.  Everything else that the    *)
(* processes do leaves slotVars alone (see CallsNext of RemoteCalls).          *)
SlotsNext == \E p \in Peers, f \in Files : \E list :
  \/ add_protocol(p, f, list)
  \/ \E id \in Nat : update_protocol(p, id, f, list)

SlotsSpec == SlotsInit /\ [][SlotsNext]_slotVars

-------------------------------------------------------------------------------
(* Every slot holds the protocol whose number it is: one that loaded to the    *)
(* end, that no other slot holds, and that is not deleted while its slot       *)
(* lives.  (net_protocol::load fails half way, add_protocol and                *)
(* update_protocol put it away or leave it.)                                   *)
SlotsSound == \A p \in Peers :
  /\ \A i \in DOMAIN slots[p] : /\ objs[p][slots[p][i]].id = i - 1
                                /\ slots[p][i] \notin freed[p]
                                /\ i > 1 => objs[p][slots[p][i]].whole
  /\ IsInjective(slots[p])
  /\ \A n \in FuncNames : forCaller[p][n] \in 0..Len(objs[p])

(* A function that the scripts call packs for the protocol in the slot of its  *)
(* number (func_proc binds it to the object).  It is orphaned, and may pack    *)
(* for a deleted object or under the number of another protocol, in two ways   *)
(* only: its last load failed behind the binding, or update_protocol gave its  *)
(* slot a protocol of another name, or one that this process implements.       *)
CallsOwned == \A p \in Peers : \A n \in FuncNames :
  LET o == forCaller[p][n]
      owner == slots[p][objs[p][o].id + 1]
  IN o # 0 => \/ ~objs[p][o].whole
              \/ owner = o
              \/ objs[p][owner].name # n \/ objs[p][owner].maker
===============================================================================
