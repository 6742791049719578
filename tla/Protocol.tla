------------------------------- MODULE Protocol -------------------------------
(* src/mydb/protocol.c and data_format.c together: the calls of RemoteCalls    *)
(* with the argument types of DataFormat, how a list of arguments is read, and *)
(* the id by which two processes check that they have loaded the same.         *)
(* FirstTypes is BaseTypes, ReadType(_, _) is NewTable, ReadList is            *)
(* arglist_proc, PackArg, UnpackArg and CutArg are Pack, Unpack and Cut, and   *)
(* ValuesOf is SampleOf.                                                       *)
EXTENDS DataFormat, RemoteCalls

CONSTANTS Samples,    \* per type name, the values the scripts pass
          NumberKeys, \* the keys of tables that are numbers
          Spelling    \* of some names, the sequence of parts that they are written of

SampleOf(arg) == Samples[TypeName(arg)]
NewTable(known, t) == IF Readable(known, t.desc) THEN TableArg(t.name, known, t.desc) ELSE NoArg

(* An array makes a type of its own, also when the list fails later; every     *)
(* such type is called "array".  The base of an array is used before the       *)
(* assertion that it exists.                                                   *)
arglist_proc(known, list) ==
  LET Step(st, d) ==
        LET arg == get_arg(st.types, d.type)
            array == [kind |-> "array", base |-> arg, size |-> d.size]
        IN CASE st.res # "ok" -> st
             [] st.res = "ok" /\ d.size = -1 ->
                  IF arg = NoArg THEN [st EXCEPT !.res = "raised"] ELSE [st EXCEPT !.args = Append(@, arg)]
             [] st.res = "ok" /\ d.size # -1 ->
                  IF d.size \notin 0..(Byte - 1) THEN [st EXCEPT !.res = "raised"]
                  ELSE IF arg = NoArg THEN [st EXCEPT !.res = "crash"]
                  ELSE [st EXCEPT !.args = Append(@, array), !.types = Append(@, array)]
  IN FoldLeft(Step, [args |-> <<>>, types |-> known, res |-> "ok"], list)

(* What comes back of a value: the int of a number, cut to its width, an array  *)
(* to its size.  (The tables of the samples have no fields but those that are  *)
(* described, and those of types that nothing cuts.)                           *)
RECURSIVE Cut(_, _)
Cut(arg, v) ==
  CASE arg.kind = "number" -> <<"num", lua_number2int(v[2])>>
    [] arg.kind \in DOMAIN Width -> <<"num", Narrow(arg.kind, lua_number2int(v[2]))>>
    [] arg.kind = "array" -> <<"tab", [i \in 1..(IF arg.size = 0 THEN Len(v[2]) ELSE arg.size) |-> Cut(arg.base, v[2][i])]>>
    [] OTHER -> v

-------------------------------------------------------------------------------
(* The check of two processes (get_ptos_checkid): the name of each protocol,   *)
(* with the type and the description string of each argument.  calc_hashnr is  *)
(* taken to be free of collisions, so that what is compared is the text: the   *)
(* parts of all names one after the other, with no separators, no nesting and  *)
(* no array sizes.                                                             *)

Text(name) == IF name \in DOMAIN Spelling THEN Spelling[name] ELSE <<name>>
KeyText(k) == Text(IF k \in NumberKeys THEN "number" ELSE k)

RECURSIVE hashstr(_)
hashstr(arg) ==
  CASE arg.kind = "array" -> Text("array") \o Text(TypeName(arg.base)) \o hashstr(arg.base)
    [] arg.kind = "table" ->
         Text(arg.name) \o FlattenSeq([i \in DOMAIN arg.ops |->
            CASE arg.ops[i].op = "push_value" -> KeyText(arg.ops[i].key) \o Text(TypeName(arg.ops[i].arg))
              [] arg.ops[i].op = "tb_begin" -> KeyText(arg.ops[i].key)
              [] OTHER -> <<>>])
    [] OTHER -> Text(arg.kind)

get_check_id(o) ==
  Text(o.name) \o FlattenSeq([i \in DOMAIN o.args |-> Text(TypeName(o.args[i])) \o hashstr(o.args[i])])
get_ptos_checkid(p) == [i \in DOMAIN slots[p] |-> get_check_id(objs[p][slots[p][i]])]

-------------------------------------------------------------------------------
(* The base types that follow one another in the bytes of an argument.         *)
RECURSIVE Layout(_)
Layout(arg) ==
  CASE arg.kind = "array" -> <<"array">> \o Layout(arg.base)
    [] arg.kind = "table" -> FlattenSeq([i \in DOMAIN arg.ops |->
                                IF arg.ops[i].op = "push_value" THEN Layout(arg.ops[i].arg) ELSE <<>>])
    [] OTHER -> <<arg.kind>>

(* What protocol.h calls the check code of the protocols that were added: two  *)
(* processes with the same one pack and read the same base types in the same   *)
(* order.  They need not, for the text of a field and of its type has no       *)
(* border between them (get_check_id, get_hashstr).                            *)
CheckedLayout ==
  get_ptos_checkid("client") = get_ptos_checkid("server") =>
    \A i \in DOMAIN slots["client"] :
      LET c == objs["client"][slots["client"][i]]
          s == objs["server"][slots["server"][i]]
      IN FlattenSeq([k \in DOMAIN c.args |-> Layout(c.args[k])]) = FlattenSeq([k \in DOMAIN s.args |-> Layout(s.args[k])])
===============================================================================
