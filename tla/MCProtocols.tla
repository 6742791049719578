------------------------------ MODULE MCProtocols ------------------------------
(* The protocol libraries of mydb and of xy3 and the memory pool of mydb, side   *)
(* by side: a behaviour is of one of them, and the others stay as they begin.    *)
(* For XyProto, a call for the server and its answer, a call that is longer than *)
(* the buffer of eight bytes, and one with no arguments.                         *)
EXTENDS MCProtocol, MemPool

CONSTANTS Client, Missing
VARIABLES lib, xyPtos, xyNet, xySent, xyServed, xyGot, xyUndefined
xyVars == <<xyPtos, xyNet, xySent, xyServed, xyGot, xyUndefined>>

XyFiles == << [for |-> "s", defined |-> TRUE, args |-> <<"number", "dword">>],
              [for |-> "c", defined |-> TRUE, args |-> <<"dword", "number">>],
              [for |-> "s", defined |-> TRUE, args |-> <<"dword", "number", "number">>],
              [for |-> "s", defined |-> TRUE, args |-> <<>>] >>

Xy == INSTANCE XyProto
        WITH Files <- XyFiles, Numbers <- {0, 1, 3}, BufLen <- 8, NumberLen <- 3, DwordLen <- 2, MaxCalls <- 2,
             ptos <- xyPtos, net <- xyNet, sent <- xySent, served <- xyServed, got <- xyGot,
             undefined <- xyUndefined

OneInit ==
    /\ lib \in {"mydb", "pool", "xy3"}
    /\ CallsInit /\ Init /\ Xy!Init
    /\ lib # "pool" => \A b \in Block : blocks[b] = MemBlock(InitSize, 0)
    /\ lib # "xy3" => \A c \in Client : Len(xyPtos[c]) = Len(XyFiles)

OneNext ==
    /\ \/ lib = "mydb" /\ CallsNext /\ UNCHANGED <<vars, xyVars>>
       \/ lib = "pool" /\ Next /\ UNCHANGED <<callVars, xyVars>>
       \/ lib = "xy3" /\ Xy!Next /\ UNCHANGED <<callVars, vars>>
    /\ UNCHANGED lib

OneSpec == OneInit /\ [][OneNext]_<<lib, callVars, vars, xyVars>>

(* See XyProto: every call of which all was packed arrives once, in order, and   *)
(* is answered (Pto_s and Pto_c, marshal and unpack).                            *)
CallsArrive == Xy!CallsArrive

(* See XyProto: marshal ends a call whose argument does not go in with an error, *)
(* so that the functions of the server get only calls that were made.            *)
OnlyCallsMade == Xy!OnlyCallsMade
================================================================================
