------------------------------ MODULE MCRequests -------------------------------
(* What the requests of web clients pass through, for TLC, side by side: the     *)
(* pool of connections, the queue of chunks and the CGI handler.  A behaviour is *)
(* of one of them, and the others stay as they begin.                            *)
EXTENDS MCCgiHandler, ConnMgr, ChunkQueue

VARIABLE part

OneInit ==
    /\ part \in {"connections", "chunks", "cgi"}
    /\ Init /\ QueueInit /\ CgiInit
    /\ part # "cgi" => use = "db" /\ kind = "file"

OneNext ==
    /\ \/ part = "connections" /\ Next /\ UNCHANGED <<queueVars, vars>>
       \/ part = "chunks" /\ QueueNext /\ UNCHANGED <<poolVars, vars>>
       \/ part = "cgi" /\ CgiNext /\ UNCHANGED <<poolVars, queueVars>>
    /\ UNCHANGED part

OneSpec == OneInit /\ [][OneNext]_<<part, poolVars, queueVars, vars>>
================================================================================
