----------------------------- MODULE MCCgiHandler ------------------------------
(* Values for CgiHandler: a directory and one inside it, and how many requests, *)
(* with how many calls each, of an application that uses the database, of one   *)
(* that takes uploads and of one that has sessions.                             *)
EXTENDS CgiHandler
MCPaths == {<<"p">>, <<"p", "q">>}
MCMaxRequests == [db |-> 2, upload |-> 2, session |-> 3]
MCMaxOps == [db |-> 4, upload |-> 3, session |-> 2]
===============================================================================
