------------------------------ MODULE CgiSession -------------------------------
(* The two session modules of src/cgihandler: cgi_session.py (a file for each   *)
(* session: its name is the browser's cookie, and it holds the key that the     *)
(* pages carry as "sid") and cgi_share_session.py (a session server, asked with *)
(* sid and cookie together).                                                    *)
(*                                                                              *)
(* A store is a set of sessions.  The library of session files and the session  *)
(* server are external: they give every session a name of its own, count its    *)
(* age, and may fail.                                                           *)
EXTENDS Integers

CONSTANTS None, SessionTimeout

Session(n, user) == [sid |-> n, cookie |-> n, user |-> user, age |-> 0]

Made(store, s) == [store |-> store, sid |-> s.sid, cookie |-> s.cookie, err |-> None]
NotMade(store) == [store |-> store, sid |-> None, cookie |-> None, err |-> "SessionInternal"]
Found(store, s) == [store |-> store, user |-> s.user, err |-> None]
NotFound(store, err) == [store |-> store, user |-> None, err |-> err]

-------------------------------------------------------------------------------
(* cgi_session.py *)

(* When a later step fails the file that NewSession made stays, without a key. *)
FileCreate(store, n, user) ==
  {NotMade(store), NotMade(store \union {[Session(n, user) EXCEPT !.sid = None]}),
   Made(store \union {Session(n, user)}, Session(n, user))}

(* Mutant: the key in the file is not compared.                                 *)
FileCheck_Cookie(store, sid, cookie) ==
  LET old == {s \in store : s.cookie = cookie /\ s.age <= SessionTimeout}
  IN  IF cookie = None \/ old = {} THEN {NotFound(store, "SessionTimeout")}
      ELSE {Found(store, CHOOSE s \in old : TRUE)}

FileCheck(store, sid, cookie) ==
  LET info == {s \in store : s.cookie = cookie /\ s.age <= SessionTimeout}
  IN  IF cookie = None THEN {NotFound(store, "SessionTimeout")}
      ELSE {NotFound(store, "SessionInternal")} \union
           (IF \E s \in info : s.sid = sid /\ sid # None
            THEN {Found(store, s) : s \in info} ELSE {NotFound(store, "SessionTimeout")})

FileRemove(store, cookie) ==
  {[store |-> store, err |-> None], [store |-> {s \in store : s.cookie # cookie}, err |-> None],
   [store |-> store, err |-> "SessionInternal"]}

-------------------------------------------------------------------------------
(* cgi_share_session.py *)

Asked(store, sid, cookie) ==
  IF sid = None \/ cookie = None THEN {} ELSE {s \in store : s.sid = sid /\ s.cookie = cookie}

ShareCreate(store, n, user) ==
  {NotMade(store), Made(store \union {Session(n, user)}, Session(n, user))}

(* The server does not answer, or does not know it; it is too old, and removed  *)
(* (whether or not that succeeds); or it is good.                               *)
ShareCheck(store, sid, cookie) ==
  {NotFound(store, "SessionTimeout")} \union
  UNION {IF s.age > SessionTimeout
         THEN {NotFound(store, "SessionTimeout"), NotFound(store \ {s}, "SessionTimeout")}
         ELSE {Found(store, s)} : s \in Asked(store, sid, cookie)}

(* The age is not looked at; the server may count it from here.                 *)
ShareUpdate(store, sid, cookie) ==
  IF sid = None \/ cookie = None THEN {[store |-> store, err |-> "SessionTimeout"]}
  ELSE {[store |-> store, err |-> "SessionInternal"]} \union
       UNION {{[store |-> store, err |-> None],
               [store |-> (store \ {s}) \union {[s EXCEPT !.age = 0]}, err |-> None]}
              : s \in Asked(store, sid, cookie)}

ShareRemove(store, sid, cookie) ==
  IF sid = None \/ cookie = None THEN {[store |-> store, err |-> "SessionTimeout"]}
  ELSE {[store |-> store, err |-> "SessionInternal"]} \union
       {[store |-> store \ {s}, err |-> None] : s \in Asked(store, sid, cookie)}

-------------------------------------------------------------------------------
(* The classes around them: a SessionCreater and a SessionChecker raise, or     *)
(* keep the exception to themselves (throw).                                    *)
FileDoCreate(o, throw) ==   \* it returns the opposite of what happened
  [returns |-> o.sid = None, raises |-> IF throw THEN o.err ELSE None]
ShareDoCreate(o, throw) ==
  [returns |-> o.sid # None, raises |-> IF throw THEN o.err ELSE None]

Checked(o, throw) ==
  [logined |-> o.err = None, raises |-> IF throw THEN o.err ELSE None]
===============================================================================
