------------------------------- MODULE CgiHandler ------------------------------
(* src/cgihandler: the requests one FastCGI process answers, one after the      *)
(* other (AcceptAndHandle has no threads).  A request passes through the hooks  *)
(* of CgiHandlerBase.real_process; an application (external) overrides them,    *)
(* and uses the database, uploads and sessions in handle_request.  The process  *)
(* keeps its database connection from request to request; other processes and   *)
(* time work on the sessions meanwhile.                                         *)
EXTENDS Integers, Sequences, FiniteSets, SequencesExt

CONSTANTS None, Users, Paths, Names, SessionTimeout,
          MaxRequests, MaxOps,  \* bounds, for each thing an application is about
          MaxSessions           \* a bound

ASSUME CgiHandlerAssumption ==  \* what is raised is an exception
  None \notin {"other", "socket", "SessionUserType", "SystemExit", "Database", "Interface"}

VARIABLES
  stage,    \* the hook that comes next, or "idle"; "except", "leave", "exit"
  exc,      \* what was raised
  resp,     \* JonUniResponse: _header_finished, the gzip header, _cookie_list (the last)
  finished, \* _output_finished
  out,      \* what the browser got
  use,      \* what the application of this process is about (a bound)
  objs, up, \* the Transaction objects and the upload session that handle_request holds
  lastup,   \* the upload session that is over, and which removal was refused
  db, did,  \* the database, and the rows written
  caught,   \* the transactions in which the application caught an error of MySQL and went on
  fs,       \* the file system
  store, kind, owner, \* the sessions, of which of the two modules, and who they were made for
  jar, tabs,          \* the browser: its cookie, the sids in its pages
  asked, who, shown,  \* the sid of the request, the user it acts for, the sid of a new session
  nreq, nops

app == <<use, objs, up, lastup, db, did, caught, fs, store, kind, owner, asked, who, shown>>
vars == <<stage, exc, resp, finished, out, app, jar, tabs, nreq, nops>>

D == INSTANCE CgiDatabase
S == INSTANCE CgiSession
U == INSTANCE CgiUpload

-------------------------------------------------------------------------------
(* JonUniResponse and the pages.  r is the response with what was sent.         *)
Now == [header |-> resp.header, gzip |-> resp.gzip, cookie |-> resp.cookie, out |-> out, jar |-> jar]
Sends(r) == /\ resp' = [header |-> r.header, gzip |-> r.gzip, cookie |-> r.cookie]
            /\ out' = r.out /\ jar' = r.jar
SetCookie(r, c) == [r EXCEPT !.cookie = c]
Write(r, what) == [r EXCEPT !.out = Append(@, what)]
AddGzipEncodingHeader(r) == IF r.header THEN r ELSE [r EXCEPT !.gzip = TRUE]

(* Mutant: it does not matter that it is finished.                              *)
FinishHeader_Again(r) ==
  [r EXCEPT !.header = TRUE, !.out = Append(@, "headers"), !.jar = IF r.cookie = None THEN @ ELSE r.cookie]

FinishHeader(r) ==
  IF r.header THEN r
  ELSE [r EXCEPT !.header = TRUE, !.out = Append(@, "headers"), !.jar = IF r.cookie = None THEN @ ELSE r.cookie]

general_info_page ==
  IF finished THEN UNCHANGED <<resp, out, jar, finished>>
  ELSE Sends(Write(FinishHeader(Now), "message")) /\ finished' = TRUE

Silent == UNCHANGED <<resp, out, jar, finished>>
Raises(e) == exc' = e /\ stage' = "except"
Goes(s) == stage' = s /\ UNCHANGED exc

-------------------------------------------------------------------------------
CgiInit ==
  /\ stage = "idle" /\ exc = None /\ resp = [header |-> FALSE, gzip |-> FALSE, cookie |-> None]
  /\ finished = FALSE /\ out = <<>> /\ use \in DOMAIN MaxOps /\ objs = 0 /\ up = None /\ lastup = None
  /\ db = D!Connect /\ did = {} /\ caught = {} /\ fs = [dirs |-> {}, files |-> {}]
  /\ store = {} /\ kind \in {"file", "share"} /\ owner = <<>> /\ jar = None /\ tabs = {}
  /\ asked = None /\ who = None /\ shown = None /\ nreq = 0 /\ nops = 0

(* HandlerWithLogging.process, with a handler, a request and a response of its  *)
(* own (Leave leaves them behind new).                                          *)
process ==
  /\ stage = "idle" /\ nreq < MaxRequests[use] /\ nreq' = nreq + 1
  /\ Goes("get_cgi_common_var") /\ asked' \in tabs \union {None} /\ Silent
  /\ UNCHANGED <<use, objs, up, lastup, db, did, caught, fs, store, kind, owner, who, shown, tabs, nops>>

(* A hook says yes, or no and there is a page about it, or it raises.           *)
Hook(hook, next) ==
  /\ stage = hook
  /\ \/ Goes(next) /\ Silent
     \/ Goes("leave") /\ general_info_page
     \/ \E e \in {"other", "socket", "SessionUserType"} : Raises(e) /\ Silent
  /\ UNCHANGED <<app, tabs, nreq, nops>>

Check(sid) == IF kind = "file" THEN S!FileCheck(store, sid, jar) ELSE S!ShareCheck(store, sid, jar)

(* An application that wants a session makes a SessionChecker in authenticate.  *)
authenticate ==
  \/ Hook("authenticate", "authorize")
  \/ /\ stage = "authenticate" /\ UNCHANGED <<tabs, nreq, nops>>
     /\ UNCHANGED <<use, objs, up, lastup, db, did, caught, fs, kind, owner, asked, shown>>
     /\ \E throw \in BOOLEAN, o \in Check(asked) :
          LET c == S!Checked(o, throw) IN
          /\ store' = o.store /\ who' = o.user
          /\ \/ c.raises # None /\ Raises(c.raises) /\ Silent
             \/ c.raises = None /\ c.logined /\ Goes("authorize") /\ Silent
             \/ c.raises = None /\ ~c.logined /\ Goes("leave") /\ general_info_page

-------------------------------------------------------------------------------
(* handle_request, one call of the application after the other *)
Op == stage = "handle_request" /\ nops < MaxOps[use] /\ nops' = nops + 1
      /\ UNCHANGED <<lastup, kind, use, asked, who, tabs, nreq>>
OrRaises(e) == IF e = None THEN Goes("handle_request") ELSE Raises(e)

(* An error of MySQL is passed on, or caught by the application.                *)
DbOp(o) == /\ db' = o.db
           /\ \/ o.err = None /\ Goes("handle_request") /\ UNCHANGED caught
              \/ o.err # None /\ Raises(o.err) /\ UNCHANGED caught
              \/ /\ o.err # None /\ Goes("handle_request")
                 /\ caught' = IF db.trans THEN caught \union {db.unit} ELSE caught
           /\ Silent /\ UNCHANGED <<up, fs, store, owner, shown>>
UseDb == Op /\ use = "db"

NewTransaction == /\ UseDb /\ objs < 2 /\ UNCHANGED did
                  /\ \E o \in D!Begin(db) : DbOp(o) /\ objs' = IF o.err = None THEN objs + 1 ELSE objs
DropTransaction == /\ UseDb /\ objs > 0 /\ objs' = objs - 1 /\ UNCHANGED did
                   /\ \E d \in D!Deleted(db) : DbOp(D!Done(d))
ModifyRow == /\ UseDb /\ UNCHANGED objs
             /\ \E o \in D!Modify(db, <<nreq, nops>>) :
                  /\ DbOp(o)
                  /\ did' = IF o.err = None THEN did \union {D!RowOf(db, <<nreq, nops>>)} ELSE did
QueryRows == UseDb /\ UNCHANGED <<did, objs>> /\ \E o \in D!Query(db) : DbOp(o)
CommitAll == UseDb /\ objs > 0 /\ UNCHANGED <<did, objs>> /\ \E o \in D!Commit(db) : DbOp(o)
RollBackAll == UseDb /\ objs > 0 /\ UNCHANGED <<did, objs>> /\ \E o \in D!RollBack(db) : DbOp(o)

SaveFile ==
  /\ Op /\ use = "upload"
  /\ \E path \in Paths, name \in Names, throw \in BOOLEAN :
       \E o \in U!safe_save(fs, IF up = None THEN U!NewUpload ELSE up, path, name, throw) :
         fs' = o.fs /\ up' = o.up /\ OrRaises(o.err)
  /\ Silent /\ UNCHANGED <<objs, db, did, caught, store, owner, shown>>

UseSession == Op /\ use = "session" /\ UNCHANGED <<objs, up, db, did, caught, fs>>
LogIn ==
  /\ UseSession /\ Len(owner) < MaxSessions
  /\ \E user \in Users, throw \in BOOLEAN :
       LET n == Len(owner) + 1 IN
       \E o \in IF kind = "file" THEN S!FileCreate(store, n, user) ELSE S!ShareCreate(store, n, user) :
         LET c == IF kind = "file" THEN S!FileDoCreate(o, throw) ELSE S!ShareDoCreate(o, throw) IN
         /\ store' = o.store /\ owner' = Append(owner, user)
         /\ shown' = IF o.sid = None THEN shown ELSE o.sid
         /\ Sends(IF o.err = None THEN SetCookie(Now, o.cookie) ELSE Now) /\ UNCHANGED finished
         /\ OrRaises(c.raises)
TouchSession ==
  /\ UseSession /\ kind = "share" /\ Silent /\ UNCHANGED <<owner, shown>>
  /\ \E o \in S!ShareUpdate(store, asked, jar) : store' = o.store /\ OrRaises(o.err)
LogOut ==
  /\ UseSession /\ Silent /\ UNCHANGED <<owner, shown>>
  /\ \E o \in IF kind = "file" THEN S!FileRemove(store, jar) ELSE S!ShareRemove(store, asked, jar) :
       store' = o.store /\ OrRaises(o.err)

Fails == /\ Op /\ Silent /\ UNCHANGED <<objs, up, db, did, caught, fs, store, owner, shown>>
         /\ \E e \in {"other", "socket", "SessionUserType", "SystemExit"} : Raises(e)

(* It ends.  The objects that handle_request holds are deleted when it returns. *)
DropUpload == /\ up' = None
              /\ \/ up = None /\ lastup' = None /\ UNCHANGED fs
                 \/ /\ up # None
                    /\ \E at \in U!Removals(up) : /\ fs' = U!Deleted(fs, up, at)
                                                 /\ lastup' = [session |-> up, refused |-> at]
DropLocals == /\ db' \in IF objs > 0 THEN D!Deleted(db) ELSE {db}
              /\ objs' = 0 /\ DropUpload
Return(next) == stage = "handle_request" /\ Goes(next) /\ DropLocals
                /\ UNCHANGED <<did, caught, store, kind, owner, use, asked, who, shown, tabs, nreq, nops>>

ReturnPage == Return("leave") /\ general_info_page
Redirect == Return("leave") /\ Sends(FinishHeader(Now)) /\ UNCHANGED finished
get_cext_Fails == Return("leave") /\ Sends(Write(FinishHeader(Now), "message")) /\ finished' = TRUE
ReturnCext == Return("output") /\ Silent

set_cext_var_Fails == /\ stage = "output" /\ Silent /\ UNCHANGED <<app, tabs, nreq, nops>>
                      /\ \E e \in {"other", "socket"} : Raises(e)

(* output_cgiext: the template is written whole or breaks off (external).       *)
output_cgiext ==
  /\ stage = "output" /\ UNCHANGED <<app, tabs, nreq, nops>>
  /\ \E gz \in BOOLEAN :
       LET begun == FinishHeader(IF gz THEN AddGzipEncodingHeader(Now) ELSE Now)
           whole == Write(begun, "template")
       IN  \/ Goes("leave") /\ finished' = TRUE /\ Sends(IF gz THEN Write(whole, "trailer") ELSE whole)
           \/ /\ \E e \in {"other", "socket"} : Raises(e)
              /\ Sends(Write(begun, "part")) /\ UNCHANGED finished

(* exception_handle makes a page of it; what handle_request held, and what      *)
(* compresses the output, lives until process returns.  SystemExit is passed on.*)
exception_handle ==
  /\ stage = "except" /\ stage' = (IF exc = "SystemExit" THEN "exit" ELSE "unwind") /\ UNCHANGED exc
  /\ IF exc = "SystemExit" THEN Silent ELSE general_info_page
  /\ UNCHANGED <<app, tabs, nreq, nops>>

Unwind ==
  /\ stage = "unwind" /\ Goes("leave") /\ DropLocals
  /\ Sends(IF resp.gzip THEN Write(Now, "trailer") ELSE Now) /\ UNCHANGED finished
  /\ UNCHANGED <<did, caught, store, kind, owner, use, asked, who, shown, tabs, nreq, nops>>

(* The request is over: the browser shows the page.                             *)
Leave ==
  /\ stage = "leave" /\ stage' = "idle" /\ exc' = None /\ out' = <<>> /\ finished' = FALSE
  /\ resp' = [header |-> FALSE, gzip |-> FALSE, cookie |-> None]
  /\ tabs' = IF shown # None /\ Contains(out, "template") THEN tabs \union {shown} ELSE tabs
  /\ asked' = None /\ who' = None /\ shown' = None /\ lastup' = None /\ nops' = 0
  /\ UNCHANGED <<use, objs, up, db, did, caught, fs, store, kind, owner, jar, nreq>>

(* ExitFcgi, or the SystemExit of an application: objects go with the process.  *)
Exit ==
  /\ stage = "exit" /\ Goes("gone") /\ Silent
  /\ db' \in UNION {D!Close(d) : d \in IF objs > 0 THEN D!Deleted(db) ELSE {db}}
  /\ objs' = 0 /\ DropUpload
  /\ UNCHANGED <<did, caught, store, kind, owner, use, asked, who, shown, tabs, nreq, nops>>

(* Time, and another process of the pool, where somebody logs out.              *)
Others ==
  /\ \/ \E s \in store : store' = store \ {s}
     \/ store # {} /\ (\E s \in store : s.age <= SessionTimeout)
        /\ store' = {[s EXCEPT !.age = IF @ > SessionTimeout THEN @ ELSE @ + 1] : s \in store}
  /\ UNCHANGED <<use, objs, up, lastup, db, did, caught, fs, kind, owner, asked, who, shown>>
  /\ UNCHANGED <<stage, exc, resp, finished, out, jar, tabs, nreq, nops>>

CgiNext ==
  \/ process \/ Hook("get_cgi_common_var", "prepare") \/ Hook("prepare", "authenticate") \/ authenticate
  \/ Hook("authorize", "get_cgi_var") \/ Hook("get_cgi_var", "handle_request")
  \/ NewTransaction \/ DropTransaction \/ ModifyRow \/ QueryRows \/ CommitAll \/ RollBackAll
  \/ SaveFile \/ LogIn \/ TouchSession \/ LogOut \/ Fails
  \/ ReturnPage \/ Redirect \/ get_cext_Fails \/ ReturnCext
  \/ set_cext_var_Fails \/ output_cgiext
  \/ exception_handle \/ Unwind \/ Leave \/ Exit \/ Others
CgiSpec == CgiInit /\ [][CgiNext]_vars

-------------------------------------------------------------------------------
(* When a request is over the browser has one header, first, and one page or    *)
(* one message; only when a template broke off is there a piece of it before    *)
(* the message.  What is announced as gzip has its trailer last                 *)
(* (JonUniResponse.FinishHeader, _output_finished, GzipOutput).                 *)
Bodies == {<<>>, <<"template">>, <<"message">>}
          \union (IF exc = None THEN {} ELSE {<<"part", "message">>})
OneAnswer ==
  stage = "leave" =>
    \E body \in Bodies, end \in {<<>>, <<"trailer">>} :
      out = <<"headers">> \o body \o end /\ (resp.gzip => end = <<"trailer">>)

(* Between requests the connection has no transaction open, and _trans is set   *)
(* only if the connection is dead, so that the first Transaction of the next    *)
(* request really begins one.  The rows written while _trans was set belong to  *)
(* one request, and are committed all or none, unless the application caught an *)
(* error of MySQL between them and went on (Transaction.__del__, and _trans,    *)
(* which must not part from the server).                                        *)
WorkContained ==
  /\ stage = "idle" => ~db.open /\ (db.trans => ~db.up)
  /\ \A r, s \in did : r.unit = s.unit /\ r.unit # 0 =>
       r.row[1] = s.row[1] /\ (r.unit \in caught \/ (r \in db.rows <=> s \in db.rows))

(* When an upload that failed is over, the files it had saved are gone, up to   *)
(* one whose removal the system refused, or that it saved twice; and if none is *)
(* left and none was refused, the directory it made is left only with something *)
(* in it, unless it made several (UpLoadSessionBase.__del__).                   *)
Removed(u, at, f) ==
  /\ \E n \in 0..Len(u.saved) :
       /\ \A i \in 1..n : u.saved[i] \notin f.files
       /\ n < Len(u.saved) => at = n + 1 \/ \E i \in 1..n : u.saved[i] = u.saved[n + 1]
       /\ n = Len(u.saved) /\ Len(u.paths) = 1 /\ u.paths[1] \in f.dirs =>
            at = n + 1 \/ U!Inside(f, u.paths[1]) # {}
UploadUndone == lastup # None /\ ~lastup.session.ok => Removed(lastup.session, lastup.refused, fs)

(* A save that raised an exception leaves the result of its session False       *)
(* (safe_save, _session_result).                                                *)
ResultTells == [][SaveFile /\ stage' = "except" => ~up'.ok]_vars

(* A request acts for the user whose log-in made the page it comes from, also   *)
(* when somebody else has logged in since, in the same browser (CheckSession).  *)
RightUser == who # None => asked # None /\ who = owner[asked]
===============================================================================
