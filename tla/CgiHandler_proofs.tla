--------------------------- MODULE CgiHandler_proofs ---------------------------
(* Proofs that a process answers every request with one page, keeps what a      *)
(* request writes to the database apart from every other request, acts for the  *)
(* user whose log-in made the page a request comes from, and takes away what a  *)
(* failed upload had saved as far as the file system lets it, for every set of  *)
(* users, paths and names, any number of requests and sessions, and both kinds  *)
(* of sessions.                                                                 *)
EXTENDS CgiHandler, FiniteSetTheorems, SequenceTheorems, WellFoundedInduction, TLAPS

-------------------------------------------------------------------------------
(* Sessions.  The library and the server give a session its number as key and   *)
(* as cookie, and it stays with the user it was made for; whoever a request     *)
(* acts for was looked up with the key that the request brought.                *)
SessionType == [sid : Nat \union {None}, cookie : Nat, user : Users, age : Nat]

OwnSession(s) ==
  /\ s.cookie \in DOMAIN owner /\ s.user = owner[s.cookie]
  /\ s.sid \in {None, s.cookie}

SessionInv ==
  /\ owner \in Seq(Users)
  /\ store \subseteq SessionType
  /\ \A s \in store : OwnSession(s)
  /\ stage = "idle" => who = None
  /\ who # None => asked # None /\ asked \in DOMAIN owner /\ who = owner[asked]

(* What a check finds is a session with the key of the request.                 *)
LEMMA CheckFacts ==
  ASSUME SessionInv, NEW o \in Check(asked)
  PROVE  /\ o.store \subseteq store
         /\ o.user # None =>
              asked # None /\ asked \in DOMAIN owner /\ o.user = owner[asked]
  <1>1. CASE kind = "file"
    <2>1. o \in S!FileCheck(store, asked, jar)
      BY <1>1 DEF Check
    <2> DEFINE info == {s \in store : s.cookie = jar /\ s.age <= SessionTimeout}
    <2>2. \/ \E e : o = S!NotFound(store, e)
          \/ /\ \E s \in info : s.sid = asked /\ asked # None
             /\ \E s \in info : o = S!Found(store, s)
      BY <2>1 DEF S!FileCheck
    <2>3. CASE \E e : o = S!NotFound(store, e)
      BY <2>3 DEF S!NotFound
    <2>4. CASE /\ \E s \in info : s.sid = asked /\ asked # None
               /\ \E s \in info : o = S!Found(store, s)
      <3>1. PICK s \in info : o = S!Found(store, s)
        BY <2>4
      <3>2. PICK t \in info : t.sid = asked /\ asked # None
        BY <2>4
      <3>3. s.cookie = asked
        BY <3>2 DEF SessionInv, OwnSession
      <3>4. QED
        BY <3>1, <3>2, <3>3 DEF S!Found, SessionInv, OwnSession
    <2>5. QED
      BY <2>2, <2>3, <2>4
  <1>2. CASE kind # "file"
    <2>1. o \in S!ShareCheck(store, asked, jar)
      BY <1>2 DEF Check
    <2>2. \/ \E st, e : st \subseteq store /\ o = S!NotFound(st, e)
          \/ \E s \in S!Asked(store, asked, jar) : o = S!Found(store, s)
      BY <2>1 DEF S!ShareCheck
    <2>3. CASE \E st, e : st \subseteq store /\ o = S!NotFound(st, e)
      BY <2>3 DEF S!NotFound
    <2>4. CASE \E s \in S!Asked(store, asked, jar) : o = S!Found(store, s)
      <3>1. PICK s \in store : o = S!Found(store, s) /\ s.sid = asked /\ asked # None
        BY <2>4 DEF S!Asked
      <3>2. QED
        BY <3>1 DEF S!Found, SessionInv, OwnSession
    <2>5. QED
      BY <2>2, <2>3, <2>4
  <1>3. QED
    BY <1>1, <1>2

(* Logging in makes at most one session, with the next number.                  *)
LEMMA LogInFacts ==
  ASSUME SessionInv, NEW user \in Users,
         NEW o \in IF kind = "file" THEN S!FileCreate(store, Len(owner) + 1, user)
                   ELSE S!ShareCreate(store, Len(owner) + 1, user)
  PROVE  /\ o.store \subseteq SessionType
         /\ \A s \in o.store : s \in store \/ /\ s.cookie = Len(owner) + 1
                                              /\ s.user = user
                                              /\ s.sid \in {None, s.cookie}
  <1> DEFINE n == Len(owner) + 1
             new == S!Session(n, user)
             keyless == [new EXCEPT !.sid = None]
  <1>1. n \in Nat
    BY DEF SessionInv
  <1>2. /\ new \in SessionType /\ new.cookie = n /\ new.user = user
        /\ new.sid = n
    BY <1>1 DEF S!Session, SessionType
  <1>3. /\ keyless \in SessionType /\ keyless.cookie = n /\ keyless.user = user
        /\ keyless.sid = None
    BY <1>1 DEF S!Session, SessionType
  <1>4. o.store \in {store, store \union {keyless}, store \union {new}}
    BY DEF S!FileCreate, S!ShareCreate, S!Made, S!NotMade
  <1> HIDE DEF new, keyless
  <1>5. QED
    BY <1>2, <1>3, <1>4 DEF SessionInv

(* The operations on a session that exists only take sessions away, or make one *)
(* young again.                                                                 *)
LEMMA YoungFacts ==
  ASSUME SessionInv, NEW s \in store, NEW age \in Nat
  PROVE  /\ [s EXCEPT !.age = age] \in SessionType
         /\ OwnSession([s EXCEPT !.age = age])
  BY DEF SessionInv, SessionType, OwnSession

LEMMA TouchFacts ==
  ASSUME SessionInv,
         TouchSession \/ LogOut
  PROVE  store' \subseteq SessionType /\ \A s \in store' : OwnSession(s)
  <1>1. CASE TouchSession
    <2>1. PICK o \in S!ShareUpdate(store, asked, jar) : store' = o.store
      BY <1>1 DEF TouchSession
    <2>2. \/ store' = store
          \/ \E s \in store : store' = (store \ {s}) \union {[s EXCEPT !.age = 0]}
      BY <2>1 DEF S!ShareUpdate, S!Asked
    <2>3. QED
      BY <2>2, YoungFacts DEF SessionInv
  <1>2. CASE LogOut
    <2>1. PICK o \in IF kind = "file" THEN S!FileRemove(store, jar)
                     ELSE S!ShareRemove(store, asked, jar) : store' = o.store
      BY <1>2 DEF LogOut
    <2>2. store' \subseteq store
      BY <2>1 DEF S!FileRemove, S!ShareRemove
    <2>3. QED
      BY <2>2 DEF SessionInv
  <1>3. QED
    BY <1>1, <1>2

(* The actions that leave the sessions, the request and its user alone; only    *)
(* Leave makes the process idle.                                                *)
Elsewhere ==
  \/ Hook("get_cgi_common_var", "prepare") \/ Hook("prepare", "authenticate")
  \/ Hook("authenticate", "authorize")
  \/ Hook("authorize", "get_cgi_var") \/ Hook("get_cgi_var", "handle_request")
  \/ NewTransaction \/ DropTransaction \/ ModifyRow \/ QueryRows \/ CommitAll \/ RollBackAll
  \/ SaveFile \/ Fails
  \/ ReturnPage \/ Redirect \/ get_cext_Fails \/ ReturnCext \/ set_cext_var_Fails \/ output_cgiext
  \/ exception_handle \/ Unwind \/ Exit

LEMMA ElsewhereFacts ==
  ASSUME Elsewhere
  PROVE  stage' # "idle" /\ UNCHANGED <<store, owner, kind, asked, who>>
  <1>1. ASSUME NEW hook, NEW next \in {"prepare", "authenticate", "authorize", "get_cgi_var",
                                       "handle_request"},
               Hook(hook, next)
        PROVE  stage' # "idle" /\ UNCHANGED <<store, owner, kind, asked, who>>
    BY <1>1 DEF Hook, Goes, Raises, app
  <1>2. CASE NewTransaction \/ DropTransaction \/ ModifyRow \/ QueryRows \/ CommitAll \/ RollBackAll
    BY <1>2 DEF NewTransaction, DropTransaction, ModifyRow, QueryRows, CommitAll, RollBackAll,
                UseDb, Op, DbOp, Goes, Raises
  <1>3. CASE SaveFile \/ Fails
    BY <1>3 DEF SaveFile, Fails, Op, OrRaises, Goes, Raises
  <1>4. CASE ReturnPage \/ Redirect \/ get_cext_Fails \/ ReturnCext \/ Unwind
    BY <1>4 DEF ReturnPage, Redirect, get_cext_Fails, ReturnCext, Unwind, Return, Goes
  <1>5. CASE set_cext_var_Fails \/ output_cgiext \/ exception_handle
    BY <1>5 DEF set_cext_var_Fails, output_cgiext, exception_handle, Goes, Raises, app
  <1>6. CASE Exit
    BY <1>6 DEF Exit, Goes
  <1>7. QED
    BY <1>1, <1>2, <1>3, <1>4, <1>5, <1>6 DEF Elsewhere

LEMMA SessionStep ==
  ASSUME SessionInv, [CgiNext]_vars
  PROVE  SessionInv'
  <1>1. CASE Elsewhere \/ UNCHANGED vars
    <2>1. /\ UNCHANGED <<store, owner, asked, who>>
          /\ stage' = "idle" => stage = "idle"
      BY <1>1, ElsewhereFacts DEF vars, app
    <2>2. QED
      BY <2>1 DEF SessionInv, OwnSession
  <1>2. CASE process
    BY <1>2 DEF process, Goes, SessionInv, OwnSession
  <1>3. CASE authenticate
    <2>1. CASE Hook("authenticate", "authorize")
      BY <2>1, <1>1 DEF Elsewhere
    <2>2. CASE ~Hook("authenticate", "authorize")
      <3>1. PICK o \in Check(asked) : store' = o.store /\ who' = o.user
        BY <1>3, <2>2 DEF authenticate
      <3>2. UNCHANGED <<owner, asked>>
        BY <1>3, <2>2 DEF authenticate
      <3>3. stage' # "idle"
        BY <1>3, <2>2 DEF authenticate, Goes, Raises
      <3>4. QED
        BY <3>1, <3>2, <3>3, CheckFacts DEF SessionInv, OwnSession
    <2>3. QED
      BY <2>1, <2>2
  <1>4. CASE LogIn
    <2>1. PICK user \in Users :
            \E o \in IF kind = "file" THEN S!FileCreate(store, Len(owner) + 1, user)
                     ELSE S!ShareCreate(store, Len(owner) + 1, user) :
              store' = o.store /\ owner' = Append(owner, user)
      BY <1>4 DEF LogIn
    <2>2. /\ store' \subseteq SessionType
          /\ \A s \in store' : s \in store \/ /\ s.cookie = Len(owner) + 1
                                              /\ s.user = user
                                              /\ s.sid \in {None, s.cookie}
      BY <2>1, LogInFacts
    <2>3. /\ owner' \in Seq(Users) /\ Len(owner) + 1 \in DOMAIN owner'
          /\ owner'[Len(owner) + 1] = user
          /\ \A n \in DOMAIN owner : n \in DOMAIN owner' /\ owner'[n] = owner[n]
      BY <2>1 DEF SessionInv
    <2>4. stage' # "idle" /\ UNCHANGED <<asked, who>>
      BY <1>4 DEF LogIn, UseSession, Op, OrRaises, Goes, Raises
    <2>5. \A s \in store' : OwnSession(s)'
      BY <2>2, <2>3 DEF SessionInv, OwnSession
    <2>6. QED
      BY <2>2, <2>3, <2>4, <2>5 DEF SessionInv
  <1>5. CASE TouchSession \/ LogOut
    <2>1. stage' # "idle" /\ UNCHANGED <<owner, asked, who>>
      BY <1>5 DEF TouchSession, LogOut, UseSession, Op, OrRaises, Goes, Raises
    <2>2. QED
      BY <1>5, <2>1, TouchFacts DEF SessionInv, OwnSession
  <1>6. CASE Leave
    BY <1>6 DEF Leave, SessionInv, OwnSession
  <1>7. CASE Others
    <2>1. \A s \in store' : \/ s \in store
                            \/ \E t \in store, age \in Nat : s = [t EXCEPT !.age = age]
      <3>1. CASE \E s \in store : store' = store \ {s}
        BY <3>1
      <3>2. CASE store' = {[s EXCEPT !.age = IF @ > SessionTimeout THEN @ ELSE @ + 1] : s \in store}
        <4>1. ASSUME NEW s \in store
              PROVE  (IF s.age > SessionTimeout THEN s.age ELSE s.age + 1) \in Nat
          BY DEF SessionInv, SessionType
        <4>2. QED
          BY <3>2, <4>1
      <3>3. QED
        BY <1>7, <3>1, <3>2 DEF Others
    <2>2. \A s \in store' : s \in SessionType /\ OwnSession(s)
      BY <2>1, YoungFacts DEF SessionInv
    <2>3. UNCHANGED <<stage, owner, asked, who>>
      BY <1>7 DEF Others
    <2>4. QED
      BY <2>2, <2>3 DEF SessionInv, OwnSession
  <1>8. QED
    BY <1>1, <1>2, <1>3, <1>4, <1>5, <1>6, <1>7 DEF CgiNext, Elsewhere

(* A request acts for the user whose log-in made the page it comes from, also   *)
(* when somebody else has logged in since in the same browser: a check compares *)
(* the key of the page with that of the session the cookie names, and a number  *)
(* is given out once.                                                           *)
THEOREM RightUserCorrect == CgiSpec => []RightUser
  <1>1. CgiInit => SessionInv
    BY DEF CgiInit, SessionInv
  <1>2. SessionInv /\ [CgiNext]_vars => SessionInv'
    BY SessionStep
  <1>3. SessionInv => RightUser
    BY DEF SessionInv, RightUser
  <1>4. QED
    BY <1>1, <1>2, <1>3, PTL DEF CgiSpec

-------------------------------------------------------------------------------
(* Transactions.  A row is known by the transaction it was written in, and by   *)
(* the request and the call that wrote it.                                      *)
Row == [unit : Nat, row : Nat \X Nat]
DbType == [up : BOOLEAN, trans : BOOLEAN, open : BOOLEAN, unit : Nat,
           pending : SUBSET Row, rows : SUBSET Row]

(* The database d after the writes done of the requests up to n, where the      *)
(* errors in the transactions c were caught: the server has a transaction open  *)
(* only when the object knows of it; its writes are pending, and none can be    *)
(* seen.  While _trans is set on a connection that works, its rows are of       *)
(* request n.  Rows of one transaction were committed or undone together, but   *)
(* for those in c.                                                              *)
DbSound(d, done, n, c) ==
  /\ d \in DbType /\ done \subseteq Row
  /\ d.open => d.trans /\ d.up
  /\ d.trans => d.unit > 0
  /\ ~d.open => d.pending = {}
  /\ \A r \in d.pending : r \in done /\ r.unit = d.unit
  /\ \A r \in d.rows : r.unit <= d.unit /\ (d.open => r.unit # d.unit)
  /\ \A r \in done : r.unit <= d.unit
  /\ d.open => \A r \in done : r.unit = d.unit => r \in d.pending
  /\ d.trans /\ d.up => \A r \in done : r.unit = d.unit => r.row[1] = n
  /\ \A r, s \in done : r.unit = s.unit /\ r.unit # 0 =>
       r.row[1] = s.row[1] /\ (r.unit \in c \/ (r \in d.rows <=> s \in d.rows))

Closed(d, done, n, c) == DbSound(d, done, n, c) /\ ~d.open

(* The object takes a transaction for open, and the server has ended it.        *)
Held(d) == d.trans /\ d.up
Parted(d) == Held(d) /\ ~d.open

(* What parts them is an error.                                                 *)
KeptBy(d, o) == Parted(o.db) => Held(d) /\ o.db.unit = d.unit /\ (o.err = None => Parted(d))

(* The hooks between which handle_request holds objects. *)
Holding == {"handle_request", "except", "unwind", "exit"}

WorkInv ==
  /\ nreq \in Nat /\ nops \in Nat /\ objs \in Nat
  /\ DbSound(db, did, nreq, caught)
  /\ Held(db) => objs > 0
  /\ stage = "handle_request" /\ Parted(db) => db.unit \in caught
  /\ stage \notin Holding => objs = 0

LEMMA EndFacts ==
  ASSUME NEW d, NEW done, NEW n, NEW c0, DbSound(d, done, n, c0)
  PROVE  Closed(D!RolledBack(d), done, n, c0) /\ Closed(D!Committed(d), done, n, c0)
  <1>1. DbSound(D!RolledBack(d), done, n, c0) /\ ~D!RolledBack(d).open
    BY DEF DbSound, DbType, D!RolledBack
  <1>2. /\ D!Committed(d) = [d EXCEPT !.open = FALSE, !.pending = {}, !.rows = d.rows \union d.pending]
        /\ D!Committed(d) \in DbType
    BY DEF DbSound, DbType, D!Committed, D!RolledBack
  <1>3. DbSound(D!Committed(d), done, n, c0) /\ ~D!Committed(d).open
    <2> DEFINE c == D!Committed(d)
    <2>1. /\ c.open = FALSE /\ c.pending = {} /\ c.rows = d.rows \union d.pending /\ c.unit = d.unit
          /\ c.trans = d.trans /\ c.up = d.up
      BY <1>2 DEF DbSound, DbType
    <2>2. \A r \in c.rows : r.unit <= c.unit
      BY <2>1 DEF DbSound, DbType, Row
    <2>3. ASSUME NEW r \in done, NEW s \in done, r.unit = s.unit, r.unit # 0
          PROVE  r.row[1] = s.row[1] /\ (r.unit \in c0 \/ (r \in c.rows <=> s \in c.rows))
      BY <2>1, <2>3 DEF DbSound
    <2> HIDE DEF c
    <2>4. QED
      BY <1>2, <2>1, <2>2, <2>3 DEF DbSound, c
  <1>4. QED
    BY <1>1, <1>3 DEF Closed

LEMMA EndFields ==
  ASSUME NEW d \in DbType, NEW e \in {D!RolledBack(d), D!Committed(d)}
  PROVE  e.open = FALSE /\ e.trans = d.trans /\ e.up = d.up /\ e.unit = d.unit
  BY DEF DbType, D!RolledBack, D!Committed

Down(d) == [d EXCEPT !.up = FALSE]
Loose(d) == [d EXCEPT !.trans = FALSE]

(* What the object knows may go wrong only when no transaction is open. *)
LEMMA FlagFacts ==
  ASSUME NEW d, NEW done, NEW n, NEW c0, Closed(d, done, n, c0)
  PROVE  /\ Closed(Down(d), done, n, c0) /\ Closed(Loose(d), done, n, c0)
         /\ ~Held(Down(d)) /\ ~Held(Loose(d))
  <1>1. Closed(Down(d), done, n, c0) /\ Closed(Loose(d), done, n, c0)
    BY DEF Closed, DbSound, DbType, Down, Loose
  <1>2. ~Down(d).up /\ ~Loose(d).trans
    BY DEF Closed, DbSound, DbType, Down, Loose
  <1>3. QED
    BY <1>1, <1>2 DEF Held

LEMMA BrokenFacts ==
  ASSUME NEW d, NEW done, NEW n, NEW c0, Closed(d, done, n, c0)
  PROVE  Closed(D!Broken(d).db, done, n, c0) /\ ~Held(D!Broken(d).db) /\ D!Broken(d).err # None
  <1>1. D!Broken(d).db = Down(d) /\ D!Broken(d).err = "Database"
    BY DEF D!Broken, D!Refused, Down
  <1>2. QED
    BY <1>1, FlagFacts, CgiHandlerAssumption

LEMMA BeginFacts ==
  ASSUME NEW d, NEW done, NEW n, NEW c0, DbSound(d, done, n, c0), NEW o \in D!Begin(d)
  PROVE  /\ DbSound(o.db, done, n, c0)
         /\ o.err # None /\ Held(o.db) => Held(d)
         /\ KeptBy(d, o)
  <1> DEFINE begun == [D!Committed(d) EXCEPT !.open = TRUE, !.unit = @ + 1, !.trans = TRUE]
  <1>1. \/ o = D!Done(d) \/ o = D!Refused(d) \/ o = [db |-> d, err |-> "Interface"]
        \/ o = D!Broken(D!RolledBack(d))
        \/ d.up /\ o = D!Done(begun)
    BY DEF D!Begin, D!Statement
  <1>0. d.trans => o = D!Done(d)
    BY DEF D!Begin
  <1>2. CASE d.up /\ o = D!Done(begun)
    <2> DEFINE c == D!Committed(d)
    <2>1. DbSound(c, done, n, c0) /\ c.unit = d.unit /\ d.unit \in Nat /\ c.pending = {} /\ c.up
      <3>1. Closed(c, done, n, c0)
        BY EndFacts
      <3>2. d \in DbType /\ c = [d EXCEPT !.open = FALSE, !.pending = {}, !.rows = d.rows \union d.pending]
        BY DEF DbSound, DbType, D!Committed, D!RolledBack
      <3>3. c.unit = d.unit /\ d.unit \in Nat /\ c.pending = {} /\ c.up
        BY <1>2, <3>2 DEF DbType
      <3>4. QED
        BY <3>1, <3>3 DEF Closed
    <2>2. begun = [c EXCEPT !.open = TRUE, !.unit = c.unit + 1, !.trans = TRUE]
      OBVIOUS
    <2> HIDE DEF c, begun
    <2>3. /\ begun \in DbType /\ begun.open /\ begun.trans /\ begun.up /\ begun.unit = d.unit + 1
          /\ begun.pending = {} /\ begun.rows = c.rows
      <3>1. c \in DbType
        BY <2>1 DEF DbSound
      <3>2. begun \in DbType
        <4>1. c.unit \in Nat /\ c.unit + 1 \in Nat /\ TRUE \in BOOLEAN
          BY <3>1 DEF DbType
        <4>2. QED
          BY <2>2, <3>1, <4>1 DEF DbType
      <3>3. begun.open = TRUE /\ begun.trans = TRUE /\ begun.up = c.up
        BY <2>2, <3>1 DEF DbType
      <3>4. begun.unit = c.unit + 1 /\ begun.pending = c.pending /\ begun.rows = c.rows
        BY <2>2, <3>1 DEF DbType
      <3>5. QED
        BY <2>1, <3>2, <3>3, <3>4
    <2>4. DbSound(begun, done, n, c0)
      <3>1. \A r \in begun.rows : r.unit <= begun.unit /\ r.unit # begun.unit
        BY <2>1, <2>3 DEF DbSound, DbType, Row
      <3>2. \A r \in done : r.unit <= begun.unit /\ r.unit # begun.unit
        BY <2>1, <2>3 DEF DbSound, DbType, Row
      <3>4. begun.unit > 0
        BY <2>1, <2>3
      <3>3. QED
        BY <2>1, <2>3, <3>1, <3>2, <3>4 DEF DbSound
    <2>5. o.db = begun /\ o.err = None
      BY <1>2 DEF D!Done, begun, c
    <2>6. QED
      BY <2>3, <2>4, <2>5 DEF KeptBy, Parted
  <1>3. CASE o = D!Broken(D!RolledBack(d))
    BY <1>3, EndFacts, BrokenFacts DEF Closed, KeptBy, Parted
  <1>4. CASE o = D!Done(d) \/ o = D!Refused(d) \/ o = [db |-> d, err |-> "Interface"]
    <2>3. o.db = d
      BY <1>4 DEF D!Done, D!Refused
    <2>4. o.err # None => ~Held(d)
      BY <1>0, <1>4 DEF D!Done, D!Refused, Held
    <2>2. QED
      BY <2>3, <2>4 DEF KeptBy, Parted
  <1>5. QED
    BY <1>1, <1>2, <1>3, <1>4

LEMMA RollBackFacts ==
  ASSUME NEW d, NEW done, NEW n, NEW c0, DbSound(d, done, n, c0), NEW o \in D!RollBack(d)
  PROVE  Closed(o.db, done, n, c0) /\ ~Held(o.db)
  <1>1. \/ ~d.trans /\ o = D!Done(d)
        \/ ~d.up /\ o = [db |-> d, err |-> "Interface"]
        \/ o = D!Broken(D!RolledBack(d))
        \/ o = D!Done([D!RolledBack(d) EXCEPT !.trans = FALSE])
    BY DEF D!RollBack, D!Statement
  <1>2. ~d.trans \/ ~d.up => Closed(d, done, n, c0) /\ ~Held(d)
    BY DEF DbSound, Closed, Held
  <1>3. CASE o = D!Done([D!RolledBack(d) EXCEPT !.trans = FALSE])
    <2>1. o.db = Loose(D!RolledBack(d))
      BY <1>3 DEF D!Done, Loose
    <2>2. QED
      BY <2>1, EndFacts, FlagFacts
  <1>4. CASE o = D!Broken(D!RolledBack(d))
    BY <1>4, BrokenFacts, EndFacts
  <1>5. QED
    BY <1>1, <1>2, <1>3, <1>4 DEF D!Done

LEMMA RefusedFacts ==
  ASSUME NEW d, NEW done, NEW n, NEW c0, DbSound(d, done, n, c0), NEW e \in {d, D!RolledBack(d)},
         NEW o, o = D!Refused(e)
  PROVE  /\ DbSound(o.db, done, n, c0)
         /\ Held(o.db) => Held(d)
         /\ KeptBy(d, o) /\ o.err # None
  <1>1. o.db = e /\ o.err # None
    BY CgiHandlerAssumption DEF D!Refused
  <1>2. DbSound(e, done, n, c0)
    BY EndFacts DEF Closed
  <1>3. e.trans = d.trans /\ e.up = d.up /\ e.unit = d.unit
    BY EndFields DEF DbSound
  <1>4. QED
    BY <1>1, <1>2, <1>3 DEF KeptBy, Parted, Held

LEMMA CommitFacts ==
  ASSUME NEW d, NEW done, NEW n, NEW c0, DbSound(d, done, n, c0), NEW o \in D!Commit(d)
  PROVE  /\ DbSound(o.db, done, n, c0)
         /\ Held(o.db) => Held(d)
         /\ KeptBy(d, o)
  <1>1. \/ ~d.trans /\ o = D!Done(d)
        \/ ~d.up /\ o = [db |-> d, err |-> "Interface"]
        \/ o = D!Broken(D!RolledBack(d))
        \/ o = D!Broken(D!Committed(d))
        \/ o = D!Refused(D!RolledBack(d))
        \/ o = D!Done([D!Committed(d) EXCEPT !.trans = FALSE])
    BY DEF D!Commit, D!Statement
  <1>2. CASE (~d.trans /\ o = D!Done(d)) \/ (~d.up /\ o = [db |-> d, err |-> "Interface"])
    <2>1. o.db = d /\ ~Held(d)
      BY <1>2 DEF D!Done, Held
    <2>2. QED
      BY <2>1 DEF KeptBy, Parted
  <1>3. CASE o = D!Done([D!Committed(d) EXCEPT !.trans = FALSE])
    <2>1. o.db = Loose(D!Committed(d))
      BY <1>3 DEF D!Done, Loose
    <2>2. Closed(o.db, done, n, c0) /\ ~Held(o.db)
      BY <2>1, EndFacts, FlagFacts
    <2>3. QED
      BY <2>2 DEF KeptBy, Parted, Closed
  <1>4. CASE o = D!Broken(D!RolledBack(d)) \/ o = D!Broken(D!Committed(d))
    BY <1>4, BrokenFacts, EndFacts DEF KeptBy, Parted, Closed
  <1>5. CASE o = D!Refused(D!RolledBack(d))
    BY <1>5, RefusedFacts
  <1>6. QED
    BY <1>1, <1>2, <1>3, <1>4, <1>5

(* A row is written in the transaction that is open, or at once.  The second,   *)
(* while _trans is set, only where the application has caught an error.         *)
LEMMA ModifyFacts ==
  ASSUME NEW d, NEW done, NEW n \in Nat, NEW c0, NEW k \in Nat, DbSound(d, done, n, c0),
         Parted(d) => d.unit \in c0, NEW o \in D!Modify(d, <<n, k>>)
  PROVE  /\ DbSound(o.db, IF o.err = None THEN done \union {D!RowOf(d, <<n, k>>)} ELSE done, n, c0)
         /\ Held(o.db) => Held(d)
         /\ KeptBy(d, o)
  <1> DEFINE row == D!RowOf(d, <<n, k>>)
             in == [d EXCEPT !.pending = @ \union {row}]
             seen == [d EXCEPT !.rows = @ \union {row}]
  <1>1. \/ o = D!Refused(d) \/ o = D!Refused(D!RolledBack(d))
        \/ o = [db |-> d, err |-> "Interface"] /\ ~d.up
        \/ o = D!Broken(D!RolledBack(d))
        \/ d.open /\ o = D!Done(in)
        \/ ~d.open /\ d.up /\ o = D!Done(seen)
    BY DEF D!Modify, D!Statement
  <1>7. row \in Row /\ row.unit = (IF d.trans THEN d.unit ELSE 0) /\ row.row[1] = n
    BY DEF Row, DbSound, DbType, D!RowOf
  <1>8. d.unit \in Nat /\ row.unit <= d.unit
    BY <1>7 DEF DbSound, DbType
  <1>2. CASE d.open /\ o = D!Done(in)
    <2>1. DbSound(in, done \union {row}, n, c0) /\ in.open /\ in.trans = d.trans /\ in.up = d.up
      <3>2. in \in DbType /\ in.pending = d.pending \union {row}
            /\ in.open = d.open /\ in.unit = d.unit /\ in.rows = d.rows /\ in.up = d.up /\ in.trans = d.trans
        BY <1>7 DEF DbSound, DbType
      <3> HIDE DEF row, in
      <3>1. row.unit = d.unit
        BY <1>2, <1>7 DEF DbSound
      <3>3. ASSUME NEW r \in done \union {row}, NEW s \in done \union {row}, r.unit = s.unit, r.unit # 0
            PROVE  r.row[1] = s.row[1] /\ (r.unit \in c0 \/ (r \in d.rows <=> s \in d.rows))
        <4>1. CASE r.unit = d.unit
          BY <1>2, <1>7, <3>1, <3>3, <4>1 DEF DbSound
        <4>2. CASE r.unit # d.unit
          BY <3>1, <3>3, <4>2 DEF DbSound
        <4>3. QED
          BY <4>1, <4>2
      <3>5. QED
        BY <1>2, <1>7, <1>8, <3>1, <3>2, <3>3 DEF DbSound
    <2>2. o.db = in /\ o.err = None
      BY <1>2 DEF D!Done
    <2> HIDE DEF in, row
    <2>3. QED
      BY <2>1, <2>2 DEF row, KeptBy, Parted, Held
  <1>3. CASE ~d.open /\ d.up /\ o = D!Done(seen)
    <2>2. seen \in DbType /\ seen.rows = d.rows \union {row}
          /\ seen.open = d.open /\ seen.unit = d.unit /\ seen.pending = d.pending
          /\ seen.up = d.up /\ seen.trans = d.trans
      BY <1>7 DEF DbSound, DbType
    <2>1. DbSound(seen, done \union {row}, n, c0)
      <3> HIDE DEF row, seen
      <3>1. row.unit # 0 => d.trans /\ row.unit = d.unit /\ d.unit \in c0
        BY <1>3, <1>7 DEF Parted, Held
      <3>2. ASSUME NEW r \in done \union {row}, NEW s \in done \union {row}, r.unit = s.unit, r.unit # 0
            PROVE  r.row[1] = s.row[1]
        BY <1>3, <1>7, <3>1, <3>2 DEF DbSound
      <3>3. ASSUME NEW r \in done \union {row}, NEW s \in done \union {row}, r.unit = s.unit, r.unit # 0,
                   r.unit \notin c0
            PROVE  r \in seen.rows <=> s \in seen.rows
        <4>1. r # row /\ s # row
          BY <3>1, <3>3
        <4>2. QED
          BY <2>2, <3>3, <4>1 DEF DbSound
      <3>4. d.trans => \A r \in done \union {row} : r.unit = d.unit => r.row[1] = n
        BY <1>3, <1>7 DEF DbSound
      <3>5. QED
        BY <1>3, <1>7, <1>8, <2>2, <3>2, <3>3, <3>4 DEF DbSound
    <2>3. o.db = seen /\ o.err = None
      BY <1>3 DEF D!Done
    <2> HIDE DEF seen, row
    <2>4. QED
      BY <2>1, <2>2, <2>3 DEF row, KeptBy, Parted, Held
  <1>4. CASE o = D!Refused(d) \/ o = D!Refused(D!RolledBack(d))
    BY <1>4, RefusedFacts
  <1>5. CASE o = [db |-> d, err |-> "Interface"] /\ ~d.up
    <2>1. o.db = d /\ o.err # None /\ ~Held(d)
      BY <1>5, CgiHandlerAssumption DEF Held
    <2>2. QED
      BY <2>1 DEF KeptBy, Parted
  <1>6. CASE o = D!Broken(D!RolledBack(d))
    BY <1>6, EndFacts, BrokenFacts DEF Closed, KeptBy, Parted
  <1>9. QED
    BY <1>1, <1>2, <1>3, <1>4, <1>5, <1>6

LEMMA QueryFacts ==
  ASSUME NEW d, NEW done, NEW n, NEW c0, DbSound(d, done, n, c0), NEW o \in D!Query(d)
  PROVE  /\ DbSound(o.db, done, n, c0)
         /\ Held(o.db) => Held(d)
         /\ KeptBy(d, o)
  <1>1. \/ o = D!Done(d) \/ o = D!Refused(d) \/ o = D!Refused(D!RolledBack(d))
        \/ o = [db |-> d, err |-> "Interface"] /\ ~d.up
        \/ o = D!Broken(D!RolledBack(d))
    BY DEF D!Query, D!Statement
  <1>2. CASE o = D!Broken(D!RolledBack(d))
    BY <1>2, EndFacts, BrokenFacts DEF Closed, KeptBy, Parted
  <1>3. CASE o = D!Refused(d) \/ o = D!Refused(D!RolledBack(d))
    BY <1>3, RefusedFacts
  <1>4. CASE o = D!Done(d) \/ (o = [db |-> d, err |-> "Interface"] /\ ~d.up)
    <2>1. o.db = d
      BY <1>4 DEF D!Done
    <2>2. QED
      BY <2>1 DEF KeptBy, Parted
  <1>5. QED
    BY <1>1, <1>2, <1>3, <1>4

LEMMA DropFacts ==
  ASSUME WorkInv, DropLocals
  PROVE  objs' = 0 /\ DbSound(db', did, nreq, caught) /\ ~Held(db')
  <1>1. CASE objs > 0
    <2>1. PICK o \in D!RollBack(db) : db' = o.db
      BY <1>1 DEF DropLocals, D!Deleted
    <2>2. QED
      BY <2>1, RollBackFacts DEF WorkInv, DropLocals, Closed
  <1>2. CASE ~(objs > 0)
    BY <1>2 DEF DropLocals, WorkInv
  <1>3. QED
    BY <1>1, <1>2

(* The actions that do not touch the database. *)
Apart ==
  \/ Hook("get_cgi_common_var", "prepare") \/ Hook("prepare", "authenticate") \/ authenticate
  \/ Hook("authorize", "get_cgi_var") \/ Hook("get_cgi_var", "handle_request")
  \/ SaveFile \/ LogIn \/ TouchSession \/ LogOut \/ Fails
  \/ set_cext_var_Fails \/ output_cgiext \/ exception_handle \/ Leave \/ Others

LEMMA ApartFacts ==
  ASSUME Apart, WorkInv
  PROVE  /\ UNCHANGED <<db, did, caught, objs, nreq>> /\ nops' \in Nat
         /\ stage' = "idle" => stage \in {"leave", "idle"}
         /\ stage' = "handle_request" /\ stage # "handle_request" => stage \notin Holding
         /\ stage' \notin Holding => stage \notin Holding
  <1>1. ASSUME NEW hook \in {"get_cgi_common_var", "prepare", "authenticate", "authorize", "get_cgi_var"},
               NEW next \in {"prepare", "authenticate", "authorize", "get_cgi_var", "handle_request"},
               Hook(hook, next)
        PROVE  /\ UNCHANGED <<db, did, caught, objs, nreq, nops>> /\ stage' # "idle" /\ stage \notin Holding
    BY <1>1 DEF Hook, Goes, Raises, app, Holding
  <1>2. CASE authenticate /\ ~Hook("authenticate", "authorize")
    <2>1. UNCHANGED <<db, did, caught, objs, nreq, nops>> /\ stage = "authenticate"
      BY <1>2 DEF authenticate
    <2>2. stage' # "idle"
      BY <1>2 DEF authenticate, Goes, Raises
    <2>3. QED
      BY <2>1, <2>2 DEF Holding, WorkInv
  <1>3. CASE SaveFile \/ LogIn \/ TouchSession \/ LogOut \/ Fails
    <2>1. UNCHANGED <<db, did, caught, objs, nreq>> /\ nops' = nops + 1 /\ stage = "handle_request"
      BY <1>3 DEF SaveFile, LogIn, TouchSession, LogOut, Fails, UseSession, Op
    <2>2. stage' \in {"handle_request", "except"}
      BY <1>3 DEF SaveFile, LogIn, TouchSession, LogOut, Fails, OrRaises, Goes, Raises
    <2>3. QED
      BY <2>1, <2>2 DEF Holding, WorkInv
  <1>4. CASE set_cext_var_Fails \/ output_cgiext \/ Leave \/ Others
    BY <1>4 DEF set_cext_var_Fails, output_cgiext, Leave, Others, Goes, Raises, app, Holding, WorkInv
  <1>5. CASE exception_handle
    BY <1>5 DEF exception_handle, app, Holding, WorkInv
  <1>6. QED
    BY <1>1, <1>2, <1>3, <1>4, <1>5 DEF Apart, WorkInv

(* A call of MySQL that makes no Transaction: the error that lets a transaction *)
(* part from the object ends the request, or is noted as caught.                *)
LEMMA OpKeeps ==
  ASSUME WorkInv, UseDb, NEW o, DbOp(o), objs' \in Nat, Held(db') => objs' > 0,
         DbSound(o.db, did', nreq, caught), KeptBy(db, o)
  PROVE  WorkInv'
  <1>1. /\ db' = o.db /\ stage' \in {"handle_request", "except"} /\ caught \subseteq caught'
        /\ stage' = "handle_request" /\ o.err # None /\ db.trans => db.unit \in caught'
    BY DEF DbOp, Goes, Raises
  <1>2. stage = "handle_request" /\ nreq' = nreq /\ nops' = nops + 1
    BY DEF UseDb, Op
  <1>3. DbSound(db', did', nreq, caught')
    BY <1>1 DEF DbSound
  <1>4. stage' = "handle_request" /\ Parted(db') => db'.unit \in caught'
    BY <1>1, <1>2 DEF KeptBy, Held, WorkInv
  <1>5. DbSound(db, did, nreq, caught)' /\ Held(db)' = Held(db') /\ Parted(db)' = Parted(db')
    BY <1>2, <1>3 DEF DbSound, Held, Parted
  <1>6. QED
    BY <1>1, <1>2, <1>4, <1>5 DEF WorkInv, Holding

LEMMA WorkStep ==
  ASSUME WorkInv, [CgiNext]_vars
  PROVE  WorkInv'
  <1>1. CASE Apart
    <2>1. /\ UNCHANGED <<db, did, caught, objs, nreq>> /\ nops' \in Nat
          /\ stage' = "handle_request" /\ stage # "handle_request" => stage \notin Holding
          /\ stage' \notin Holding => stage \notin Holding
      BY <1>1, ApartFacts
    <2>2. stage \notin Holding => ~Parted(db)
      BY DEF WorkInv, Parted
    <2>3. QED
      BY <2>1, <2>2 DEF WorkInv, DbSound, Held, Parted
  <1>2. CASE UNCHANGED vars
    BY <1>2 DEF vars, app, WorkInv, DbSound, Held, Parted
  <1>3. CASE process
    <2>1. ~Held(db) /\ objs = 0
      BY <1>3 DEF process, WorkInv, Holding
    <2>2. DbSound(db, did, nreq + 1, caught)
      BY <2>1 DEF WorkInv, DbSound, Held
    <2>3. UNCHANGED <<db, did, caught, objs, nops>> /\ nreq' = nreq + 1 /\ stage' = "get_cgi_common_var"
      BY <1>3 DEF process, Goes
    <2>4. QED
      BY <2>1, <2>2, <2>3 DEF WorkInv, DbSound, Holding, Held, Parted
  <1>6. CASE NewTransaction
    <2>1. PICK o \in D!Begin(db) : DbOp(o) /\ objs' = IF o.err = None THEN objs + 1 ELSE objs
      BY <1>6 DEF NewTransaction
    <2>2. /\ DbSound(o.db, did, nreq, caught) /\ KeptBy(db, o)
          /\ o.err # None /\ Held(o.db) => Held(db)
      BY BeginFacts DEF WorkInv
    <2>3. UseDb /\ did' = did /\ db' = o.db
      BY <1>6, <2>1 DEF NewTransaction, DbOp
    <2>4. objs' \in Nat /\ (Held(db') => objs' > 0)
      BY <2>1, <2>2, <2>3 DEF WorkInv
    <2>5. QED
      BY <2>1, <2>2, <2>3, <2>4, OpKeeps
  <1>7. CASE DropTransaction
    <2>1. PICK d \in D!Deleted(db) : DbOp(D!Done(d))
      BY <1>7 DEF DropTransaction
    <2>2. PICK o \in D!RollBack(db) : d = o.db
      BY DEF D!Deleted
    <2>3. DbSound(d, did, nreq, caught) /\ ~Held(d)
      BY <2>2, RollBackFacts DEF WorkInv, Closed
    <2>4. UseDb /\ did' = did /\ objs' \in Nat
      BY <1>7 DEF DropTransaction, WorkInv
    <2>5. D!Done(d).db = d /\ db' = d
      BY <2>1 DEF D!Done, DbOp
    <2>6. KeptBy(db, D!Done(d))
      BY <2>3, <2>5 DEF KeptBy, Parted
    <2>7. QED
      BY <2>1, <2>3, <2>4, <2>5, <2>6, OpKeeps
  <1>8. CASE ModifyRow
    <2>1. PICK o \in D!Modify(db, <<nreq, nops>>) :
            /\ DbOp(o)
            /\ did' = IF o.err = None THEN did \union {D!RowOf(db, <<nreq, nops>>)} ELSE did
      BY <1>8 DEF ModifyRow
    <2>2. stage = "handle_request" /\ UseDb /\ objs' = objs /\ db' = o.db
      BY <1>8, <2>1 DEF ModifyRow, UseDb, Op, DbOp
    <2>3. DbSound(o.db, did', nreq, caught) /\ KeptBy(db, o) /\ (Held(o.db) => Held(db))
      BY <2>1, <2>2, ModifyFacts DEF WorkInv
    <2>4. QED
      BY <2>1, <2>2, <2>3, OpKeeps DEF WorkInv
  <1>9. CASE QueryRows \/ CommitAll \/ RollBackAll
    <2>1. UseDb /\ did' = did /\ objs' = objs
      BY <1>9 DEF QueryRows, CommitAll, RollBackAll
    <2>2. PICK o \in D!Query(db) \union D!Commit(db) \union D!RollBack(db) : DbOp(o)
      BY <1>9 DEF QueryRows, CommitAll, RollBackAll
    <2>3. DbSound(o.db, did, nreq, caught) /\ KeptBy(db, o) /\ (Held(o.db) => Held(db))
      BY QueryFacts, CommitFacts, RollBackFacts DEF WorkInv, Closed, KeptBy, Parted
    <2>4. db' = o.db
      BY <2>2 DEF DbOp
    <2>5. QED
      BY <2>1, <2>2, <2>3, <2>4, OpKeeps DEF WorkInv
  <1>10. CASE ReturnPage \/ Redirect \/ get_cext_Fails \/ ReturnCext \/ Unwind
    <2>1. DropLocals /\ UNCHANGED <<did, caught, nreq, nops>> /\ stage' # "handle_request"
      BY <1>10 DEF ReturnPage, Redirect, get_cext_Fails, ReturnCext, Return, Unwind, Goes
    <2>2. QED
      BY <2>1, DropFacts DEF WorkInv, DbSound, Held
  <1>11. CASE Exit
    <2>1. PICK d \in IF objs > 0 THEN D!Deleted(db) ELSE {db} : db' \in D!Close(d)
      BY <1>11 DEF Exit
    <2>2. DbSound(d, did, nreq, caught)
      <3>1. \A o \in D!RollBack(db) : DbSound(o.db, did, nreq, caught)
        BY RollBackFacts DEF WorkInv, Closed
      <3>2. QED
        BY <2>1, <3>1 DEF D!Deleted, WorkInv
    <2>3. PICK o \in D!RollBack(d) : db' = [D!RolledBack(o.db) EXCEPT !.up = FALSE]
      BY <2>1 DEF D!Close
    <2>4. DbSound(o.db, did, nreq, caught)
      BY <2>2, RollBackFacts DEF Closed
    <2>5. Closed(db', did, nreq, caught) /\ ~Held(db')
      BY <2>3, <2>4, EndFacts, FlagFacts DEF Down
    <2>6. UNCHANGED <<did, caught, nreq, nops>> /\ objs' = 0 /\ stage' = "gone"
      BY <1>11 DEF Exit, Goes
    <2>7. QED
      BY <2>5, <2>6 DEF WorkInv, Closed, DbSound, Held
  <1>12. QED
    BY <1>1, <1>2, <1>3, <1>6, <1>7, <1>8, <1>9, <1>10, <1>11 DEF CgiNext, Apart

(* Between requests the connection has no transaction open, and _trans is set   *)
(* only on a dead connection, whatever fails and whichever objects the          *)
(* application leaves to their destructors: while _trans is set and the         *)
(* connection works, some Transaction object is alive, whose destructor rolls   *)
(* back.  All rows written under one _trans are of one request, and are         *)
(* committed or undone together unless an error between them was caught: only   *)
(* an error ends the server's transaction while _trans is set.                  *)
THEOREM WorkContainedCorrect == CgiSpec => []WorkContained
  <1>1. CgiInit => WorkInv
    BY DEF CgiInit, WorkInv, DbSound, DbType, D!Connect, Holding, Held, Parted
  <1>2. WorkInv /\ [CgiNext]_vars => WorkInv'
    BY WorkStep
  <1>3. WorkInv => WorkContained
    BY DEF WorkInv, WorkContained, DbSound, Holding, Held
  <1>4. QED
    BY <1>1, <1>2, <1>3, PTL DEF CgiSpec

-------------------------------------------------------------------------------
(* Pages.  Until a template is begun or a page is made, nothing was sent; from  *)
(* the first exception on, what was sent is nothing or a header with a part of  *)
(* a template, then also the message about it.                                  *)
Blank == out = <<>> /\ ~resp.header /\ ~resp.gzip /\ ~finished

Early == {"idle", "get_cgi_common_var", "prepare", "authenticate", "authorize",
          "get_cgi_var", "handle_request", "output"}

PageInv ==
  /\ stage \in Early => Blank
  /\ stage = "except" => /\ exc # None /\ ~finished
                         /\ Blank \/ (out = <<"headers", "part">> /\ resp.header)
  /\ stage = "unwind" => /\ exc # None
                         /\ \/ out = <<"headers", "message">> /\ ~resp.gzip
                            \/ out = <<"headers", "part", "message">>
  /\ OneAnswer

(* What finishes a request, and what an action of it does before. *)
Answered(body, end) == out = <<"headers">> \o body \o end /\ (resp.gzip => end = <<"trailer">>)

LEMMA AnswerFacts ==
  ASSUME NEW body \in Bodies', NEW end \in {<<>>, <<"trailer">>}, stage' = "leave", Answered(body, end)'
  PROVE  PageInv'
  BY DEF PageInv, OneAnswer, Answered, Early

Quiet == Blank' /\ (stage' \in Early \/ (stage' = "except" /\ exc' # None))

LEMMA QuietFacts ==
  ASSUME Quiet PROVE PageInv'
  BY DEF Quiet, PageInv, OneAnswer, Early, Blank

Fields == {"header", "gzip", "cookie", "out", "jar"}

LEMMA WriteFacts ==
  ASSUME NEW r, NEW what, DOMAIN r = Fields
  PROVE  /\ Write(r, what).out = Append(r.out, what) /\ Write(r, what).gzip = r.gzip
         /\ Write(r, what).header = r.header /\ DOMAIN Write(r, what) = Fields
  BY DEF Write, Fields

LEMMA HeaderFacts ==
  ASSUME NEW r, DOMAIN r = Fields
  PROVE  /\ r.header => FinishHeader(r).out = r.out
         /\ ~r.header => FinishHeader(r).out = Append(r.out, "headers")
         /\ FinishHeader(r).gzip = r.gzip /\ FinishHeader(r).header
         /\ DOMAIN FinishHeader(r) = Fields
  BY DEF FinishHeader, Fields

LEMMA NowFacts ==
  /\ Now.header = resp.header /\ Now.gzip = resp.gzip /\ Now.out = out /\ DOMAIN Now = Fields
  BY DEF Now, Fields

(* A write comes after the header. *)
LEMMA Written ==
  ASSUME NEW what
  PROVE  LET w == Write(FinishHeader(Now), what) IN
         /\ resp.header => w.out = Append(out, what)
         /\ ~resp.header => w.out = Append(Append(out, "headers"), what)
         /\ w.gzip = resp.gzip
  <1> DEFINE f == FinishHeader(Now)
  <1>1. /\ resp.header => f.out = out
        /\ ~resp.header => f.out = Append(out, "headers")
        /\ f.gzip = resp.gzip /\ DOMAIN f = Fields
    BY NowFacts, HeaderFacts
  <1> HIDE DEF f
  <1>2. Write(f, what).out = Append(f.out, what) /\ Write(f, what).gzip = f.gzip
    BY <1>1, WriteFacts
  <1>3. QED
    BY <1>1, <1>2 DEF f

(* A page before anything was sent is the header and the message. *)
LEMMA MessageFacts ==
  ASSUME Blank, general_info_page
  PROVE  out' = <<"headers", "message">> /\ ~resp'.gzip
  <1> DEFINE w == Write(FinishHeader(Now), "message")
  <1>1. w.out = <<"headers", "message">> /\ w.gzip = resp.gzip
    BY Written DEF Blank
  <1>2. Sends(w)
    BY DEF general_info_page, Blank
  <1> HIDE DEF w
  <1>3. out' = w.out /\ resp'.gzip = w.gzip
    BY <1>2 DEF Sends
  <1>4. QED
    BY <1>1, <1>3 DEF Blank

LEMMA MessageEnds ==
  ASSUME Blank, general_info_page, stage' = "leave" PROVE PageInv'
  <1>1. <<"message">> \in Bodies'
    BY DEF Bodies
  <1>2. Answered(<<"message">>, <<>>)'
    BY MessageFacts DEF Answered
  <1>3. QED
    BY <1>1, <1>2, AnswerFacts

(* A template is written after the header, whole or in part. *)
LEMMA OutputFacts ==
  ASSUME Blank, output_cgiext
  PROVE  PageInv'
  <1>1. PICK gz \in BOOLEAN :
          LET begun == FinishHeader(IF gz THEN AddGzipEncodingHeader(Now) ELSE Now)
              whole == Write(begun, "template")
          IN  \/ Goes("leave") /\ finished' = TRUE /\ Sends(IF gz THEN Write(whole, "trailer") ELSE whole)
              \/ /\ \E e \in {"other", "socket"} : Raises(e)
                 /\ Sends(Write(begun, "part")) /\ UNCHANGED finished
    BY DEF output_cgiext
  <1> DEFINE first == IF gz THEN AddGzipEncodingHeader(Now) ELSE Now
             begun == FinishHeader(first)
             whole == Write(begun, "template")
             part == Write(begun, "part")
             last == IF gz THEN Write(whole, "trailer") ELSE whole
  <1>2. first.out = <<>> /\ ~first.header /\ first.gzip = (IF gz THEN TRUE ELSE resp.gzip) /\ DOMAIN first = Fields
    BY NowFacts DEF AddGzipEncodingHeader, Blank, Fields
  <1> HIDE DEF first
  <1>3. begun.out = <<"headers">> /\ begun.gzip = first.gzip /\ begun.header /\ DOMAIN begun = Fields
    <2>1. /\ begun.out = Append(first.out, "headers")
          /\ begun.gzip = first.gzip /\ begun.header /\ DOMAIN begun = Fields
      BY <1>2, HeaderFacts
    <2>2. QED
      BY <1>2, <2>1
  <1> HIDE DEF begun
  <1>4. /\ whole.out = <<"headers", "template">> /\ whole.gzip = first.gzip /\ DOMAIN whole = Fields
        /\ part.out = <<"headers", "part">> /\ part.header
    BY <1>3, WriteFacts
  <1>5. CASE Goes("leave") /\ Sends(last)
    <2>1. CASE gz
      <3>1. last.out = <<"headers", "template", "trailer">>
        BY <1>4, <2>1, WriteFacts
      <3>2. out' = <<"headers", "template", "trailer">>
        BY <1>5, <3>1 DEF Sends
      <3>3. Answered(<<"template">>, <<"trailer">>)'
        BY <3>2 DEF Answered
      <3>4. QED
        BY <1>5, <3>3, AnswerFacts DEF Goes, Bodies
    <2>2. CASE ~gz
      <3>1. last.out = <<"headers", "template">> /\ ~last.gzip
        BY <1>2, <1>4, <2>2 DEF Blank
      <3>2. out' = <<"headers", "template">> /\ ~resp'.gzip
        <4> HIDE DEF last
        <4>1. QED
          BY <1>5, <3>1 DEF Sends
      <3>3. Answered(<<"template">>, <<>>)'
        BY <3>2 DEF Answered
      <3>4. QED
        BY <1>5, <3>3, AnswerFacts DEF Goes, Bodies
    <2>3. QED
      BY <2>1, <2>2
  <1>6. CASE (\E e \in {"other", "socket"} : Raises(e)) /\ Sends(part) /\ UNCHANGED finished
    <2>1. stage' = "except" /\ exc' # None
      BY <1>6, CgiHandlerAssumption DEF Raises
    <2>2. out' = <<"headers", "part">> /\ resp'.header /\ ~finished'
      <3> HIDE DEF part
      <3>1. QED
        BY <1>4, <1>6 DEF Sends, Blank
    <2>3. QED
      BY <2>1, <2>2 DEF PageInv, OneAnswer, Early
  <1>7. QED
    BY <1>1, <1>5, <1>6 DEF begun, first

LEMMA SilentFacts ==
  ASSUME Blank, Silent PROVE Blank'
  BY DEF Blank, Silent

LEMMA HookFacts ==
  ASSUME PageInv, NEW hook \in Early, NEW next \in Early, Hook(hook, next)
  PROVE  PageInv'
  <1>1. Blank
    BY DEF Hook, PageInv
  <1>2. CASE Goes(next) /\ Silent
    BY <1>1, <1>2, SilentFacts, QuietFacts DEF Goes, Quiet
  <1>3. CASE Goes("leave") /\ general_info_page
    BY <1>1, <1>3, MessageEnds DEF Goes
  <1>4. CASE Silent /\ \E e \in {"other", "socket", "SessionUserType"} : Raises(e)
    BY <1>1, <1>4, SilentFacts, QuietFacts, CgiHandlerAssumption DEF Raises, Quiet
  <1>5. QED
    BY <1>2, <1>3, <1>4 DEF Hook

LEMMA AuthenticateFacts ==
  ASSUME PageInv, authenticate, ~Hook("authenticate", "authorize")
  PROVE  PageInv'
  <1>1. PICK throw \in BOOLEAN, o \in Check(asked) :
          LET c == S!Checked(o, throw) IN
          \/ c.raises # None /\ Raises(c.raises) /\ Silent
          \/ c.raises = None /\ c.logined /\ Goes("authorize") /\ Silent
          \/ c.raises = None /\ ~c.logined /\ Goes("leave") /\ general_info_page
    BY DEF authenticate
  <1>2. Blank
    BY DEF authenticate, PageInv, Early
  <1>3. CASE Goes("leave") /\ general_info_page
    BY <1>2, <1>3, MessageEnds DEF Goes
  <1>4. CASE Silent /\ (Goes("authorize") \/ \E e : e # None /\ Raises(e))
    BY <1>2, <1>4, SilentFacts, QuietFacts DEF Goes, Raises, Quiet, Early
  <1>5. QED
    BY <1>1, <1>3, <1>4

(* The calls of an application: it goes on, or one raised. *)
Calling ==
  \/ NewTransaction \/ DropTransaction \/ ModifyRow \/ QueryRows \/ CommitAll \/ RollBackAll
  \/ SaveFile \/ LogIn \/ TouchSession \/ LogOut \/ Fails

LEMMA CallingFacts ==
  ASSUME PageInv, Calling
  PROVE  PageInv'
  <1>1. Blank
    BY DEF Calling, NewTransaction, DropTransaction, ModifyRow, QueryRows, CommitAll, RollBackAll,
           SaveFile, LogIn, TouchSession, LogOut, Fails, UseDb, UseSession, Op, PageInv, Early
  <1>2. stage' = "handle_request" \/ (stage' = "except" /\ exc' # None)
    <2>1. \A e : OrRaises(e) => stage' = "handle_request" \/ (stage' = "except" /\ exc' # None)
      BY DEF OrRaises, Goes, Raises
    <2>2. \A o : DbOp(o) => stage' = "handle_request" \/ (stage' = "except" /\ exc' # None)
      BY DEF DbOp, Goes, Raises
    <2>3. CASE NewTransaction \/ DropTransaction \/ ModifyRow \/ QueryRows \/ CommitAll \/ RollBackAll
      BY <2>2, <2>3 DEF NewTransaction, DropTransaction, ModifyRow, QueryRows, CommitAll, RollBackAll
    <2>4. CASE SaveFile \/ LogIn \/ TouchSession \/ LogOut
      BY <2>1, <2>4 DEF SaveFile, LogIn, TouchSession, LogOut
    <2>5. CASE Fails
      BY <2>5, CgiHandlerAssumption DEF Fails, Raises
    <2>6. QED
      BY <2>3, <2>4, <2>5 DEF Calling
  <1>3. Blank'
    <2>1. CASE LogIn
      <3>1. PICK c : Sends(SetCookie(Now, c)) \/ Sends(Now)
        BY <2>1 DEF LogIn
      <3>2. \A c1 : /\ SetCookie(Now, c1).header = resp.header /\ SetCookie(Now, c1).gzip = resp.gzip
                    /\ SetCookie(Now, c1).out = out
        BY DEF SetCookie, Now
      <3>3. resp'.header = resp.header /\ resp'.gzip = resp.gzip /\ out' = out
        BY <3>1, <3>2, NowFacts DEF Sends
      <3>4. finished' = finished
        BY <2>1 DEF LogIn
      <3>5. QED
        BY <1>1, <3>3, <3>4 DEF Blank
    <2>2. CASE ~LogIn
      <3>1. \A o : DbOp(o) => Silent
        BY DEF DbOp
      <3>2. Silent
        BY <2>2, <3>1 DEF Calling, NewTransaction, DropTransaction, ModifyRow, QueryRows, CommitAll, RollBackAll,
                   SaveFile, TouchSession, LogOut, Fails
      <3>3. QED
        BY <1>1, <3>2, SilentFacts
    <2>3. QED
      BY <2>1, <2>2
  <1>4. QED
    BY <1>2, <1>3, QuietFacts DEF Quiet, Early

LEMMA ReturnFacts ==
  ASSUME PageInv, ReturnPage \/ Redirect \/ get_cext_Fails \/ ReturnCext
  PROVE  PageInv'
  <1>1. Blank
    BY DEF ReturnPage, Redirect, get_cext_Fails, ReturnCext, Return, PageInv, Early
  <1>2. CASE ReturnPage
    BY <1>1, <1>2, MessageEnds DEF ReturnPage, Return, Goes
  <1>3. CASE Redirect
    <2>1. FinishHeader(Now).out = <<"headers">> /\ FinishHeader(Now).gzip = resp.gzip
      BY <1>1, NowFacts, HeaderFacts DEF Blank
    <2>2. out' = <<"headers">> /\ ~resp'.gzip
      BY <1>1, <1>3, <2>1 DEF Redirect, Sends, Blank
    <2>3. Answered(<<>>, <<>>)'
      BY <2>2 DEF Answered
    <2>4. QED
      BY <1>3, <2>3, AnswerFacts DEF Redirect, Return, Goes, Bodies
  <1>4. CASE get_cext_Fails
    <2> DEFINE w == Write(FinishHeader(Now), "message")
    <2>1. w.out = <<"headers", "message">> /\ w.gzip = resp.gzip
      BY <1>1, Written DEF Blank
    <2>2. Sends(w)
      BY <1>4 DEF get_cext_Fails
    <2> HIDE DEF w
    <2>3. out' = <<"headers", "message">> /\ ~resp'.gzip
      BY <1>1, <2>1, <2>2 DEF Sends, Blank
    <2>4. Answered(<<"message">>, <<>>)'
      BY <2>3 DEF Answered
    <2>5. QED
      BY <1>4, <2>4, AnswerFacts DEF get_cext_Fails, Return, Goes, Bodies
  <1>5. CASE ReturnCext
    BY <1>1, <1>5, SilentFacts, QuietFacts DEF ReturnCext, Return, Goes, Quiet, Early
  <1>6. QED
    BY <1>2, <1>3, <1>4, <1>5

(* The page of an exception comes alone, or after the part that was sent. *)
LEMMA ExceptFacts ==
  ASSUME PageInv, exception_handle
  PROVE  PageInv'
  <1>1. CASE exc = "SystemExit"
    BY <1>1 DEF exception_handle, PageInv, OneAnswer, Early
  <1>2. CASE exc # "SystemExit"
    <2>1. general_info_page /\ stage' = "unwind" /\ exc' # None
      BY <1>2 DEF exception_handle, PageInv
    <2>2. \/ out' = <<"headers", "message">> /\ ~resp'.gzip
          \/ out' = <<"headers", "part", "message">>
      <3>1. CASE Blank
        BY <2>1, <3>1, MessageFacts
      <3>2. CASE out = <<"headers", "part">> /\ resp.header
        <4> DEFINE w == Write(FinishHeader(Now), "message")
        <4>1. w.out = <<"headers", "part", "message">>
          BY <3>2, Written
        <4>2. Sends(w)
          BY <2>1 DEF general_info_page, exception_handle, PageInv
        <4> HIDE DEF w
        <4>3. QED
          BY <4>1, <4>2 DEF Sends
      <3>3. QED
        BY <3>1, <3>2 DEF exception_handle, PageInv
    <2>3. QED
      BY <2>1, <2>2 DEF PageInv, OneAnswer, Early
  <1>3. QED
    BY <1>1, <1>2

LEMMA UnwindFacts ==
  ASSUME PageInv, Unwind
  PROVE  PageInv'
  <1> DEFINE w == IF resp.gzip THEN Write(Now, "trailer") ELSE Now
  <1>1. stage' = "leave" /\ exc' # None /\ Sends(w)
    BY DEF Unwind, Goes, PageInv
  <1>2. <<"message">> \in Bodies' /\ <<"part", "message">> \in Bodies'
    BY <1>1 DEF Bodies
  <1>3. CASE resp.gzip
    <2>1. out = <<"headers", "part", "message">>
      BY <1>3 DEF PageInv, Unwind
    <2>2. w.out = <<"headers", "part", "message", "trailer">>
      <3>1. w.out = Append(Now.out, "trailer")
        BY <1>3, NowFacts, WriteFacts
      <3>2. QED
        BY <2>1, <3>1, NowFacts
    <2>3. out' = <<"headers", "part", "message", "trailer">>
      BY <1>1, <2>2 DEF Sends
    <2>4. Answered(<<"part", "message">>, <<"trailer">>)'
      BY <2>3 DEF Answered
    <2>5. QED
      BY <1>1, <1>2, <2>4, AnswerFacts
  <1>4. CASE ~resp.gzip
    <2>1. w.out = out /\ ~w.gzip
      BY <1>4, NowFacts
    <2> HIDE DEF w
    <2>2. out' = out /\ ~resp'.gzip
      BY <1>1, <2>1 DEF Sends
    <2>3. Answered(<<"message">>, <<>>)' \/ Answered(<<"part", "message">>, <<>>)'
      BY <2>2 DEF Answered, PageInv, Unwind
    <2>4. QED
      BY <1>1, <1>2, <2>3, AnswerFacts
  <1>5. QED
    BY <1>3, <1>4

LEMMA PageStep ==
  ASSUME PageInv, [CgiNext]_vars
  PROVE  PageInv'
  <1>1. CASE UNCHANGED vars \/ Others
    BY <1>1 DEF vars, Others, PageInv, Blank, OneAnswer, Bodies
  <1>2. CASE process
    BY <1>2, SilentFacts, QuietFacts DEF process, Goes, Quiet, PageInv, Early
  <1>3. CASE \/ Hook("get_cgi_common_var", "prepare") \/ Hook("prepare", "authenticate")
             \/ Hook("authenticate", "authorize")
             \/ Hook("authorize", "get_cgi_var") \/ Hook("get_cgi_var", "handle_request")
    BY <1>3, HookFacts DEF Early
  <1>4. CASE authenticate
    BY <1>3, <1>4, AuthenticateFacts
  <1>5. CASE Calling
    BY <1>5, CallingFacts
  <1>6. CASE ReturnPage \/ Redirect \/ get_cext_Fails \/ ReturnCext
    BY <1>6, ReturnFacts
  <1>7. CASE output_cgiext
    BY <1>7, OutputFacts DEF output_cgiext, PageInv, Early
  <1>13. CASE set_cext_var_Fails
    BY <1>13, SilentFacts, QuietFacts, CgiHandlerAssumption DEF set_cext_var_Fails, Raises, Quiet, PageInv, Early
  <1>8. CASE exception_handle
    BY <1>8, ExceptFacts
  <1>9. CASE Unwind
    BY <1>9, UnwindFacts
  <1>10. CASE Leave
    BY <1>10 DEF Leave, PageInv, Blank, OneAnswer, Early
  <1>11. CASE Exit
    BY <1>11 DEF Exit, Goes, PageInv, OneAnswer, Early
  <1>12. QED
    BY <1>1, <1>2, <1>3, <1>4, <1>5, <1>6, <1>7, <1>8, <1>9, <1>10, <1>11, <1>13 DEF CgiNext, Calling

(* When a request is over the browser has one header, first, and one page or    *)
(* one message, with a piece of a template before the message only when the     *)
(* template broke off, and the trailer of what is announced as gzip last:       *)
(* nothing is sent before a template or a page, a redirect and a page end the   *)
(* request, and an exception finds at most a part of a template.                *)
THEOREM OneAnswerCorrect == CgiSpec => []OneAnswer
  <1>1. CgiInit => PageInv
    BY DEF CgiInit, PageInv, Blank, OneAnswer, Early
  <1>2. PageInv /\ [CgiNext]_vars => PageInv'
    BY PageStep
  <1>3. PageInv => OneAnswer
    BY DEF PageInv
  <1>4. QED
    BY <1>1, <1>2, <1>3, PTL DEF CgiSpec

-------------------------------------------------------------------------------
(* Uploads.  __del__ goes through two lists and each step starts from what the  *)
(* one before it left: h[n] is what the first n steps leave.                    *)
FileSteps(h, f, files, at) ==
  h = [n \in 0 .. Len(files) |-> IF n = 0 THEN f ELSE U!RemoveFile(h[n - 1], files[n], n = at)]
DirSteps(h, f, paths, at) ==
  h = [n \in 0 .. Len(paths) |-> IF n = 0 THEN f ELSE U!RemoveDir(h[n - 1], paths[n], n = at)]

(* One step in either list, and the steps of a walk. *)
Step(dir, f, path, refused) == IF dir THEN U!RemoveDir(f, path, refused) ELSE U!RemoveFile(f, path, refused)
Steps(h, dir, f, paths, at, last) ==
  h = [n \in 0 .. last |-> IF n = 0 THEN f ELSE Step(dir, h[n - 1], paths[n], n = at)]

LEMMA LeastElement ==
  ASSUME NEW T, T \subseteq Nat, T # {}
  PROVE  \E x \in T : \A y \in T : x <= y
  <1>1. IsWellFoundedOn(OpToRel(<, Nat), Nat)
    BY NatLessThanWellFounded
  <1>2. PICK x \in T : \A y \in T : ~(<<y, x>> \in OpToRel(<, Nat))
    BY <1>1, WFMin
  <1>3. \A y \in T : ~(y < x)
    BY <1>2 DEF OpToRel
  <1>4. QED
    BY <1>3

LEMMA StepsExist ==
  ASSUME NEW dir, NEW f, NEW paths, NEW at, NEW last \in Nat
  PROVE  \E h : Steps(h, dir, f, paths, at, last)
  <1> DEFINE Without == {n \in Nat : ~\E h : Steps(h, dir, f, paths, at, n)}
  <1>1. SUFFICES ASSUME Without # {} PROVE FALSE
    OBVIOUS
  <1>2. Without \subseteq Nat
    OBVIOUS
  <1>3. PICK n \in Without : \A m \in Without : n <= m
    <2> HIDE DEF Without
    <2>1. QED
      BY <1>1, <1>2, LeastElement
  <1>4. CASE n = 0
    <2> DEFINE g == [k \in 0 .. 0 |-> f]
    <2>1. ASSUME NEW k \in 0 .. 0 PROVE k = 0
      OBVIOUS
    <2>2. Steps(g, dir, f, paths, at, 0)
      BY <2>1 DEF Steps
    <2>3. QED
      BY <1>3, <1>4, <2>2
  <1>5. CASE n # 0
    <2>1. n - 1 \in Nat /\ n - 1 \notin Without
      BY <1>3, <1>5
    <2>2. PICK h : Steps(h, dir, f, paths, at, n - 1)
      BY <2>1
    <2> DEFINE g == [k \in 0 .. n |-> IF k = n THEN Step(dir, h[n - 1], paths[n], n = at) ELSE h[k]]
    <2>3. ASSUME NEW k \in 0 .. n
          PROVE  g[k] = IF k = 0 THEN f ELSE Step(dir, g[k - 1], paths[k], k = at)
      <3>1. CASE k = n
        BY <1>5, <2>1, <3>1
      <3>2. CASE k # n
        <4>1. k \in 0 .. (n - 1) /\ g[k] = h[k]
          BY <2>1, <3>2
        <4>2. h[k] = IF k = 0 THEN f ELSE Step(dir, h[k - 1], paths[k], k = at)
          BY <2>2, <4>1 DEF Steps
        <4>3. k # 0 => k - 1 \in 0 .. n /\ k - 1 # n
          BY <2>1, <4>1
        <4>4. k # 0 => g[k - 1] = h[k - 1]
          BY <4>3
        <4>5. QED
          BY <4>1, <4>2, <4>4
      <3>3. QED
        BY <3>1, <3>2
    <2> HIDE DEF g
    <2>4. g = [k \in 0 .. n |-> g[k]]
      BY DEF g
    <2>5. Steps(g, dir, f, paths, at, n)
      BY <2>3, <2>4 DEF Steps
    <2>6. QED
      BY <1>3, <2>5
  <1>6. QED
    BY <1>4, <1>5

(* A removal has a file system with directories and files; directories go       *)
(* without the files.                                                           *)
Sound(k) == k = [fs |-> [dirs |-> k.fs.dirs, files |-> k.fs.files], ok |-> k.ok]
Keeps(dir, f, k) == Sound(k) /\ (dir => k.fs.files = f.fs.files)

LEMMA StepKeeps ==
  ASSUME NEW dir \in BOOLEAN, NEW f, NEW k, Keeps(dir, f, k), NEW path, NEW refused
  PROVE  Keeps(dir, f, Step(dir, k, path, refused))
  <1> DEFINE d == k.fs.dirs
             e == k.fs.files
             o == k.ok
  <1>1. k = [fs |-> [dirs |-> d, files |-> e], ok |-> o]
    BY DEF Keeps, Sound
  <1> HIDE DEF d, e, o
  <1>2. dir => e = f.fs.files
    BY <1>1 DEF Keeps
  <1>3. CASE dir
    <2>1. \/ Step(dir, k, path, refused) = [fs |-> [dirs |-> d \ {path}, files |-> e], ok |-> o]
          \/ Step(dir, k, path, refused) = [fs |-> [dirs |-> d, files |-> e], ok |-> FALSE]
      BY <1>1, <1>3 DEF Step, U!RemoveDir
    <2>2. QED
      BY <1>2, <2>1 DEF Keeps, Sound
  <1>4. CASE ~dir
    <2>1. \/ Step(dir, k, path, refused) = [fs |-> [dirs |-> d, files |-> e \ {path}], ok |-> o]
          \/ Step(dir, k, path, refused) = [fs |-> [dirs |-> d, files |-> e], ok |-> FALSE]
      BY <1>1, <1>4 DEF Step, U!RemoveFile
    <2>2. QED
      BY <1>4, <2>1 DEF Keeps, Sound
  <1>5. QED
    BY <1>3, <1>4

LEMMA WalkKeeps ==
  ASSUME NEW dir \in BOOLEAN, NEW f, Sound(f), NEW paths, NEW at, NEW last \in Nat, NEW h,
         Steps(h, dir, f, paths, at, last)
  PROVE  Keeps(dir, f, h[last])
  <1> DEFINE Wrong == {n \in 0 .. last : ~Keeps(dir, f, h[n])}
  <1>1. SUFFICES ASSUME Wrong # {} PROVE FALSE
    OBVIOUS
  <1>2. Wrong \subseteq Nat
    OBVIOUS
  <1>3. PICK n \in Wrong : \A m \in Wrong : n <= m
    <2> HIDE DEF Wrong
    <2>1. QED
      BY <1>1, <1>2, LeastElement
  <1>4. h[n] = IF n = 0 THEN f ELSE Step(dir, h[n - 1], paths[n], n = at)
    BY <1>3 DEF Steps
  <1>5. n # 0
    BY <1>3, <1>4 DEF Keeps
  <1>6. n - 1 \in 0 .. last /\ n - 1 \notin Wrong
    BY <1>3, <1>5
  <1>7. Keeps(dir, f, h[n - 1])
    BY <1>6
  <1>8. QED
    BY <1>3, <1>4, <1>5, <1>7, StepKeeps

(* The files go one after the other, until one is refused or was named before.  *)
Upto(files, n) == {files[i] : i \in 1 .. n}
StopsAt(files, at, n) == at = n + 1 \/ \E i \in 1 .. n : files[i] = files[n + 1]
Removal(dirs, files, ok) == [fs |-> [dirs |-> dirs, files |-> files], ok |-> ok]
Gone(k, dirs, all, files, at, n) ==
  \/ k = Removal(dirs, all \ Upto(files, n), TRUE)
  \/ \E m \in 0 .. (n - 1) : StopsAt(files, at, m) /\ k = Removal(dirs, all \ Upto(files, m), FALSE)

LEMMA FileGone ==
  ASSUME NEW dirs, NEW all, NEW files \in Seq(all), NEW at, NEW n \in 1 .. Len(files), NEW k,
         Gone(k, dirs, all, files, at, n - 1)
  PROVE  Gone(U!RemoveFile(k, files[n], n = at), dirs, all, files, at, n)
  <1>1. n \in Nat /\ n - 1 \in Nat /\ files[n] \in all
    OBVIOUS
  <1>2. CASE k = Removal(dirs, all \ Upto(files, n - 1), TRUE)
    <2> DEFINE left == all \ Upto(files, n - 1)
    <2>1. k = [fs |-> [dirs |-> dirs, files |-> left], ok |-> TRUE]
      BY <1>2 DEF Removal
    <2>2. CASE files[n] \in left /\ n # at
      <3>1. left \ {files[n]} = all \ Upto(files, n)
        <4>1. 1 .. n = (1 .. (n - 1)) \union {n}
          BY <1>1
        <4>2. Upto(files, n) = Upto(files, n - 1) \union {files[n]}
          BY <4>1 DEF Upto
        <4>3. QED
          BY <4>2
      <3> HIDE DEF left
      <3>2. U!RemoveFile(k, files[n], n = at) = Removal(dirs, left \ {files[n]}, TRUE)
        BY <2>1, <2>2 DEF U!RemoveFile, Removal
      <3>3. QED
        BY <3>1, <3>2 DEF Gone
    <2>3. CASE ~(files[n] \in left /\ n # at)
      <3>1. StopsAt(files, at, n - 1)
        BY <1>1, <2>3 DEF StopsAt, Upto
      <3> HIDE DEF left
      <3>2. U!RemoveFile(k, files[n], n = at) = Removal(dirs, left, FALSE)
        BY <2>1, <2>3 DEF U!RemoveFile, Removal
      <3>3. n - 1 \in 0 .. (n - 1)
        BY <1>1
      <3>4. QED
        BY <3>1, <3>2, <3>3 DEF Gone, left
    <2>4. QED
      BY <2>2, <2>3
  <1>3. ASSUME NEW m \in 0 .. (n - 2), StopsAt(files, at, m),
               k = Removal(dirs, all \ Upto(files, m), FALSE)
        PROVE  Gone(U!RemoveFile(k, files[n], n = at), dirs, all, files, at, n)
    <2> DEFINE left == all \ Upto(files, m)
    <2>1. k = [fs |-> [dirs |-> dirs, files |-> left], ok |-> FALSE]
      BY <1>3 DEF Removal
    <2>2. m \in 0 .. (n - 1)
      BY <1>1
    <2> HIDE DEF left
    <2>3. U!RemoveFile(k, files[n], n = at) = Removal(dirs, left, FALSE)
      BY <2>1 DEF U!RemoveFile, Removal
    <2>4. QED
      BY <1>3, <2>2, <2>3 DEF Gone, left
  <1>4. (n - 1) - 1 = n - 2
    BY <1>1
  <1>5. QED
    BY <1>2, <1>3, <1>4 DEF Gone

LEMMA FilesRemoved ==
  ASSUME NEW dirs, NEW all, NEW files \in Seq(all), NEW at
  PROVE  Gone(U!RemoveFiles(Removal(dirs, all, TRUE), files, at), dirs, all, files, at, Len(files))
  <1> DEFINE f == Removal(dirs, all, TRUE)
             N == Len(files)
             h == CHOOSE k : FileSteps(k, f, files, at)
             Wrong == {n \in 0 .. N : ~Gone(h[n], dirs, all, files, at, n)}
  <1>1. U!RemoveFiles(f, files, at) = h[N]
    BY DEF U!RemoveFiles, FileSteps
  <1>2. N \in Nat
    OBVIOUS
  <1>3. \A k : Steps(k, FALSE, f, files, at, N) <=> FileSteps(k, f, files, at)
    BY DEF Steps, Step, FileSteps
  <1>4. \E k : Steps(k, FALSE, f, files, at, N)
    <2> HIDE DEF f, N
    <2>1. QED
      BY <1>2, StepsExist
  <1>5. FileSteps(h, f, files, at)
    BY <1>3, <1>4
  <1> HIDE DEF h
  <1>6. Gone(f, dirs, all, files, at, 0)
    <2>1. all \ Upto(files, 0) = all
      BY DEF Upto
    <2>2. QED
      BY <2>1 DEF Gone
  <1> HIDE DEF f
  <1>7. Wrong = {}
    <2>1. SUFFICES ASSUME Wrong # {} PROVE FALSE
      OBVIOUS
    <2>2. Wrong \subseteq Nat
      OBVIOUS
    <2>3. PICK n \in Wrong : \A m \in Wrong : n <= m
      <3> HIDE DEF Wrong
      <3>1. QED
        BY <2>1, <2>2, LeastElement
    <2>4. h[n] = IF n = 0 THEN f ELSE U!RemoveFile(h[n - 1], files[n], n = at)
      BY <1>5, <2>3 DEF FileSteps
    <2>5. n \in 1 .. N
      BY <1>2, <1>6, <2>3, <2>4
    <2>6. n - 1 \in 0 .. N /\ n - 1 \notin Wrong
      BY <1>2, <2>3, <2>5
    <2>7. Gone(h[n - 1], dirs, all, files, at, n - 1)
      BY <2>6
    <2>8. Gone(h[n], dirs, all, files, at, n)
      BY <2>4, <2>5, <2>7, FileGone
    <2>9. QED
      BY <2>3, <2>8
  <1>8. Gone(h[N], dirs, all, files, at, N)
    <2>1. N \in 0 .. N
      BY <1>2
    <2> HIDE DEF N
    <2>2. QED
      BY <1>7, <2>1
  <1>9. QED
    BY <1>1, <1>8 DEF f

(* Removing directories takes no file; a single one is left only when something *)
(* is in it, or its removal or one before it failed.                            *)
LEMMA DirsRemoved ==
  ASSUME NEW f, Sound(f), NEW T, NEW paths \in Seq(T), NEW at, NEW after,
         after = U!RemoveDirs(f, paths, at)
  PROVE  /\ Keeps(TRUE, f, after)
         /\ f.ok /\ Len(paths) = 1 /\ paths[1] \in after.fs.dirs =>
              at = 1 \/ U!Inside(after.fs, paths[1]) # {}
  <1> DEFINE h == CHOOSE k : DirSteps(k, f, paths, at)
  <1>1. after = h[Len(paths)]
    BY DEF U!RemoveDirs, DirSteps
  <1>2. ASSUME NEW k
        PROVE  Steps(k, TRUE, f, paths, at, Len(paths)) <=> DirSteps(k, f, paths, at)
    BY DEF Steps, Step, DirSteps
  <1>3. \E k : Steps(k, TRUE, f, paths, at, Len(paths))
    <2>1. Len(paths) \in Nat
      OBVIOUS
    <2>2. QED
      BY <2>1, StepsExist
  <1>4. DirSteps(h, f, paths, at)
    BY <1>2, <1>3
  <1> HIDE DEF h
  <1>5. Keeps(TRUE, f, after)
    <2>1. Steps(h, TRUE, f, paths, at, Len(paths))
      BY <1>2, <1>4
    <2>2. Len(paths) \in Nat
      OBVIOUS
    <2>3. QED
      BY <1>1, <2>1, <2>2, WalkKeeps
  <1>6. ASSUME f.ok, Len(paths) = 1, paths[1] \in after.fs.dirs, at # 1
        PROVE  U!Inside(after.fs, paths[1]) # {}
    <2> DEFINE d == f.fs.dirs
               e == f.fs.files
               o == f.ok
    <2>1. h[0] = f /\ h[1] = U!RemoveDir(h[0], paths[1], 1 = at)
      BY <1>4, <1>6 DEF DirSteps
    <2>2. after = U!RemoveDir(f, paths[1], FALSE)
      BY <1>1, <1>6, <2>1
    <2>3. f = [fs |-> [dirs |-> d, files |-> e], ok |-> o] /\ o
      BY <1>6 DEF Sound
    <2> HIDE DEF d, e, o
    <2>4. CASE paths[1] \in d /\ U!Inside([dirs |-> d, files |-> e], paths[1]) = {}
      <3>1. after = [fs |-> [dirs |-> d \ {paths[1]}, files |-> e], ok |-> o]
        BY <2>2, <2>3, <2>4 DEF U!RemoveDir
      <3>2. QED
        BY <1>6, <3>1
    <2>5. CASE ~(paths[1] \in d /\ U!Inside([dirs |-> d, files |-> e], paths[1]) = {})
      <3>1. after = [fs |-> [dirs |-> d, files |-> e], ok |-> FALSE]
        BY <2>2, <2>3, <2>5 DEF U!RemoveDir
      <3>2. after.fs = [dirs |-> d, files |-> e]
        BY <3>1
      <3>3. QED
        BY <1>6, <2>5, <3>2
    <2>6. QED
      BY <2>4, <2>5
  <1>7. QED
    BY <1>5, <1>6

(* An upload session knows files that are there.                                *)
UploadSound(u, f) == u \in [ok : BOOLEAN, paths : Seq(Paths), saved : Seq(f.files)]
Tree(f) == f = [dirs |-> f.dirs, files |-> f.files]

(* What UploadUndone says of a session that is over. *)
Undone(u, at, f) == ~u.ok => Removed(u, at, f)

LEMMA DeletedUndone ==
  ASSUME NEW f, NEW u, Tree(f), UploadSound(u, f), NEW at \in Int
  PROVE  Undone(u, at, U!Deleted(f, u, at)) /\ Tree(U!Deleted(f, u, at))
  <1>1. CASE u.ok
    BY <1>1 DEF U!Deleted, Undone
  <1>2. CASE ~u.ok
    <2> DEFINE d == f.dirs
               e == f.files
               N == Len(u.saved)
               start == [fs |-> f, ok |-> TRUE]
               mid == U!RemoveFiles(start, u.saved, at)
               after == U!RemoveDirs(mid, u.paths, at - N)
    <2>1. U!Deleted(f, u, at) = after.fs
      BY <1>2 DEF U!Deleted
    <2>2. f = [dirs |-> d, files |-> e] /\ start = Removal(d, e, TRUE)
      BY DEF Tree, Removal
    <2>3. u.saved \in Seq(e) /\ u.paths \in Seq(Paths) /\ N \in Nat
      BY DEF UploadSound
    <2>4. Gone(mid, d, e, u.saved, at, N)
      <3>1. Gone(U!RemoveFiles(Removal(d, e, TRUE), u.saved, at), d, e, u.saved, at, N)
        <4> HIDE DEF d, e
        <4>1. QED
          BY <2>3, FilesRemoved
      <3>2. QED
        BY <2>2, <3>1
    <2> HIDE DEF d, e, start, mid
    <2> DEFINE Left(n) == /\ mid.fs.files = e \ Upto(u.saved, n) /\ Sound(mid)
                          /\ n < N => StopsAt(u.saved, at, n)
                          /\ n = N => mid.ok
    <2>5. \E n \in 0 .. N : Left(n)
      <3>1. CASE mid = Removal(d, e \ Upto(u.saved, N), TRUE)
        <4>1. N \in 0 .. N /\ ~(N < N)
          BY <2>3
        <4>2. mid.fs.files = e \ Upto(u.saved, N) /\ mid.ok /\ Sound(mid)
          BY <3>1 DEF Removal, Sound
        <4>3. QED
          BY <4>1, <4>2
      <3>2. ASSUME NEW m \in 0 .. (N - 1), StopsAt(u.saved, at, m),
                   mid = Removal(d, e \ Upto(u.saved, m), FALSE)
            PROVE  \E n \in 0 .. N : Left(n)
        <4>1. m \in 0 .. N /\ m # N
          BY <2>3
        <4>2. mid.fs.files = e \ Upto(u.saved, m) /\ Sound(mid)
          BY <3>2 DEF Removal, Sound
        <4>3. QED
          BY <3>2, <4>1, <4>2
      <3>3. \/ mid = Removal(d, e \ Upto(u.saved, N), TRUE)
            \/ \E m \in 0 .. (N - 1) :
                 StopsAt(u.saved, at, m) /\ mid = Removal(d, e \ Upto(u.saved, m), FALSE)
        BY <2>4 DEF Gone
      <3> HIDE DEF Left, N
      <3>4. QED
        BY <3>1, <3>2, <3>3
    <2>10. PICK n \in 0 .. N : Left(n)
      BY <2>5
    <2> HIDE DEF N
    <2>6. /\ Keeps(TRUE, mid, after)
          /\ mid.ok /\ Len(u.paths) = 1 /\ u.paths[1] \in after.fs.dirs =>
               at - N = 1 \/ U!Inside(after.fs, u.paths[1]) # {}
      BY <2>3, <2>10, DirsRemoved
    <2> HIDE DEF after
    <2>7. Tree(after.fs) /\ after.fs.files = mid.fs.files
      <3>1. after = [fs |-> [dirs |-> after.fs.dirs, files |-> after.fs.files], ok |-> after.ok]
        BY <2>6 DEF Keeps, Sound
      <3>2. QED
        BY <2>6, <3>1 DEF Keeps, Tree
    <2>8. Undone(u, at, after.fs)
      <3>1. \A i \in 1 .. n : u.saved[i] \notin after.fs.files
        BY <2>10, <2>7 DEF Upto
      <3>2. n < N => at = n + 1 \/ \E i \in 1 .. n : u.saved[i] = u.saved[n + 1]
        BY <2>10 DEF StopsAt
      <3>3. n = N /\ Len(u.paths) = 1 /\ u.paths[1] \in after.fs.dirs =>
              at = n + 1 \/ U!Inside(after.fs, u.paths[1]) # {}
        BY <2>3, <2>10, <2>6
      <3>4. QED
        BY <3>1, <3>2, <3>3 DEF Undone, Removed, N
    <2>9. QED
      BY <2>1, <2>7, <2>8
  <1>3. QED
    BY <1>1, <1>2

(* What an upload saved is there until handle_request lets go of it, and while  *)
(* one is over nothing is saved: only a request that has not ended does that.   *)
After == {"output", "leave", "except", "unwind", "exit", "gone"}
UploadInv ==
  /\ Tree(fs)
  /\ up # None => UploadSound(up, fs)
  /\ lastup # None => stage \in After /\ Undone(lastup.session, lastup.refused, fs)

(* The actions that touch neither the files nor an upload, and do not go back   *)
(* to handle_request once it is over.                                           *)
Aside ==
  \/ process \/ Hook("get_cgi_common_var", "prepare") \/ Hook("prepare", "authenticate") \/ authenticate
  \/ Hook("authorize", "get_cgi_var") \/ Hook("get_cgi_var", "handle_request")
  \/ NewTransaction \/ DropTransaction \/ ModifyRow \/ QueryRows \/ CommitAll \/ RollBackAll
  \/ LogIn \/ TouchSession \/ LogOut \/ Fails
  \/ set_cext_var_Fails \/ output_cgiext \/ exception_handle \/ Others

LEMMA AsideFacts ==
  ASSUME Aside
  PROVE  UNCHANGED <<fs, up, lastup>> /\ (stage \in After => stage' \in After)
  <1>1. ASSUME NEW hook \in {"get_cgi_common_var", "prepare", "authenticate", "authorize", "get_cgi_var"},
               NEW next, Hook(hook, next)
        PROVE  UNCHANGED <<fs, up, lastup>> /\ stage \notin After
    BY <1>1 DEF Hook, app, After
  <1>2. CASE authenticate
    <2>1. stage = "authenticate" /\ UNCHANGED <<fs, up, lastup>>
      BY <1>2 DEF authenticate, Hook, app
    <2>2. QED
      BY <2>1 DEF After
  <1>3. CASE NewTransaction \/ DropTransaction \/ ModifyRow \/ QueryRows \/ CommitAll \/ RollBackAll
    <2>1. stage = "handle_request" /\ UNCHANGED <<fs, up, lastup>>
      BY <1>3 DEF NewTransaction, DropTransaction, ModifyRow, QueryRows, CommitAll, RollBackAll,
                  UseDb, Op, DbOp
    <2>2. QED
      BY <2>1 DEF After
  <1>4. CASE LogIn \/ TouchSession \/ LogOut \/ Fails
    <2>1. stage = "handle_request" /\ UNCHANGED <<fs, up, lastup>>
      BY <1>4 DEF LogIn, TouchSession, LogOut, Fails, UseSession, Op
    <2>2. QED
      BY <2>1 DEF After
  <1>5. CASE process \/ Others
    BY <1>5 DEF process, Others, After
  <1>6. CASE set_cext_var_Fails \/ output_cgiext \/ exception_handle
    BY <1>6 DEF set_cext_var_Fails, output_cgiext, exception_handle, Goes, Raises, app, After
  <1>7. QED
    BY <1>1, <1>2, <1>3, <1>4, <1>5, <1>6 DEF Aside

(* A save adds files and directories only; what the session notes as saved is   *)
(* among the files.                                                             *)
LEMMA SaveFacts ==
  ASSUME NEW f, NEW u, Tree(f), UploadSound(u, f), NEW path \in Paths, NEW name, NEW throw,
         NEW o \in U!safe_save(f, u, path, name, throw)
  PROVE  Tree(o.fs) /\ UploadSound(o.up, o.fs)
  <1> DEFINE d == f.dirs
             e == f.files
             file == Append(path, name)
             made == [f EXCEPT !.dirs = @ \union U!Part(path, Len(path))]
             written == [made EXCEPT !.files = @ \union {file}]
             u2 == IF path \in f.dirs THEN u ELSE [u EXCEPT !.paths = Append(@, path)]
             u3 == [u2 EXCEPT !.saved = Append(@, file)]
             part(k) == [f EXCEPT !.dirs = @ \union U!Part(path, k)]
  <1>1. \/ \E k \in 0 .. (Len(path) - 1) : o = U!failed_session(part(k), u, throw)
        \/ o = U!failed_session(made, u2, throw)
        \/ o = U!failed_session(written, u2, throw)
        \/ o = U!failed_session(written, u3, throw)
        \/ o = U!NotCaught(made, u2)
        \/ o = U!NotCaught(written, u2)
        \/ o = U!Saved(written, u3)
    BY DEF U!safe_save
  <1>2. f = [dirs |-> d, files |-> e]
    BY DEF Tree
  <1>3. Tree(made) /\ made.files = e /\ \A k : Tree(part(k)) /\ part(k).files = e
    <2>1. ASSUME NEW x
          PROVE  Tree([f EXCEPT !.dirs = x]) /\ [f EXCEPT !.dirs = x].files = e
      <3> HIDE DEF d, e
      <3>1. [f EXCEPT !.dirs = x] = [dirs |-> x, files |-> e]
        BY <1>2
      <3>2. QED
        BY <3>1 DEF Tree
    <2>2. QED
      BY <2>1
  <1>4. Tree(written) /\ written.files = e \union {file}
    <2> DEFINE m == made.dirs
    <2>1. made = [dirs |-> m, files |-> e]
      BY <1>3 DEF Tree
    <2> HIDE DEF m, e, file, made
    <2>2. written = [dirs |-> m, files |-> e \union {file}]
      BY <2>1
    <2>3. QED
      BY <2>2 DEF Tree
  <1>5. UploadSound(u2, made)
    <2>1. u \in [ok : BOOLEAN, paths : Seq(Paths), saved : Seq(e)]
      BY DEF UploadSound
    <2>2. Append(u.paths, path) \in Seq(Paths)
      BY <2>1
    <2> HIDE DEF e, made
    <2>3. u2 \in [ok : BOOLEAN, paths : Seq(Paths), saved : Seq(e)]
      BY <2>1, <2>2
    <2>4. QED
      BY <2>3, <1>3 DEF UploadSound
  <1>6. ASSUME NEW v, UploadSound(v, made)
        PROVE  UploadSound(v, written)
    <2>1. v \in [ok : BOOLEAN, paths : Seq(Paths), saved : Seq(e)]
      BY <1>3, <1>6 DEF UploadSound
    <2>2. v.saved \in Seq(e \union {file})
      <3>1. v.saved \in Seq(e)
        BY <2>1
      <3> HIDE DEF e, file
      <3>2. QED
        BY <3>1
    <2> HIDE DEF e, file, written
    <2>3. v \in [ok : BOOLEAN, paths : Seq(Paths), saved : Seq(e \union {file})]
      BY <2>1, <2>2
    <2>4. QED
      BY <1>4, <2>3 DEF UploadSound
  <1>7. UploadSound(u3, written)
    <2>1. u2 \in [ok : BOOLEAN, paths : Seq(Paths), saved : Seq(e \union {file})]
      BY <1>4, <1>5, <1>6 DEF UploadSound
    <2> HIDE DEF e, file, written, u2
    <2>2. Append(u2.saved, file) \in Seq(e \union {file})
      BY <2>1
    <2>3. u3 \in [ok : BOOLEAN, paths : Seq(Paths), saved : Seq(e \union {file})]
      BY <2>1, <2>2
    <2>4. QED
      BY <1>4, <2>3 DEF UploadSound
  <1>8. ASSUME NEW g, NEW v, UploadSound(v, g)
        PROVE  UploadSound([v EXCEPT !.ok = FALSE], g)
    BY <1>8 DEF UploadSound
  <1>9. \A k : UploadSound(u, part(k))
    BY <1>3 DEF UploadSound
  <1> HIDE DEF made, written, u2, u3, part
  <1>10. CASE o = U!Saved(written, u3)
    BY <1>10, <1>4, <1>7 DEF U!Saved
  <1>11. ASSUME NEW g, NEW v, Tree(g), UploadSound(v, g), o = U!failed_session(g, v, throw)
         PROVE  Tree(o.fs) /\ UploadSound(o.up, o.fs)
    BY <1>8, <1>11 DEF U!failed_session
  <1>12. UploadSound(u2, written)
    BY <1>5, <1>6
  <1>14. CASE o = U!NotCaught(made, u2) \/ o = U!NotCaught(written, u2)
    BY <1>3, <1>4, <1>5, <1>12, <1>14 DEF U!NotCaught
  <1>13. QED
    BY <1>1, <1>3, <1>4, <1>5, <1>7, <1>9, <1>10, <1>11, <1>12, <1>14

LEMMA UploadStep ==
  ASSUME UploadInv, [CgiNext]_vars
  PROVE  UploadInv'
  <1>1. CASE Aside \/ UNCHANGED vars
    <2>1. UNCHANGED <<fs, up, lastup>> /\ (stage \in After => stage' \in After)
      BY <1>1, AsideFacts DEF vars, app
    <2>2. QED
      BY <2>1 DEF UploadInv, Undone, Removed, U!Inside, Tree, UploadSound
  <1>2. CASE SaveFile
    <2>1. stage = "handle_request" /\ lastup' = lastup
      BY <1>2 DEF SaveFile, Op
    <2>2. lastup = None
      BY <2>1 DEF UploadInv, After
    <2> DEFINE u == IF up = None THEN U!NewUpload ELSE up
    <2>3. UploadSound(u, fs)
      <3>1. UploadSound(U!NewUpload, fs)
        BY DEF UploadSound, U!NewUpload
      <3>2. QED
        BY <3>1 DEF UploadInv
    <2> HIDE DEF u
    <2>4. PICK path \in Paths, name \in Names, throw \in BOOLEAN :
            \E o \in U!safe_save(fs, u, path, name, throw) : fs' = o.fs /\ up' = o.up
      BY <1>2 DEF SaveFile, u
    <2>5. Tree(fs') /\ UploadSound(up', fs')
      BY <2>3, <2>4, SaveFacts DEF UploadInv
    <2>6. Tree(fs)' /\ UploadSound(up, fs)'
      BY <2>5 DEF Tree, UploadSound
    <2>7. QED
      BY <2>1, <2>2, <2>6 DEF UploadInv
  <1>3. CASE ReturnPage \/ Redirect \/ get_cext_Fails \/ ReturnCext \/ Unwind \/ Exit
    <2>1. stage' \in After /\ DropUpload
      <3>1. CASE ReturnPage \/ Redirect \/ get_cext_Fails \/ ReturnCext \/ Unwind
        BY <3>1 DEF ReturnPage, Redirect, get_cext_Fails, ReturnCext, Unwind, Return, DropLocals, Goes, After
      <3>2. CASE Exit
        BY <3>2 DEF Exit, Goes, After
      <3>3. QED
        BY <1>3, <3>1, <3>2
    <2>2. CASE up = None
      BY <2>1, <2>2 DEF DropUpload, UploadInv, Tree
    <2>3. CASE up # None
      <3>1. PICK at \in U!Removals(up) :
              fs' = U!Deleted(fs, up, at) /\ lastup' = [session |-> up, refused |-> at]
        BY <2>1, <2>3 DEF DropUpload
      <3>2. at \in Int
        BY <2>3 DEF U!Removals, UploadInv, UploadSound
      <3>3. Undone(up, at, fs') /\ Tree(fs')
        BY <2>3, <3>1, <3>2, DeletedUndone DEF UploadInv
      <3>4. lastup'.session = up /\ lastup'.refused = at /\ up' = None
        BY <2>1, <3>1 DEF DropUpload
      <3>5. Undone(lastup.session, lastup.refused, fs)' /\ Tree(fs)'
        BY <3>3, <3>4 DEF Undone, Removed, Tree, U!Inside
      <3>6. QED
        BY <2>1, <3>4, <3>5 DEF UploadInv
    <2>4. QED
      BY <2>2, <2>3
  <1>4. CASE Leave
    <2>1. UNCHANGED <<fs, up>> /\ lastup' = None
      BY <1>4 DEF Leave
    <2>2. QED
      BY <2>1 DEF UploadInv, Tree, UploadSound
  <1>5. QED
    BY <1>1, <1>2, <1>3, <1>4 DEF CgiNext, Aside

(* When an upload that failed is over, the files it had saved are gone, up to   *)
(* one whose removal the system refused or that it saved twice: those it noted  *)
(* are there when __del__ comes, so nothing else stops the removal, before the  *)
(* directory's turn or in it.                                                   *)
THEOREM UploadUndoneCorrect == CgiSpec => []UploadUndone
  <1>1. CgiInit => UploadInv
    BY DEF CgiInit, UploadInv, Tree
  <1>2. UploadInv /\ [CgiNext]_vars => UploadInv'
    BY UploadStep
  <1>3. UploadInv => UploadUndone
    BY DEF UploadInv, UploadUndone, Undone
  <1>4. QED
    BY <1>1, <1>2, <1>3, PTL DEF CgiSpec
===============================================================================
