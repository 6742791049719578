----------------------------- MODULE Worker_proofs -----------------------------
(***************************************************************************)
(* Proof that the read_q of a conn never holds bytes of another client,    *)
(* for every number of clients, requests and bytes, every limit of the     *)
(* pool and every growth step.  The worker's steps are steps of the pool   *)
(* or leave it alone, so what ConnMgr_proofs shows of the pool on its own  *)
(* holds in the worker (PoolStaysSound).  From the section "The master"    *)
(* on, the safety invariants of MasterWorker, for any number of workers    *)
(* and any bounds.                                                         *)
(***************************************************************************)
EXTENDS Worker, MasterWorker, TLAPS

PoolP == INSTANCE ConnMgr_proofs WITH Sock <- Client

\* Clients are descriptors the pool can hold: none of them is NoFd.
LEMMA PoolAssumption == PoolP!ConnMgrAssumption
  BY WorkerAssumption DEF PoolP!ConnMgrAssumption, Client, PoolP!NoFd

\* The pool the worker runs is the pool that ConnMgr_proofs is about.
LEMMA SameListen ==
    ASSUME NEW s, NEW b
    PROVE  Pool!server_handle_listen(s, b) <=> PoolP!server_handle_listen(s, b)
  <1>1. Pool!GrownSize = PoolP!GrownSize /\ Pool!Slots = PoolP!Slots
    BY DEF Pool!GrownSize, PoolP!GrownSize, Pool!Slots, PoolP!Slots
  <1>2. Pool!GrownPtr = PoolP!GrownPtr
    BY <1>1 DEF Pool!GrownPtr, PoolP!GrownPtr
  <1>3. \A f, v : Pool!Extend(f, v) = PoolP!Extend(f, v)
    BY <1>1 DEF Pool!Extend, PoolP!Extend
  <1>4. Pool!conn_mgr_add_conn(s, b) <=> PoolP!conn_mgr_add_conn(s, b)
    BY <1>1, <1>2, <1>3
       DEF Pool!conn_mgr_add_conn, PoolP!conn_mgr_add_conn, Pool!NoNdx,
           PoolP!NoNdx, Pool!NoFd, PoolP!NoFd
  <1>5. QED
    BY <1>4 DEF Pool!server_handle_listen, PoolP!server_handle_listen, Pool!Full,
                PoolP!Full

LEMMA SameErr ==
    ASSUME NEW c
    PROVE  Pool!conn_handle_err(c) <=> PoolP!conn_handle_err(c)
  <1>1. Pool!conn_reset(c) <=> PoolP!conn_reset(c)
    BY DEF Pool!conn_reset, PoolP!conn_reset, Pool!NoFd, PoolP!NoFd
  <1>2. Pool!DelTail(c) <=> PoolP!DelTail(c)
    BY DEF Pool!DelTail, PoolP!DelTail, Pool!NoNdx, PoolP!NoNdx
  <1>3. Pool!DelSwap(c) <=> PoolP!DelSwap(c)
    BY DEF Pool!DelSwap, PoolP!DelSwap, Pool!NoNdx, PoolP!NoNdx
  <1>4. Pool!InUse(c) <=> PoolP!InUse(c)
    BY DEF Pool!InUse, PoolP!InUse, Pool!NoNdx, PoolP!NoNdx
  <1>5. QED
    BY <1>1, <1>2, <1>3, <1>4
       DEF Pool!conn_handle_err, PoolP!conn_handle_err, Pool!conn_mgr_del_conn,
           PoolP!conn_mgr_del_conn

------------------------------------------------------------------------------
\* Every step of the worker is a step of the pool or leaves the pool alone.
LEMMA StepUsesPool ==
    ASSUME [Next]_vars
    PROVE  [Pool!Next]_(Pool!poolVars)
  <1> USE DEF Pool!poolVars, poolVars
  <1>1. ASSUME NEW s \in Client, server_handle_listen(s)
        PROVE  Pool!Next
    BY <1>1 DEF server_handle_listen, Pool!Next
  <1>2. ASSUME NEW c \in Slots, conn_handle_err(c)
        PROVE  Pool!Next
    BY <1>2 DEF conn_handle_err, Pool!Next, Slots, Pool!Slots
  <1>3. ASSUME NEW s \in Client, ClientHangsUp(s)
        PROVE  UNCHANGED poolVars
    BY <1>3 DEF ClientHangsUp
  <1>4. ASSUME NEW s \in Client, NEW n \in 1 .. MaxBytes, ClientSends(s, n)
        PROVE  UNCHANGED poolVars
    BY <1>4 DEF ClientSends
  <1>5. ASSUME NEW k \in DOMAIN cgi, NEW n \in 1 .. MaxOutput, CgiWrites(k, n)
        PROVE  UNCHANGED poolVars
    BY <1>5 DEF CgiWrites
  <1>6. ASSUME NEW k \in DOMAIN cgi,
               CgiExits(k) \/ cgi_handle_read(k) \/ cgi_handle_err(k)
        PROVE  UNCHANGED poolVars
    BY <1>6 DEF CgiExits, cgi_handle_read, cgi_handle_err
  <1>7. ASSUME NEW c \in Slots, conn_handle_read(c)
        PROVE  UNCHANGED poolVars
    BY <1>7 DEF conn_handle_read
  <1>8. CASE UNCHANGED vars
    BY <1>8 DEF vars
  <1>9. QED
    BY <1>1, <1>2, <1>3, <1>4, <1>5, <1>6, <1>7, <1>8 DEF Next

\* The pool's inductive invariant holds in every state of the worker.
LEMMA PoolStaysSound == Spec => []PoolP!IInv
  <1>0. Init => Pool!Init
    BY DEF Init
  <1>1. Pool!Init => PoolP!Init
    BY DEF Pool!Init, PoolP!Init, Pool!NoNdx, PoolP!NoNdx, Pool!NoFd, PoolP!NoFd
  <1>2. [Pool!Next]_(Pool!poolVars) => [PoolP!Next]_(PoolP!poolVars)
    BY SameListen, SameErr
       DEF Pool!Next, PoolP!Next, Pool!Slots, PoolP!Slots, Pool!poolVars,
           PoolP!poolVars
  <1>3. PoolP!Spec => []PoolP!IInv
    BY PoolAssumption, PoolP!PoolInvariant
  <1>4. [Next]_vars => [Pool!Next]_(Pool!poolVars)
    BY StepUsesPool
  <1>5. QED
    BY <1>0, <1>1, <1>2, <1>3, <1>4, PTL DEF Spec, PoolP!Spec

------------------------------------------------------------------------------
\* TypeOK without the pool's part of it, and what ReadsIsolated adds to it.
CgiType == [state : CgiState, conn : Slots, from : Client,
            pipe : 0 .. MaxOutput, wrote : BOOLEAN]

OwnType ==
    /\ read_q \in [Slots -> Seq(Chunk)]
    /\ write_q \in [Slots -> Seq(Chunk)]
    /\ joined \in 0 .. MaxClients /\ eof \subseteq 1 .. joined
    /\ input \in [Client -> 0 .. MaxBytes]
    /\ sends \in 0 .. MaxRequests
    /\ cgi \in Seq(CgiType)
    /\ hung \in BOOLEAN

Isolated ==
    \A c \in Slots : \A i \in DOMAIN read_q[c] :
        ndx[c] # -1 /\ read_q[c][i].from = fd[c]

IInv == OwnType /\ Isolated

\* A conn with a live bufferevent serves a client.
LEMMA LiveServes ==
    ASSUME PoolP!IInv, NEW c \in Slots, bev[c] = "live"
    PROVE  ndx[c] # -1 /\ fd[c] \in Client
  BY DEF PoolP!IInv, PoolP!Shape, PoolP!SocketsOwned, PoolP!CallbacksInUse,
         PoolP!InUse, PoolP!NoNdx, PoolP!Slots, Slots

\* Accepting takes a conn that was free or new and leaves the rest alone.
LEMMA ListenFacts ==
    ASSUME PoolP!IInv, NEW s \in Client, NEW b \in {"live", "null"},
           Pool!server_handle_listen(s, b)
    PROVE  /\ Slots \subseteq Slots'
           /\ \A f, v : Pool!Extend(f, v)
                  = [c \in Slots' |-> IF c \in Slots THEN f[c] ELSE v]
           /\ \A c \in Slots : ndx[c] # -1 => ndx'[c] # -1 /\ fd'[c] = fd[c]
  <1>1. PoolP!server_handle_listen(s, b)
    BY SameListen
  <1>2. PoolP!Accepted(s, b, PoolP!GrownPtr[used], PoolP!GrownSize)
    BY <1>1, PoolAssumption, PoolP!AddFacts DEF PoolP!IInv
  <1>3. size' = PoolP!GrownSize /\ PoolP!GrownSize \in Nat /\ size <= size'
    BY <1>2 DEF PoolP!Accepted
  <1>4. size \in Nat
    BY DEF PoolP!IInv, PoolP!Shape
  <1>5. Slots \subseteq Slots'
    BY <1>3, <1>4 DEF Slots
  <1>6. Pool!GrownSize = size'
    BY <1>3 DEF Pool!GrownSize, PoolP!GrownSize
  <1>7. \A f, v : Pool!Extend(f, v)
                      = [c \in Slots' |-> IF c \in Slots THEN f[c] ELSE v]
    BY <1>6 DEF Pool!Extend, Slots, Pool!Slots
  <1>8. \A c \in Slots : ndx[c] # -1 => ndx'[c] # -1 /\ fd'[c] = fd[c]
    BY <1>2, <1>5 DEF PoolP!Accepted, Slots, PoolP!Slots, PoolP!InUse, PoolP!NoNdx
  <1>9. QED
    BY <1>5, <1>7, <1>8

\* The error callback frees its own conn, and although the last used conn is
\* moved into the freed slot every other conn in use keeps its socket.
LEMMA ErrFacts ==
    ASSUME PoolP!IInv, NEW c \in Slots, Pool!conn_handle_err(c)
    PROVE  /\ Slots' = Slots
           /\ \A d \in Slots \ {c} :
                  ndx[d] # -1 => ndx'[d] # -1 /\ fd'[d] = fd[d]
  <1>0. c \in PoolP!Slots /\ PoolP!Slots = Slots /\ PoolP!Slots' = Slots'
    BY DEF Slots, PoolP!Slots
  <1>1. PoolP!conn_handle_err(c)
    BY SameErr
  <1>2. PoolP!Dropped(c, ndx[c], ptr[used - 1])
    BY <1>0, <1>1, PoolAssumption, PoolP!DelFacts DEF PoolP!IInv
  <1>3. Slots' = Slots
    BY <1>0, <1>2 DEF PoolP!Dropped
  <1>4. ASSUME NEW d \in Slots \ {c}, ndx[d] # -1
        PROVE  ndx'[d] # -1
    <2>1. CASE d = ptr[used - 1]
      BY <2>1, <1>2, <1>4 DEF PoolP!Dropped
    <2>2. CASE d # ptr[used - 1]
      BY <2>2, <1>0, <1>2, <1>4 DEF PoolP!Dropped
    <2>3. QED
      BY <2>1, <2>2
  <1>5. \A d \in Slots \ {c} : fd'[d] = fd[d]
    BY <1>0, <1>2 DEF PoolP!Dropped, PoolP!IInv, PoolP!Shape
  <1>6. QED
    BY <1>3, <1>4, <1>5

------------------------------------------------------------------------------
\* Removing finished chunks keeps a queue of chunks one, and what it leaves was
\* there before.
LEMMA RemoveFacts ==
    ASSUME NEW q \in Seq(Chunk)
    PROVE  /\ RemoveFinished(q) \in Seq(Chunk)
           /\ RemoveFinished(q) \in {q, <<>>}
  BY DEF RemoveFinished

\* A process is started for the client that a live conn serves.
LEMMA StartFacts ==
    ASSUME OwnType, NEW c \in Slots, fd[c] \in Client, conn_parse_request(c)
    PROVE  cgi' \in Seq(CgiType)
  <1> DEFINE new == [state |-> "running", conn |-> c, from |-> fd[c],
                     pipe |-> 0, wrote |-> FALSE]
  <1>1. new \in CgiType
    BY WorkerAssumption DEF CgiType, CgiState
  <1>2. cgi' = Append(cgi, new) \/ cgi' = cgi
    BY DEF conn_parse_request
  <1>3. cgi \in Seq(CgiType)
    BY DEF OwnType
  <1> HIDE DEF new
  <1>4. QED
    BY <1>1, <1>2, <1>3

\* A process that changes stays a process.
LEMMA ChangeFacts ==
    ASSUME OwnType, NEW k \in DOMAIN cgi, NEW p \in CgiType,
           cgi' = [cgi EXCEPT ![k] = p]
    PROVE  cgi' \in Seq(CgiType)
  BY DEF OwnType

LEMMA InitIInv == Init => IInv
  <1>1. Init => size = 0
    BY DEF Init, Pool!Init
  <1>2. Init => Slots = {}
    BY <1>1 DEF Slots
  <1>3. QED
    <2>1. Init => /\ read_q \in [Slots -> Seq(Chunk)]
                  /\ write_q \in [Slots -> Seq(Chunk)]
      BY <1>2 DEF Init
    <2>2. Init => Isolated
      BY <1>2 DEF Isolated
    <2>3. Init => /\ joined \in 0 .. MaxClients /\ eof \subseteq 1 .. joined
                  /\ input \in [Client -> 0 .. MaxBytes]
                  /\ sends \in 0 .. MaxRequests
                  /\ cgi \in Seq(CgiType) /\ hung \in BOOLEAN
      <3>1. 0 \in 0 .. MaxClients /\ 0 \in 0 .. MaxRequests /\ 0 \in 0 .. MaxBytes
        BY WorkerAssumption
      <3>2. Init => /\ joined = 0 /\ sends = 0 /\ eof = {} /\ cgi = <<>>
                    /\ input = [s \in Client |-> 0] /\ hung = FALSE
        BY DEF Init
      <3>3. <<>> \in Seq(CgiType)
        OBVIOUS
      <3>4. QED
        BY <3>1, <3>2, <3>3
    <2>4. QED
      BY <2>1, <2>2, <2>3 DEF IInv, OwnType

LEMMA StepIInv ==
    ASSUME PoolP!IInv, IInv, [Next]_vars
    PROVE  IInv'
  <1> USE DEF IInv
  <1>1. ASSUME NEW s \in Client, server_handle_listen(s)
        PROVE  IInv'
    <2>0. /\ Slots \subseteq Slots'
          /\ read_q' = [c \in Slots' |-> IF c \in Slots THEN read_q[c] ELSE <<>>]
          /\ write_q' = [c \in Slots' |-> IF c \in Slots THEN write_q[c] ELSE <<>>]
          /\ \A c \in Slots : ndx[c] # -1 => ndx'[c] # -1 /\ fd'[c] = fd[c]
      BY <1>1, ListenFacts DEF server_handle_listen
    <2>1. /\ read_q' \in [Slots' -> Seq(Chunk)]
          /\ write_q' \in [Slots' -> Seq(Chunk)]
      BY <2>0 DEF OwnType
    <2>2. /\ joined' \in 0 .. MaxClients /\ eof' \subseteq 1 .. joined'
          /\ input' \in [Client -> 0 .. MaxBytes]
          /\ sends' \in 0 .. MaxRequests /\ hung' \in BOOLEAN
      BY <1>1, WorkerAssumption DEF OwnType, server_handle_listen, Client
    <2>3. cgi' \in Seq(CgiType')
      <3>1. CgiType \subseteq CgiType'
        BY <2>0 DEF CgiType
      <3>2. cgi \in Seq(CgiType) /\ cgi' = cgi
        BY <1>1 DEF OwnType, server_handle_listen
      <3>3. QED
        BY <3>1, <3>2
    <2>4. Isolated'
      BY <2>0 DEF Isolated, OwnType
    <2>5. QED
      BY <2>1, <2>2, <2>3, <2>4 DEF OwnType
  <1>2. ASSUME NEW c \in Slots, conn_handle_err(c)
        PROVE  IInv'
    <2>0. /\ Slots' = Slots
          /\ read_q' = [read_q EXCEPT ![c] = <<>>]
          /\ write_q' = [write_q EXCEPT ![c] = <<>>]
          /\ \A d \in Slots \ {c} : ndx[d] # -1 => ndx'[d] # -1 /\ fd'[d] = fd[d]
      BY <1>2, ErrFacts DEF conn_handle_err, conn_reset_queues
    <2>1. OwnType'
      BY <1>2, <2>0 DEF OwnType, CgiType, conn_handle_err, clientVars
    <2>2. Isolated'
      BY <2>0 DEF Isolated, OwnType
    <2>3. QED
      BY <2>1, <2>2
  <1>3. ASSUME NEW c \in Slots, conn_handle_read(c)
        PROVE  IInv'
    <2>0. /\ Slots' = Slots /\ ndx' = ndx /\ fd' = fd
          /\ ndx[c] # -1 /\ fd[c] \in Client
      BY <1>3, LiveServes DEF conn_handle_read, poolVars, Slots
    <2> DEFINE new == [bytes |-> input[fd[c]], from |-> fd[c]]
               q == Append(read_q[c], new)
    <2>1. new \in Chunk
      BY <1>3, <2>0, WorkerAssumption DEF conn_handle_read, Chunk, OwnType
    <2>2. q \in Seq(Chunk)
      BY <2>1 DEF OwnType
    <2>3. read_q' = [read_q EXCEPT ![c] = RemoveFinished(q)]
      BY <1>3 DEF conn_handle_read, OwnType
    <2>4. read_q' \in [Slots' -> Seq(Chunk)]
      BY <2>0, <2>2, <2>3, RemoveFacts DEF OwnType
    <2>5. write_q' \in [Slots' -> Seq(Chunk)] /\ hung' \in BOOLEAN
      BY <1>3, <2>0, RemoveFacts DEF conn_handle_read, conn_write_response, OwnType
    <2>6. cgi' \in Seq(CgiType)
      BY <1>3, <2>0, StartFacts DEF conn_handle_read
    <2>7. /\ joined' \in 0 .. MaxClients /\ eof' \subseteq 1 .. joined'
          /\ input' \in [Client -> 0 .. MaxBytes]
          /\ sends' \in 0 .. MaxRequests
      BY <1>3, <2>0, WorkerAssumption DEF OwnType, conn_handle_read
    <2>8. Isolated'
      <3>1. ASSUME NEW d \in Slots, d # c, NEW i \in DOMAIN read_q'[d]
            PROVE  ndx'[d] # -1 /\ read_q'[d][i].from = fd'[d]
        BY <3>1, <2>0, <2>3 DEF Isolated, OwnType
      <3>2. ASSUME NEW i \in DOMAIN read_q'[c]
            PROVE  ndx'[c] # -1 /\ read_q'[c][i].from = fd'[c]
        <4>1. read_q'[c] \in {q, <<>>}
          BY <2>2, <2>3, RemoveFacts DEF OwnType
        <4>2. read_q'[c] = q
          BY <4>1, <3>2
        <4>3. i \in 1 .. Len(read_q[c]) + 1 /\ read_q[c] \in Seq(Chunk)
          BY <4>2, <3>2, <2>1 DEF OwnType
        <4>4. q[i].from = fd[c]
          <5>1. CASE i = Len(read_q[c]) + 1
            BY <5>1, <4>3
          <5>2. CASE i # Len(read_q[c]) + 1
            BY <5>2, <4>3 DEF Isolated
          <5>3. QED
            BY <5>1, <5>2
        <4>5. QED
          BY <4>2, <4>4, <2>0
      <3>3. QED
        BY <3>1, <3>2, <2>0 DEF Isolated
    <2>9. QED
      BY <2>0, <2>4, <2>5, <2>6, <2>7, <2>8 DEF OwnType, CgiType
  <1>4. ASSUME NEW k \in DOMAIN cgi, cgi_handle_read(k)
        PROVE  IInv'
    <2>0. /\ Slots' = Slots /\ ndx' = ndx /\ fd' = fd /\ read_q' = read_q
          /\ UNCHANGED <<clientVars, hung>>
      BY <1>4 DEF cgi_handle_read, poolVars, Slots
    <2>1. cgi[k] \in CgiType
      BY DEF OwnType
    <2>2. [bytes |-> cgi[k].pipe, from |-> cgi[k].from] \in Chunk
      BY <1>4, <2>1, WorkerAssumption DEF Chunk, CgiType, cgi_handle_read
    <2>3. write_q' \in [Slots -> Seq(Chunk)]
      BY <1>4, <2>1, <2>2 DEF cgi_handle_read, OwnType, CgiType
    <2>4. cgi' \in Seq(CgiType)
      <3>1. [cgi[k] EXCEPT !.pipe = 0] \in CgiType
        BY <2>1, WorkerAssumption DEF CgiType
      <3>2. cgi' = [cgi EXCEPT ![k] = [cgi[k] EXCEPT !.pipe = 0]]
        BY <1>4 DEF cgi_handle_read
      <3>3. QED
        BY <3>1, <3>2, ChangeFacts
    <2>5. QED
      BY <2>0, <2>3, <2>4 DEF OwnType, CgiType, Isolated, clientVars
  <1>5. ASSUME NEW k \in DOMAIN cgi, cgi_handle_err(k) \/ CgiExits(k)
        PROVE  IInv'
    <2>0. /\ Slots' = Slots /\ ndx' = ndx /\ fd' = fd
          /\ UNCHANGED <<connVars, clientVars, hung>>
      BY <1>5 DEF cgi_handle_err, CgiExits, poolVars, Slots
    <2>1. cgi' \in Seq(CgiType)
      <3>1. PICK state \in CgiState : cgi' = [cgi EXCEPT ![k].state = state]
        BY <1>5 DEF cgi_handle_err, CgiExits, CgiState
      <3>2. cgi[k] \in CgiType
        BY DEF OwnType
      <3>3. [cgi[k] EXCEPT !.state = state] \in CgiType
        BY <3>2 DEF CgiType
      <3>4. cgi' = [cgi EXCEPT ![k] = [cgi[k] EXCEPT !.state = state]]
        BY <3>1
      <3>5. QED
        BY <3>3, <3>4, ChangeFacts
    <2>2. QED
      BY <2>0, <2>1 DEF OwnType, CgiType, Isolated, clientVars, connVars
  <1>6. ASSUME NEW k \in DOMAIN cgi, NEW n \in 1 .. MaxOutput, CgiWrites(k, n)
        PROVE  IInv'
    <2>0. /\ Slots' = Slots /\ ndx' = ndx /\ fd' = fd
          /\ UNCHANGED <<connVars, clientVars, hung>>
      BY <1>6 DEF CgiWrites, poolVars, Slots
    <2>1. cgi' \in Seq(CgiType)
      <3>1. cgi[k] \in CgiType
        BY DEF OwnType
      <3>2. [cgi[k] EXCEPT !.pipe = n, !.wrote = TRUE] \in CgiType
        <4>1. [cgi[k] EXCEPT !.pipe = n] \in CgiType
          BY <3>1, WorkerAssumption DEF CgiType
        <4>2. [[cgi[k] EXCEPT !.pipe = n] EXCEPT !.wrote = TRUE] \in CgiType
          BY <4>1 DEF CgiType
        <4>3. QED
          BY <4>2
      <3>3. cgi' = [cgi EXCEPT ![k] = [cgi[k] EXCEPT !.pipe = n, !.wrote = TRUE]]
        BY <1>6, <3>1 DEF CgiWrites, CgiType
      <3>4. QED
        BY <3>2, <3>3, ChangeFacts
    <2>2. QED
      BY <2>0, <2>1 DEF OwnType, CgiType, Isolated, clientVars, connVars
  <1>7. ASSUME NEW s \in Client, NEW n \in 1 .. MaxBytes, ClientSends(s, n)
        PROVE  IInv'
    BY <1>7, WorkerAssumption
       DEF ClientSends, OwnType, CgiType, Isolated, Slots, poolVars, connVars
  <1>8. ASSUME NEW s \in Client, ClientHangsUp(s)
        PROVE  IInv'
    BY <1>8 DEF ClientHangsUp, OwnType, CgiType, Isolated, Slots, poolVars, connVars
  <1>9. CASE UNCHANGED vars
    BY <1>9 DEF vars, OwnType, CgiType, Isolated, Slots, poolVars, connVars, clientVars
  <1>10. QED
    BY <1>1, <1>2, <1>3, <1>4, <1>5, <1>6, <1>7, <1>8, <1>9 DEF Next

------------------------------------------------------------------------------
\* The worker's invariant and the pool's hold together: the first leans on the
\* second for what it knows of a conn that a callback is called with.
THEOREM WorkerInvariant == Spec => [](IInv /\ PoolP!IInv)
  <1>1. PoolP!IInv /\ IInv /\ [Next]_vars => IInv'
    BY StepIInv
  <1>2. QED
    BY <1>1, InitIInv, PoolStaysSound, PTL DEF Spec

(* No conn has bytes in its read_q of a client it does not serve: conns    *)
(* are reused only after conn_reset emptied their queues, and the swap of  *)
(* the pool never moves a client's bytes to another conn.                  *)
THEOREM ReadsCorrect == Spec => []ReadsIsolated
  <1>1. IInv /\ PoolP!IInv => ReadsIsolated
    BY DEF IInv, OwnType, CgiType, Isolated, ReadsIsolated, TypeOK, Pool!TypeOK,
           Pool!InUse, Pool!NoNdx, Pool!Shape, Pool!Bounded, PoolP!IInv,
           PoolP!Shape, PoolP!Bounded, PoolP!NoNdx, PoolP!NoFd, Pool!NoFd,
           Pool!Slots, PoolP!Slots, Pool!BevState, PoolP!BevState
  <1>2. QED
    BY <1>1, WorkerInvariant, PTL
------------------------------------------------------------------------------
\* The master.  MasterTypeOK and Conservation are inductive together.
\* Conservation is what makes NeverDiesOut inductive: when no worker runs and no
\* fork has failed there is a dead one to wait for, so a SIGCHLD on its way is
\* never used up without a replacement.
MasterInv == MasterTypeOK /\ Conservation

\* Every step keeps the type invariant, whichever process takes it.
LEMMA TypeStep == ASSUME MasterTypeOK, [MasterNext]_masterVars PROVE MasterTypeOK'
<1> USE MasterWorkerAssumption DEF MasterTypeOK
<1>1. CASE master_start_worker
  BY <1>1 DEF master_start_worker, master_spawn_worker, ForkFails, chldVars,
              rogueVars, intVars, budgets
<1>2. CASE Dispatch
  BY <1>2 DEF Dispatch, procVars, rogueVars, budgets
<1>3. CASE sig_callback_int
  BY <1>3 DEF sig_callback_int, procVars, chldVars, rogueVars, budgets
<1>4. CASE sig_callback_chld
  BY <1>4 DEF sig_callback_chld, procVars, intVars, rogueVars, budgets
<1>5. CASE WaitChild
  BY <1>5 DEF WaitChild, chldVars, intVars, rogueVars, budgets
<1>6. CASE WaitError
  BY <1>6 DEF WaitError, procVars, chldVars, intVars, rogueVars, budgets
<1>7. CASE SpawnOneMore
  BY <1>7 DEF SpawnOneMore, master_spawn_worker, ForkFails, chldVars, rogueVars,
              intVars, budgets
<1>8. CASE master_exit
  BY <1>8 DEF master_exit, TellGroup, chldVars, intVars, budgets
<1>9. CASE HandleChld
  BY <1>9 DEF HandleChld, procVars, intVars, rogueVars, budgets
<1>10. CASE HandleInt
  BY <1>10 DEF HandleInt, procVars, chldVars, rogueVars, budgets
<1>11. CASE WorkerDies
  BY <1>11 DEF WorkerDies, RaiseChld, MasterRuns, intVars, rogueVars
<1>12. CASE WorkerStops
  BY <1>12 DEF WorkerStops, RaiseChld, MasterRuns, intVars, rogueVars
<1>13. CASE WorkerHangs
  BY <1>13 DEF WorkerHangs, chldVars, intVars, rogueVars, budgets
<1>14. CASE worker_exit
  BY <1>14 DEF worker_exit, RaiseChld, MasterRuns, intVars, rogueVars, budgets
<1>15. CASE rogue_exit
  BY <1>15 DEF rogue_exit, procVars, chldVars, intVars, budgets
<1>16. CASE RogueFork
  BY <1>16 DEF RogueFork, procVars, chldVars, intVars
<1>17. CASE Term
  BY <1>17 DEF Term, TellGroup, chldVars, rogueVars
<1>18. CASE UNCHANGED masterVars
  BY <1>18 DEF masterVars, procVars, chldVars, intVars, rogueVars, budgets
<1>19. QED
  BY <1>1, <1>2, <1>3, <1>4, <1>5, <1>6, <1>7, <1>8, <1>9, <1>10, <1>11, <1>12,
     <1>13, <1>14, <1>15, <1>16, <1>17, <1>18 DEF MasterNext, MasterStep

\* Forks, deaths and waits move workers between the terms of the sum.
LEMMA ConservationStep ==
    ASSUME MasterTypeOK, Conservation, [MasterNext]_masterVars PROVE Conservation'
<1> USE MasterWorkerAssumption DEF MasterTypeOK, Conservation, alive, MasterRuns
<1>1. CASE master_start_worker
  BY <1>1 DEF master_start_worker, master_spawn_worker, ForkFails, chldVars
<1>2. CASE Dispatch
  BY <1>2 DEF Dispatch, procVars
<1>3. CASE sig_callback_int
  BY <1>3 DEF sig_callback_int, procVars, chldVars
<1>4. CASE sig_callback_chld
  BY <1>4 DEF sig_callback_chld, procVars
<1>5. CASE WaitChild
  BY <1>5 DEF WaitChild, chldVars
<1>6. CASE WaitError
  BY <1>6 DEF WaitError, procVars, chldVars
<1>7. CASE SpawnOneMore
  BY <1>7 DEF SpawnOneMore, master_spawn_worker, ForkFails, chldVars
<1>8. CASE master_exit
  BY <1>8 DEF master_exit
<1>9. CASE HandleChld
  BY <1>9 DEF HandleChld, procVars
<1>10. CASE HandleInt
  BY <1>10 DEF HandleInt, procVars, chldVars
<1>11. CASE WorkerDies
  BY <1>11 DEF WorkerDies, RaiseChld
<1>12. CASE WorkerStops
  BY <1>12 DEF WorkerStops, RaiseChld
<1>13. CASE WorkerHangs
  BY <1>13 DEF WorkerHangs, chldVars
<1>14. CASE worker_exit
  BY <1>14 DEF worker_exit, RaiseChld
<1>15. CASE rogue_exit
  BY <1>15 DEF rogue_exit, procVars, chldVars
<1>16. CASE RogueFork
  BY <1>16 DEF RogueFork, procVars, chldVars
<1>17. CASE Term
  BY <1>17 DEF Term, TellGroup, chldVars
<1>18. CASE UNCHANGED masterVars
  BY <1>18 DEF masterVars, procVars, chldVars
<1>19. QED
  BY <1>1, <1>2, <1>3, <1>4, <1>5, <1>6, <1>7, <1>8, <1>9, <1>10,
     <1>11, <1>12, <1>13, <1>14, <1>15, <1>16, <1>17, <1>18 DEF MasterNext, MasterStep

\* A wait uses up one SIGCHLD and, unless it fails, one zombie.
LEMMA WaitFindsTheDeadStep ==
    ASSUME MasterTypeOK, WaitFindsTheDead, [MasterNext]_masterVars PROVE WaitFindsTheDead'
<1> USE MasterWorkerAssumption DEF MasterTypeOK, WaitFindsTheDead, InFlight, alive, MasterRuns
<1>1. CASE master_start_worker
  BY <1>1 DEF master_start_worker, master_spawn_worker, ForkFails, chldVars,
            budgets
<1>2. CASE Dispatch
  BY <1>2 DEF Dispatch, procVars, budgets
<1>3. CASE sig_callback_int
  BY <1>3 DEF sig_callback_int, procVars, chldVars, budgets
<1>4. CASE sig_callback_chld
  BY <1>4 DEF sig_callback_chld, procVars, budgets
<1>5. CASE WaitChild
  BY <1>5 DEF WaitChild, chldVars, budgets
<1>6. CASE WaitError
  BY <1>6 DEF WaitError, procVars, chldVars, budgets
<1>7. CASE SpawnOneMore
  BY <1>7 DEF SpawnOneMore, master_spawn_worker, ForkFails, chldVars,
            budgets
<1>8. CASE master_exit
  BY <1>8 DEF master_exit, budgets
<1>9. CASE HandleChld
  BY <1>9 DEF HandleChld, procVars, budgets
<1>10. CASE HandleInt
  BY <1>10 DEF HandleInt, procVars, chldVars, budgets
<1>11. CASE WorkerDies
  BY <1>11 DEF WorkerDies, RaiseChld
<1>12. CASE WorkerStops
  BY <1>12 DEF WorkerStops, RaiseChld
<1>13. CASE WorkerHangs
  BY <1>13 DEF WorkerHangs, chldVars, budgets
<1>14. CASE worker_exit
  BY <1>14 DEF worker_exit, RaiseChld, budgets
<1>15. CASE rogue_exit
  BY <1>15 DEF rogue_exit, procVars, chldVars, budgets
<1>16. CASE RogueFork
  BY <1>16 DEF RogueFork, procVars, chldVars
<1>17. CASE Term
  BY <1>17 DEF Term, TellGroup, chldVars
<1>18. CASE UNCHANGED masterVars
  BY <1>18 DEF masterVars, procVars, chldVars, budgets
<1>19. QED
  BY <1>1, <1>2, <1>3, <1>4, <1>5, <1>6, <1>7, <1>8, <1>9, <1>10,
     <1>11, <1>12, <1>13, <1>14, <1>15, <1>16, <1>17, <1>18 DEF MasterNext, MasterStep

\* A death raises a SIGCHLD or is counted as merged.
LEMMA UnseenDeathsMergedStep ==
    ASSUME MasterTypeOK, UnseenDeathsMerged, [MasterNext]_masterVars PROVE UnseenDeathsMerged'
<1> USE MasterWorkerAssumption DEF MasterTypeOK, UnseenDeathsMerged, InFlight, alive, MasterRuns
<1>1. CASE master_start_worker
  BY <1>1 DEF master_start_worker, master_spawn_worker, ForkFails, chldVars
<1>2. CASE Dispatch
  BY <1>2 DEF Dispatch, procVars
<1>3. CASE sig_callback_int
  BY <1>3 DEF sig_callback_int, procVars, chldVars
<1>4. CASE sig_callback_chld
  BY <1>4 DEF sig_callback_chld, procVars
<1>5. CASE WaitChild
  BY <1>5 DEF WaitChild, chldVars
<1>6. CASE WaitError
  BY <1>6 DEF WaitError, procVars, chldVars
<1>7. CASE SpawnOneMore
  BY <1>7 DEF SpawnOneMore, master_spawn_worker, ForkFails, chldVars
<1>8. CASE master_exit
  BY <1>8 DEF master_exit
<1>9. CASE HandleChld
  BY <1>9 DEF HandleChld, procVars
<1>10. CASE HandleInt
  BY <1>10 DEF HandleInt, procVars, chldVars
<1>11. CASE WorkerDies
  BY <1>11 DEF WorkerDies, RaiseChld
<1>12. CASE WorkerStops
  BY <1>12 DEF WorkerStops, RaiseChld
<1>13. CASE WorkerHangs
  BY <1>13 DEF WorkerHangs, chldVars
<1>14. CASE worker_exit
  BY <1>14 DEF worker_exit, RaiseChld
<1>15. CASE rogue_exit
  BY <1>15 DEF rogue_exit, procVars, chldVars
<1>16. CASE RogueFork
  BY <1>16 DEF RogueFork, procVars, chldVars
<1>17. CASE Term
  BY <1>17 DEF Term, TellGroup, chldVars
<1>18. CASE UNCHANGED masterVars
  BY <1>18 DEF masterVars, procVars, chldVars
<1>19. QED
  BY <1>1, <1>2, <1>3, <1>4, <1>5, <1>6, <1>7, <1>8, <1>9, <1>10,
     <1>11, <1>12, <1>13, <1>14, <1>15, <1>16, <1>17, <1>18 DEF MasterNext, MasterStep

\* The last death raises a SIGCHLD, and Conservation has a zombie for its wait.
LEMMA NeverDiesOutStep ==
    ASSUME MasterTypeOK, Conservation, NeverDiesOut, [MasterNext]_masterVars PROVE NeverDiesOut'
<1> USE MasterWorkerAssumption DEF MasterTypeOK, Conservation, NeverDiesOut, InFlight, alive, MasterRuns
<1>1. CASE master_start_worker
  BY <1>1 DEF master_start_worker, master_spawn_worker, ForkFails, chldVars
<1>2. CASE Dispatch
  BY <1>2 DEF Dispatch, procVars
<1>3. CASE sig_callback_int
  BY <1>3 DEF sig_callback_int, procVars, chldVars
<1>4. CASE sig_callback_chld
  BY <1>4 DEF sig_callback_chld, procVars
<1>5. CASE WaitChild
  BY <1>5 DEF WaitChild, chldVars
<1>6. CASE WaitError
  BY <1>6 DEF WaitError, procVars, chldVars
<1>7. CASE SpawnOneMore
  BY <1>7 DEF SpawnOneMore, master_spawn_worker, ForkFails, chldVars
<1>8. CASE master_exit
  BY <1>8 DEF master_exit
<1>9. CASE HandleChld
  BY <1>9 DEF HandleChld, procVars
<1>10. CASE HandleInt
  BY <1>10 DEF HandleInt, procVars, chldVars
<1>11. CASE WorkerDies
  BY <1>11 DEF WorkerDies, RaiseChld
<1>12. CASE WorkerStops
  BY <1>12 DEF WorkerStops, RaiseChld
<1>13. CASE WorkerHangs
  BY <1>13 DEF WorkerHangs, chldVars
<1>14. CASE worker_exit
  BY <1>14 DEF worker_exit, RaiseChld
<1>15. CASE rogue_exit
  BY <1>15 DEF rogue_exit, procVars, chldVars
<1>16. CASE RogueFork
  BY <1>16 DEF RogueFork, procVars, chldVars
<1>17. CASE Term
  BY <1>17 DEF Term, TellGroup, chldVars
<1>18. CASE UNCHANGED masterVars
  BY <1>18 DEF masterVars, procVars, chldVars
<1>19. QED
  BY <1>1, <1>2, <1>3, <1>4, <1>5, <1>6, <1>7, <1>8, <1>9, <1>10,
     <1>11, <1>12, <1>13, <1>14, <1>15, <1>16, <1>17, <1>18 DEF MasterNext, MasterStep

--------------------------------------------------------------------------------
LEMMA InvInit == MasterInit => MasterInv
BY MasterWorkerAssumption DEF MasterInit, MasterInv, MasterTypeOK, Conservation, MasterRuns, alive

LEMMA InvStep == MasterInv /\ [MasterNext]_masterVars => MasterInv'
BY TypeStep, ConservationStep DEF MasterInv

(* The inductive core: in every reachable state the counts are well typed  *)
(* and the workers that process.c forked are accounted for.                *)
THEOREM InvCorrect == MasterSpec => []MasterInv
BY InvInit, InvStep, PTL DEF MasterSpec

(* process.c keeps pc, the counters and the signal stages in their types.  *)
THEOREM TypeCorrect == MasterSpec => []MasterTypeOK
<1>1. MasterInv => MasterTypeOK
  BY DEF MasterInv
<1>2. QED
  BY <1>1, InvCorrect, PTL

(* The master loses no worker and never runs more than it started, for any *)
(* number of workers.                                                      *)
THEOREM ConservationCorrect == MasterSpec => []Conservation
<1>1. MasterInv => Conservation
  BY DEF MasterInv
<1>2. QED
  BY <1>1, InvCorrect, PTL

(* The wait of the SIGCHLD callback finds a dead worker unless a worker    *)
(* was stopped or continued.                                               *)
THEOREM WaitCorrect == MasterSpec => []WaitFindsTheDead
<1>1. MasterInit => WaitFindsTheDead
  BY DEF MasterInit, WaitFindsTheDead, InFlight
<1>2. MasterInv /\ WaitFindsTheDead /\ [MasterNext]_masterVars => WaitFindsTheDead'
  BY WaitFindsTheDeadStep DEF MasterInv
<1>3. QED
  BY <1>1, <1>2, InvCorrect, PTL DEF MasterSpec

(* Only a merged SIGCHLD lets the master overlook a death.                 *)
THEOREM MergedCorrect == MasterSpec => []UnseenDeathsMerged
<1>1. MasterInit => UnseenDeathsMerged
  BY DEF MasterInit, UnseenDeathsMerged, InFlight
<1>2. MasterInv /\ UnseenDeathsMerged /\ [MasterNext]_masterVars => UnseenDeathsMerged'
  BY UnseenDeathsMergedStep DEF MasterInv
<1>3. QED
  BY <1>1, <1>2, InvCorrect, PTL DEF MasterSpec

(* SIGCHLDs on their way and deaths to be handled differ only by stops and *)
(* merged signals.                                                         *)
THEOREM DeathsSignalledCorrect == MasterSpec => []DeathsSignalled
  BY WaitCorrect, MergedCorrect, PTL DEF DeathsSignalled

(* The books of the master balance, for any number of workers.             *)
THEOREM AccountsCorrect == MasterSpec => []WorkersAccounted
  BY TypeCorrect, ConservationCorrect, DeathsSignalledCorrect, PTL DEF WorkersAccounted

(* Without a failed fork the master never ends up with no worker and no    *)
(* SIGCHLD to make it fork one.                                            *)
THEOREM NeverDiesOutCorrect == MasterSpec => []NeverDiesOut
<1>1. MasterInit => NeverDiesOut
  BY DEF MasterInit, NeverDiesOut
<1>2. MasterInv /\ NeverDiesOut /\ [MasterNext]_masterVars => NeverDiesOut'
  BY NeverDiesOutStep DEF MasterInv
<1>3. QED
  BY <1>1, <1>2, InvCorrect, PTL DEF MasterSpec
===============================================================================
