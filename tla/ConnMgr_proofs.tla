---------------------------- MODULE ConnMgr_proofs ----------------------------
(***************************************************************************)
(* Proofs that the connection pool keeps its indices, its sockets and its  *)
(* bounds consistent for every limit MaxConns, every growth step and every *)
(* set of descriptors.                                                     *)
(***************************************************************************)
EXTENDS ConnMgr, TLAPS

\* Growth leaves room for one more conn and keeps ptr a permutation of the
\* conns: conn_mgr_add_conn's two allocation branches.
LEMMA GrownFacts ==
    ASSUME Shape, IndexConsistent
    PROVE  /\ GrownSize \in Nat
           /\ size <= GrownSize
           /\ used < GrownSize
           /\ GrownPtr \in [0 .. GrownSize - 1 -> 0 .. GrownSize - 1]
           /\ \A i, j \in 0 .. GrownSize - 1 : GrownPtr[i] = GrownPtr[j] => i = j
  <1>1. /\ GrownSize \in Nat
        /\ size <= GrownSize
        /\ used < GrownSize
    BY ConnMgrAssumption DEF Shape, GrownSize
  <1>2. GrownPtr \in [0 .. GrownSize - 1 -> 0 .. GrownSize - 1]
    BY <1>1 DEF GrownPtr, Shape, Slots
  <1>3. \A i, j \in 0 .. GrownSize - 1 : GrownPtr[i] = GrownPtr[j] => i = j
    BY <1>1 DEF GrownPtr, Shape, Slots, IndexConsistent
  <1>4. QED
    BY <1>1, <1>2, <1>3

\* What server_handle_listen does, field by field: the conn taken was free, it
\* gets slot `used', and every other conn keeps its fields.
Accepted(s, b, c, n) ==
    /\ Slots' = 0 .. n - 1
    /\ size' = n /\ n \in Nat /\ size <= n
    /\ used' = used + 1 /\ used \in Slots'
    /\ c \in Slots' /\ ptr'[used] = c
    /\ c \in Slots => ~InUse(c)
    /\ ptr' \in [Slots' -> Slots']
    /\ \A i \in Slots' : ptr'[i] = IF i \in Slots THEN ptr[i] ELSE i
    /\ \A i, j \in Slots' : ptr'[i] = ptr'[j] => i = j
    /\ ndx' \in [Slots' -> Slots' \cup {NoNdx}]
    /\ fd' \in [Slots' -> Sock \cup {NoFd}]
    /\ bev' \in [Slots' -> BevState]
    /\ \A d \in Slots' : d # c =>
           /\ ndx'[d] = IF d \in Slots THEN ndx[d] ELSE NoNdx
           /\ fd'[d] = IF d \in Slots THEN fd[d] ELSE NoFd
           /\ bev'[d] = IF d \in Slots THEN bev[d] ELSE "null"
    /\ ndx'[c] = used /\ fd'[c] = s /\ bev'[c] = b
    /\ open' = open \cup {s} /\ s \notin open

LEMMA AddFacts ==
    ASSUME Shape, IndexConsistent,
           NEW s \in Sock, NEW b \in {"live", "null"},
           server_handle_listen(s, b)
    PROVE  Accepted(s, b, GrownPtr[used], GrownSize)
  <1> DEFINE c == GrownPtr[used]
  <1>1. /\ size' = GrownSize /\ used' = used + 1 /\ ptr' = GrownPtr
        /\ Slots' = 0 .. GrownSize - 1
    BY DEF server_handle_listen, conn_mgr_add_conn, Slots
  <1>2. used \in 0 .. GrownSize - 1 /\ c \in 0 .. GrownSize - 1
    BY GrownFacts DEF Shape
  <1>3. c \in Slots => ~InUse(c)
    BY GrownFacts DEF Shape, IndexConsistent, GrownPtr, InUse, Slots
  <1>4. \A i \in Slots' : ptr'[i] = IF i \in Slots THEN ptr[i] ELSE i
    BY <1>1 DEF GrownPtr
  <1>5. \A d \in Slots' : d # c =>
            /\ ndx'[d] = IF d \in Slots THEN ndx[d] ELSE NoNdx
            /\ fd'[d] = IF d \in Slots THEN fd[d] ELSE NoFd
            /\ bev'[d] = IF d \in Slots THEN bev[d] ELSE "null"
    BY <1>1, <1>2 DEF server_handle_listen, conn_mgr_add_conn, Extend
  <1>6. ndx'[c] = used /\ fd'[c] = s /\ bev'[c] = b
    BY <1>1, <1>2 DEF server_handle_listen, conn_mgr_add_conn, Extend
  <1>7. Slots \subseteq 0 .. GrownSize - 1
    <2>1. size \in Nat /\ GrownSize \in Nat /\ size <= GrownSize
      BY GrownFacts DEF Shape
    <2>2. QED
      BY <2>1 DEF Slots
  <1>8. ndx' \in [Slots' -> Slots' \cup {NoNdx}]
    BY <1>1, <1>2, <1>7 DEF Shape, server_handle_listen, conn_mgr_add_conn, Extend
  <1>9. fd' \in [Slots' -> Sock \cup {NoFd}]
    BY <1>1, <1>2, <1>7 DEF Shape, server_handle_listen, conn_mgr_add_conn, Extend
  <1>10. bev' \in [Slots' -> BevState]
    BY <1>1, <1>2, <1>7
       DEF Shape, server_handle_listen, conn_mgr_add_conn, Extend, BevState
  <1>11. QED
    BY <1>1, <1>2, <1>3, <1>4, <1>5, <1>6, <1>8, <1>9, <1>10, GrownFacts
       DEF Shape, Accepted, server_handle_listen

\* What conn_handle_err does: with k the slot of the deleted conn c, the last
\* used conn moves to k, c moves to the freed slot and is reset, and every
\* other conn keeps its fields.  The tail case is the case k = used - 1.
Dropped(c, k, last) ==
    /\ Slots' = Slots /\ size' = size /\ used' = used - 1
    /\ k \in 0 .. used - 1 /\ k \in Slots /\ ptr[k] = c
    /\ used - 1 \in Slots /\ last = ptr[used - 1] /\ last \in Slots
    /\ InUse(c) /\ k = ndx[c]
    /\ k # used - 1 => ptr'[k] = last /\ ndx'[last] = k /\ last # c
    /\ k = used - 1 => last = c
    /\ ptr'[used - 1] = c
    /\ ptr' \in [Slots -> Slots]
    /\ \A i \in Slots \ {k, used - 1} : ptr'[i] = ptr[i]
    /\ ndx' \in [Slots -> Slots \cup {NoNdx}]
    /\ ndx'[c] = NoNdx
    /\ \A d \in Slots \ {c, last} : ndx'[d] = ndx[d]
    /\ fd' = [fd EXCEPT ![c] = NoFd]
    /\ bev' = [bev EXCEPT ![c] = "freed"]
    /\ open' = open \ {fd[c]}

LEMMA DelFacts ==
    ASSUME Shape, IndexConsistent, NEW c \in Slots, conn_handle_err(c)
    PROVE  Dropped(c, ndx[c], ptr[used - 1])
  <1> DEFINE k == ndx[c]
             last == ptr[used - 1]
  <1>1. Slots' = Slots /\ size' = size /\ used' = used - 1 /\ InUse(c)
    BY DEF conn_handle_err, conn_mgr_del_conn, Slots
  <1>2. k \in 0 .. used - 1 /\ ptr[k] = c /\ used - 1 \in Slots
    BY <1>1 DEF IndexConsistent, Shape, Slots, InUse
  <1>3. last \in Slots
    BY <1>2 DEF Shape
  <1>4. k # used - 1 => last # c
    BY <1>2 DEF IndexConsistent, Shape, Slots
  <1>5. /\ ptr'[used - 1] = c
        /\ k # used - 1 => ptr'[k] = last /\ ndx'[last] = k
        /\ ptr' \in [Slots -> Slots]
        /\ \A i \in Slots \ {k, used - 1} : ptr'[i] = ptr[i]
        /\ ndx' \in [Slots -> Slots \cup {NoNdx}]
        /\ ndx'[c] = NoNdx
        /\ \A d \in Slots \ {c, last} : ndx'[d] = ndx[d]
    <2>1. CASE DelTail(c)
      BY <2>1, <1>2, <1>3 DEF DelTail, Shape
    <2>2. CASE DelSwap(c)
      <3>1. /\ ptr' = [ptr EXCEPT ![k] = last, ![used - 1] = c]
            /\ ndx' = [ndx EXCEPT ![last] = k, ![c] = NoNdx]
            /\ k # used - 1 /\ k \in Slots
        BY <2>2, <1>2 DEF DelSwap, Shape, Slots
      <3>2. /\ ptr' \in [Slots -> Slots]
            /\ ptr'[used - 1] = c /\ ptr'[k] = last
            /\ \A i \in Slots \ {k, used - 1} : ptr'[i] = ptr[i]
        BY <3>1, <1>2, <1>3 DEF Shape
      <3>3. /\ ndx' \in [Slots -> Slots \cup {NoNdx}]
            /\ ndx'[c] = NoNdx /\ ndx'[last] = k
            /\ \A d \in Slots \ {c, last} : ndx'[d] = ndx[d]
        BY <3>1, <1>2, <1>3, <1>4 DEF Shape
      <3>4. QED
        BY <3>2, <3>3
    <2>3. QED
      BY <2>1, <2>2 DEF conn_handle_err, conn_mgr_del_conn
  <1>6. k \in Slots /\ (k = used - 1 => last = c)
    BY <1>2 DEF Shape, Slots
  <1>7. /\ fd' = [fd EXCEPT ![c] = NoFd]
        /\ bev' = [bev EXCEPT ![c] = "freed"]
        /\ open' = open \ {fd[c]}
    BY DEF conn_handle_err, conn_mgr_del_conn, conn_reset
  <1> HIDE DEF k, last
  <1>8. Dropped(c, k, last)
    BY <1>1, <1>2, <1>3, <1>4, <1>5, <1>6, <1>7, k = ndx[c], last = ptr[used - 1]
       DEF Dropped, k, last
  <1>9. QED
    BY <1>8 DEF k, last

------------------------------------------------------------------------------
\* The inductive invariant: the index consistency of the pool is what makes
\* the others inductive, since it identifies the conns that a step touches.
IInv ==
    /\ Shape
    /\ IndexConsistent
    /\ SocketsOwned
    /\ CallbacksInUse
    /\ Bounded

LEMMA InitIInv == Init => IInv
  BY ConnMgrAssumption
     DEF Init, IInv, Shape, IndexConsistent, SocketsOwned, CallbacksInUse,
         Bounded, Slots, NoNdx, NoFd

\* Accepting a connection keeps the invariant.
LEMMA AcceptIInv ==
    ASSUME IInv, NEW s \in Sock, NEW b \in {"live", "null"},
           server_handle_listen(s, b)
    PROVE  IInv'
  <1>0. PICK c, n : Accepted(s, b, c, n)
    BY AddFacts DEF IInv
  <1>a. /\ size \in Nat /\ used \in Nat /\ n \in Nat
        /\ size' = n /\ used' = used + 1
        /\ used <= size /\ size <= n /\ used < n
        /\ Slots = 0 .. size - 1 /\ Slots' = 0 .. n - 1
        /\ used \in Slots'
    BY <1>0 DEF Accepted, IInv, Shape, Slots
  <1>b. /\ ptr \in [Slots -> Slots] /\ ptr' \in [Slots' -> Slots']
        /\ \A i \in Slots' : ptr'[i] = IF i \in Slots THEN ptr[i] ELSE i
        /\ \A i, j \in Slots' : ptr'[i] = ptr'[j] => i = j
        /\ c \in Slots' /\ ptr'[used] = c
    BY <1>0 DEF Accepted, IInv, Shape
  <1>c. /\ ndx'[c] = used
        /\ \A d \in Slots' : d # c => ndx'[d] = IF d \in Slots THEN ndx[d] ELSE NoNdx
        /\ c \in Slots => ~InUse(c)
    BY <1>0 DEF Accepted
  <1>d. /\ fd'[c] = s
        /\ \A d \in Slots' : d # c => fd'[d] = IF d \in Slots THEN fd[d] ELSE NoFd
        /\ open' = open \cup {s} /\ s \notin open
    BY <1>0 DEF Accepted
  <1>e. /\ bev'[c] = b
        /\ \A d \in Slots' : d # c => bev'[d] = IF d \in Slots THEN bev[d] ELSE "null"
    BY <1>0 DEF Accepted
  <1>1. Shape'
    BY <1>0, <1>a DEF Accepted, IInv, Shape
  <1>2. \A i \in 0 .. used : ndx'[ptr'[i]] = i
    <2>1. SUFFICES ASSUME NEW i \in 0 .. used
                   PROVE  ndx'[ptr'[i]] = i
      OBVIOUS
    <2>2. CASE i = used
      BY <1>b, <1>c, <2>2
    <2>3. CASE i # used
      <3>1. i \in 0 .. used - 1 /\ i \in Slots /\ i \in Slots'
        BY <1>a, <2>3
      <3>2. ptr'[i] = ptr[i] /\ ptr[i] \in Slots /\ ptr'[i] # c /\ ptr'[i] \in Slots'
        BY <1>a, <1>b, <2>3, <3>1
      <3>3. ndx[ptr[i]] = i
        BY <3>1 DEF IInv, IndexConsistent
      <3>4. QED
        BY <1>c, <3>2, <3>3
    <2>4. QED
      BY <2>2, <2>3
  <1>3. \A i \in used + 1 .. n - 1 : ndx'[ptr'[i]] = NoNdx
    <2>1. SUFFICES ASSUME NEW i \in used + 1 .. n - 1
                   PROVE  ndx'[ptr'[i]] = NoNdx
      OBVIOUS
    <2>2. i \in Slots' /\ i # used /\ (i \in Slots => i \in used .. size - 1)
      BY <1>a
    <2>3. ptr'[i] # c /\ ptr'[i] \in Slots'
      BY <1>a, <1>b, <2>2
    <2>4. CASE i \in Slots
      <3>1. ndx[ptr[i]] = NoNdx
        BY <2>2, <2>4 DEF IInv, IndexConsistent
      <3>2. ptr'[i] = ptr[i] /\ ptr[i] \in Slots
        BY <1>b, <2>2, <2>4
      <3>3. QED
        BY <1>c, <2>3, <3>1, <3>2
    <2>5. CASE i \notin Slots
      BY <1>b, <1>c, <2>2, <2>3, <2>5
    <2>6. QED
      BY <2>4, <2>5
  <1>4. \A d \in Slots' : InUse(d)' => ndx'[d] < used' /\ ptr'[ndx'[d]] = d
    <2>1. SUFFICES ASSUME NEW d \in Slots', InUse(d)'
                   PROVE  ndx'[d] < used' /\ ptr'[ndx'[d]] = d
      OBVIOUS
    <2>2. CASE d = c
      <3>1. ndx'[d] = used /\ ptr'[used] = d
        BY <1>b, <1>c, <2>2
      <3>2. used < used'
        BY <1>a
      <3>3. QED
        BY <3>1, <3>2
    <2>3. CASE d # c
      <3>1. d \in Slots /\ InUse(d) /\ ndx'[d] = ndx[d]
        BY <1>c, <2>1, <2>3 DEF InUse
      <3>2. ndx[d] \in Slots /\ ndx[d] < used /\ ptr[ndx[d]] = d
        BY <3>1 DEF IInv, IndexConsistent, Shape, InUse
      <3>3. ndx[d] \in Slots' /\ ndx[d] < used'
        BY <1>a, <3>2
      <3>4. QED
        BY <1>b, <3>1, <3>2, <3>3
    <2>4. QED
      BY <2>2, <2>3
  <1>5. IndexConsistent'
    BY <1>a, <1>b, <1>2, <1>3, <1>4 DEF IndexConsistent
  <1>6. \A d \in Slots' : InUse(d)' <=> d = c \/ (d \in Slots /\ InUse(d))
    <2>1. InUse(c)'
      BY <1>a, <1>c DEF InUse, NoNdx
    <2>2. QED
      BY <1>c, <2>1 DEF InUse
  <1>7. SocketsOwned'
    <2>1. \A d \in Slots' : IF InUse(d)' THEN fd'[d] \in open' ELSE fd'[d] = NoFd
      BY <1>d, <1>6 DEF IInv, SocketsOwned
    <2>2. \A d, e \in Slots' : InUse(d)' /\ InUse(e)' /\ fd'[d] = fd'[e] => d = e
      BY <1>d, <1>6 DEF IInv, SocketsOwned
    <2>3. Slots \subseteq Slots'
      BY <1>a
    <2>4. \A t \in open' : \E d \in Slots' : InUse(d)' /\ fd'[d] = t
      <3>1. SUFFICES ASSUME NEW t \in open'
                     PROVE  \E d \in Slots' : InUse(d)' /\ fd'[d] = t
        OBVIOUS
      <3>2. CASE t = s
        BY <1>b, <1>d, <1>6, <3>2
      <3>3. CASE t # s
        <4>1. PICK d \in Slots : InUse(d) /\ fd[d] = t
          BY <1>d, <3>3 DEF IInv, SocketsOwned
        <4>2. d # c
          BY <1>c, <4>1
        <4>3. QED
          BY <1>d, <1>6, <2>3, <4>1, <4>2
      <3>4. QED
        BY <3>2, <3>3
    <2>5. QED
      BY <2>1, <2>2, <2>4 DEF SocketsOwned
  <1>8. CallbacksInUse'
    BY <1>e, <1>6 DEF IInv, CallbacksInUse
  <1>9. Bounded'
    BY ConnMgrAssumption
       DEF IInv, Bounded, Shape, GrownSize, server_handle_listen, conn_mgr_add_conn, Full
  <1>10. QED
    BY <1>1, <1>5, <1>7, <1>8, <1>9 DEF IInv

\* Dropping a connection keeps the invariant.
LEMMA ErrIInv ==
    ASSUME IInv, NEW c \in Slots, conn_handle_err(c)
    PROVE  IInv'
  <1>0. PICK k, last : Dropped(c, k, last)
    BY DelFacts DEF IInv
  <1>a. /\ size \in Nat /\ used \in Nat /\ used <= size
        /\ size' = size /\ used' = used - 1
        /\ Slots = 0 .. size - 1 /\ Slots' = Slots
        /\ k \in 0 .. used - 1
    BY <1>0 DEF Dropped, IInv, Shape, Slots
  <1>b. /\ ptr \in [Slots -> Slots] /\ ptr' \in [Slots -> Slots]
        /\ c \in Slots /\ last \in Slots /\ k \in Slots /\ used - 1 \in Slots
        /\ ptr[k] = c /\ ptr[used - 1] = last
        /\ ptr'[used - 1] = c /\ (k # used - 1 => ptr'[k] = last /\ last # c)
        /\ \A i \in Slots \ {k, used - 1} : ptr'[i] = ptr[i]
    BY <1>0 DEF Dropped, IInv, Shape
  <1>c. /\ ndx'[c] = NoNdx
        /\ k # used - 1 => ndx'[last] = k
        /\ k = used - 1 => last = c
        /\ \A d \in Slots \ {c, last} : ndx'[d] = ndx[d]
        /\ InUse(c)
    BY <1>0 DEF Dropped
  <1>d. /\ \A i \in 0 .. used - 1 : ndx[ptr[i]] = i
        /\ \A i \in used .. size - 1 : ndx[ptr[i]] = NoNdx
        /\ \A d \in Slots : InUse(d) => ndx[d] < used /\ ptr[ndx[d]] = d
        /\ \A i, j \in Slots : ptr[i] = ptr[j] => i = j
    BY DEF IInv, IndexConsistent
  <1>1. Shape'
    BY <1>0 DEF Dropped, IInv, Shape, BevState
  <1>2. \A i, j \in Slots : ptr'[i] = ptr'[j] => i = j
    <2> SUFFICES ASSUME NEW i \in Slots, NEW j \in Slots, ptr'[i] = ptr'[j]
                 PROVE  i = j
      OBVIOUS
    <2> DEFINE old(x) == IF x = k THEN used - 1 ELSE IF x = used - 1 THEN k ELSE x
    <2>1. \A x \in Slots : old(x) \in Slots /\ ptr'[x] = ptr[old(x)]
      BY <1>b
    <2>2. old(i) = old(j)
      BY <2>1, <1>d
    <2>3. QED
      BY <2>2
  <1>3. \A i \in 0 .. used - 2 : ndx'[ptr'[i]] = i
    <2>1. SUFFICES ASSUME NEW i \in 0 .. used - 2
                   PROVE  ndx'[ptr'[i]] = i
      OBVIOUS
    <2>2. i \in Slots /\ i # used - 1 /\ i \in 0 .. used - 1
      BY <1>a
    <2>3. CASE i = k
      BY <1>b, <1>c, <2>2, <2>3
    <2>4. CASE i # k
      <3>1. ptr'[i] = ptr[i] /\ ptr[i] \in Slots /\ ptr[i] # c /\ ptr[i] # last
        <4>1. ptr'[i] = ptr[i] /\ ptr[i] \in Slots
          BY <1>b, <2>2, <2>4
        <4>2. ptr[i] # ptr[k] /\ ptr[i] # ptr[used - 1]
          BY <1>b, <1>d, <2>2, <2>4
        <4>3. QED
          BY <1>b, <4>1, <4>2
      <3>2. ndx[ptr[i]] = i
        BY <1>d, <2>2
      <3>3. QED
        BY <1>c, <3>1, <3>2
    <2>5. QED
      BY <2>3, <2>4
  <1>4. \A i \in used - 1 .. size - 1 : ndx'[ptr'[i]] = NoNdx
    <2>1. SUFFICES ASSUME NEW i \in used - 1 .. size - 1
                   PROVE  ndx'[ptr'[i]] = NoNdx
      OBVIOUS
    <2>2. CASE i = used - 1
      BY <1>b, <1>c, <2>2
    <2>3. CASE i # used - 1
      <3>1. i \in Slots /\ i \in used .. size - 1 /\ i # k
        BY <1>a, <2>3
      <3>2. ptr'[i] = ptr[i] /\ ptr[i] \in Slots /\ ptr[i] # c /\ ptr[i] # last
        <4>1. ptr'[i] = ptr[i] /\ ptr[i] \in Slots
          BY <1>b, <2>3, <3>1
        <4>2. ptr[i] # ptr[k] /\ ptr[i] # ptr[used - 1]
          BY <1>b, <1>d, <2>3, <3>1
        <4>3. QED
          BY <1>b, <4>1, <4>2
      <3>3. ndx[ptr[i]] = NoNdx
        BY <1>d, <3>1
      <3>4. QED
        BY <1>c, <3>2, <3>3
    <2>4. QED
      BY <2>2, <2>3
  <1>5. \A d \in Slots : InUse(d)' => ndx'[d] < used - 1 /\ ptr'[ndx'[d]] = d
    <2> SUFFICES ASSUME NEW d \in Slots, InUse(d)'
                 PROVE  ndx'[d] < used - 1 /\ ptr'[ndx'[d]] = d
      OBVIOUS
    <2>1. d # c
      BY <1>c DEF InUse
    <2>2. CASE d = last
      <3>1. k # used - 1 /\ ndx'[d] = k /\ ptr'[k] = d
        BY <1>b, <1>c, <2>1, <2>2
      <3>2. k < used - 1
        BY <1>a, <3>1
      <3>3. QED
        BY <3>1, <3>2
    <2>3. CASE d # last
      <3>1. ndx'[d] = ndx[d] /\ InUse(d)
        BY <1>c, <2>1, <2>3 DEF InUse
      <3>2. ndx[d] \in Slots /\ ndx[d] < used /\ ptr[ndx[d]] = d
        BY <1>d, <3>1 DEF IInv, Shape, InUse
      <3>3. ndx[d] # k /\ ndx[d] # used - 1
        BY <1>b, <2>1, <2>3, <3>2
      <3>4. ndx[d] < used - 1
        BY <1>a, <3>2, <3>3
      <3>5. ptr'[ndx[d]] = d
        BY <1>b, <3>2, <3>3
      <3>6. QED
        BY <3>1, <3>4, <3>5
    <2>4. QED
      BY <2>2, <2>3
  <1>6. IndexConsistent'
    <2>1. 0 .. used' - 1 = 0 .. used - 2 /\ used' .. size' - 1 = used - 1 .. size - 1
      BY <1>a
    <2>2. QED
      BY <1>a, <1>2, <1>3, <1>4, <1>5, <2>1 DEF IndexConsistent
  <1>7. \A d \in Slots : InUse(d)' <=> InUse(d) /\ d # c
    <2>0. used - 1 \in 0 .. used - 1
      BY <1>a
    <2>1. ndx[last] = used - 1
      BY <1>b, <1>d, <2>0
    <2>2. InUse(last)
      BY <1>a, <2>1 DEF InUse, NoNdx
    <2>3. last # c => InUse(last)'
      BY <1>a, <1>c DEF InUse, NoNdx
    <2>4. QED
      BY <1>c, <2>2, <2>3 DEF InUse
  <1>8. SocketsOwned'
    <2>1. \A d \in Slots : d # c => fd'[d] = fd[d]
      BY <1>0 DEF Dropped, IInv, Shape
    <2>2. fd'[c] = NoFd
      BY <1>0 DEF Dropped, IInv, Shape
    <2>3. \A d \in Slots : IF InUse(d)' THEN fd'[d] \in open' ELSE fd'[d] = NoFd
      BY <1>0, <1>7, <2>1, <2>2 DEF Dropped, IInv, SocketsOwned
    <2>4. \A d, e \in Slots : InUse(d)' /\ InUse(e)' /\ fd'[d] = fd'[e] => d = e
      BY <1>7, <2>1 DEF IInv, SocketsOwned
    <2>5. \A t \in open' : \E d \in Slots : InUse(d)' /\ fd'[d] = t
      BY <1>0, <1>7, <2>1 DEF Dropped, IInv, SocketsOwned
    <2>6. QED
      BY <1>0, <2>3, <2>4, <2>5 DEF SocketsOwned, Dropped
  <1>9. CallbacksInUse'
    BY <1>0, <1>7 DEF Dropped, IInv, Shape, CallbacksInUse
  <1>10. Bounded'
    BY <1>a, ConnMgrAssumption DEF IInv, Bounded
  <1>11. QED
    BY <1>1, <1>6, <1>8, <1>9, <1>10 DEF IInv

\* IInv holds in every reachable state of the pool.
THEOREM PoolInvariant == Spec => []IInv
  <1>1. IInv /\ [Next]_poolVars => IInv'
    <2> SUFFICES ASSUME IInv, [Next]_poolVars
                 PROVE  IInv'
      OBVIOUS
    <2>1. ASSUME NEW s \in Sock, NEW b \in {"live", "null"},
                 server_handle_listen(s, b)
          PROVE  IInv'
      BY <2>1, AcceptIInv
    <2>2. ASSUME NEW c \in Slots, conn_handle_err(c)
          PROVE  IInv'
      BY <2>2, ErrIInv
    <2>3. CASE UNCHANGED poolVars
      BY <2>3 DEF IInv, Shape, IndexConsistent, SocketsOwned, CallbacksInUse,
                  Bounded, Slots, InUse, poolVars
    <2>4. QED
      BY <2>1, <2>2, <2>3 DEF Next
  <1>2. QED
    BY InitIInv, <1>1, PTL DEF Spec

\* The pool's fields keep their types: no slot or index is ever out of range.
THEOREM TypeCorrect == Spec => []TypeOK
  BY PoolInvariant, PTL DEF IInv, TypeOK

\* conn_mgr_del_conn can rely on c->ndx in every reachable state.
THEOREM IndexCorrect == Spec => []IndexConsistent
  BY PoolInvariant, PTL DEF IInv

\* No accepted socket is ever leaked or shared, whatever the order of accepts
\* and errors.
THEOREM SocketsCorrect == Spec => []SocketsOwned
  BY PoolInvariant, PTL DEF IInv

\* Slots, indices, sockets and counts agree in every reachable state of the
\* pool, for every limit and growth step.
THEOREM PoolCorrect == Spec => []PoolConsistent
  BY TypeCorrect, IndexCorrect, SocketsCorrect, PTL DEF PoolConsistent

\* No callback of a conn's bufferevent runs on a returned conn, so the test
\* `ndx == -1' of conn_mgr_del_conn is never the one that saves the pool.
THEOREM CallbacksCorrect == Spec => []CallbacksInUse
  BY PoolInvariant, PTL DEF IInv

\* The pool serves at most max_conns + 1 clients and its memory is bounded.
THEOREM PoolBounded == Spec => []Bounded
  BY PoolInvariant, PTL DEF IInv

\* A step on one connection never changes the socket or the bufferevent of
\* another one that stays in use.
THEOREM SurvivorsCorrect == Spec => SurvivorsUntouched
  <1>1. IInv /\ [Next]_poolVars => [KeepsOthers]_poolVars
    <2> SUFFICES ASSUME IInv, Next
                 PROVE  KeepsOthers
      OBVIOUS
    <2>1. ASSUME NEW s \in Sock, NEW b \in {"live", "null"},
                 server_handle_listen(s, b)
          PROVE  KeepsOthers
      <3>1. PICK c, n : Accepted(s, b, c, n)
        BY <2>1, AddFacts DEF IInv
      <3>2. Slots \subseteq Slots'
        BY <3>1 DEF Accepted, IInv, Shape, Slots
      <3>3. QED
        BY <3>1, <3>2 DEF Accepted, KeepsOthers
    <2>2. ASSUME NEW c \in Slots, conn_handle_err(c)
          PROVE  KeepsOthers
      <3>1. PICK k, last : Dropped(c, k, last)
        BY <2>2, DelFacts DEF IInv
      <3>2. ~InUse(c)'
        BY <3>1 DEF Dropped, InUse
      <3>3. \A d \in Slots : d # c => fd'[d] = fd[d] /\ bev'[d] = bev[d]
        BY <3>1 DEF Dropped, IInv, Shape
      <3>4. QED
        BY <3>2, <3>3 DEF KeepsOthers
    <2>3. QED
      BY <2>1, <2>2 DEF Next
  <1>2. QED
    BY <1>1, PoolInvariant, PTL DEF Spec, SurvivorsUntouched
==============================================================================
