-------------------------- MODULE ChunkQueue_proofs --------------------------
(***************************************************************************)
(* QueueSound, ResetEmpties and ImplementsFifo of ChunkQueue for any set   *)
(* of chunks, any sizes of reads and any limit.                            *)
(*                                                                         *)
(* The pointers are abstracted to sequences: Chain(link, s, p) says that   *)
(* the links lead from p through the elements of s, each met once, to      *)
(* NULL.  ListIs shows that the walk of ListFrom then yields s, so each    *)
(* step is proved by naming the sequences it leaves and their chains.      *)
(***************************************************************************)
EXTENDS ChunkQueue, TLAPS, FiniteSetTheorems, WellFoundedInduction

Chain(link, s, p) ==
    /\ s \in Seq(Chunk)
    /\ \A i, j \in 1 .. Len(s) : s[i] = s[j] => i = j
    /\ p = IF Len(s) = 0 THEN NULL ELSE s[1]
    /\ \A i \in 1 .. Len(s) : link[s[i]] = IF i = Len(s) THEN NULL ELSE s[i + 1]

\* The two lists share no chunk, and every allocated chunk is on one of them.
Shared(q, u) == Elems(q) \cap Elems(u) = {} /\ Elems(q) \cup Elems(u) = alloc

Ends(q, u) ==
    /\ tail = IF Len(q) = 0 THEN NULL ELSE q[Len(q)]
    /\ unused_chunks = Len(u)

\* Chunks in use hold bytes, which makes the offset that chunkqueue_reset
\* stores a natural number; reusable chunks hold none.
Bytes(q, u) ==
    /\ \A c \in alloc : bused[c] <= bsize[c]
    /\ \A c \in Elems(q) : bused[c] > 0
    /\ \A c \in Elems(u) : bused[c] = 0 /\ offset[c] = 0

\* A reset marks every chunk before the loop starts, so all of them go.
Marked(q) == loop = "reset" => \A c \in Elems(q) : Finished(c)

Lists(q, u) ==
    /\ Chain(next, q, head) /\ Chain(next, u, unused)
    /\ Shared(q, u) /\ Ends(q, u) /\ Bytes(q, u) /\ Marked(q)

IInv == QueueTypeOK /\ Lists(InQueue, Reusable)

------------------------------------------------------------------------------
\* The least-number principle, by which two functions with the same recursive
\* equation are equal.
LEMMA LeastElement ==
    ASSUME NEW T, T \subseteq Nat, T # {}
    PROVE  \E x \in T : \A y \in T : x <= y
<1>1. IsWellFoundedOn(OpToRel(<, Nat), Nat)
  BY NatLessThanWellFounded
<1>2. PICK x \in T : \A y \in T : ~(<<y, x>> \in OpToRel(<, Nat))
  BY <1>1, WFMin
<1>3. \A y \in T : ~(y < x)
  BY <1>2 DEF OpToRel
<1>4. QED
  BY <1>3

LEMMA UpTo ==
    ASSUME NEW n \in Nat
    PROVE  Cardinality(1 .. n) = n /\ Cardinality(0 .. n - 1) = n
<1>1. 1 \in Int /\ 0 \in Int /\ n \in Int /\ n - 1 \in Int
  OBVIOUS
<1>2. Cardinality(1 .. n) = IF 1 > n THEN 0 ELSE n - 1 + 1
  BY <1>1, FS_Interval
<1>3. Cardinality(0 .. n - 1) = IF 0 > n - 1 THEN 0 ELSE n - 1 - 0 + 1
  BY <1>1, FS_Interval
<1>4. QED
  BY <1>2, <1>3

\* The equation of the walk, and that it has one solution.
Walks(f, link, p) ==
    f = [k \in 0 .. Cardinality(Chunk) |->
            IF k = 0 THEN p
            ELSE IF f[k - 1] = NULL THEN NULL ELSE link[f[k - 1]]]

LEMMA OneWalk ==
    ASSUME NEW link, NEW p, NEW f, NEW g, Walks(f, link, p), Walks(g, link, p),
           Cardinality(Chunk) \in Nat
    PROVE  f = g
<1> DEFINE S == 0 .. Cardinality(Chunk)
           Apart == {k \in S : f[k] # g[k]}
<1>1. SUFFICES ASSUME Apart # {} PROVE FALSE
  BY DEF Walks
<1>2. Apart \subseteq Nat
  OBVIOUS
<1>3. PICK k \in Apart : \A j \in Apart : k <= j
  <2> HIDE DEF Apart
  <2>1. QED
    BY <1>1, <1>2, LeastElement
<1>4. /\ f[k] = IF k = 0 THEN p ELSE IF f[k - 1] = NULL THEN NULL ELSE link[f[k - 1]]
      /\ g[k] = IF k = 0 THEN p ELSE IF g[k - 1] = NULL THEN NULL ELSE link[g[k - 1]]
  BY <1>3 DEF Walks
<1>5. k # 0 /\ k \in Nat /\ k - 1 \in S
  BY <1>3, <1>4
<1>6. k - 1 \notin Apart
  BY <1>3, <1>5
<1>7. f[k - 1] = g[k - 1]
  BY <1>5, <1>6
<1>8. QED
  BY <1>3, <1>4, <1>5, <1>7

\* A list is no longer than there are chunks.
LEMMA ChainLength ==
    ASSUME NEW link, NEW s, NEW p, Chain(link, s, p)
    PROVE  /\ Cardinality(Chunk) \in Nat /\ Len(s) \in Nat
           /\ Len(s) <= Cardinality(Chunk)
<1>1. s \in Injection(1 .. Len(s), Chunk) /\ Len(s) \in Nat
  BY DEF Chain, Injection, IsInjective
<1>2. IsFiniteSet(Chunk)
  BY ChunkQueueAssumption
<1>3. Cardinality(1 .. Len(s)) = Len(s)
  BY <1>1, UpTo
<1>4. Cardinality(1 .. Len(s)) <= Cardinality(Chunk)
  BY <1>1, <1>2, FS_Injection
<1>5. QED
  BY <1>1, <1>2, <1>3, <1>4, FS_CardinalityType

\* ListFrom follows a chain to its end.
LEMMA ListIs ==
    ASSUME NEW link, NEW s, NEW p, Chain(link, s, p)
    PROVE  ListFrom(link, p) = s
<1> DEFINE C == Cardinality(Chunk)
           g == [k \in 0 .. C |-> IF k < Len(s) THEN s[k + 1] ELSE NULL]
<1>1. C \in Nat /\ Len(s) \in Nat /\ Len(s) <= C
  BY ChainLength
<1>2. \A i \in 1 .. Len(s) : s[i] \in Chunk /\ s[i] # NULL
  BY ChunkQueueAssumption DEF Chain
<1>3. Walks(g, link, p)
  <2>1. g[0] = p
    BY <1>1 DEF Chain
  <2>2. ASSUME NEW k \in 1 .. C
        PROVE  g[k] = IF g[k - 1] = NULL THEN NULL ELSE link[g[k - 1]]
    <3>1. k - 1 \in 0 .. C /\ k \in 0 .. C
      BY <1>1
    <3>2. CASE k - 1 < Len(s)
      <4>1. g[k - 1] = s[k] /\ k \in 1 .. Len(s)
        BY <1>1, <3>1, <3>2
      <4>2. link[s[k]] = IF k = Len(s) THEN NULL ELSE s[k + 1]
        BY <4>1 DEF Chain
      <4>3. g[k] = IF k = Len(s) THEN NULL ELSE s[k + 1]
        BY <1>1, <3>1, <4>1
      <4>4. QED
        BY <1>2, <4>1, <4>2, <4>3
    <3>3. CASE ~(k - 1 < Len(s))
      BY <1>1, <3>1, <3>3
    <3>4. QED
      BY <3>2, <3>3
  <2>3. \A k \in 0 .. C : k = 0 \/ k \in 1 .. C
    BY <1>1
  <2> HIDE DEF C
  <2>4. \A k \in 0 .. C : g[k] = IF k = 0 THEN p
                                 ELSE IF g[k - 1] = NULL THEN NULL ELSE link[g[k - 1]]
    BY <1>1, <2>1, <2>2, <2>3
  <2>5. DOMAIN g = 0 .. C /\ g = [k \in 0 .. C |-> g[k]]
    OBVIOUS
  <2> HIDE DEF g
  <2>6. QED
    BY <2>4, <2>5 DEF Walks, C
<1>4. Walks(Walk(link, p), link, p)
  BY <1>3 DEF Walks, Walk
<1>5. Walk(link, p) = g
  <2> HIDE DEF g
  <2>1. QED
    BY <1>1, <1>3, <1>4, OneWalk
<1>6. {k \in DOMAIN g : g[k] # NULL} = 0 .. Len(s) - 1
  BY <1>1, <1>2
<1>7. Cardinality(0 .. Len(s) - 1) = Len(s)
  BY <1>1, UpTo
<1>8. ListFrom(link, p) = [k \in 1 .. Len(s) |-> g[k - 1]]
  <2> HIDE DEF g
  <2>1. QED
    BY <1>5, <1>6, <1>7 DEF ListFrom
<1>9. [k \in 1 .. Len(s) |-> g[k - 1]] = s
  <2>1. \A k \in 1 .. Len(s) : g[k - 1] = s[k]
    BY <1>1
  <2>2. s \in Seq(Chunk)
    BY DEF Chain
  <2> HIDE DEF g
  <2>3. QED
    BY <2>1, <2>2
<1>10. QED
  BY <1>8, <1>9

------------------------------------------------------------------------------
\* What the three ways to relink a list do to its chain.
LEMMA ElemsFacts ==
    /\ \A s \in Seq(Chunk), c \in Chunk :
         /\ Elems(Append(s, c)) = Elems(s) \cup {c}
         /\ Elems(<<c>> \o s) = Elems(s) \cup {c}
    /\ \A s \in Seq(Chunk) : Elems(s) \subseteq Chunk
    /\ \A s \in Seq(Chunk) : Len(s) > 0 =>
         Elems(s) = Elems(Tail(s)) \cup {s[1]}
<1>1. ASSUME NEW s \in Seq(Chunk), NEW c \in Chunk
      PROVE  /\ Elems(Append(s, c)) = Elems(s) \cup {c}
             /\ Elems(<<c>> \o s) = Elems(s) \cup {c}
  <2>1. /\ Append(s, c) \in Seq(Chunk) /\ Len(Append(s, c)) = Len(s) + 1
        /\ \A i \in 1 .. Len(s) : Append(s, c)[i] = s[i]
        /\ Append(s, c)[Len(s) + 1] = c
    OBVIOUS
  <2>2. /\ <<c>> \o s \in Seq(Chunk) /\ Len(<<c>> \o s) = Len(s) + 1
        /\ \A i \in 1 .. Len(s) : (<<c>> \o s)[i + 1] = s[i]
        /\ (<<c>> \o s)[1] = c
    OBVIOUS
  <2>3. DOMAIN s = 1 .. Len(s) /\ Len(s) \in Nat
    OBVIOUS
  <2>4. Elems(Append(s, c)) = Elems(s) \cup {c}
    <3>1. DOMAIN Append(s, c) = 1 .. Len(s) + 1
      BY <2>1
    <3>2. \A i \in 1 .. Len(s) + 1 : i \in 1 .. Len(s) \/ i = Len(s) + 1
      BY <2>3
    <3>3. QED
      BY <2>1, <2>3, <3>1, <3>2 DEF Elems
  <2>5. Elems(<<c>> \o s) = Elems(s) \cup {c}
    <3>1. DOMAIN (<<c>> \o s) = 1 .. Len(s) + 1
      BY <2>2
    <3>2. /\ \A i \in 1 .. Len(s) + 1 : i = 1 \/ (i - 1 \in 1 .. Len(s) /\ (i - 1) + 1 = i)
          /\ \A i \in 1 .. Len(s) : i + 1 \in 1 .. Len(s) + 1
          /\ 1 \in 1 .. Len(s) + 1
      BY <2>3
    <3>3. Elems(<<c>> \o s) \subseteq Elems(s) \cup {c}
      BY <2>2, <2>3, <3>1, <3>2 DEF Elems
    <3> DEFINE S == <<c>> \o s
    <3>4. Elems(s) \cup {c} \subseteq Elems(<<c>> \o s)
      <4>1. \A i \in 1 .. Len(s) : S[i + 1] = s[i] /\ i + 1 \in DOMAIN S
        BY <2>2, <3>1, <3>2
      <4>2. S[1] = c /\ 1 \in DOMAIN S
        BY <2>2, <3>1, <3>2
      <4> HIDE DEF S
      <4>3. Elems(s) \cup {c} \subseteq Elems(S)
        BY <2>3, <4>1, <4>2 DEF Elems
      <4>4. QED
        BY <4>3 DEF S
    <3>5. QED
      BY <3>3, <3>4
  <2>6. QED
    BY <2>4, <2>5
<1>2. ASSUME NEW s \in Seq(Chunk)
      PROVE  Elems(s) \subseteq Chunk
  BY DEF Elems
<1>3. ASSUME NEW s \in Seq(Chunk), Len(s) > 0
      PROVE  Elems(s) = Elems(Tail(s)) \cup {s[1]}
  <2>1. s[1] \in Chunk /\ Tail(s) \in Seq(Chunk) /\ s = <<s[1]>> \o Tail(s)
    BY <1>3
  <2>2. QED
    BY <1>1, <2>1
<1>4. QED
  BY <1>1, <1>2, <1>3

LEMMA ChainFrame ==
    ASSUME NEW link, NEW link2, NEW s, NEW p, Chain(link, s, p),
           \A c \in Elems(s) : link2[c] = link[c]
    PROVE  Chain(link2, s, p)
<1>1. s \in Seq(Chunk) /\ \A i \in 1 .. Len(s) : s[i] \in Elems(s)
  BY DEF Chain, Elems
<1>2. QED
  BY <1>1 DEF Chain

LEMMA ChainTail ==
    ASSUME NEW link, NEW s, NEW p, Chain(link, s, p), p # NULL
    PROVE  /\ Len(s) > 0 /\ p = s[1] /\ p \in Chunk
           /\ Chain(link, Tail(s), link[p])
           /\ p \notin Elems(Tail(s))
           /\ Elems(s) = Elems(Tail(s)) \cup {p}
<1>1. s \in Seq(Chunk) /\ Len(s) \in Nat /\ Len(s) > 0 /\ p = s[1] /\ p \in Chunk
  BY DEF Chain
<1>2. /\ Tail(s) \in Seq(Chunk) /\ Len(Tail(s)) = Len(s) - 1
      /\ \A i \in 1 .. Len(Tail(s)) : Tail(s)[i] = s[i + 1] /\ i + 1 \in 1 .. Len(s)
  BY <1>1
<1>3. \A i \in 1 .. Len(Tail(s)) : i + 1 \in 2 .. Len(s)
  BY <1>1, <1>2
<1>4. \A i, j \in 1 .. Len(Tail(s)) : Tail(s)[i] = Tail(s)[j] => i = j
  <2>1. SUFFICES ASSUME NEW i \in 1 .. Len(Tail(s)), NEW j \in 1 .. Len(Tail(s)),
                        Tail(s)[i] = Tail(s)[j]
                 PROVE  i = j
    OBVIOUS
  <2>2. s[i + 1] = s[j + 1] /\ i + 1 \in 1 .. Len(s) /\ j + 1 \in 1 .. Len(s)
    BY <1>2, <2>1
  <2>3. i + 1 = j + 1
    BY <2>2 DEF Chain
  <2>4. QED
    BY <1>2, <2>3
<1>5. link[p] = IF Len(Tail(s)) = 0 THEN NULL ELSE Tail(s)[1]
  <2>1. link[s[1]] = IF 1 = Len(s) THEN NULL ELSE s[1 + 1]
    <3>1. 1 \in 1 .. Len(s)
      BY <1>1
    <3>2. \A i \in 1 .. Len(s) :
            link[s[i]] = IF i = Len(s) THEN NULL ELSE s[i + 1]
      BY DEF Chain
    <3>3. QED
      BY <3>1, <3>2
  <2>2. CASE Len(s) = 1
    BY <1>1, <1>2, <2>1, <2>2
  <2>3. CASE Len(s) # 1
    <3>1. 1 \in 1 .. Len(Tail(s)) /\ Len(Tail(s)) # 0
      BY <1>1, <1>2, <2>3
    <3>2. QED
      BY <1>1, <1>2, <2>1, <2>3, <3>1
  <2>4. QED
    BY <2>2, <2>3
<1>6. \A i \in 1 .. Len(Tail(s)) :
        link[Tail(s)[i]] = IF i = Len(Tail(s)) THEN NULL ELSE Tail(s)[i + 1]
  <2>1. TAKE i \in 1 .. Len(Tail(s))
  <2>2. Tail(s)[i] = s[i + 1] /\ i + 1 \in 1 .. Len(s)
    BY <1>2
  <2>3. link[s[i + 1]] = IF i + 1 = Len(s) THEN NULL ELSE s[(i + 1) + 1]
    BY <2>2 DEF Chain
  <2>4. i + 1 = Len(s) <=> i = Len(Tail(s))
    BY <1>1, <1>2
  <2>5. i # Len(Tail(s)) => Tail(s)[i + 1] = s[(i + 1) + 1]
    <3>1. i # Len(Tail(s)) => i + 1 \in 1 .. Len(Tail(s))
      <4> DEFINE m == Len(Tail(s))
      <4>1. m \in Nat /\ i \in 1 .. m
        BY <1>1, <1>2
      <4> HIDE DEF m
      <4>2. i # m => i + 1 \in 1 .. m
        BY <4>1
      <4>3. QED
        BY <4>2 DEF m
    <3>2. QED
      BY <1>2, <3>1
  <2>6. QED
    BY <2>2, <2>3, <2>4, <2>5
<1>7. p \notin Elems(Tail(s))
  <2>1. SUFFICES ASSUME NEW i \in 1 .. Len(Tail(s)), Tail(s)[i] = p PROVE FALSE
    BY <1>2 DEF Elems
  <2>2. s[i + 1] = s[1] /\ i + 1 \in 1 .. Len(s) /\ 1 \in 1 .. Len(s)
    BY <1>1, <1>2, <2>1
  <2>3. i + 1 = 1
    BY <2>2 DEF Chain
  <2>4. QED
    BY <1>2, <2>3
<1>8. QED
  <2>1. Chain(link, Tail(s), link[p])
    BY <1>2, <1>4, <1>5, <1>6 DEF Chain
  <2>2. QED
    BY <1>1, <1>7, <2>1, ElemsFacts

\* A chunk put in front of a list.
LEMMA ChainPush ==
    ASSUME NEW link \in [Chunk -> Chunk \cup {NULL}], NEW s, NEW p,
           Chain(link, s, p), NEW c \in Chunk, c \notin Elems(s)
    PROVE  Chain([link EXCEPT ![c] = p], <<c>> \o s, c)
<1> DEFINE L == [link EXCEPT ![c] = p]
           S == <<c>> \o s
<1>1. s \in Seq(Chunk) /\ Len(s) \in Nat /\ \A i \in 1 .. Len(s) : s[i] \in Elems(s) /\ s[i] \in Chunk
  BY DEF Chain, Elems
<1>2. /\ S \in Seq(Chunk) /\ Len(S) = Len(s) + 1 /\ S[1] = c
      /\ \A i \in 2 .. Len(S) : S[i] = s[i - 1] /\ i - 1 \in 1 .. Len(s)
  BY <1>1
<1>3. L[c] = p /\ \A i \in 1 .. Len(s) : L[s[i]] = link[s[i]] /\ s[i] # c
  BY <1>1
<1>4. \A i \in 1 .. Len(S) : i = 1 \/ i \in 2 .. Len(S)
  BY <1>1, <1>2
<1> HIDE DEF S, L
<1>5. \A i, j \in 1 .. Len(S) : S[i] = S[j] => i = j
  <2>1. SUFFICES ASSUME NEW i \in 1 .. Len(S), NEW j \in 1 .. Len(S), S[i] = S[j]
                 PROVE  i = j
    OBVIOUS
  <2>2. CASE i = 1 \/ j = 1
    BY <1>2, <1>3, <1>4, <2>1, <2>2
  <2>3. CASE i # 1 /\ j # 1
    <3>1. i - 1 \in 1 .. Len(s) /\ j - 1 \in 1 .. Len(s) /\ s[i - 1] = s[j - 1]
      BY <1>2, <1>4, <2>1, <2>3
    <3>2. i - 1 = j - 1
      BY <3>1 DEF Chain
    <3>3. QED
      BY <1>1, <1>2, <3>2
  <2>4. QED
    BY <2>2, <2>3
<1>6. \A i \in 1 .. Len(S) : L[S[i]] = IF i = Len(S) THEN NULL ELSE S[i + 1]
  <2>1. TAKE i \in 1 .. Len(S)
  <2>2. CASE i = 1
    <3>1. p = IF Len(s) = 0 THEN NULL ELSE s[1]
      BY DEF Chain
    <3>2. Len(s) # 0 => 2 \in 2 .. Len(S) /\ S[2] = s[1]
      BY <1>1, <1>2
    <3>3. QED
      BY <1>1, <1>2, <1>3, <2>2, <3>1, <3>2
  <2>3. CASE i # 1
    <3>1. S[i] = s[i - 1] /\ i - 1 \in 1 .. Len(s)
      BY <1>2, <1>4, <2>3
    <3>2. link[s[i - 1]] = IF i - 1 = Len(s) THEN NULL ELSE s[(i - 1) + 1]
      BY <3>1 DEF Chain
    <3>3. i # Len(S) => i + 1 \in 2 .. Len(S) /\ S[i + 1] = s[(i - 1) + 1]
      BY <1>1, <1>2, <2>3
    <3>4. i = Len(S) <=> i - 1 = Len(s)
      BY <1>1, <1>2
    <3>5. QED
      BY <1>3, <3>1, <3>2, <3>3, <3>4
  <2>4. QED
    BY <2>2, <2>3
<1>7. QED
  <2>1. Len(S) # 0
    BY <1>1, <1>2
  <2>2. Chain(L, S, c)
    BY <1>2, <1>5, <1>6, <2>1 DEF Chain
  <2>3. QED
    BY <2>2 DEF L, S

\* A chunk linked behind a list, which moves the front only when the list was
\* empty.
LEMMA ChainAppend ==
    ASSUME NEW link \in [Chunk -> Chunk \cup {NULL}],
           NEW link2 \in [Chunk -> Chunk \cup {NULL}], NEW s, NEW p,
           Chain(link, s, p), NEW c \in Chunk, c \notin Elems(s),
           link2[c] = NULL,
           \A i \in 1 .. Len(s) : link2[s[i]] = IF i = Len(s) THEN c ELSE link[s[i]]
    PROVE  Chain(link2, Append(s, c), IF p = NULL THEN c ELSE p)
<1> DEFINE S == Append(s, c)
<1>1. s \in Seq(Chunk) /\ Len(s) \in Nat /\ \A i \in 1 .. Len(s) : s[i] \in Elems(s) /\ s[i] \in Chunk
  BY DEF Chain, Elems
<1>2. /\ S \in Seq(Chunk) /\ Len(S) = Len(s) + 1 /\ S[Len(S)] = c
      /\ \A i \in 1 .. Len(s) : S[i] = s[i] /\ s[i] # c /\ i # Len(S)
  BY <1>1
<1>3. \A i \in 1 .. Len(S) : i = Len(S) \/ i \in 1 .. Len(s)
  BY <1>1, <1>2
<1> HIDE DEF S
<1>4. \A i, j \in 1 .. Len(S) : S[i] = S[j] => i = j
  <2>1. \A i, j \in 1 .. Len(s) : s[i] = s[j] => i = j
    BY DEF Chain
  <2>2. QED
    BY <1>2, <1>3, <2>1
<1>5. \A i \in 1 .. Len(S) : link2[S[i]] = IF i = Len(S) THEN NULL ELSE S[i + 1]
  <2>1. TAKE i \in 1 .. Len(S)
  <2>2. CASE i = Len(S)
    BY <1>2, <2>2
  <2>3. CASE i = Len(s)
    <3>1. i \in 1 .. Len(s) /\ i + 1 = Len(S)
      BY <1>1, <1>2, <2>3
    <3>2. QED
      BY <1>2, <2>3, <3>1
  <2>4. CASE i # Len(S) /\ i # Len(s)
    <3>1. i \in 1 .. Len(s) /\ i + 1 \in 1 .. Len(s)
      BY <1>1, <1>2, <1>3, <2>4
    <3>2. link[s[i]] = s[i + 1]
      BY <2>4, <3>1 DEF Chain
    <3>3. QED
      BY <1>2, <2>4, <3>1, <3>2
  <2>5. QED
    BY <2>2, <2>3, <2>4
<1>6. (IF p = NULL THEN c ELSE p) = S[1]
  <2>1. p = IF Len(s) = 0 THEN NULL ELSE s[1]
    BY DEF Chain
  <2>2. CASE Len(s) = 0
    BY <1>2, <2>1, <2>2
  <2>3. CASE Len(s) # 0
    <3>1. 1 \in 1 .. Len(s)
      BY <1>1, <2>3
    <3>2. s[1] # NULL /\ S[1] = s[1]
      BY <1>1, <1>2, <3>1, ChunkQueueAssumption
    <3>3. QED
      BY <2>1, <2>3, <3>2
  <2>4. QED
    BY <2>2, <2>3
<1>7. QED
  <2>1. Len(S) # 0
    BY <1>1, <1>2
  <2>2. Chain(link2, S, IF p = NULL THEN c ELSE p)
    BY <1>2, <1>4, <1>5, <1>6, <2>1 DEF Chain
  <2>3. QED
    BY <2>2 DEF S

------------------------------------------------------------------------------
\* Room is made for all n bytes, and no room is given up.
LEMMA RoomMade ==
    ASSUME NEW u \in Nat, NEW sz \in Nat, u <= sz, NEW n \in Nat
    PROVE  grown_size(u, sz, n) \in Nat /\ u + n <= grown_size(u, sz, n)
<1>1. Block \in Nat /\ Block > 0
  BY ChunkQueueAssumption
<1>2. \A k \in Nat : k % Block \in 0 .. Block - 1
  BY <1>1
<1>3. \A k \in Nat : Block - (k % Block) \in Nat
  BY <1>1, <1>2
<1>4. CASE sz = 0
  BY <1>3, <1>4 DEF grown_size
<1>5. CASE sz # 0 /\ sz - u < n
  <2>1. n - (sz - u) \in Nat
    BY <1>5
  <2>2. Block - ((n - (sz - u)) % Block) \in Nat
    BY <1>3, <2>1
  <2>3. QED
    BY <1>5, <2>1, <2>2 DEF grown_size
<1>6. CASE sz # 0 /\ ~(sz - u < n)
  BY <1>6 DEF grown_size
<1>7. QED
  BY <1>4, <1>5, <1>6

\* A step that leaves chains of q and u leaves the lists q and u.
LEMMA ListsAre ==
    ASSUME NEW q, NEW u, QueueTypeOK', Lists(q, u)'
    PROVE  IInv' /\ InQueue' = q /\ Reusable' = u
<1>1. Chain(next', q, head') /\ Chain(next', u, unused')
  BY DEF Lists
<1>2. ListFrom(next', head') = q /\ ListFrom(next', unused') = u
  BY <1>1, ListIs
<1>3. InQueue' = q /\ Reusable' = u
  BY <1>2 DEF InQueue, Reusable
<1>4. Lists(InQueue, Reusable)'
  BY <1>3 DEF Lists, Shared, Ends, Bytes, Marked, Finished
<1>5. QED
  BY <1>3, <1>4 DEF IInv

LEMMA InitLists ==
    QueueInit => IInv
<1> SUFFICES ASSUME QueueInit PROVE IInv
  OBVIOUS
<1>1. QueueTypeOK
  <2>1. 0 \in 0 .. MaxUnused
    BY ChunkQueueAssumption
  <2>2. {head, tail, unused} \subseteq Chunk \cup {NULL}
    BY DEF QueueInit
  <2>3. QED
    BY <2>1, <2>2 DEF QueueInit, QueueTypeOK
<1>2. Chain(next, <<>>, head) /\ Chain(next, <<>>, unused)
  BY DEF QueueInit, Chain
<1>3. InQueue = <<>> /\ Reusable = <<>>
  BY <1>2, ListIs DEF InQueue, Reusable
<1>4. Elems(<<>>) = {}
  BY DEF Elems
<1>5. Lists(<<>>, <<>>)
  BY <1>2, <1>4 DEF Lists, Shared, Ends, Bytes, Marked, QueueInit
<1>6. QED
  BY <1>1, <1>3, <1>5 DEF IInv

\* The chunk for the next read comes off the unused list or from malloc; either
\* way it is on no list, and nothing of an earlier use is in it.
LEMMA Taken ==
    ASSUME IInv, NEW c \in Chunk, get_unused_chunk(c)
    PROVE  \E u \in Seq(Chunk) :
              /\ Chain(next, u, unused')
              /\ c \notin Elems(u) /\ c \notin Elems(InQueue)
              /\ Elems(u) \subseteq Elems(Reusable)
              /\ Elems(InQueue) \cup Elems(u) \cup {c} = alloc'
              /\ unused_chunks' = Len(u)
              /\ Len(u) = IF unused_chunks = 0 THEN 0 ELSE unused_chunks - 1
              /\ c \in alloc => bused[c] = 0
<1> DEFINE q == InQueue
           u == Reusable
<1>1. /\ Chain(next, q, head) /\ Chain(next, u, unused)
      /\ Elems(q) \cap Elems(u) = {} /\ Elems(q) \cup Elems(u) = alloc
      /\ unused_chunks = Len(u)
      /\ \A d \in Elems(u) : bused[d] = 0
  BY DEF IInv, Lists, Shared, Ends, Bytes
<1>2. u \in Seq(Chunk) /\ unused = IF Len(u) = 0 THEN NULL ELSE u[1]
  BY <1>1 DEF Chain
<1> HIDE DEF q, u
<1>3. Len(u) = 0 => unused = NULL
  BY <1>2
<1>4. Len(u) # 0 => unused # NULL
  <2>1. Len(u) # 0 => u[1] \in Chunk
    BY <1>2
  <2>2. QED
    BY <1>2, <2>1, ChunkQueueAssumption
<1>5. CASE unused = NULL
  <2>1. c \notin alloc /\ alloc' = alloc \cup {c} /\ unused' = unused /\ unused_chunks' = unused_chunks
    BY <1>5, ChunkQueueAssumption DEF get_unused_chunk, chunk_new
  <2>2. QED
    BY <1>1, <1>2, <1>4, <1>5, <2>1 DEF q, u
<1>6. CASE unused # NULL
  <2>1. unused = c /\ unused' = next[c] /\ unused_chunks' = unused_chunks - 1 /\ alloc' = alloc
    BY <1>6 DEF get_unused_chunk, chunk_new
  <2>2. /\ Len(u) > 0 /\ Chain(next, Tail(u), next[c])
        /\ c \notin Elems(Tail(u)) /\ Elems(u) = Elems(Tail(u)) \cup {c}
    BY <1>1, <1>6, <2>1, ChainTail
  <2>3. Tail(u) \in Seq(Chunk) /\ Len(Tail(u)) = Len(u) - 1
    BY <1>2, <2>2
  <2>4. c \in Elems(u) /\ bused[c] = 0
    BY <1>1, <2>2
  <2> DEFINE t == Tail(u)
  <2>5. /\ t \in Seq(Chunk) /\ Chain(next, t, unused')
        /\ c \notin Elems(t) /\ c \notin Elems(q)
        /\ Elems(t) \subseteq Elems(u)
        /\ Elems(q) \cup Elems(t) \cup {c} = alloc'
    <3> HIDE DEF t
    <3>1. QED
      BY <1>1, <2>1, <2>2, <2>3, <2>4 DEF t
  <2>6. unused_chunks' = Len(t) /\ Len(t) = unused_chunks - 1 /\ unused_chunks # 0
    BY <1>1, <1>2, <2>1, <2>2, <2>3
  <2> HIDE DEF t
  <2>7. QED
    BY <2>4, <2>5, <2>6 DEF q, u
<1>7. QED
  BY <1>5, <1>6

\* A read appends its chunk to the list in use; its bytes fit.
LEMMA Appended ==
    ASSUME IInv, NEW c \in Chunk, NEW n \in Sizes, get_append_chunk(c, n)
    PROVE  /\ IInv' /\ InQueue' = Append(InQueue, c)
           /\ unused_chunks' = IF unused_chunks = 0 THEN 0 ELSE unused_chunks - 1
           /\ c \notin Elems(InQueue)
           /\ bused' = [bused EXCEPT ![c] = n]
<1>0. PICK q : q = InQueue
  OBVIOUS
<1>1. /\ get_unused_chunk(c) /\ append_chunk(c) /\ loop' = loop /\ loop = "idle"
      /\ is_finished' = is_finished
  BY DEF get_append_chunk, mem, buffer_new
<1>2. PICK u \in Seq(Chunk) :
              /\ Chain(next, u, unused')
              /\ c \notin Elems(u) /\ c \notin Elems(q)
              /\ Elems(u) \subseteq Elems(Reusable)
              /\ Elems(q) \cup Elems(u) \cup {c} = alloc'
              /\ unused_chunks' = Len(u)
              /\ Len(u) = IF unused_chunks = 0 THEN 0 ELSE unused_chunks - 1
              /\ c \in alloc => bused[c] = 0
  BY <1>0, <1>1, Taken
<1>3. /\ QueueTypeOK /\ Chain(next, q, head) /\ q \in Seq(Chunk)
      /\ Elems(q) \cap Elems(Reusable) = {}
      /\ Elems(q) \cup Elems(Reusable) = alloc
      /\ tail = IF Len(q) = 0 THEN NULL ELSE q[Len(q)]
      /\ Bytes(q, Reusable)
  BY <1>0 DEF IInv, Lists, Shared, Ends, Chain
<1>4. Elems(q) \cap Elems(u) = {} /\ Elems(u) \subseteq alloc /\ Elems(q) \subseteq alloc
  BY <1>2, <1>3
<1>5. n \in Nat /\ n > 0
  BY ChunkQueueAssumption
<1>6. /\ Append(q, c) \in Seq(Chunk) /\ Len(Append(q, c)) = Len(q) + 1 /\ Len(q) \in Nat
      /\ Append(q, c)[Len(q) + 1] = c /\ Elems(Append(q, c)) = Elems(q) \cup {c}
      /\ Len(Append(q, c)) # 0
  <2>1. Elems(Append(q, c)) = Elems(q) \cup {c}
    BY <1>3, ElemsFacts
  <2>2. QED
    BY <1>3, <2>1
<1>7. next' \in [Chunk -> Chunk \cup {NULL}] /\ Chain(next', Append(q, c), head')
  <2>1. next \in [Chunk -> Chunk \cup {NULL}] /\ tail \in Chunk \cup {NULL}
    BY <1>3 DEF QueueTypeOK
  <2>2. /\ next' = IF tail # NULL THEN [next EXCEPT ![c] = NULL, ![tail] = c]
                                  ELSE [next EXCEPT ![c] = NULL]
        /\ head' = IF head = NULL THEN c ELSE head
    BY <1>1 DEF append_chunk
  <2>3. \A i \in 1 .. Len(q) : q[i] \in Elems(q) /\ q[i] # c /\ q[i] \in Chunk
    BY <1>2, <1>3 DEF Elems
  <2>4. tail # c
    BY <1>3, <1>6, <2>3, ChunkQueueAssumption
  <2>5. next' \in [Chunk -> Chunk \cup {NULL}] /\ next'[c] = NULL
    BY <2>1, <2>2, <2>4
  <2>6. ASSUME NEW i \in 1 .. Len(q)
        PROVE  next'[q[i]] = IF i = Len(q) THEN c ELSE next[q[i]]
    <3>1. Len(q) # 0 /\ tail = q[Len(q)] /\ Len(q) \in 1 .. Len(q)
      BY <1>3, <1>6, <2>6
    <3>2. tail # NULL
      BY <2>3, <3>1, ChunkQueueAssumption
    <3>3. q[i] = tail <=> i = Len(q)
      BY <1>3, <3>1 DEF Chain
    <3>4. QED
      BY <2>1, <2>2, <2>3, <2>4, <3>2, <3>3
  <2>7. Chain(next', Append(q, c), IF head = NULL THEN c ELSE head)
    BY <1>2, <1>3, <2>1, <2>5, <2>6, ChainAppend
  <2>8. QED
    BY <2>2, <2>5, <2>7
<1>8. Chain(next', u, unused')
  <2>1. \A d \in Elems(u) : next'[d] = next[d]
    <3>1. TAKE d \in Elems(u)
    <3>2. d # c /\ d \in Chunk
      BY <1>2, ElemsFacts
    <3>3. tail # NULL => tail \in Elems(q)
      BY <1>3, <1>6 DEF Elems
    <3>4. tail # NULL => d # tail
      BY <1>4, <3>3
    <3>5. next \in [Chunk -> Chunk \cup {NULL}]
      BY <1>3 DEF QueueTypeOK
    <3>6. QED
      BY <1>1, <3>2, <3>4, <3>5 DEF append_chunk
  <2>2. QED
    BY <1>2, <2>1, ChainFrame
<1> DEFINE used == IF c \in alloc THEN bused[c] ELSE 0
           size == IF c \in alloc THEN bsize[c] ELSE 0
<1>9. used = 0 /\ size \in Nat
  BY <1>2, <1>3 DEF QueueTypeOK
<1>10. /\ bused' = [bused EXCEPT ![c] = used + n]
       /\ bsize' = [bsize EXCEPT ![c] = grown_size(used, size, n)]
       /\ offset' = IF c \in alloc THEN offset ELSE [offset EXCEPT ![c] = 0]
  BY DEF get_append_chunk, mem, buffer_new
<1> HIDE DEF used, size
<1>11. bused' = [bused EXCEPT ![c] = n]
  BY <1>5, <1>9, <1>10
<1>12. grown_size(used, size, n) \in Nat /\ n <= grown_size(used, size, n)
  <2>1. used \in Nat /\ used <= size /\ used + n = n
    BY <1>5, <1>9
  <2>2. used \in Nat /\ size \in Nat /\ n \in Nat
    BY <1>5, <1>9
  <2>3. grown_size(used, size, n) \in Nat /\ used + n <= grown_size(used, size, n)
    BY <2>1, <2>2, RoomMade
  <2>4. QED
    BY <2>1, <2>3
<1>13. QueueTypeOK'
  <2>1. alloc' \subseteq Chunk
    BY <1>1, <1>3 DEF QueueTypeOK, get_unused_chunk, chunk_new
  <2>2. head' \in Chunk \cup {NULL} /\ tail' \in Chunk \cup {NULL}
    BY <1>1, <1>3 DEF QueueTypeOK, append_chunk
  <2>3. unused' \in Chunk \cup {NULL}
    BY <1>1, <1>3 DEF QueueTypeOK, get_unused_chunk, chunk_new
  <2>4. unused_chunks' \in 0 .. MaxUnused
    <3>1. MaxUnused \in Nat /\ unused_chunks \in 0 .. MaxUnused
      BY <1>3, ChunkQueueAssumption DEF QueueTypeOK
    <3>2. QED
      BY <1>2, <3>1
  <2>5. bused' \in [Chunk -> Nat] /\ bsize' \in [Chunk -> Nat] /\ offset' \in [Chunk -> Nat]
    BY <1>3, <1>5, <1>10, <1>11, <1>12 DEF QueueTypeOK
  <2>6. QED
    BY <1>1, <1>3, <1>7, <2>1, <2>2, <2>3, <2>4, <2>5 DEF QueueTypeOK
<1>14. Lists(Append(q, c), u)'
  <2>1. Shared(Append(q, c), u)'
    BY <1>2, <1>4, <1>6 DEF Shared
  <2>2. Ends(Append(q, c), u)'
    <3>1. tail' = c
      BY <1>1 DEF append_chunk
    <3>2. QED
      BY <1>2, <1>6, <3>1 DEF Ends
  <2>3. \A d \in Chunk : d # c =>
          bused'[d] = bused[d] /\ bsize'[d] = bsize[d] /\ offset'[d] = offset[d]
    BY <1>3, <1>10, <1>11 DEF QueueTypeOK
  <2>4. bused'[c] = n /\ n <= bsize'[c]
    BY <1>3, <1>10, <1>11, <1>12 DEF QueueTypeOK
  <2>5. Bytes(Append(q, c), u)'
    <3>1. \A d \in alloc' : bused'[d] <= bsize'[d]
      <4>1. \A d \in alloc' : d = c \/ d \in alloc
        BY <1>2, <1>4
      <4>2. QED
        BY <1>3, <2>3, <2>4, <4>1 DEF Bytes, QueueTypeOK
    <3>2. \A d \in Elems(Append(q, c)) : bused'[d] > 0
      BY <1>3, <1>5, <1>6, <2>3, <2>4, ElemsFacts DEF Bytes
    <3>3. \A d \in Elems(u) : bused'[d] = 0 /\ offset'[d] = 0
      BY <1>2, <1>3, <2>3, ElemsFacts DEF Bytes
    <3>4. QED
      BY <3>1, <3>2, <3>3 DEF Bytes
  <2>6. Marked(Append(q, c))'
    BY <1>1 DEF Marked
  <2>7. QED
    BY <1>7, <1>8, <2>1, <2>2, <2>5, <2>6 DEF Lists
<1>15. IInv' /\ InQueue' = Append(q, c)
  BY <1>13, <1>14, ListsAre
<1>16. QED
  BY <1>0, <1>2, <1>11, <1>15

\* An iteration takes the front chunk off the list in use; the chunk is free
\* or is the first one to be reused.
LEMMA Removed ==
    ASSUME IInv, RemoveOne
    PROVE  /\ IInv' /\ Len(InQueue) > 0 /\ InQueue' = Tail(InQueue)
           /\ unused_chunks' = IF unused_chunks >= MaxUnused THEN unused_chunks
                                                             ELSE unused_chunks + 1
           /\ \A d \in Elems(Tail(InQueue)) : bused'[d] = bused[d]
           /\ \A d \in Elems(Tail(InQueue)) : offset'[d] = offset[d]
<1>0. PICK q, u : q = InQueue /\ u = Reusable
  OBVIOUS
<1>01. PICK t : t = Tail(q)
  OBVIOUS
<1>1. /\ QueueTypeOK /\ Chain(next, q, head) /\ Chain(next, u, unused)
      /\ q \in Seq(Chunk) /\ u \in Seq(Chunk)
      /\ Elems(q) \cap Elems(u) = {} /\ Elems(q) \cup Elems(u) = alloc
      /\ tail = IF Len(q) = 0 THEN NULL ELSE q[Len(q)]
      /\ unused_chunks = Len(u)
      /\ Bytes(q, u) /\ Marked(q)
  BY <1>0 DEF IInv, Lists, Shared, Ends, Chain
<1>2. head # NULL
  BY DEF RemoveOne, Removable
<1>3. /\ Len(q) > 0 /\ head = q[1] /\ head \in Chunk
      /\ Chain(next, t, next[head]) /\ head \notin Elems(t)
      /\ Elems(q) = Elems(t) \cup {head}
  BY <1>1, <1>2, <1>01, ChainTail
<1>4. t \in Seq(Chunk) /\ Len(t) = Len(q) - 1 /\ Len(q) \in Nat
      /\ \A i \in 1 .. Len(t) : t[i] = q[i + 1]
  BY <1>1, <1>3, <1>01
<1>5. /\ head' = next[head] /\ tail' = IF head = tail THEN NULL ELSE tail
      /\ offset' = [offset EXCEPT ![head] = 0] /\ bused' = [bused EXCEPT ![head] = 0]
      /\ bsize' = bsize /\ loop' = loop /\ is_finished' = TRUE
  BY DEF RemoveOne, recycle, chunk_free, chunk_reset, buffer_reset
<1>6. /\ next \in [Chunk -> Chunk \cup {NULL}] /\ bused \in [Chunk -> Nat]
      /\ offset \in [Chunk -> Nat] /\ bsize \in [Chunk -> Nat]
      /\ MaxUnused \in Nat /\ unused_chunks \in 0 .. MaxUnused
      /\ unused \in Chunk \cup {NULL} /\ tail \in Chunk \cup {NULL}
      /\ alloc \subseteq Chunk
  BY <1>1, ChunkQueueAssumption DEF QueueTypeOK
<1>7. tail' = IF Len(t) = 0 THEN NULL ELSE t[Len(t)]
  <2>1. Len(q) \in 1 .. Len(q) /\ 1 \in 1 .. Len(q)
    BY <1>3, <1>4
  <2>2. head = tail <=> Len(q) = 1
    <3>1. \A i, j \in 1 .. Len(q) : q[i] = q[j] => i = j
      BY <1>1 DEF Chain
    <3>2. tail = q[Len(q)] /\ head = q[1]
      BY <1>1, <1>3
    <3>3. QED
      BY <2>1, <3>1, <3>2
  <2>3. Len(t) # 0 => t[Len(t)] = q[Len(q)]
    BY <1>3, <1>4
  <2>4. QED
    BY <1>1, <1>3, <1>4, <1>5, <2>2, <2>3
<1>8. /\ \A d \in Chunk : d # head => bused'[d] = bused[d] /\ offset'[d] = offset[d]
      /\ bused'[head] = 0 /\ offset'[head] = 0
  BY <1>3, <1>5, <1>6
<1>9. Marked(t)'
  <2>1. Elems(t) \subseteq Chunk
    BY <1>4, ElemsFacts
  <2>2. QED
    BY <1>1, <1>3, <1>5, <1>8, <2>1 DEF Marked, Finished
<1>10. \A d \in Elems(t) : bused'[d] = bused[d] /\ bused'[d] > 0 /\ offset'[d] = offset[d]
  BY <1>1, <1>3, <1>4, <1>8, ElemsFacts DEF Bytes
<1>11. next' \in [Chunk -> Chunk \cup {NULL}] => head' \in Chunk \cup {NULL} /\ tail' \in Chunk \cup {NULL}
  BY <1>3, <1>5, <1>6
<1>12. CASE unused_chunks >= MaxUnused
  <2>1. alloc' = alloc \ {head} /\ next' = next /\ unused' = unused /\ unused_chunks' = unused_chunks
    BY <1>12 DEF RemoveOne, recycle, chunk_free
  <2>2. QueueTypeOK'
    BY <1>1, <1>3, <1>5, <1>6, <1>11, <2>1 DEF QueueTypeOK
  <2>3. Chain(next', t, head') /\ Chain(next', u, unused')
    BY <1>1, <1>3, <1>5, <2>1
  <2>4. Shared(t, u)'
    BY <1>1, <1>3, <2>1 DEF Shared
  <2>5. Ends(t, u)'
    BY <1>1, <1>7, <2>1 DEF Ends
  <2>6. Bytes(t, u)'
    <3>1. \A d \in alloc' : bused'[d] <= bsize'[d]
      BY <1>1, <1>5, <1>6, <1>8, <2>1 DEF Bytes
    <3>2. \A d \in Elems(u) : bused'[d] = 0 /\ offset'[d] = 0
      BY <1>1, <1>3, <1>8, ElemsFacts DEF Bytes
    <3>3. QED
      BY <1>10, <3>1, <3>2 DEF Bytes
  <2>7. Lists(t, u)'
    BY <1>9, <2>3, <2>4, <2>5, <2>6 DEF Lists
  <2>8. QED
    BY <1>3, <1>10, <1>12, <2>1, <2>2, <2>7, ListsAre, <1>0, <1>01
<1>13. CASE ~(unused_chunks >= MaxUnused)
  <2>0. PICK v : v = <<head>> \o u
    OBVIOUS
  <2>1. /\ alloc' = alloc /\ next' = [next EXCEPT ![head] = unused]
        /\ unused' = head /\ unused_chunks' = unused_chunks + 1
    BY <1>13 DEF RemoveOne, recycle, chunk_free
  <2>2. unused_chunks' \in 0 .. MaxUnused
    BY <1>6, <1>13, <2>1
  <2>3. next' \in [Chunk -> Chunk \cup {NULL}]
    BY <1>3, <1>6, <2>1
  <2>4. QueueTypeOK'
    <3>1. bused' \in [Chunk -> Nat] /\ offset' \in [Chunk -> Nat]
      BY <1>5, <1>6
    <3>2. unused' \in Chunk \cup {NULL}
      BY <1>3, <2>1
    <3>3. QED
      BY <1>1, <1>5, <1>6, <1>11, <2>1, <2>2, <2>3, <3>1, <3>2 DEF QueueTypeOK
  <2>5. Chain(next', t, head')
    <3>1. \A d \in Elems(t) : next'[d] = next[d]
      BY <1>3, <1>4, <1>6, <2>1, ElemsFacts
    <3>2. QED
      BY <1>3, <1>5, <3>1, ChainFrame
  <2>6. Chain(next', v, unused')
    <3>1. head \notin Elems(u)
      BY <1>1, <1>3
    <3>2. QED
      BY <1>1, <1>3, <1>6, <2>0, <2>1, <3>1, ChainPush
  <2>7. Elems(v) = Elems(u) \cup {head} /\ Len(v) = Len(u) + 1
    BY <1>1, <1>3, <2>0, ElemsFacts
  <2>8. Shared(t, v)'
    BY <1>1, <1>3, <2>1, <2>7 DEF Shared
  <2>9. Ends(t, v)'
    BY <1>1, <1>7, <2>1, <2>7 DEF Ends
  <2>10. Bytes(t, v)'
    <3>1. \A d \in alloc' : bused'[d] <= bsize'[d]
      BY <1>1, <1>3, <1>5, <1>6, <1>8, <2>1 DEF Bytes
    <3>2. \A d \in Elems(v) : bused'[d] = 0 /\ offset'[d] = 0
      BY <1>1, <1>3, <1>8, <2>7, ElemsFacts DEF Bytes
    <3>3. QED
      BY <1>10, <3>1, <3>2 DEF Bytes
  <2>11. Lists(t, v)'
    BY <1>9, <2>5, <2>6, <2>8, <2>9, <2>10 DEF Lists
  <2>12. QED
    BY <1>3, <1>10, <1>13, <2>1, <2>4, <2>11, ListsAre, <1>0, <1>01
<1>14. QED
  BY <1>12, <1>13

\* The other steps leave both lists as they are.
LEMMA ListsStay ==
    ASSUME IInv, UNCHANGED <<alloc, next, bused, bsize, head, tail, unused, unused_chunks>>,
           QueueTypeOK', \A c \in Elems(Reusable) : offset'[c] = offset[c], Marked(InQueue)'
    PROVE  IInv' /\ InQueue' = InQueue
<1>1. Lists(InQueue, Reusable)
  BY DEF IInv
<1>2. \A q, u : Lists(q, u) /\ Marked(q)' /\ (\A c \in Elems(u) : offset'[c] = offset[c])
                => Lists(q, u)'
  BY DEF Lists, Shared, Ends, Bytes
<1>3. \A q, u : Lists(q, u)' => IInv' /\ InQueue' = q
  BY ListsAre
<1>4. InQueue' = InQueue /\ Reusable' = Reusable
  BY DEF InQueue, Reusable
<1>5. QED
  BY <1>1, <1>2, <1>3, <1>4

------------------------------------------------------------------------------
\* chunkqueue_reset gives every chunk in use the offset of a chunk read to its
\* end, and touches no other.
LEMMA ResetMarks ==
    ASSUME IInv, chunkqueue_reset
    PROVE  IInv' /\ InQueue' = InQueue
<1>0. PICK q, u : q = InQueue /\ u = Reusable
  OBVIOUS
<1>1. QueueTypeOK /\ Lists(q, u)
  BY <1>0 DEF IInv
<1>2. /\ q \in Seq(Chunk) /\ u \in Seq(Chunk) /\ Elems(q) \subseteq Chunk /\ Elems(u) \subseteq Chunk
      /\ Elems(q) \cap Elems(u) = {} /\ \A c \in Elems(q) : bused[c] > 0
  BY <1>1, ElemsFacts DEF Lists, Chain, Shared, Bytes
<1>3. offset' = [c \in Chunk |-> IF c \in Elems(q) THEN bused[c] - 1 ELSE offset[c]]
  BY <1>0 DEF chunkqueue_reset, InQueue
<1>4. UNCHANGED <<alloc, next, bused, bsize, head, tail, unused, unused_chunks>>
      /\ loop' = "reset" /\ is_finished' = FALSE
  BY DEF chunkqueue_reset
<1>5. \A c \in Elems(q) : bused[c] - 1 \in Nat
  <2>1. \A c \in Elems(q) : bused[c] \in Nat
    BY <1>1, <1>2 DEF QueueTypeOK
  <2>2. QED
    BY <1>2, <2>1
<1>6. offset' \in [Chunk -> Nat]
  BY <1>1, <1>2, <1>3, <1>5 DEF QueueTypeOK
<1>7. QueueTypeOK'
  BY <1>1, <1>4, <1>6 DEF QueueTypeOK
<1>8. Marked(q)'
  BY <1>2, <1>3, <1>4 DEF Marked, Finished
<1>9. Lists(q, u)'
  <2>1. Bytes(q, u)'
    <3>1. \A c \in Elems(u) : offset'[c] = offset[c]
      BY <1>2, <1>3
    <3>2. QED
      BY <1>1, <1>4, <3>1 DEF Lists, Bytes
  <2>2. QED
    BY <1>1, <1>4, <1>8, <2>1 DEF Lists, Shared, Ends
<1>10. QED
  BY <1>0, <1>7, <1>9, ListsAre

LEMMA StepKeeps ==
    IInv /\ [QueueNext]_queueVars => IInv'
<1> SUFFICES ASSUME IInv, [QueueNext]_queueVars PROVE IInv'
  OBVIOUS
<1>1. ASSUME NEW c \in Chunk, NEW n \in Sizes, get_append_chunk(c, n)
      PROVE  IInv'
  BY <1>1, Appended
<1>2. CASE remove_finished_chunks
  <2>1. QueueTypeOK' /\ Marked(InQueue)'
    BY <1>2 DEF IInv, QueueTypeOK, remove_finished_chunks, Marked
  <2>2. QED
    BY <1>2, <2>1, ListsStay DEF remove_finished_chunks
<1>3. CASE chunkqueue_reset
  BY <1>3, ResetMarks
<1>4. CASE RemoveOne
  BY <1>4, Removed
<1>5. CASE RemoveDone
  <2>1. QueueTypeOK' /\ Marked(InQueue)'
    BY <1>5 DEF IInv, QueueTypeOK, RemoveDone, Marked
  <2>2. QED
    BY <1>5, <2>1, ListsStay DEF RemoveDone
<1>6. CASE UNCHANGED queueVars
  <2>1. QueueTypeOK' /\ Marked(InQueue)'
    BY <1>6 DEF IInv, QueueTypeOK, queueVars, Lists, Marked, Finished, InQueue
  <2>2. QED
    BY <1>6, <2>1, ListsStay DEF queueVars
<1>7. QED
  BY <1>1, <1>2, <1>3, <1>4, <1>5, <1>6 DEF QueueNext

THEOREM QueueInvariant == QueueSpec => []IInv
<1>1. IInv /\ [QueueNext]_queueVars => IInv'
  BY StepKeeps
<1>2. QED
  BY <1>1, InitLists, PTL DEF QueueSpec

\* A list of distinct chunks is as long as it has members.
LEMMA ChainCount ==
    ASSUME NEW link, NEW s, NEW p, Chain(link, s, p)
    PROVE  IsFiniteSet(Elems(s)) /\ Cardinality(Elems(s)) = Len(s)
<1>1. Len(s) \in Nat /\ s \in Seq(Chunk) /\ s \in [1 .. Len(s) -> Elems(s)]
  BY DEF Chain, Elems
<1>2. s \in Bijection(1 .. Len(s), Elems(s))
  BY <1>1 DEF Chain, Elems, Bijection, Injection, Surjection, IsInjective
<1>3. IsFiniteSet(1 .. Len(s)) /\ Cardinality(1 .. Len(s)) = Len(s)
  BY <1>1, UpTo, FS_Interval
<1>4. QED
  BY <1>2, <1>3, FS_Bijection DEF ExistsBijection

(* Both lists and the buffers of their chunks are sound between and within  *)
(* the calls of chunkqueue_append, chunkqueue_remove_finished and           *)
(* chunkqueue_reset, for any number of chunks and any sizes of reads.       *)
THEOREM QueueCorrect == QueueSpec => []QueueSound
<1>1. ASSUME IInv PROVE QueueSound
  <2>0. PICK q, u : q = InQueue /\ u = Reusable
    OBVIOUS
  <2>1. /\ QueueTypeOK /\ Chain(next, q, head) /\ Chain(next, u, unused)
        /\ q \in Seq(Chunk) /\ u \in Seq(Chunk)
        /\ Shared(q, u) /\ Ends(q, u) /\ Bytes(q, u)
    BY <1>1, <2>0 DEF IInv, Lists, Chain
  <2>2. Len(q) + Len(u) = Cardinality(alloc)
    <3>1. /\ IsFiniteSet(Elems(q)) /\ Cardinality(Elems(q)) = Len(q)
          /\ IsFiniteSet(Elems(u)) /\ Cardinality(Elems(u)) = Len(u)
      BY <2>1, ChainCount
    <3>2. Elems(q) \cap Elems(u) = {} /\ alloc = Elems(q) \cup Elems(u)
      BY <2>1 DEF Shared
    <3>3. Cardinality(Elems(q) \cup Elems(u))
            = Cardinality(Elems(q)) + Cardinality(Elems(u)) - Cardinality(Elems(q) \cap Elems(u))
      BY <3>1, FS_Union
    <3>4. Cardinality(Elems(q) \cap Elems(u)) = 0
      BY <3>2, FS_EmptySet
    <3>5. QED
      BY <2>1, <3>1, <3>2, <3>3, <3>4
  <2>3. IF q = <<>> THEN tail = NULL ELSE tail = q[Len(q)] /\ next[tail] = NULL
    <3>1. CASE q = <<>>
      BY <2>1, <3>1 DEF Ends
    <3>2. CASE q # <<>>
      <4>1. Len(q) \in 1 .. Len(q) /\ Len(q) # 0
        BY <2>1, <3>2
      <4>2. \A i \in 1 .. Len(q) : next[q[i]] = IF i = Len(q) THEN NULL ELSE q[i + 1]
        BY <2>1 DEF Chain
      <4>3. next[q[Len(q)]] = NULL
        BY <4>1, <4>2
      <4>4. QED
        BY <2>1, <3>2, <4>1, <4>3 DEF Ends
    <3>3. QED
      BY <3>1, <3>2
  <2>4. ListsIntact
    BY <2>0, <2>1, <2>2, <2>3 DEF ListsIntact, Shared, Ends
  <2>5. BuffersSound
    BY <2>0, <2>1 DEF BuffersSound, Bytes, Elems
  <2>6. QED
    BY <2>1, <2>4, <2>5 DEF QueueSound
<1>2. QED
  BY <1>1, QueueInvariant, PTL

(* conn_reset hands the next client an empty queue: the loop stops only     *)
(* when nothing is left, because the reset marked every chunk.              *)
THEOREM ResetCorrect == QueueSpec => ResetEmpties
<1>1. ASSUME IInv, [QueueNext]_queueVars, loop = "reset", loop' = "idle"
      PROVE  head = NULL
  <2>0. PICK q : q = InQueue
    OBVIOUS
  <2>1. Chain(next, q, head) /\ Marked(q)
    BY <1>1, <2>0 DEF IInv, Lists
  <2>2. ~Removable
    BY <1>1 DEF QueueNext, queueVars, get_append_chunk, remove_finished_chunks,
                chunkqueue_reset, RemoveOne, RemoveDone
  <2>3. SUFFICES ASSUME head # NULL PROVE FALSE
    OBVIOUS
  <2>4. head \in Elems(q)
    BY <2>1, <2>3, ChainTail
  <2>5. QED
    BY <1>1, <2>1, <2>2, <2>3, <2>4 DEF Removable, Marked
<1>2. IInv /\ [QueueNext]_queueVars => [loop = "reset" /\ loop' = "idle" => head = NULL]_queueVars
  BY <1>1
<1>3. QED
  BY <1>2, QueueInvariant, PTL DEF QueueSpec, ResetEmpties

------------------------------------------------------------------------------
\* No sweep goes on between the calls.
Idle == loop = "idle" => is_finished = FALSE

LEMMA IdleInvariant == QueueSpec => []Idle
<1>1. QueueInit => Idle
  BY DEF QueueInit, Idle
<1>2. Idle /\ [QueueNext]_queueVars => Idle'
  BY DEF Idle, QueueNext, queueVars, get_append_chunk, remove_finished_chunks, chunkqueue_reset,
         RemoveOne, RemoveDone
<1>3. QED
  BY <1>1, <1>2, PTL DEF QueueSpec

\* What the queue of ChunkFifo shows of the chunks q.
Entries(q) == [i \in DOMAIN q |-> [bytes |-> bused[q[i]], offset |-> offset[q[i]]]]

LEMMA FifoStep ==
    IInv /\ IInv' /\ Idle /\ [QueueNext]_queueVars => [Fifo!Next]_(Fifo!fifoVars)
<1> SUFFICES ASSUME IInv, Idle, [QueueNext]_queueVars PROVE [Fifo!Next]_(Fifo!fifoVars)
  OBVIOUS
<1>0. PICK q : q = InQueue
  OBVIOUS
<1>1. q \in Seq(Chunk) /\ QueueTypeOK /\ Elems(q) \subseteq Chunk
  BY <1>0, ElemsFacts DEF IInv, Lists, Chain
<1>2. bused \in [Chunk -> Nat] /\ offset \in [Chunk -> Nat]
  BY <1>1 DEF QueueTypeOK
<1>3. ASSUME NEW c \in Chunk, NEW n \in Sizes, get_append_chunk(c, n)
      PROVE  Fifo!Append_(n)
  <2>1. /\ InQueue' = Append(q, c) /\ c \notin Elems(q)
        /\ unused_chunks' = IF unused_chunks = 0 THEN 0 ELSE unused_chunks - 1
        /\ bused' = [bused EXCEPT ![c] = n]
    BY <1>0, <1>3, Appended
  <2>2. offset' = [offset EXCEPT ![c] = 0]
    <3>1. CASE c \notin alloc
      BY <1>3, <3>1 DEF get_append_chunk
    <3>2. CASE c \in alloc
      <4>1. offset' = offset
        BY <1>3, <3>2 DEF get_append_chunk
      <4>2. c \in Elems(Reusable)
        BY <1>0, <2>1, <3>2 DEF IInv, Lists, Shared
      <4>3. offset[c] = 0
        BY <4>2 DEF IInv, Lists, Bytes
      <4>4. QED
        BY <1>2, <4>1, <4>3
    <3>3. QED
      BY <3>1, <3>2
  <2>3. [i \in DOMAIN Append(q, c) |->
           [bytes |-> bused'[Append(q, c)[i]], offset |-> offset'[Append(q, c)[i]]]]
          = Append(Entries(q), [bytes |-> n, offset |-> 0])
    <3>1. \A i \in 1 .. Len(q) : q[i] \in Chunk /\ q[i] # c
      BY <1>1, <2>1 DEF Elems
    <3>2. \A i \in 1 .. Len(q) : bused'[q[i]] = bused[q[i]] /\ offset'[q[i]] = offset[q[i]]
      BY <1>2, <2>1, <2>2, <3>1
    <3>3. bused'[c] = n /\ offset'[c] = 0
      BY <1>2, <2>1, <2>2
    <3>4. QED
      BY <1>1, <3>2, <3>3 DEF Entries
  <2>4. [i \in DOMAIN InQueue |->
           [bytes |-> bused[InQueue[i]], offset |-> offset[InQueue[i]]]]'
          = Append(Entries(q), [bytes |-> n, offset |-> 0])
    BY <2>1, <2>3, Zenon
  <2>5. is_finished = FALSE /\ is_finished' = is_finished
    BY <1>3 DEF get_append_chunk, Idle
  <2>6. QED
    BY <1>0, <2>1, <2>4, <2>5, Zenon DEF Fifo!Append_, Entries
<1>4. CASE RemoveOne
  <2>1. /\ Len(q) > 0 /\ InQueue' = Tail(q)
        /\ unused_chunks' = IF unused_chunks >= MaxUnused THEN unused_chunks
                                                          ELSE unused_chunks + 1
        /\ \A d \in Elems(Tail(q)) : bused'[d] = bused[d]
        /\ \A d \in Elems(Tail(q)) : offset'[d] = offset[d]
    BY <1>0, <1>4, Removed
  <2>2. [i \in DOMAIN Tail(q) |->
           [bytes |-> bused'[Tail(q)[i]], offset |-> offset'[Tail(q)[i]]]]
          = Tail(Entries(q))
    <3>1. \A i \in DOMAIN Tail(q) : /\ bused'[Tail(q)[i]] = bused[Tail(q)[i]]
                                    /\ offset'[Tail(q)[i]] = offset[Tail(q)[i]]
      BY <2>1 DEF Elems
    <3>2. \A i \in 1 .. Len(q) - 1 : i \in DOMAIN Tail(q) /\ Tail(q)[i] = q[i + 1]
      BY <1>1, <2>1
    <3>3. \A i \in 1 .. Len(q) - 1 : /\ bused'[Tail(q)[i]] = bused[q[i + 1]]
                                     /\ offset'[Tail(q)[i]] = offset[q[i + 1]]
      BY <3>1, <3>2
    <3>4. DOMAIN Tail(q) = 1 .. Len(q) - 1
      BY <1>1, <2>1
    <3>5. PICK e : e = Entries(q)
      OBVIOUS
    <3>6. e \in Seq({e[i] : i \in DOMAIN e}) /\ Len(e) = Len(q)
      <4>1. e = [i \in 1 .. Len(q) |-> e[i]] /\ Len(q) \in Nat
        BY <1>1, <3>5 DEF Entries
      <4>2. QED
        BY <4>1
    <3>7. \A i \in 1 .. Len(q) : e[i] = [bytes |-> bused[q[i]], offset |-> offset[q[i]]]
      BY <1>1, <3>5 DEF Entries
    <3>8. Tail(e) = [i \in 1 .. Len(q) - 1 |-> e[i + 1]]
      <4>1. PICK S : e \in Seq(S) /\ Len(e) = Len(q) /\ Len(e) \in Nat /\ Len(e) > 0
        BY <1>1, <2>1, <3>6
      <4>2. Tail(e) \in Seq(S) /\ Len(Tail(e)) = Len(e) - 1
        BY <4>1
      <4>3. \A i \in 1 .. Len(e) - 1 : Tail(e)[i] = e[i + 1]
        BY <4>1
      <4>4. Tail(e) = [i \in 1 .. Len(e) - 1 |-> Tail(e)[i]]
        <5>1. \A t \in Seq(S) : t = [i \in 1 .. Len(t) |-> t[i]]
          OBVIOUS
        <5>2. QED
          BY <4>2, <5>1
      <4>5. QED
        BY <4>1, <4>3, <4>4
    <3>9. \A i \in 1 .. Len(q) - 1 :
             e[i + 1] = [bytes |-> bused'[Tail(q)[i]], offset |-> offset'[Tail(q)[i]]]
      <4>1. \A i \in 1 .. Len(q) - 1 : i + 1 \in 1 .. Len(q)
        BY <1>1
      <4>2. QED
        BY <3>3, <3>7, <4>1, Zenon
    <3>10. QED
      BY <3>4, <3>5, <3>8, <3>9
  <2>3. Entries(q) # <<>> /\ Head(Entries(q)) = [bytes |-> bused[q[1]], offset |-> offset[q[1]]]
    BY <1>1, <2>1 DEF Entries
  <2>4. head = q[1]
    BY <1>0, <2>1 DEF IInv, Lists, Chain
  <2>5. is_finished \/ Fifo!CountsAsRead(Head(Entries(q)))
    BY <1>4, <2>3, <2>4 DEF RemoveOne, Removable, Finished, Fifo!CountsAsRead
  <2>6. is_finished' = TRUE
    BY <1>4 DEF RemoveOne
  <2>7. Fifo!Drop
    BY <1>0, <2>1, <2>2, <2>3, <2>5, <2>6, Zenon DEF Fifo!Drop, Entries
  <2>8. QED
    BY <2>7 DEF Fifo!Next
<1>5. CASE chunkqueue_reset
  <2>1. InQueue' = q
    BY <1>0, <1>5, ResetMarks
  <2>2. \A i \in 1 .. Len(q) : q[i] \in Elems(q) /\ q[i] \in Chunk
    BY <1>1 DEF Elems
  <2>3. \A i \in 1 .. Len(q) : offset'[q[i]] = bused[q[i]] - 1 /\ bused'[q[i]] = bused[q[i]]
    BY <1>0, <1>5, <2>2 DEF chunkqueue_reset, InQueue
  <2>4. [i \in DOMAIN q |-> [bytes |-> bused'[q[i]], offset |-> offset'[q[i]]]]
          = [i \in DOMAIN Entries(q) |-> [bytes  |-> Entries(q)[i].bytes,
                                          offset |-> Entries(q)[i].bytes - 1]]
    BY <1>1, <2>3 DEF Entries
  <2>5. is_finished = FALSE /\ is_finished' = FALSE /\ unused_chunks' = unused_chunks
    BY <1>5 DEF chunkqueue_reset, Idle
  <2>6. Fifo!Mark
    BY <1>0, <2>1, <2>4, <2>5, Zenon DEF Fifo!Mark, Entries
  <2>7. QED
    BY <2>6 DEF Fifo!Next
<1>6. CASE RemoveDone
  <2>1. CASE is_finished
    <3>1. head = NULL
      BY <1>6, <2>1 DEF RemoveDone, Removable
    <3>2. Chain(next, q, head)
      BY <1>0 DEF IInv, Lists
    <3>3. q = <<>>
      <4>1. ~(Len(q) > 0)
        BY <1>1, <3>1, <3>2, ChunkQueueAssumption, ElemsFacts DEF Chain, Elems
      <4>2. QED
        BY <1>1, <4>1
    <3>4. InQueue' = InQueue
      BY <1>6 DEF RemoveDone, InQueue
    <3>5. Entries(q) = <<>>
      BY <3>3 DEF Entries
    <3>6. Fifo!Stop
      BY <1>0, <1>6, <2>1, <3>4, <3>5, Zenon DEF Fifo!Stop, RemoveDone, Entries
    <3>7. QED
      BY <3>6 DEF Fifo!Next
  <2>2. CASE ~is_finished
    <3>1. is_finished' = is_finished
      BY <1>1, <1>6, <2>2 DEF RemoveDone, QueueTypeOK
    <3>2. QED
      BY <1>6, <3>1 DEF Fifo!fifoVars, RemoveDone, InQueue
  <2>3. QED
    BY <2>1, <2>2
<1>7. CASE remove_finished_chunks
  <2>1. is_finished' = is_finished
    BY <1>7 DEF Idle, remove_finished_chunks
  <2>2. QED
    BY <1>7, <2>1 DEF Fifo!fifoVars, remove_finished_chunks, InQueue
<1>8. CASE UNCHANGED queueVars
  BY <1>8 DEF Fifo!fifoVars, queueVars, InQueue
<1>9. QED
  BY <1>3, <1>4, <1>5, <1>6, <1>7, <1>8 DEF QueueNext, Fifo!Next

(* The pointers implement the queue of ChunkFifo: chunks come out in the    *)
(* order of their reads, none before one counts as read, and no more than   *)
(* the limit are kept for reuse.                                            *)
THEOREM QueueImplementsFifo == QueueSpec => ImplementsFifo
<1>1. QueueInit => Fifo!Init
  <2> SUFFICES ASSUME QueueInit PROVE Fifo!Init
    OBVIOUS
  <2>1. Chain(next, <<>>, head)
    BY DEF QueueInit, Chain
  <2>2. InQueue = <<>>
    BY <2>1, ListIs DEF InQueue
  <2>3. Entries(InQueue) = <<>>
    BY <2>2 DEF Entries
  <2>4. QED
    BY <2>3 DEF QueueInit, Fifo!Init, Entries
<1>2. QED
  BY <1>1, FifoStep, QueueInvariant, IdleInvariant, PTL DEF QueueSpec, ImplementsFifo, Fifo!Spec
==============================================================================
