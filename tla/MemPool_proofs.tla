---------------------------- MODULE MemPool_proofs ----------------------------
(* Two small libraries.  The pool of memorypool.cpp hands every cell out once, *)
(* whatever the sizes of its blocks (smaller than 2^16 bytes) and the order of *)
(* the calls.  From the section "The table of protocols" on: mydb's processes  *)
(* have every protocol under its number and their functions at the protocol of *)
(* their name, whatever is loaded and wherever loading fails.  From the        *)
(* section "The remote calls" on: what a process packs for the other arrives   *)
(* as it was packed.                                                           *)
EXTENDS MemPool, RemoteCalls, FiniteSetTheorems, SequenceTheorems, WellFoundedInduction, TLAPS

Sizes == {InitSize, GrowSize} \ {0}

(* The free cells of a block that MemBlock made. *)
LEMMA WayNew ==
  ASSUME NEW n \in Nat \ {0}, NEW junk \in Nat
  PROVE  /\ MemBlock(n, junk) \in Memory(n)
         /\ \E s \in [1..MemBlock(n, junk).free -> 1..(n - 1)] :
               IsWay(MemBlock(n, junk), 1..(n - 1), s)
<1> DEFINE m == MemBlock(n, junk)
           s == [i \in 1..(n - 1) |-> i]
<1>1. m \in Memory(n) /\ m.free = n - 1 /\ m.first = 1
  BY DEF MemBlock, Memory
<1>2. s \in [1..m.free -> 1..(n - 1)]
  BY <1>1
<1>3. \A i \in 1..(n - 2) : m.next[i] = i + 1
  BY DEF MemBlock
<1>4. IsWay(m, 1..(n - 1), s)
  <2> HIDE DEF m
  <2> QED BY <1>1, <1>2, <1>3 DEF IsWay
<1> QED BY <1>1, <1>2, <1>4

(* TakeFrom takes the first cell of the way, and the rest is one. *)
LEMMA WayTaken ==
  ASSUME NEW n \in Nat \ {0}, NEW m \in Memory(n), NEW F \in SUBSET (0..(n - 1)), m.free # 0,
         NEW s \in [1..m.free -> F], IsWay(m, F, s),
         NEW k, k = [m EXCEPT !.first = m.next[m.first], !.free = @ - 1]
  PROVE  /\ m.first \in F
         /\ k \in Memory(n)
         /\ \E t \in [1..k.free -> F \ {m.first}] : IsWay(k, F \ {m.first}, t)
<1> DEFINE t == [i \in 1..(m.free - 1) |-> s[i + 1]]
<1>1. m.free \in Nat \ {0} /\ 1 \in 1..m.free /\ s[1] = m.first /\ m.first \in F
  BY DEF Memory, IsWay
<1>2. k \in Memory(n) /\ k.free = m.free - 1 /\ k.first = m.next[m.first] /\ k.next = m.next
  <2>1. m \in [cnt : {n}, free : Nat, first : Nat, next : [0..(n - 1) -> Nat]]
    BY DEF Memory
  <2>2. m.next[m.first] \in Nat /\ m.free - 1 \in Nat
    BY <1>1, <2>1
  <2>3. k = [cnt |-> n, free |-> m.free - 1, first |-> m.next[m.first], next |-> m.next]
    BY <2>1
  <2> QED BY <2>1, <2>2, <2>3 DEF Memory
<1>3. \A i \in 1..k.free : i + 1 \in 1..m.free /\ s[i + 1] \in F /\ s[i + 1] # m.first
  <2> TAKE i \in 1..k.free
  <2>1. i + 1 \in 1..m.free /\ i + 1 # 1
    BY <1>1, <1>2
  <2>2. s[i + 1] # s[1]
    BY <1>1, <2>1 DEF IsWay
  <2> QED BY <1>1, <2>1, <2>2
<1>4. t \in [1..k.free -> F \ {m.first}] /\ \A i \in 1..k.free : t[i] = s[i + 1]
  BY <1>2, <1>3
<1> HIDE DEF t
<1>5. ASSUME NEW i \in 1..k.free, NEW j \in 1..k.free, t[i] = t[j] PROVE i = j
  <2>1. i + 1 \in 1..m.free /\ j + 1 \in 1..m.free /\ s[i + 1] = s[j + 1]
    BY <1>3, <1>4, <1>5
  <2>2. i + 1 = j + 1
    BY <2>1 DEF IsWay
  <2> QED BY <1>1, <1>2, <2>2
<1>6. \A x \in F \ {m.first} : \E i \in 1..k.free : t[i] = x
  <2> TAKE x \in F \ {m.first}
  <2>1. PICK i \in 1..m.free : s[i] = x
    BY DEF IsWay
  <2>2. i # 1 /\ i - 1 \in 1..k.free /\ i - 1 + 1 = i
    BY <1>1, <1>2, <2>1
  <2>3. t[i - 1] = x
    BY <1>4, <2>1, <2>2
  <2> QED BY <2>2, <2>3
<1>7. ASSUME NEW i \in 1..(m.free - 1) PROVE m.next[s[i]] = s[i + 1]
  BY DEF IsWay
<1>8. k.free > 0 => t[1] = k.first
  BY <1>1, <1>2, <1>4, <1>7
<1>9. ASSUME NEW i \in 1..(k.free - 1) PROVE k.next[t[i]] = t[i + 1]
  <2>1. i + 1 \in 1..(m.free - 1) /\ i \in 1..k.free /\ i + 1 \in 1..k.free
    BY <1>1, <1>2
  <2>2. \A j \in 1..k.free : t[j] = s[j + 1]
    BY <1>4
  <2> QED BY <1>2, <1>7, <2>1, <2>2
<1>10. IsWay(k, F \ {m.first}, t)
  BY <1>4, <1>5, <1>6, <1>8, <1>9 DEF IsWay
<1> QED BY <1>1, <1>2, <1>4, <1>10

(* The cell that is freed comes to the front of the way. *)
LEMMA WayGiven ==
  ASSUME NEW n \in Nat \ {0}, NEW m \in Memory(n), NEW F \in SUBSET (0..(n - 1)),
         NEW s \in [1..m.free -> F], IsWay(m, F, s), NEW x \in 0..(n - 1), x \notin F,
         NEW k, k = [m EXCEPT !.free = @ + 1, !.next[x] = m.first, !.first = x]
  PROVE  /\ k \in Memory(n) /\ k.free = m.free + 1
         /\ \E t \in [1..k.free -> F \union {x}] : IsWay(k, F \union {x}, t)
<1> DEFINE t == [i \in 1..(m.free + 1) |-> IF i = 1 THEN x ELSE s[i - 1]]
<1>1. m.free \in Nat /\ m.first \in Nat /\ m.next \in [0..(n - 1) -> Nat]
  BY DEF Memory
<1>2. /\ k \in Memory(n) /\ k.free = m.free + 1 /\ k.first = x
      /\ k.next = [m.next EXCEPT ![x] = m.first]
  <2>1. m \in [cnt : {n}, free : Nat, first : Nat, next : [0..(n - 1) -> Nat]]
    BY DEF Memory
  <2>2. [m.next EXCEPT ![x] = m.first] \in [0..(n - 1) -> Nat] /\ x \in Nat /\ m.free + 1 \in Nat
    BY <1>1
  <2>3. k = [cnt |-> n, free |-> m.free + 1, first |-> x, next |-> [m.next EXCEPT ![x] = m.first]]
    BY <2>1
  <2> QED BY <2>2, <2>3 DEF Memory
<1>3. \A i \in 1..k.free : i # 1 => i - 1 \in 1..m.free /\ s[i - 1] \in F /\ s[i - 1] # x
  BY <1>1, <1>2
<1>4. /\ t \in [1..k.free -> F \union {x}] /\ t[1] = x
      /\ \A i \in 1..k.free : i # 1 => t[i] = s[i - 1]
  BY <1>1, <1>2, <1>3
<1> HIDE DEF t
<1>5. ASSUME NEW i \in 1..k.free, NEW j \in 1..k.free, t[i] = t[j] PROVE i = j
  <2>1. CASE i = 1 \/ j = 1
    BY <1>3, <1>4, <1>5, <2>1
  <2>2. CASE i # 1 /\ j # 1
    <3>1. i - 1 \in 1..m.free /\ j - 1 \in 1..m.free /\ s[i - 1] = s[j - 1]
      BY <1>3, <1>4, <1>5, <2>2
    <3>2. i - 1 = j - 1
      BY <3>1 DEF IsWay
    <3> QED BY <1>1, <1>2, <3>2
  <2> QED BY <2>1, <2>2
<1>6. \A y \in F \union {x} : \E i \in 1..k.free : t[i] = y
  <2> TAKE y \in F \union {x}
  <2>1. CASE y = x
    <3>1. 1 \in 1..k.free
      BY <1>1, <1>2
    <3> QED BY <1>4, <2>1, <3>1
  <2>2. CASE y # x
    <3>1. PICK i \in 1..m.free : s[i] = y
      BY <2>2 DEF IsWay
    <3>2. i + 1 \in 1..k.free /\ i + 1 # 1 /\ i + 1 - 1 = i
      BY <1>1, <1>2, <3>1
    <3>3. t[i + 1] = y
      BY <1>4, <3>1, <3>2
    <3> QED BY <3>2, <3>3
  <2> QED BY <2>1, <2>2
<1>7. ASSUME NEW i \in 1..(m.free - 1) PROVE m.next[s[i]] = s[i + 1]
  BY DEF IsWay
<1>8. ASSUME NEW i \in 1..(k.free - 1) PROVE k.next[t[i]] = t[i + 1]
  <2>1. CASE i = 1
    <3>1. 2 \in 1..k.free /\ m.free > 0
      BY <1>1, <1>2, <2>1
    <3>2. t[1] = x /\ t[2] = s[2 - 1] /\ s[1] = m.first
      BY <1>4, <3>1 DEF IsWay
    <3> QED BY <1>1, <1>2, <2>1, <3>2
  <2>2. CASE i # 1
    <3>1. /\ i - 1 \in 1..(m.free - 1) /\ i \in 1..k.free /\ i + 1 \in 1..k.free
          /\ i + 1 # 1 /\ i + 1 - 1 = i - 1 + 1
      <4>1. k.free = m.free + 1 /\ m.free \in Nat /\ k.free - 1 = m.free
        BY <1>1, <1>2
      <4>2. i \in 1..m.free /\ i # 1 /\ k.free = m.free + 1
        BY <2>2, <4>1
      <4> QED BY <4>1, <4>2
    <3>2. t[i] = s[i - 1] /\ t[i + 1] = s[i - 1 + 1]
      BY <1>4, <2>2, <3>1
    <3>3. s[i - 1] \in 0..(n - 1) /\ s[i - 1] # x
      BY <1>1, <3>1
    <3> QED BY <1>1, <1>2, <1>7, <3>1, <3>2, <3>3
  <2> QED BY <2>1, <2>2
<1>9. IsWay(k, F \union {x}, t)
  BY <1>1, <1>2, <1>4, <1>5, <1>6, <1>8 DEF IsWay
<1> QED BY <1>2, <1>4, <1>9

(* A way through as many cells as the block has goes through all of them. *)
LEMMA AllFree ==
  ASSUME NEW n \in Nat \ {0}, NEW m \in Memory(n), NEW F \in SUBSET (0..(n - 1)),
         NEW s \in [1..m.free -> F], IsWay(m, F, s), m.free = n
  PROVE  F = 0..(n - 1)
<1>1. s \in Injection(1..n, 0..(n - 1))
  BY DEF IsWay, Injection, IsInjective
<1>2. /\ IsFiniteSet(1..n) /\ Cardinality(1..n) = n
      /\ IsFiniteSet(0..(n - 1)) /\ Cardinality(0..(n - 1)) = n
  BY FS_Interval
<1>3. s \in Surjection(1..n, 0..(n - 1))
  <2>1. Cardinality(1..n) = Cardinality(0..(n - 1))
    BY <1>2
  <2> QED BY <1>1, <1>2, <2>1, FS_Injection, Zenon
<1>4. ASSUME NEW x \in 0..(n - 1) PROVE x \in F
  <2>1. PICK i \in 1..n : s[i] = x
    BY <1>3 DEF Surjection
  <2> QED BY <2>1
<1> QED BY <1>4

(* The 16-bit size of a block is its size, so the test of freeMem is right. *)
LEMMA WholeTest ==
  ASSUME NEW n \in Sizes, NEW m \in Memory(n),
         (m.free + 1) * UnitSize = Size(m.cnt)
  PROVE  m.free + 1 = n
<1>1. n \in Nat \ {0} /\ n * UnitSize < UShort /\ UnitSize \in Nat \ {0} /\ UShort \in Nat
  BY PoolAssumption DEF Sizes
<1>2. n * UnitSize \in Nat
  BY <1>1
<1>3. ASSUME NEW a \in Nat, NEW b \in Nat, a < b PROVE a % b = a
  BY <1>3
<1>4. (n * UnitSize) % UShort = n * UnitSize
  BY <1>1, <1>2, <1>3
<1>5. (m.free + 1) * UnitSize = n * UnitSize /\ m.free \in Nat
  BY <1>4 DEF Size, Memory
<1>6. ASSUME NEW a \in Nat, NEW b \in Nat, NEW u \in Nat \ {0}, a * u = b * u PROVE a = b
  <2>1. (a - b) * u = 0
    BY <1>6
  <2>2. ASSUME NEW d \in Int, d * u = 0 PROVE d = 0
    BY <2>2
  <2> QED BY <2>1, <2>2
<1> QED BY <1>1, <1>5, <1>6
(* The block that the heap gives is nobody's: no cell of it is live. *)
LEMMA NewBlockSound ==
  ASSUME PoolSound, NEW n \in Sizes, NewBlock(n)
  PROVE  PoolSound' /\ ret' \notin live /\ ret' \in Block \X {0}
<1>1. PICK b \in Block \ (InChain \union lost), junk \in Garbage :
         /\ blocks' = [blocks EXCEPT ![b] = MemBlock(n, junk)]
         /\ chain' = <<b>> \o chain
         /\ Returns(<<b, 0>>)
         /\ lost' = lost
  BY DEF NewBlock
<1>2. n \in Nat \ {0} /\ junk \in Nat
  BY PoolAssumption DEF Sizes
<1>3. MemBlock(n, junk) \in Memory(n) /\ MemBlock(n, junk).cnt = n
  BY <1>2, WayNew DEF MemBlock
<1>4. PICK s \in [1..MemBlock(n, junk).free -> 1..(n - 1)] :
         IsWay(MemBlock(n, junk), 1..(n - 1), s)
  BY <1>2, WayNew
<1>5. /\ blocks'[b] = MemBlock(n, junk) /\ \A x \in Block : x # b => blocks'[x] = blocks[x]
      /\ live' = live \union {<<b, 0>>} /\ ret' = <<b, 0>>
  BY <1>1 DEF PoolSound, TypeOK, Returns
<1>6. /\ chain \in Seq(Block) /\ DOMAIN chain = 1..Len(chain) /\ DOMAIN chain' = 1..(Len(chain) + 1)
      /\ Len(chain) \in Nat /\ chain' \in Seq(Block)
      /\ \A i \in 1..(Len(chain) + 1) : chain'[i] = IF i = 1 THEN b ELSE chain[i - 1]
  BY <1>1 DEF PoolSound, TypeOK
<1>7. InChain' = InChain \union {b}
  <2>1. \A x \in InChain : x \in InChain'
    <3> TAKE x \in InChain
    <3>1. PICK i \in 1..Len(chain) : chain[i] = x
      BY <1>6 DEF InChain
    <3>2. i + 1 \in 1..(Len(chain) + 1) /\ i + 1 # 1 /\ i + 1 - 1 = i
      BY <1>6
    <3>3. chain'[i + 1] = x
      BY <1>6, <3>1, <3>2
    <3> QED BY <1>6, <3>2, <3>3 DEF InChain
  <2>2. b \in InChain'
    <3>1. 1 \in 1..(Len(chain) + 1)
      BY <1>6
    <3> QED BY <1>6, <3>1 DEF InChain
  <2>3. \A x \in InChain' : x \in InChain \union {b}
    <3> TAKE x \in InChain'
    <3>1. PICK i \in 1..(Len(chain) + 1) : chain'[i] = x
      BY <1>6 DEF InChain
    <3>2. i = 1 \/ i - 1 \in 1..Len(chain)
      BY <1>6
    <3> QED BY <1>6, <3>1, <3>2 DEF InChain
  <2> QED BY <2>1, <2>2, <2>3
<1>8. \A c \in live : c[1] # b
  BY <1>1 DEF PoolSound, LiveInside, InUse
<1>9. TypeOK'
  <2>1. blocks' \in [Block -> UNION {Memory(x) : x \in Sizes}]
    <3>1. MemBlock(n, junk) \in UNION {Memory(x) : x \in Sizes}
      BY <1>3
    <3> QED BY <1>1, <3>1 DEF PoolSound, TypeOK, Sizes
  <2>2. lost' \subseteq Block /\ live' \subseteq Block \X Nat
    BY <1>1, <1>5 DEF PoolSound, TypeOK
  <2> QED BY <1>6, <2>1, <2>2 DEF TypeOK, Sizes
<1>10. ChainSound'
  <2>1. ASSUME NEW i \in DOMAIN chain', NEW j \in DOMAIN chain', chain'[i] = chain'[j] PROVE i = j
    <3>1. CASE i = 1 \/ j = 1
      <4>1. ASSUME NEW x \in 1..(Len(chain) + 1), x # 1
            PROVE  x - 1 \in 1..Len(chain) /\ chain[x - 1] # b
        <5>1. x - 1 \in 1..Len(chain)
          BY <1>6, <4>1
        <5>2. chain[x - 1] \in InChain
          BY <1>6, <5>1 DEF InChain
        <5>3. b \notin InChain
          BY <1>1
        <5> QED BY <5>1, <5>2, <5>3
      <4> QED BY <1>6, <2>1, <3>1, <4>1
    <3>2. CASE i # 1 /\ j # 1
      <4>1. i - 1 \in 1..Len(chain) /\ j - 1 \in 1..Len(chain) /\ i \in Nat /\ j \in Nat
        BY <1>6, <3>2
      <4>2. chain[i - 1] = chain[j - 1]
        BY <1>6, <2>1, <3>2
      <4>3. i - 1 = j - 1
        BY <1>6, <4>1, <4>2 DEF PoolSound, ChainSound
      <4> QED BY <4>1, <4>3
    <3> QED BY <3>1, <3>2
  <2>2. (InChain \cap lost)' = {}
    BY <1>1, <1>7 DEF PoolSound, ChainSound
  <2> QED BY <2>1, <2>2 DEF ChainSound
<1>11. LiveInside'
  <2> SUFFICES ASSUME NEW c \in live' PROVE (c[1] \in InUse /\ c[2] \in CellNumbers(c[1]))'
    BY DEF LiveInside
  <2>1. CASE c \in live
    BY <1>1, <1>5, <1>7, <1>8, <2>1 DEF PoolSound, TypeOK, LiveInside, InUse, CellNumbers
  <2>2. CASE c = <<b, 0>>
    BY <1>2, <1>3, <1>5, <1>7, <2>2 DEF InUse, CellNumbers
  <2> QED BY <1>5, <2>1, <2>2
<1>12. FreeChains'
  <2> SUFFICES ASSUME NEW x \in InChain'
               PROVE  \E t \in [1..blocks'[x].free -> FreeCells(x)'] : IsWay(blocks'[x], FreeCells(x)', t)
    BY DEF FreeChains
  <2>1. CASE x = b
    <3>1. FreeCells(b)' = 1..(n - 1)
      BY <1>2, <1>3, <1>5, <1>8 DEF FreeCells, CellNumbers
    <3> QED BY <1>4, <1>5, <2>1, <3>1
  <2>2. CASE x # b
    <3>1. x \in InChain /\ x \in Block
      BY <1>6, <1>7, <2>2 DEF InChain
    <3>2. FreeCells(x)' = FreeCells(x) /\ blocks'[x] = blocks[x]
      BY <1>5, <2>2, <3>1 DEF FreeCells, CellNumbers
    <3> QED BY <3>1, <3>2 DEF PoolSound, FreeChains
  <2> QED BY <2>1, <2>2
<1>13. <<b, 0>> \notin live
  BY <1>8
<1> QED BY <1>5, <1>9, <1>10, <1>11, <1>12, <1>13 DEF PoolSound
(* What is known of a block of the list. *)
LEMMA BlockKnown ==
  ASSUME PoolSound, NEW b \in InChain
  PROVE  /\ b \in Block
         /\ \E n \in Sizes : blocks[b] \in Memory(n) /\ blocks[b].cnt = n
         /\ \E s \in [1..blocks[b].free -> FreeCells(b)] : IsWay(blocks[b], FreeCells(b), s)
<1>1. b \in Block
  BY DEF InChain, PoolSound, TypeOK
<1>2. PICK n \in Sizes : blocks[b] \in Memory(n)
  BY <1>1 DEF PoolSound, TypeOK, Sizes
<1>3. blocks[b].cnt = n
  BY <1>2 DEF Memory
<1> QED BY <1>1, <1>2, <1>3 DEF PoolSound, FreeChains

LEMMA TakeFromSound ==
  ASSUME PoolSound, NEW b \in InChain, blocks[b].free # 0, TakeFrom(b)
  PROVE  PoolSound' /\ ret' \notin live /\ ret' \in Block \X (0..(InitSize + GrowSize))
<1> DEFINE c == blocks[b].first
<1>1. PICK n \in Sizes : blocks[b] \in Memory(n) /\ blocks[b].cnt = n
  BY BlockKnown
<1>2. PICK s \in [1..blocks[b].free -> FreeCells(b)] : IsWay(blocks[b], FreeCells(b), s)
  BY BlockKnown
<1>3. b \in Block /\ n \in Nat \ {0} /\ InitSize \in Nat /\ GrowSize \in Nat
  BY BlockKnown, PoolAssumption DEF Sizes
<1>4. FreeCells(b) \in SUBSET (0..(n - 1))
  BY <1>1 DEF FreeCells, CellNumbers
<1>5. /\ blocks'[b] = [blocks[b] EXCEPT !.first = blocks[b].next[c], !.free = @ - 1]
      /\ \A x \in Block : x # b => blocks'[x] = blocks[x]
      /\ live' = live \union {<<b, c>>} /\ ret' = <<b, c>> /\ chain' = chain /\ lost' = lost
  BY <1>3 DEF TakeFrom, Taken, Returns, PoolSound, TypeOK
<1>6. /\ c \in FreeCells(b)
      /\ blocks'[b] \in Memory(n)
      /\ \E t \in [1..blocks'[b].free -> FreeCells(b) \ {c}] : IsWay(blocks'[b], FreeCells(b) \ {c}, t)
  BY <1>1, <1>2, <1>3, <1>4, <1>5, WayTaken
<1> HIDE DEF c
<1>7. c \in 0..(n - 1) /\ <<b, c>> \notin live /\ blocks'[b].cnt = n /\ InChain' = InChain
  <2>1. c \in 0..(n - 1) /\ <<b, c>> \notin live
    BY <1>4, <1>6 DEF FreeCells
  <2>2. blocks'[b].cnt = n
    BY <1>6 DEF Memory
  <2> QED BY <1>5, <2>1, <2>2 DEF InChain
<1>8. TypeOK'
  <2>1. blocks' \in [Block -> UNION {Memory(x) : x \in Sizes}]
    <3>1. blocks'[b] \in UNION {Memory(x) : x \in Sizes}
      BY <1>6
    <3>2. DOMAIN blocks' = Block /\ blocks' = [x \in Block |-> blocks'[x]]
      BY DEF TakeFrom, PoolSound, TypeOK
    <3>3. \A x \in Block : blocks'[x] \in UNION {Memory(y) : y \in Sizes}
      BY <1>5, <3>1 DEF PoolSound, TypeOK, Sizes
    <3> QED BY <3>2, <3>3
  <2>2. live' \subseteq Block \X Nat
    BY <1>3, <1>5, <1>7 DEF PoolSound, TypeOK
  <2> QED BY <1>5, <2>1, <2>2 DEF TypeOK, PoolSound, Sizes
<1>9. ChainSound'
  BY <1>5, <1>7 DEF PoolSound, ChainSound
<1>10. LiveInside'
  <2> SUFFICES ASSUME NEW d \in live' PROVE (d[1] \in InUse /\ d[2] \in CellNumbers(d[1]))'
    BY DEF LiveInside
  <2>1. CASE d \in live
    <3>1. d[1] \in Block /\ d[1] \in InUse /\ d[2] \in CellNumbers(d[1])
      BY <2>1 DEF PoolSound, TypeOK, LiveInside
    <3>2. blocks'[d[1]].cnt = blocks[d[1]].cnt
      BY <1>1, <1>5, <1>7, <3>1
    <3> QED BY <1>5, <1>7, <3>1, <3>2 DEF InUse, CellNumbers
  <2>2. CASE d = <<b, c>>
    BY <1>7, <2>2 DEF InUse, CellNumbers
  <2> QED BY <1>5, <2>1, <2>2
<1>11. FreeChains'
  <2> SUFFICES ASSUME NEW x \in InChain'
               PROVE  \E t \in [1..blocks'[x].free -> FreeCells(x)'] : IsWay(blocks'[x], FreeCells(x)', t)
    BY DEF FreeChains
  <2>1. CASE x = b
    <3>1. FreeCells(b)' = FreeCells(b) \ {c}
      BY <1>1, <1>5, <1>7 DEF FreeCells, CellNumbers
    <3> QED BY <1>6, <2>1, <3>1
  <2>2. CASE x # b
    <3>1. x \in InChain /\ x \in Block
      BY <1>7, BlockKnown
    <3>2. FreeCells(x)' = FreeCells(x) /\ blocks'[x] = blocks[x]
      BY <1>5, <2>2, <3>1 DEF FreeCells, CellNumbers
    <3> QED BY <3>1, <3>2 DEF PoolSound, FreeChains
  <2> QED BY <2>1, <2>2
<1>12. ret' \in Block \X (0..(InitSize + GrowSize))
  BY <1>3, <1>5, <1>7 DEF Sizes
<1> QED BY <1>5, <1>7, <1>8, <1>9, <1>10, <1>11, <1>12 DEF PoolSound

(* What allocMem returns lies in a block and is nobody's. *)
LEMMA AllocSound ==
  ASSUME PoolSound, allocMem
  PROVE  PoolSound' /\ ret' \notin live /\ ret' \in Block \X (0..(InitSize + GrowSize))
                    /\ live' = live \union {ret'}
<1>1. InitSize \in Sizes /\ InitSize \in Nat /\ GrowSize \in Nat
  BY PoolAssumption DEF Sizes
<1>2. ASSUME NEW n \in Sizes, NewBlock(n)
      PROVE  PoolSound' /\ ret' \notin live /\ ret' \in Block \X (0..(InitSize + GrowSize))
  BY <1>1, <1>2, NewBlockSound
<1>3. CASE chain = <<>> /\ NewBlock(InitSize)
  BY <1>1, <1>2, <1>3 DEF NewBlock, Returns
<1>4. CASE \E i \in DOMAIN chain : FirstFree(i) /\ TakeFrom(chain[i])
  <2>1. PICK i \in DOMAIN chain : FirstFree(i) /\ TakeFrom(chain[i])
    BY <1>4
  <2>2. chain[i] \in InChain /\ blocks[chain[i]].free # 0
    BY <2>1 DEF FirstFree, InChain
  <2> QED BY <2>1, <2>2, TakeFromSound DEF TakeFrom, Returns
<1>5. CASE GrowSize # 0 /\ NewBlock(GrowSize)
  <2>1. GrowSize \in Sizes
    BY <1>1, <1>5 DEF Sizes
  <2> QED BY <1>2, <1>5, <2>1 DEF NewBlock, Returns
<1> QED BY <1>3, <1>4, <1>5 DEF allocMem
(* Without(k) and ToFront(k) leave the other blocks, each once. *)
LEMMA WithoutKnown ==
  ASSUME TypeOK, ChainSound, NEW k \in DOMAIN chain, k # 1
  PROVE  /\ k \in 2..Len(chain) /\ Len(chain) \in Nat /\ DOMAIN chain = 1..Len(chain)
         /\ Without(k) \in Seq(Block) /\ DOMAIN Without(k) = 1..(Len(chain) - 1)
         /\ \A j \in 1..(Len(chain) - 1) :
               \/ j < k /\ Without(k)[j] = chain[j] /\ j \in 1..Len(chain)
               \/ j >= k /\ Without(k)[j] = chain[j + 1] /\ j + 1 \in 1..Len(chain)
<1>1. k \in 2..Len(chain) /\ Len(chain) \in Nat /\ DOMAIN chain = 1..Len(chain)
      /\ \A i \in 1..Len(chain) : chain[i] \in Block
  BY DEF TypeOK
<1>2. ASSUME NEW j \in 1..(Len(chain) - 1)
      PROVE  \/ j < k /\ Without(k)[j] = chain[j] /\ j \in 1..Len(chain)
             \/ j >= k /\ Without(k)[j] = chain[j + 1] /\ j + 1 \in 1..Len(chain)
  BY <1>1 DEF Without
<1>3. Len(chain) - 1 \in Nat /\ Without(k) \in [1..(Len(chain) - 1) -> Block]
  BY <1>1 DEF Without
<1>4. Without(k) \in Seq(Block) /\ DOMAIN Without(k) = 1..(Len(chain) - 1)
  BY <1>3
<1> QED BY <1>1, <1>2, <1>4

(* freeMem deletes a block: it was not lost, and is not in the list now. *)
LEMMA DeleteChain ==
  ASSUME TypeOK, ChainSound, NEW k \in DOMAIN chain, k # 1, chain' = Without(k), lost' = lost
  PROVE  chain' \in Seq(Block) /\ ChainSound' /\ InChain' = InChain \ {chain[k]}
<1>1. /\ k \in 2..Len(chain) /\ Len(chain) \in Nat /\ DOMAIN chain = 1..Len(chain)
      /\ chain' \in Seq(Block) /\ DOMAIN chain' = 1..(Len(chain) - 1)
      /\ \A j \in 1..(Len(chain) - 1) :
            \/ j < k /\ chain'[j] = chain[j] /\ j \in 1..Len(chain)
            \/ j >= k /\ chain'[j] = chain[j + 1] /\ j + 1 \in 1..Len(chain)
  BY WithoutKnown
<1>2. \A i, j \in 1..Len(chain) : chain[i] = chain[j] => i = j
  BY <1>1 DEF ChainSound
<1>3. ASSUME NEW i \in 1..(Len(chain) - 1), NEW j \in 1..(Len(chain) - 1), chain'[i] = chain'[j]
      PROVE  i = j
  BY <1>1, <1>2, <1>3
<1>4. \A x \in InChain' : x \in InChain /\ x # chain[k]
  BY <1>1, <1>2 DEF InChain
<1>5. ASSUME NEW x \in InChain, x # chain[k] PROVE x \in InChain'
  <2>1. PICK i \in 1..Len(chain) : chain[i] = x
    BY <1>1 DEF InChain
  <2>2. CASE i < k
    <3>1. i \in 1..(Len(chain) - 1) /\ chain'[i] = x
      BY <1>1, <2>1, <2>2
    <3> QED BY <1>1, <3>1 DEF InChain
  <2>3. CASE i > k
    <3>1. i - 1 \in 1..(Len(chain) - 1) /\ i - 1 >= k /\ i - 1 + 1 = i
      BY <1>1, <2>3
    <3>2. chain'[i - 1] = x
      BY <1>1, <2>1, <3>1
    <3> QED BY <1>1, <3>1, <3>2 DEF InChain
  <2> QED BY <1>1, <1>5, <2>1, <2>2, <2>3
<1>6. InChain' = InChain \ {chain[k]}
  BY <1>4, <1>5
<1> QED BY <1>1, <1>3, <1>6 DEF ChainSound

(* freeMem moves a block to the front: the block that was there is lost. *)
LEMMA ToFrontChain ==
  ASSUME TypeOK, ChainSound, NEW k \in DOMAIN chain, k # 1, ToFront(k)
  PROVE  chain' \in Seq(Block) /\ ChainSound' /\ InChain' \subseteq InChain
         /\ (InUse' = InUse)  /\ lost' \subseteq Block
<1>1. /\ k \in 2..Len(chain) /\ Len(chain) \in Nat /\ DOMAIN chain = 1..Len(chain)
      /\ Without(k) \in Seq(Block) /\ DOMAIN Without(k) = 1..(Len(chain) - 1)
      /\ \A j \in 1..(Len(chain) - 1) :
            \/ j < k /\ Without(k)[j] = chain[j] /\ j \in 1..Len(chain)
            \/ j >= k /\ Without(k)[j] = chain[j + 1] /\ j + 1 \in 1..Len(chain)
  BY WithoutKnown
<1>2. \A i \in 1..Len(chain) : chain[i] \in Block
  BY <1>1 DEF TypeOK
<1>3. /\ chain' \in Seq(Block) /\ DOMAIN chain' = 1..(Len(chain) - 1) /\ chain'[1] = chain[k]
      /\ \A j \in 2..(Len(chain) - 1) :
            \/ j < k /\ chain'[j] = chain[j] /\ j \in 1..Len(chain)
            \/ j >= k /\ chain'[j] = chain[j + 1] /\ j + 1 \in 1..Len(chain)
  <2>1. 1 \in 1..(Len(chain) - 1) /\ chain[k] \in Block
    BY <1>1, <1>2
  <2>2. /\ chain' \in Seq(Block) /\ DOMAIN chain' = 1..(Len(chain) - 1) /\ chain'[1] = chain[k]
        /\ \A j \in 2..(Len(chain) - 1) : chain'[j] = Without(k)[j]
    BY <1>1, <2>1 DEF ToFront
  <2>3. ASSUME NEW j \in 2..(Len(chain) - 1)
        PROVE  \/ j < k /\ chain'[j] = chain[j] /\ j \in 1..Len(chain)
               \/ j >= k /\ chain'[j] = chain[j + 1] /\ j + 1 \in 1..Len(chain)
    <3>1. j \in 1..(Len(chain) - 1)
      BY <1>1
    <3> QED BY <1>1, <2>2, <3>1
  <2> QED BY <2>2, <2>3
<1>4. \A i, j \in 1..Len(chain) : chain[i] = chain[j] => i = j
  BY <1>1 DEF ChainSound
<1>5. ASSUME NEW i \in 1..(Len(chain) - 1), NEW j \in 1..(Len(chain) - 1), chain'[i] = chain'[j]
      PROVE  i = j
  <2>1. CASE i = 1 \/ j = 1
    BY <1>1, <1>3, <1>4, <1>5, <2>1
  <2>2. CASE i # 1 /\ j # 1
    BY <1>1, <1>3, <1>4, <1>5, <2>2
  <2> QED BY <2>1, <2>2
<1>6. chain[1] \in InChain /\ chain[1] \in Block /\ lost' = lost \union {chain[1]}
  BY <1>1, <1>2 DEF InChain, ToFront
<1>7. \A x \in InChain' : x \in InChain /\ x # chain[1]
  <2> TAKE x \in InChain'
  <2>1. PICK j \in 1..(Len(chain) - 1) : chain'[j] = x
    BY <1>3 DEF InChain
  <2>2. CASE j = 1
    BY <1>1, <1>3, <1>4, <2>1, <2>2 DEF InChain
  <2>3. CASE j # 1
    <3>1. j \in 2..(Len(chain) - 1)
      BY <1>1, <2>3
    <3>2. PICK i \in 1..Len(chain) : i # 1 /\ chain[i] = x
      BY <1>1, <1>3, <2>1, <3>1
    <3>3. chain[i] # chain[1]
      BY <1>1, <1>4, <3>2
    <3> QED BY <1>1, <3>2, <3>3 DEF InChain
  <2> QED BY <2>2, <2>3
<1>8. ASSUME NEW x \in InChain, x # chain[1] PROVE x \in InChain'
  <2>1. PICK i \in 1..Len(chain) : chain[i] = x
    BY <1>1 DEF InChain
  <2>2. CASE i < k
    <3>1. i \in 2..(Len(chain) - 1) /\ chain'[i] = x
      BY <1>1, <1>3, <1>8, <2>1, <2>2
    <3> QED BY <1>3, <3>1 DEF InChain
  <2>3. CASE i > k
    <3>1. i - 1 \in 2..(Len(chain) - 1) /\ i - 1 >= k /\ i - 1 + 1 = i
      BY <1>1, <2>3
    <3>2. chain'[i - 1] = x
      BY <1>3, <2>1, <3>1
    <3>3. i - 1 \in DOMAIN chain'
      BY <1>1, <1>3, <3>1
    <3> QED BY <3>2, <3>3 DEF InChain
  <2>4. CASE i = k
    <3>1. 1 \in DOMAIN chain'
      BY <1>1, <1>3
    <3> QED BY <1>3, <2>1, <2>4, <3>1 DEF InChain
  <2> QED BY <1>1, <2>1, <2>2, <2>3, <2>4
<1>9. InChain' = InChain \ {chain[1]}
  BY <1>7, <1>8
<1>10. (InChain \cap lost)' = {}
  BY <1>6, <1>9 DEF ChainSound
<1>11. InUse' = InUse
  BY <1>6, <1>9 DEF InUse
<1>12. ChainSound'
  BY <1>3, <1>5, <1>10 DEF ChainSound
<1> QED BY <1>3, <1>6, <1>9, <1>11, <1>12 DEF TypeOK
(* The cell given back is free, and every way still leads through the free     *)
(* cells; a block that is deleted has no other cell in use.                    *)
LEMMA FreeSound ==
  ASSUME PoolSound, NEW b, NEW x, freeMem(b, x)
  PROVE  PoolSound'
<1>1. /\ b \in Block /\ x \in Nat /\ b \in InUse /\ x \in CellNumbers(b)
      /\ live' = live \ {<<b, x>>} /\ <<b, x>> \in live
  BY DEF freeMem, PoolSound, TypeOK, LiveInside
<1>2. TypeOK /\ ChainSound
  BY DEF PoolSound
<1>3. CASE b \notin InChain /\ UNCHANGED <<chain, blocks, lost>>
  <2>1. TypeOK' /\ ChainSound' /\ LiveInside' /\ InChain' = InChain
    BY <1>1, <1>2, <1>3 DEF TypeOK, ChainSound, PoolSound, LiveInside, InUse, InChain, CellNumbers
  <2>2. \A y \in InChain : FreeCells(y)' = FreeCells(y)
    BY <1>1, <1>3 DEF FreeCells, CellNumbers
  <2>3. FreeChains'
    BY <1>3, <2>1, <2>2 DEF PoolSound, FreeChains
  <2> QED BY <2>1, <2>3 DEF PoolSound
<1>4. ASSUME NEW k \in DOMAIN chain, chain[k] = b, blocks' = [blocks EXCEPT ![b] = Given(b, x)],
             \/ k = 1 /\ UNCHANGED <<chain, lost>>
             \/ k # 1 /\ Whole(b) /\ chain' = Without(k) /\ UNCHANGED lost
             \/ k # 1 /\ ~Whole(b) /\ ToFront(k)
      PROVE  PoolSound'
  <2>1. b \in InChain
    BY <1>4 DEF InChain
  <2>2. PICK n \in Sizes : blocks[b] \in Memory(n) /\ blocks[b].cnt = n
    BY <2>1, BlockKnown
  <2>3. PICK s \in [1..blocks[b].free -> FreeCells(b)] : IsWay(blocks[b], FreeCells(b), s)
    BY <2>1, BlockKnown
  <2>4. n \in Nat \ {0} /\ x \in 0..(n - 1) /\ FreeCells(b) \in SUBSET (0..(n - 1)) /\ x \notin FreeCells(b)
    BY <1>1, <2>2, PoolAssumption DEF Sizes, CellNumbers, FreeCells
  <2>5. /\ blocks'[b] = [blocks[b] EXCEPT !.free = @ + 1, !.next[x] = blocks[b].first, !.first = x]
        /\ \A y \in Block : y # b => blocks'[y] = blocks[y]
    BY <1>1, <1>2, <1>4 DEF Given, TypeOK
  <2>6. /\ blocks'[b] \in Memory(n) /\ blocks'[b].free = blocks[b].free + 1
        /\ \E t \in [1..blocks'[b].free -> FreeCells(b) \union {x}] :
              IsWay(blocks'[b], FreeCells(b) \union {x}, t)
    BY <2>2, <2>3, <2>4, <2>5, WayGiven
  <2>7. blocks'[b].cnt = n
    BY <2>6 DEF Memory
  <2>8. FreeCells(b)' = FreeCells(b) \union {x}
    BY <1>1, <2>2, <2>4, <2>7 DEF FreeCells, CellNumbers
  <2>9. ASSUME NEW y \in InChain
        PROVE  \E t \in [1..blocks'[y].free -> FreeCells(y)'] : IsWay(blocks'[y], FreeCells(y)', t)
    <3>1. CASE y = b
      BY <2>6, <2>8, <3>1
    <3>2. CASE y # b
      <4>1. FreeCells(y)' = FreeCells(y) /\ blocks'[y] = blocks[y]
        BY <1>1, <2>5, <2>9, <3>2, BlockKnown DEF FreeCells, CellNumbers
      <4> QED BY <2>9, <4>1, BlockKnown
    <3> QED BY <3>1, <3>2
  <2>10. blocks' \in [Block -> UNION {Memory(y) : y \in {InitSize, GrowSize} \ {0}}]
    <3>1. \A y \in Block : blocks'[y] \in UNION {Memory(z) : z \in {InitSize, GrowSize} \ {0}}
      BY <1>2, <2>5, <2>6 DEF TypeOK, Sizes
    <3>2. DOMAIN blocks' = Block /\ blocks' = [y \in Block |-> blocks'[y]]
      BY <1>2, <1>4 DEF TypeOK
    <3> QED BY <3>1, <3>2
  <2>11. live' \subseteq Block \X Nat
    BY <1>1, <1>2 DEF TypeOK
  <2>12. \A c \in live' : c \in live /\ c[1] \in Block /\ c[1] \in InUse /\ c[2] \in CellNumbers(c[1])'
    <3>1. \A y \in Block : blocks'[y].cnt = blocks[y].cnt
      BY <2>2, <2>5, <2>7
    <3> QED BY <1>1, <1>2, <3>1 DEF PoolSound, LiveInside, CellNumbers, TypeOK
  <2>13. CASE k = 1 /\ UNCHANGED <<chain, lost>>
    <3>1. InChain' = InChain /\ InUse' = InUse /\ ChainSound'
      BY <1>2, <2>13 DEF InChain, InUse, ChainSound
    <3>2. TypeOK'
      BY <1>2, <2>10, <2>11, <2>13 DEF TypeOK
    <3>3. LiveInside' /\ FreeChains'
      BY <2>9, <2>12, <3>1 DEF LiveInside, FreeChains
    <3> QED BY <3>1, <3>2, <3>3 DEF PoolSound
  <2>14. CASE k # 1 /\ Whole(b) /\ chain' = Without(k) /\ UNCHANGED lost
    <3>1. chain' \in Seq(Block) /\ ChainSound' /\ InChain' = InChain \ {b}
      BY <1>2, <1>4, <2>14, DeleteChain
    <3>2. blocks'[b].free = n
      BY <2>2, <2>6, <2>14, WholeTest DEF Whole
    <3>3. FreeCells(b)' = 0..(n - 1)
      <4>1. FreeCells(b)' \in SUBSET (0..(n - 1))
        BY <2>4, <2>8
      <4> QED BY <2>4, <2>6, <2>8, <3>2, <4>1, AllFree
    <3>4. \A c \in live' : c[1] # b
      <4> SUFFICES ASSUME NEW c \in live', c[1] = b PROVE FALSE
        OBVIOUS
      <4>1. c[2] \in 0..(n - 1) /\ c = <<b, c[2]>>
        BY <2>7, <2>11, <2>12 DEF CellNumbers
      <4>2. c[2] \in FreeCells(b)'
        BY <3>3, <4>1
      <4> QED BY <4>1, <4>2 DEF FreeCells
    <3>5. TypeOK'
      BY <1>2, <2>10, <2>11, <2>14, <3>1 DEF TypeOK
    <3>6. LiveInside'
      BY <2>12, <2>14, <3>1, <3>4 DEF LiveInside, InUse
    <3>7. FreeChains'
      BY <2>9, <3>1 DEF FreeChains
    <3> QED BY <3>1, <3>5, <3>6, <3>7 DEF PoolSound
  <2>15. CASE k # 1 /\ ToFront(k)
    <3>1. /\ chain' \in Seq(Block) /\ ChainSound' /\ InChain' \subseteq InChain
          /\ InUse' = InUse /\ lost' \subseteq Block
      BY <1>2, <1>4, <2>15, ToFrontChain
    <3>2. TypeOK'
      BY <2>10, <2>11, <3>1 DEF TypeOK
    <3>3. LiveInside' /\ FreeChains'
      BY <2>9, <2>12, <3>1 DEF LiveInside, FreeChains
    <3> QED BY <3>1, <3>2, <3>3 DEF PoolSound
  <2> QED BY <1>4, <2>13, <2>14, <2>15
<1> QED BY <1>3, <1>4 DEF freeMem

-------------------------------------------------------------------------------
(* The list of blocks, the ways through their free cells and the cells of the  *)
(* program stay sound, for every number of blocks and every size (allocMem and *)
(* freeMem of memorypool.cpp).                                                 *)
THEOREM PoolStaysSound == Spec => []PoolSound
<1>1. Init => PoolSound
  <2> SUFFICES ASSUME Init PROVE PoolSound
    OBVIOUS
  <2>1. PICK junk \in Garbage : blocks = [b \in Block |-> MemBlock(InitSize, junk)]
    BY DEF Init
  <2>2. InitSize \in Nat \ {0} /\ InitSize \in Sizes /\ junk \in Nat
    BY PoolAssumption DEF Sizes
  <2>3. MemBlock(InitSize, junk) \in UNION {Memory(n) : n \in Sizes}
    BY <2>2, WayNew
  <2>4. TypeOK
    BY <2>1, <2>3 DEF Init, TypeOK, Sizes
  <2>5. InChain = {}
    BY DEF Init, InChain
  <2> QED BY <2>4, <2>5 DEF Init, PoolSound, ChainSound, LiveInside, FreeChains
<1>2. PoolSound /\ [Next]_vars => PoolSound'
  <2> SUFFICES ASSUME PoolSound, [Next]_vars PROVE PoolSound'
    OBVIOUS
  <2>1. CASE allocMem
    BY <2>1, AllocSound
  <2>2. CASE \E c \in live : freeMem(c[1], c[2])
    BY <2>2, FreeSound
  <2>3. CASE UNCHANGED vars
    <3>1. chain' = chain /\ blocks' = blocks /\ lost' = lost /\ live' = live
      BY <2>3 DEF vars
    <3>2. TypeOK'
      BY <3>1 DEF PoolSound, TypeOK
    <3>3. ChainSound' /\ InChain' = InChain
      BY <3>1 DEF PoolSound, ChainSound, InChain
    <3>4. LiveInside'
      BY <3>1, <3>3 DEF PoolSound, LiveInside, InUse, CellNumbers
    <3>5. FreeChains'
      BY <3>1, <3>3 DEF PoolSound, FreeChains, FreeCells, CellNumbers
    <3> QED BY <3>2, <3>3, <3>4, <3>5 DEF PoolSound
  <2> QED BY <2>1, <2>2, <2>3 DEF Next
<1> QED BY <1>1, <1>2, PTL DEF Spec

(* The pool implements an allocator: no cell is handed out twice.              *)
THEOREM PoolImplementsAllocator == Spec => ImplementsAllocator
<1>1. Init => Abstract!Init
  BY DEF Init, Abstract!Init
<1>2. PoolSound /\ [Next]_vars => [Abstract!Next]_<<live, ret>>
  <2> SUFFICES ASSUME PoolSound, [Next]_vars PROVE [Abstract!Next]_<<live, ret>>
    OBVIOUS
  <2>1. CASE allocMem
    BY <2>1, AllocSound DEF Abstract!Next, Abstract!Alloc
  <2>2. ASSUME NEW c \in live, freeMem(c[1], c[2]) PROVE Abstract!Next
    <3>1. PICK n \in Sizes : c[1] \in Block /\ c[2] \in 0..(n - 1) /\ c = <<c[1], c[2]>>
      BY DEF PoolSound, TypeOK, LiveInside, CellNumbers, Memory, Sizes
    <3>2. c \in Block \X (0..(InitSize + GrowSize))
      BY <3>1, PoolAssumption DEF Sizes
    <3> QED BY <2>2, <3>1, <3>2 DEF Abstract!Next, Abstract!Free, freeMem
  <2>3. CASE UNCHANGED vars
    BY <2>3 DEF vars
  <2> QED BY <2>1, <2>2, <2>3 DEF Next
<1> QED BY <1>1, <1>2, PoolStaysSound, PTL DEF Spec, ImplementsAllocator, Abstract!Spec

-------------------------------------------------------------------------------
(* The table of protocols (ProtoSlots).  For one process: o its objects, s its  *)
(* slots, d what it deleted and c the functions of its scripts.                 *)
IsSeq(s) == \E T : s \in Seq(T)

(* A function packs for an object that failed half way, for the one in the slot *)
(* of its number, or the slot has another protocol by now.                      *)
Owned(o, s, n, k) ==
  o[k].whole => LET id == o[k].id
                IN  /\ id \in Nat /\ id + 1 \in DOMAIN s
                    /\ s[id + 1] = k \/ o[s[id + 1]].name # n \/ o[s[id + 1]].maker

InSlot(o, d, k, i) ==
  k \in 1 .. Len(o) /\ k \notin d /\ o[k].id = i - 1 /\ (i > 1 => o[k].whole)

Table(o, s, d, c) ==
  /\ IsSeq(o) /\ s \in Seq(Nat) /\ IsInjective(s)
  /\ \A i \in DOMAIN s : InSlot(o, d, s[i], i)
  /\ d \subseteq 1 .. Len(o)
  /\ c \in [FuncNames -> Nat]
  /\ \A n \in FuncNames : c[n] <= Len(o) /\ (c[n] # 0 => Owned(o, s, n, c[n]))

Tabled(p) == Table(objs[p], slots[p], freed[p], forCaller[p])

SlotsInv ==
  /\ objs = [p \in Peers |-> objs[p]] /\ slots = [p \in Peers |-> slots[p]]
  /\ freed = [p \in Peers |-> freed[p]] /\ forCaller = [p \in Peers |-> forCaller[p]]
  /\ \A p \in Peers : Tabled(p)

LEMMA ObjectAdded ==
  ASSUME NEW o, IsSeq(o), NEW x
  PROVE  /\ IsSeq(Append(o, x)) /\ Len(o) \in Nat /\ Len(Append(o, x)) = Len(o) + 1
         /\ Append(o, x)[Len(o) + 1] = x
         /\ \A k \in 1 .. Len(o) : Append(o, x)[k] = o[k]
  <1>1. PICK T : o \in Seq(T)
    BY DEF IsSeq
  <1>2. o \in Seq(T \union {x}) /\ x \in T \union {x}
    BY <1>1
  <1>3. Append(o, x) \in Seq(T \union {x})
    BY <1>2
  <1>4. QED
    BY <1>2, <1>3 DEF IsSeq

(* How a load ends, and when it binds a function.                               *)
LEMMA LoadFacts ==
  ASSUME NEW p, NEW f, NEW list, NEW l, l = load(p, f, list)
  PROVE  /\ l.bound \in BOOLEAN
         /\ l.res = "ok" => (l.bound <=> f.side # p)
  BY DEF load

(* The objects after a load that is kept or not, and the functions after one    *)
(* that binds n or not.                                                         *)
WithNew(o, x, kept) == IF kept THEN Append(o, x) ELSE o
Bind(c, n, k, bound) == IF bound THEN [c EXCEPT ![n] = k] ELSE c

(* A load that failed takes no slot.  (update_protocol deletes the new object   *)
(* when it is bound.)                                                           *)
LEMMA FailedLoad ==
  ASSUME NEW o, NEW s, NEW d, NEW c, Table(o, s, d, c),
         NEW x, ~x.whole, NEW n \in FuncNames, NEW bound \in BOOLEAN,
         NEW e, e \subseteq {Len(o) + 1}, e # {} => bound
  PROVE  Table(WithNew(o, x, bound), s, d \union e, Bind(c, n, Len(o) + 1, bound))
  <1>1. CASE ~bound
    <2>1. d \union e = d
      BY <1>1
    <2>2. QED
      BY <1>1, <2>1 DEF WithNew, Bind
  <1>2. CASE bound
    <2> DEFINE len == Len(o)
               o2 == Append(o, x)
               c2 == [c EXCEPT ![n] = len + 1]
               d2 == d \union e
    <2>1. /\ IsSeq(o2) /\ len \in Nat /\ Len(o2) = len + 1 /\ o2[len + 1] = x
          /\ \A k \in 1 .. len : o2[k] = o[k]
      BY ObjectAdded DEF Table
    <2>2. c2 \in [FuncNames -> Nat] /\ c2[n] = len + 1 /\ \A m \in FuncNames \ {n} : c2[m] = c[m]
      BY <2>1 DEF Table
    <2>3. d \subseteq 1 .. len /\ d2 \subseteq 1 .. (len + 1)
      BY <2>1 DEF Table
    <2> HIDE DEF o2, c2
    <2>4. ASSUME NEW i \in DOMAIN s
          PROVE  InSlot(o2, d2, s[i], i)
      <3>1. InSlot(o, d, s[i], i)
        BY DEF Table
      <3>2. s[i] \in 1 .. len /\ s[i] \notin d2
        BY <2>1, <3>1 DEF InSlot
      <3>3. QED
        BY <2>1, <3>1, <3>2 DEF InSlot
    <2>5. ASSUME NEW m \in FuncNames
          PROVE  c2[m] <= len + 1 /\ (c2[m] # 0 => Owned(o2, s, m, c2[m]))
      <3>1. CASE m = n
        BY <2>1, <2>2, <3>1 DEF Owned
      <3>2. CASE m # n
        <4>1. c2[m] = c[m] /\ c[m] \in Nat /\ c[m] <= len
          BY <2>2, <3>2 DEF Table
        <4>2. ASSUME c[m] # 0
              PROVE  Owned(o2, s, m, c[m])
          <5>1. Owned(o, s, m, c[m])
            BY <4>2 DEF Table
          <5>2. o2[c[m]] = o[c[m]]
            BY <2>1, <4>1, <4>2
          <5>3. \A i \in DOMAIN s : o2[s[i]] = o[s[i]]
            BY <2>1 DEF Table, InSlot
          <5>4. QED
            BY <5>1, <5>2, <5>3 DEF Owned
        <4>3. QED
          BY <2>1, <4>1, <4>2
      <3>3. QED
        BY <3>1, <3>2
    <2>6. Table(o2, s, d2, c2)
      BY <2>1, <2>2, <2>3, <2>4, <2>5 DEF Table
    <2>7. QED
      BY <1>2, <2>6 DEF WithNew, Bind, o2, c2
  <1>3. QED
    BY <1>1, <1>2

(* s2 has object k in slot j, x is what belongs there, and what was there may   *)
(* be deleted.                                                                  *)
InPlace(s, k, j, s2) ==
  /\ j \in 1 .. (Len(s) + 1) /\ s2 \in Seq(Nat) /\ DOMAIN s2 = DOMAIN s \union {j} /\ s2[j] = k
  /\ \A i \in DOMAIN s \ {j} : s2[i] = s[i]
Good(x, j, n, bound) == x.whole /\ x.id = j - 1 /\ x.name = n /\ (x.maker <=> ~bound)
Dropped(s, d, j) == d \union (IF j \in DOMAIN s THEN {s[j]} ELSE {})

(* A load that succeeded puts its object x in slot j, which is new or whose     *)
(* object is deleted.  Only functions of another name, or those of a protocol   *)
(* that this process implements now, still point to what was there.             *)
LEMMA WholeLoad ==
  ASSUME NEW o, NEW s, NEW d, NEW c, Table(o, s, d, c),
         NEW x, NEW n \in FuncNames, NEW bound \in BOOLEAN, NEW j, Good(x, j, n, bound),
         NEW s2, InPlace(s, Len(o) + 1, j, s2), NEW d2, d2 \subseteq Dropped(s, d, j)
  PROVE  Table(Append(o, x), s2, d2, Bind(c, n, Len(o) + 1, bound))
  <1> DEFINE len == Len(o)
             new == len + 1
             o2 == Append(o, x)
             c2 == Bind(c, n, new, bound)
  <1> USE DEF Good, InPlace, Dropped
  <1>1. /\ IsSeq(o2) /\ len \in Nat /\ new \in Nat /\ Len(o2) = new /\ o2[new] = x
        /\ \A k \in 1 .. len : o2[k] = o[k]
    BY ObjectAdded DEF Table
  <1>2. Len(s) \in Nat /\ DOMAIN s = 1 .. Len(s) /\ j \in Nat /\ j > 0
    BY DEF Table
  <1>3. ASSUME NEW i \in DOMAIN s
        PROVE  s[i] \in 1 .. len /\ InSlot(o, d, s[i], i)
    BY <1>3, <1>1 DEF Table, InSlot
  <1>4. /\ c2 \in [FuncNames -> Nat]
        /\ bound => c2[n] = new
        /\ \A m \in FuncNames : ~(bound /\ m = n) => c2[m] = c[m]
    BY <1>1 DEF Table, Bind
  <1>5. d2 \subseteq 1 .. len
    BY <1>1, <1>3 DEF Table
  <1> HIDE DEF o2, c2, new
  <1>6. ~(new \in 1 .. len)
    BY <1>1 DEF new
  <1>7. IsInjective(s2)
    <2>1. SUFFICES ASSUME NEW a \in DOMAIN s2, NEW b \in DOMAIN s2, s2[a] = s2[b]
                   PROVE  a = b
      BY DEF IsInjective
    <2>2. ASSUME NEW i \in DOMAIN s2, i # j
          PROVE  i \in DOMAIN s /\ s2[i] = s[i] /\ s2[i] # new
      BY <2>2, <1>3, <1>6
    <2>3. s2[j] = new
      BY DEF new
    <2>4. CASE a = j \/ b = j
      BY <2>1, <2>2, <2>3, <2>4
    <2>5. CASE a # j /\ b # j
      <3>1. s[a] = s[b] /\ a \in DOMAIN s /\ b \in DOMAIN s
        BY <2>1, <2>2, <2>5
      <3>2. QED
        BY <3>1 DEF Table, IsInjective
    <2>6. QED
      BY <2>4, <2>5
  <1>8. ASSUME NEW i \in DOMAIN s2
        PROVE  InSlot(o2, d2, s2[i], i)
    <2>1. CASE i = j
      <3>1. s2[i] = new /\ new \in 1 .. Len(o2)
        BY <1>1, <2>1 DEF new
      <3>2. new \notin d2
        BY <1>5, <1>6
      <3>3. QED
        BY <1>1, <2>1, <3>1, <3>2 DEF InSlot
    <2>2. CASE i # j
      <3>1. i \in DOMAIN s /\ s2[i] = s[i]
        BY <2>2
      <3>2. s[i] \in 1 .. len /\ InSlot(o, d, s[i], i) /\ o2[s[i]] = o[s[i]]
        BY <1>1, <1>3, <3>1
      <3>3. s[i] \notin d2
        <4>1. j \in DOMAIN s => s[i] # s[j]
          BY <2>2, <3>1 DEF Table, IsInjective
        <4>2. QED
          BY <3>2, <4>1 DEF InSlot
      <3>4. s[i] \in 1 .. new
        BY <1>1, <3>2 DEF new
      <3>5. QED
        BY <1>1, <3>1, <3>2, <3>3, <3>4 DEF InSlot
    <2>3. QED
      BY <2>1, <2>2
  <1>9. ASSUME NEW m \in FuncNames
        PROVE  c2[m] <= new /\ (c2[m] # 0 => Owned(o2, s2, m, c2[m]))
    <2>1. CASE bound /\ m = n
      <3>1. c2[m] = new /\ o2[new] = x
        BY <1>1, <1>4, <2>1
      <3>2. j - 1 \in Nat /\ j - 1 + 1 = j /\ j \in DOMAIN s2 /\ s2[j] = new
        BY <1>2 DEF new
      <3>3. Owned(o2, s2, m, new)
        BY <3>1, <3>2 DEF Owned
      <3>4. QED
        BY <1>1, <3>1, <3>3
    <2>2. CASE ~(bound /\ m = n)
      <3>1. c2[m] = c[m] /\ c[m] \in Nat /\ c[m] <= len
        BY <1>4, <2>2 DEF Table
      <3>2. c[m] <= new
        BY <1>1, <3>1 DEF new
      <3>3. ASSUME c[m] # 0, o2[c[m]].whole
            PROVE  LET id == o2[c[m]].id
                   IN  /\ id \in Nat /\ id + 1 \in DOMAIN s2
                       /\ s2[id + 1] = c[m] \/ o2[s2[id + 1]].name # m \/ o2[s2[id + 1]].maker
        <4> DEFINE id == o[c[m]].id
        <4>1. o2[c[m]] = o[c[m]]
          BY <1>1, <3>1, <3>3
        <4>2. Owned(o, s, m, c[m])
          BY <3>3 DEF Table
        <4>3. /\ id \in Nat /\ id + 1 \in DOMAIN s
              /\ s[id + 1] = c[m] \/ o[s[id + 1]].name # m \/ o[s[id + 1]].maker
          BY <3>3, <4>1, <4>2 DEF Owned
        <4> HIDE DEF id
        <4>4. CASE id + 1 = j
          <5>1. o2[s2[id + 1]] = x
            BY <1>1, <4>4 DEF new
          <5>2. x.name # m \/ x.maker
            BY <2>2
          <5>3. QED
            BY <4>1, <4>3, <5>1, <5>2 DEF id
        <4>5. CASE id + 1 # j
          <5>1. s2[id + 1] = s[id + 1] /\ o2[s[id + 1]] = o[s[id + 1]]
            BY <1>1, <1>3, <4>3, <4>5
          <5>2. QED
            BY <4>1, <4>3, <5>1 DEF id
        <4>6. QED
          BY <4>4, <4>5
      <3>4. c[m] # 0 => Owned(o2, s2, m, c[m])
        BY <3>3 DEF Owned
      <3>5. QED
        BY <3>1, <3>2, <3>4
    <2>3. QED
      BY <2>1, <2>2
  <1>10. d2 \subseteq 1 .. Len(o2)
    BY <1>1, <1>5 DEF new
  <1>11. Table(o2, s2, d2, c2)
    BY <1>1, <1>4, <1>7, <1>8, <1>9, <1>10 DEF Table
  <1>12. QED
    BY <1>11 DEF o2, c2, new

(* What Load does to the process, and that the other one is left alone.         *)
LEMMA LoadsOne ==
  ASSUME SlotsInv, NEW p \in Peers, NEW f \in Files, NEW id, NEW l, Load(p, f, id, l),
         NEW sp, slots' = [slots EXCEPT ![p] = sp], NEW dp, freed' = [freed EXCEPT ![p] = dp],
         Table(WithNew(objs[p], Loaded(p, f, id, l), Kept(l)), sp, dp,
               Bind(forCaller[p], f.func, Len(objs[p]) + 1, l.bound))
  PROVE  SlotsInv'
  <1> DEFINE op == WithNew(objs[p], Loaded(p, f, id, l), Kept(l))
             cp == Bind(forCaller[p], f.func, Len(objs[p]) + 1, l.bound)
  <1>1. objs' = [objs EXCEPT ![p] = op]
    BY DEF Load, WithNew
  <1>2. forCaller' = [forCaller EXCEPT ![p] = cp]
    <2>1. CASE l.bound
      <3>1. forCaller' = [forCaller EXCEPT ![p][f.func] = Len(objs[p]) + 1]
        BY <2>1 DEF Load
      <3>2. QED
        BY <2>1, <3>1 DEF Bind
    <2>2. CASE ~l.bound
      <3>1. forCaller' = forCaller /\ cp = forCaller[p]
        BY <2>2 DEF Load, Bind
      <3> HIDE DEF cp
      <3>2. forCaller = [q \in Peers |-> forCaller[q]]
        BY DEF SlotsInv
      <3>3. QED
        BY <3>1, <3>2
    <2>3. QED
      BY <2>1, <2>2
  <1>3. Table(op, sp, dp, cp)
    OBVIOUS
  <1> HIDE DEF op, cp
  <1>4. objs'[p] = op /\ slots'[p] = sp /\ freed'[p] = dp /\ forCaller'[p] = cp
    BY <1>1, <1>2 DEF SlotsInv
  <1>5. ASSUME NEW q \in Peers, q # p
        PROVE  objs'[q] = objs[q] /\ slots'[q] = slots[q] /\ freed'[q] = freed[q] /\ forCaller'[q] = forCaller[q]
    BY <1>1, <1>2, <1>5 DEF SlotsInv
  <1>6. ASSUME NEW q \in Peers
        PROVE  Table(objs'[q], slots'[q], freed'[q], forCaller'[q])
    <2>1. CASE q = p
      BY <1>3, <1>4, <2>1
    <2>2. CASE q # p
      BY <1>5, <2>2 DEF SlotsInv, Tabled
    <2>3. QED
      BY <2>1, <2>2
  <1>7. /\ objs' = [q \in Peers |-> objs'[q]] /\ slots' = [q \in Peers |-> slots'[q]]
        /\ freed' = [q \in Peers |-> freed'[q]] /\ forCaller' = [q \in Peers |-> forCaller'[q]]
    BY <1>1, <1>2 DEF SlotsInv
  <1>8. ASSUME NEW q \in Peers PROVE Tabled(q)'
    BY <1>6 DEF Tabled, Table
  <1>9. QED
    BY <1>7, <1>8 DEF SlotsInv

LEMMA AddSlots ==
  ASSUME SlotsInv, NEW p \in Peers, NEW f \in Files, NEW list, add_protocol(p, f, list)
  PROVE  SlotsInv'
  <1> DEFINE l == load(p, f, list)
             o == objs[p]
             s == slots[p]
             d == freed[p]
             c == forCaller[p]
             id == Len(s)
             x == Loaded(p, f, id, l)
  <1>1. l.bound \in BOOLEAN /\ (l.res = "ok" => (l.bound <=> f.side # p))
    BY LoadFacts
  <1>2. Table(o, s, d, c) /\ f.func \in FuncNames
    BY DEF SlotsInv, Tabled, FuncNames
  <1>3. Load(p, f, id, l)
    BY DEF add_protocol
  <1>4. freed' = [freed EXCEPT ![p] = d]
    BY DEF add_protocol, SlotsInv
  <1>5. /\ x.whole <=> l.res = "ok"
        /\ x.id = id /\ x.name = f.func /\ (x.maker <=> f.side = p)
    BY DEF Loaded
  <1>6. slots' = IF l.res = "ok" THEN [slots EXCEPT ![p] = Append(s, Len(o) + 1)] ELSE slots
    BY DEF add_protocol
  <1>7. Len(o) + 1 \in Nat /\ s \in Seq(Nat) /\ Len(s) \in Nat
    <2>1. Len(o) \in Nat
      BY <1>2, ObjectAdded DEF Table
    <2>2. QED
      BY <1>2, <2>1 DEF Table
  <1> HIDE DEF l, x, o, s, d, c
  <1>8. CASE l.res = "ok"
    <2> DEFINE s2 == Append(s, Len(o) + 1)
               j == id + 1
    <2>1. InPlace(s, Len(o) + 1, j, s2)
      BY <1>7 DEF InPlace
    <2>2. Good(x, j, f.func, l.bound)
      <3>1. j - 1 = id
        BY <1>7
      <3>2. QED
        BY <1>1, <1>5, <1>8, <3>1 DEF Good
    <2>3. d \subseteq Dropped(s, d, j)
      BY DEF Dropped
    <2> HIDE DEF s2, j
    <2>4. Table(Append(o, x), s2, d, Bind(c, f.func, Len(o) + 1, l.bound))
      BY <1>1, <1>2, <2>1, <2>2, <2>3, WholeLoad
    <2>5. slots' = [slots EXCEPT ![p] = s2]
      BY <1>6, <1>8 DEF s2
    <2>6. Append(o, x) = WithNew(o, x, Kept(l))
      BY <1>8 DEF WithNew, Kept
    <2>7. QED
      BY <1>3, <1>4, <2>4, <2>5, <2>6, LoadsOne DEF o, d, c, x
  <1>9. CASE l.res # "ok"
    <2>1. Kept(l) = l.bound
      BY <1>1, <1>9 DEF Kept
    <2>2. Table(WithNew(o, x, l.bound), s, d \union {}, Bind(c, f.func, Len(o) + 1, l.bound))
      BY <1>1, <1>2, <1>5, <1>9, FailedLoad
    <2>3. slots' = [slots EXCEPT ![p] = s] /\ d \union {} = d
      BY <1>6, <1>9 DEF SlotsInv, s
    <2>4. QED
      BY <1>3, <1>4, <2>1, <2>2, <2>3, LoadsOne DEF o, d, c, x
  <1>10. QED
    BY <1>8, <1>9

LEMMA UpdateSlots ==
  ASSUME SlotsInv, NEW p \in Peers, NEW f \in Files, NEW list, NEW id \in Nat,
         update_protocol(p, id, f, list)
  PROVE  SlotsInv'
  <1> DEFINE l == load(p, f, list)
             o == objs[p]
             s == slots[p]
             d == freed[p]
             c == forCaller[p]
             new == Len(o) + 1
             x == Loaded(p, f, id, l)
  <1>1. l.bound \in BOOLEAN /\ (l.res = "ok" => (l.bound <=> f.side # p))
    BY LoadFacts
  <1>2. Table(o, s, d, c) /\ f.func \in FuncNames
    BY DEF SlotsInv, Tabled, FuncNames
  <1>3. Load(p, f, id, l) /\ id < Len(s)
    BY DEF update_protocol
  <1>4. \/ /\ l.res = "ok"
           /\ slots' = [slots EXCEPT ![p][id + 1] = new]
           /\ freed' = [freed EXCEPT ![p] = d \union {s[id + 1]}]
        \/ /\ l.res # "ok" /\ l.bound
           /\ slots' = slots /\ freed' = [freed EXCEPT ![p] = d \union {new}]
        \/ l.res # "ok" /\ slots' = slots /\ freed' = freed
    BY DEF update_protocol
  <1>5. /\ x.whole <=> l.res = "ok"
        /\ x.id = id /\ x.name = f.func /\ (x.maker <=> f.side = p)
    BY DEF Loaded
  <1>6. new \in Nat /\ s \in Seq(Nat) /\ Len(s) \in Nat
    <2>1. Len(o) \in Nat
      BY <1>2, ObjectAdded DEF Table
    <2>2. QED
      BY <1>2, <2>1 DEF Table
  <1>7. slots = [slots EXCEPT ![p] = s] /\ freed = [freed EXCEPT ![p] = d]
    BY DEF SlotsInv
  <1>8. [slots EXCEPT ![p][id + 1] = new] = [slots EXCEPT ![p] = [s EXCEPT ![id + 1] = new]]
    OBVIOUS
  <1> HIDE DEF l, x, o, s, d, c, new
  <1>9. CASE l.res = "ok"
    <2> DEFINE s2 == [s EXCEPT ![id + 1] = new]
               j == id + 1
    <2>1. j \in DOMAIN s /\ j \in 1 .. (Len(s) + 1) /\ j - 1 = id
      BY <1>3, <1>6
    <2>2. /\ s2 \in Seq(Nat) /\ DOMAIN s2 = DOMAIN s \union {j} /\ s2[j] = new
          /\ \A i \in DOMAIN s \ {j} : s2[i] = s[i]
      <3> HIDE DEF j
      <3>1. s2 = [s EXCEPT ![j] = new]
        BY DEF j
      <3>2. j \in DOMAIN s /\ new \in Nat /\ s \in Seq(Nat)
        BY <1>6, <2>1
      <3> HIDE DEF s2
      <3>3. s2 \in Seq(Nat)
        BY <3>1, <3>2
      <3>4. DOMAIN s2 = DOMAIN s /\ s2[j] = new /\ \A i \in DOMAIN s \ {j} : s2[i] = s[i]
        BY <3>1, <3>2
      <3>5. QED
        BY <3>2, <3>3, <3>4
    <2>3. slots' = [slots EXCEPT ![p] = s2] /\ freed' = [freed EXCEPT ![p] = d \union {s[j]}]
      BY <1>4, <1>8, <1>9
    <2> HIDE DEF s2, j
    <2>4. d \union {s[j]} \subseteq Dropped(s, d, j)
      BY <2>1 DEF Dropped
    <2>5. Table(Append(o, x), s2, d \union {s[j]}, Bind(c, f.func, Len(o) + 1, l.bound))
      <3>1. InPlace(s, Len(o) + 1, j, s2)
        BY <2>1, <2>2 DEF InPlace, new
      <3>2. Good(x, j, f.func, l.bound)
        BY <1>1, <1>5, <1>9, <2>1 DEF Good
      <3>3. QED
        BY <1>1, <1>2, <2>4, <3>1, <3>2, WholeLoad
    <2>6. Append(o, x) = WithNew(o, x, Kept(l))
      BY <1>9 DEF WithNew, Kept
    <2> DEFINE d2 == d \union {s[j]}
    <2>7. Table(WithNew(objs[p], Loaded(p, f, id, l), Kept(l)), s2, d2,
                Bind(forCaller[p], f.func, Len(objs[p]) + 1, l.bound))
      BY <2>5, <2>6 DEF o, c, x
    <2>8. slots' = [slots EXCEPT ![p] = s2] /\ freed' = [freed EXCEPT ![p] = d2]
      BY <2>3
    <2> HIDE DEF d2
    <2>9. QED
      BY <1>3, <2>7, <2>8, LoadsOne
  <1>10. CASE l.res # "ok"
    <2>1. PICK e : /\ e \subseteq {new} /\ (e # {} => l.bound)
                   /\ freed' = [freed EXCEPT ![p] = d \union e]
      <3>1. CASE freed' = [freed EXCEPT ![p] = d \union {new}] /\ l.bound
        BY <3>1
      <3>2. CASE freed' = freed
        <4>1. freed' = [freed EXCEPT ![p] = d \union {}]
          BY <1>7, <3>2
        <4>2. QED
          BY <4>1
      <3>3. QED
        BY <1>4, <1>10, <3>1, <3>2
    <2>2. Kept(l) = l.bound
      BY <1>1, <1>10 DEF Kept
    <2>3. Table(WithNew(o, x, l.bound), s, d \union e, Bind(c, f.func, Len(o) + 1, l.bound))
      BY <1>1, <1>2, <1>5, <1>10, <2>1, FailedLoad DEF new
    <2>4. slots' = [slots EXCEPT ![p] = s]
      BY <1>4, <1>7, <1>10
    <2>5. QED
      BY <1>3, <2>1, <2>2, <2>3, <2>4, LoadsOne DEF o, d, c, x
  <1>11. QED
    BY <1>9, <1>10

LEMMA SlotsStart ==
  ASSUME SlotsInit
  PROVE  SlotsInv
  <1> DEFINE o == <<net_protocol(0)>>
             s == <<1>>
             c == [n \in FuncNames |-> 0]
  <1>1. o \in Seq({net_protocol(0)}) /\ Len(o) = 1 /\ o[1] = net_protocol(0)
    OBVIOUS
  <1>2. s \in Seq(Nat) /\ DOMAIN s = {1} /\ s[1] = 1
    OBVIOUS
  <1>3. o[1].id = 0
    BY <1>1 DEF net_protocol
  <1> HIDE DEF o, s
  <1>4. IsInjective(s)
    BY <1>2 DEF IsInjective
  <1>5. \A i \in DOMAIN s : InSlot(o, {}, s[i], i)
    BY <1>1, <1>2, <1>3 DEF InSlot
  <1>6. Table(o, s, {}, c)
    BY <1>1, <1>2, <1>4, <1>5 DEF Table, IsSeq
  <1>7. ASSUME NEW p \in Peers PROVE Tabled(p)
    BY <1>6 DEF SlotsInit, Tabled, o, s
  <1>8. QED
    BY <1>7 DEF SlotsInit, SlotsInv

LEMMA SlotsStep ==
  ASSUME SlotsInv, [SlotsNext]_slotVars
  PROVE  SlotsInv'
  <1>1. CASE SlotsNext
    <2>1. PICK p \in Peers, f \in Files : \E list :
            \/ add_protocol(p, f, list)
            \/ \E id \in Nat : update_protocol(p, id, f, list)
      BY <1>1 DEF SlotsNext
    <2>2. PICK list : \/ add_protocol(p, f, list)
                      \/ \E id \in Nat : update_protocol(p, id, f, list)
      BY <2>1
    <2>3. QED
      BY <2>2, AddSlots, UpdateSlots
  <1>2. CASE UNCHANGED slotVars
    BY <1>2 DEF slotVars, SlotsInv, Tabled, Table
  <1>3. QED
    BY <1>1, <1>2

(* Every slot holds the protocol of its number, loaded to the end and not       *)
(* deleted, whatever is loaded in whatever order, wherever loading fails, and   *)
(* whatever is read of the arguments.                                           *)
THEOREM SlotsCorrect == SlotsSpec => []SlotsSound
  <1>1. SlotsInit => SlotsInv
    BY SlotsStart
  <1>2. SlotsInv /\ [SlotsNext]_slotVars => SlotsInv'
    BY SlotsStep
  <1>3. SlotsInv => SlotsSound
    <2>1. ASSUME SlotsInv, NEW p \in Peers, NEW n \in FuncNames
          PROVE  forCaller[p][n] \in 0 .. Len(objs[p])
      <3>1. Len(objs[p]) \in Nat
        BY <2>1, ObjectAdded DEF SlotsInv, Tabled, Table
      <3>2. QED
        BY <2>1, <3>1 DEF SlotsInv, Tabled, Table
    <2>2. QED
      BY <2>1 DEF SlotsInv, Tabled, Table, InSlot, SlotsSound
  <1>4. QED
    BY <1>1, <1>2, <1>3, PTL DEF SlotsSpec

(* A function of the scripts packs for the protocol in the slot of its number,  *)
(* but for the two ways in which it is orphaned: its last load failed behind    *)
(* the binding, or its slot was given to another protocol.                      *)
THEOREM CallsCorrect == SlotsSpec => []CallsOwned
  <1>1. SlotsInit => SlotsInv
    BY SlotsStart
  <1>2. SlotsInv /\ [SlotsNext]_slotVars => SlotsInv'
    BY SlotsStep
  <1>3. SlotsInv => CallsOwned
    <2>1. ASSUME SlotsInv, NEW p \in Peers, NEW n \in FuncNames, forCaller[p][n] # 0
          PROVE  Owned(objs[p], slots[p], n, forCaller[p][n])
      BY <2>1 DEF SlotsInv, Tabled, Table
    <2>2. QED
      BY <2>1 DEF CallsOwned, Owned
  <1>4. QED
    BY <1>1, <1>2, <1>3, PTL DEF SlotsSpec

-------------------------------------------------------------------------------
(* The remote calls of RemoteCalls.                                             *)

(* A set of numbers has a least one.                                            *)
LEMMA LeastElement ==
  ASSUME NEW T, T \subseteq Nat, T # {}
  PROVE  \E x \in T : \A y \in T : x <= y
  <1>1. IsWellFoundedOn(OpToRel(<, Nat), Nat)
    BY NatLessThanWellFounded
  <1>2. PICK x \in T : \A y \in T : ~(<<y, x>> \in OpToRel(<, Nat))
    BY <1>1, WFMin
  <1>3. \A y \in T : ~(y < x)
    BY <1>2 DEF OpToRel
  <1>4. QED
    BY <1>3

(* Induction up to n.                                                           *)
LEMMA Upward ==
  ASSUME NEW n \in Nat, NEW T, 0 \in T, \A i \in 1 .. n : i - 1 \in T => i \in T
  PROVE  \A i \in 0 .. n : i \in T
  <1> DEFINE Bad == {i \in 0 .. n : i \notin T}
  <1>1. SUFFICES ASSUME Bad # {} PROVE FALSE
    OBVIOUS
  <1>2. PICK x \in Bad : \A y \in Bad : x <= y
    <2>1. Bad \subseteq Nat
      OBVIOUS
    <2> HIDE DEF Bad
    <2>2. QED
      BY <1>1, <2>1, LeastElement
  <1>3. x \in 0 .. n /\ x # 0 /\ x \notin T
    BY <1>2
  <1>4. x \in 1 .. n /\ x - 1 \in 0 .. n /\ ~(x <= x - 1)
    BY <1>3
  <1>5. x - 1 \in T
    BY <1>2, <1>4
  <1>6. QED
    BY <1>3, <1>4, <1>5

(* A recursive function on 0 .. n exists when its steps stay in a set.          *)
Solves(f, n, b, step) == \A i \in 0 .. n : f[i] = IF i = 0 THEN b ELSE step[<<f[i - 1], i>>]

LEMMA Recursion ==
  ASSUME NEW n \in Nat, NEW S, NEW b \in S, NEW step \in [S \X (1 .. n) -> S]
  PROVE  \E f \in [0 .. n -> S] : Solves(f, n, b, step)
  <1> DEFINE T == {k \in 0 .. n : \E f \in [0 .. k -> S] : Solves(f, k, b, step)}
  <1>1. 0 \in T
    <2> DEFINE f == [i \in 0 .. 0 |-> b]
    <2>1. f \in [0 .. 0 -> S] /\ Solves(f, 0, b, step)
      BY DEF Solves
    <2> HIDE DEF f
    <2>2. 0 \in 0 .. n
      OBVIOUS
    <2>3. QED
      BY <2>1, <2>2
  <1>2. ASSUME NEW k \in 1 .. n, k - 1 \in T PROVE k \in T
    <2>1. PICK f \in [0 .. k - 1 -> S] : Solves(f, k - 1, b, step)
      BY <1>2
    <2> DEFINE x == step[<<f[k - 1], k>>]
               g == [i \in 0 .. k |-> IF i < k THEN f[i] ELSE x]
    <2>2. x \in S
      BY <2>1
    <2> HIDE DEF x
    <2>3. g \in [0 .. k -> S]
      BY <2>1, <2>2
    <2>4. ASSUME NEW i \in 0 .. k
          PROVE  g[i] = IF i = 0 THEN b ELSE step[<<g[i - 1], i>>]
      <3>1. CASE i = k
        <4>1. g[k] = x /\ g[k - 1] = f[k - 1] /\ k # 0
          OBVIOUS
        <4>2. QED
          BY <3>1, <4>1 DEF x
      <3>2. CASE i # k
        <4>1. i \in 0 .. k - 1 /\ g[i] = f[i] /\ (i # 0 => g[i - 1] = f[i - 1])
          BY <3>2
        <4>2. f[i] = IF i = 0 THEN b ELSE step[<<f[i - 1], i>>]
          BY <2>1, <4>1 DEF Solves
        <4>3. QED
          BY <4>1, <4>2
      <3>3. QED
        BY <3>1, <3>2
    <2>5. Solves(g, k, b, step)
      BY <2>4 DEF Solves
    <2> HIDE DEF g
    <2>6. QED
      BY <2>3, <2>5
  <1> HIDE DEF T
  <1>3. n \in T
    BY <1>1, <1>2, Upward
  <1>4. QED
    BY <1>3 DEF T

(* The buffer after so many arguments.                                          *)
LEMMA MarshalledGrows ==
  ASSUME NEW self, NEW vals, Len(self.args) \in Nat, IdBytes(self.id) \in Seq(Bytes),
         \A i \in 1 .. Len(self.args) : PackArg(self.args[i], vals[i]) \in Seq(Bytes),
         NEW m, m = Marshalled(self, vals)
  PROVE  /\ m[0] = IdBytes(self.id)
         /\ \A i \in 1 .. Len(self.args) : m[i] = m[i - 1] \o PackArg(self.args[i], vals[i])
         /\ \A i \in 0 .. Len(self.args) : m[i] \in Seq(Bytes)
  <1> DEFINE n == Len(self.args)
             S == Seq(Bytes)
             part == [i \in 1 .. n |-> PackArg(self.args[i], vals[i])]
             Eq(f) == f = [i \in 0 .. n |-> IF i = 0 THEN IdBytes(self.id)
                                            ELSE f[i - 1] \o PackArg(self.args[i], vals[i])]
             step == [x \in S \X (1 .. n) |-> x[1] \o part[x[2]]]
  <1>1. step \in [S \X (1 .. n) -> S]
    <2>1. ASSUME NEW x \in S \X (1 .. n) PROVE x[1] \o part[x[2]] \in S
      <3>1. x[1] \in Seq(Bytes) /\ part[x[2]] \in Seq(Bytes)
        OBVIOUS
      <3> HIDE DEF part
      <3>2. QED
        BY <3>1
    <2>2. QED
      BY <2>1
  <1>2. n \in Nat /\ IdBytes(self.id) \in S
    OBVIOUS
  <1>3. PICK f \in [0 .. n -> S] :
          \A i \in 0 .. n : f[i] = IF i = 0 THEN IdBytes(self.id) ELSE step[<<f[i - 1], i>>]
    <2> DEFINE b == IdBytes(self.id)
    <2>1. b \in S
      BY <1>2
    <2> HIDE DEF step, S, n, b
    <2>2. \E f \in [0 .. n -> S] : Solves(f, n, b, step)
      BY <1>1, <1>2, <2>1, Recursion
    <2>3. QED
      BY <2>2 DEF b, Solves
  <1>4. \A x \in S, i \in 1 .. n : step[<<x, i>>] = x \o PackArg(self.args[i], vals[i])
    OBVIOUS
  <1> HIDE DEF step, part
  <1>5. Eq(f)
    <2>1. ASSUME NEW i \in 0 .. n
          PROVE  f[i] = IF i = 0 THEN IdBytes(self.id) ELSE f[i - 1] \o PackArg(self.args[i], vals[i])
      <3>1. i # 0 => i - 1 \in 0 .. n /\ i \in 1 .. n
        BY <1>2
      <3> HIDE DEF n, S
      <3>2. i # 0 => f[i - 1] \in S
        BY <3>1
      <3>3. QED
        BY <1>3, <1>4, <3>1, <3>2
    <2>2. QED
      BY <2>1
  <1>6. m = CHOOSE g : Eq(g)
    BY DEF Marshalled
  <1>7. Eq(m)
    <2> HIDE DEF Eq
    <2>1. QED
      BY <1>5, <1>6
  <1>8. ASSUME NEW i \in 0 .. n
        PROVE  m[i] = IF i = 0 THEN IdBytes(self.id) ELSE m[i - 1] \o PackArg(self.args[i], vals[i])
    BY <1>7
  <1> HIDE DEF Eq
  <1>9. \A i \in 1 .. n : i \in 0 .. n /\ i # 0
    BY <1>2
  <1>10. \A i \in 1 .. n : m[i] = m[i - 1] \o PackArg(self.args[i], vals[i])
    BY <1>8, <1>9
  <1>11. m[0] = IdBytes(self.id)
    BY <1>2, <1>8
  <1> DEFINE T == {i \in 0 .. n : m[i] \in S}
  <1>12. 0 \in T /\ \A i \in 1 .. n : i - 1 \in T => i \in T
    <2>1. ASSUME NEW i \in 1 .. n, m[i - 1] \in Seq(Bytes) PROVE m[i] \in Seq(Bytes)
      <3>1. PackArg(self.args[i], vals[i]) \in Seq(Bytes) /\ m[i] = m[i - 1] \o PackArg(self.args[i], vals[i])
        BY <1>10
      <3>2. QED
        BY <2>1, <3>1
    <2>2. QED
      BY <1>2, <1>9, <1>11, <2>1
  <1>13. \A i \in 0 .. n : i \in T
    <2> HIDE DEF T
    <2>1. QED
      BY <1>2, <1>12, Upward
  <1>14. QED
    BY <1>10, <1>11, <1>13

(* What a division leaves room for.                                             *)
LEMMA Division ==
  ASSUME NEW a \in Nat, NEW b \in Nat \ {0}
  PROVE  a \div b \in Nat /\ b * (a \div b) <= a
  OBVIOUS

(* The receivers are reachable, and their list fits behind the packet.          *)
LEMMA ReceiversFit ==
  ASSUME NEW dest \in Dests, NEW used \in Nat, used <= MAXTONETD,
         NEW r, r = Recipients(dest, used)
  PROVE  /\ r \in Seq(Int) /\ \A j \in DOMAIN r : r[j] > VFD_NULL
         /\ used + (IF dest.multi THEN VfdSize * Len(r) ELSE 0) <= MAXTONETD
  <1> DEFINE room == IF dest.multi THEN (MAXTONETD - used) \div VfdSize ELSE 1
             n == Len(dest.vfds)
             S == {s \in Seq(Int) : Len(s) <= room /\ \A j \in 1 .. Len(s) : s[j] > VFD_NULL}
             next(s, i) == IF dest.vfds[i] > VFD_NULL /\ Len(s) < room THEN Append(s, dest.vfds[i]) ELSE s
             Eq(f) == f = [i \in 0 .. n |-> IF i = 0 THEN <<>> ELSE next(f[i - 1], i)]
             step == [x \in S \X (1 .. n) |-> next(x[1], x[2])]
  <1>1. room \in Nat /\ (dest.multi => VfdSize * room <= MAXTONETD - used)
    <2>1. MAXTONETD - used \in Nat /\ VfdSize \in Nat \ {0}
      BY RoomAssumption
    <2>2. QED
      BY <2>1, Division
  <1>2. n \in Nat /\ \A i \in 1 .. n : dest.vfds[i] \in Int
    BY RoomAssumption
  <1> HIDE DEF room
  <1>3. ASSUME NEW s \in S, NEW i \in 1 .. n PROVE next(s, i) \in S
    <2>1. CASE dest.vfds[i] > VFD_NULL /\ Len(s) < room
      <3> DEFINE t == Append(s, dest.vfds[i])
      <3>1. s \in Seq(Int) /\ dest.vfds[i] \in Int /\ Len(s) \in Nat
        BY <1>2
      <3>2. t \in Seq(Int) /\ Len(t) = Len(s) + 1
        BY <3>1
      <3>3. ASSUME NEW j \in 1 .. Len(s) + 1 PROVE t[j] > VFD_NULL
        BY <2>1, <3>1, <3>3
      <3> HIDE DEF t
      <3>4. t \in S
        BY <1>1, <2>1, <3>1, <3>2, <3>3
      <3>5. QED
        BY <2>1, <3>4 DEF t
    <2>2. CASE ~(dest.vfds[i] > VFD_NULL /\ Len(s) < room)
      BY <2>2
    <2>3. QED
      BY <2>1, <2>2
  <1>4. <<>> \in S
    BY <1>1
  <1> HIDE DEF S, next, n
  <1>5. step \in [S \X (1 .. n) -> S] /\ \A s \in S, i \in 1 .. n : step[<<s, i>>] = next(s, i)
    BY <1>3
  <1> HIDE DEF step
  <1>6. PICK f \in [0 .. n -> S] : Solves(f, n, <<>>, step)
    <2> DEFINE b == <<>>
    <2>1. b \in S
      BY <1>4
    <2> HIDE DEF b
    <2>2. \E f \in [0 .. n -> S] : Solves(f, n, b, step)
      BY <1>2, <1>5, <2>1, Recursion
    <2>3. QED
      BY <2>2 DEF b
  <1>7. Eq(f)
    <2>1. ASSUME NEW i \in 0 .. n PROVE f[i] = IF i = 0 THEN <<>> ELSE next(f[i - 1], i)
      <3>1. i # 0 => i - 1 \in 0 .. n /\ i \in 1 .. n
        BY <1>2
      <3>2. i # 0 => f[i - 1] \in S
        BY <3>1
      <3>3. f[i] = IF i = 0 THEN <<>> ELSE step[<<f[i - 1], i>>]
        BY <1>6 DEF Solves
      <3>4. QED
        BY <1>5, <3>1, <3>2, <3>3
    <2>2. QED
      BY <2>1
  <1> DEFINE g == CHOOSE h : Eq(h)
  <1>8. r = g[n]
    BY DEF Recipients, n, next, room
  <1>9. Eq(g)
    <2> HIDE DEF Eq
    <2>1. QED
      BY <1>7
  <1> HIDE DEF g
  <1>10. ASSUME NEW i \in 0 .. n PROVE g[i] = IF i = 0 THEN <<>> ELSE next(g[i - 1], i)
    BY <1>9
  <1> DEFINE T == {i \in 0 .. n : g[i] \in S}
  <1>11. 0 \in T /\ \A i \in 1 .. n : i - 1 \in T => i \in T
    <2>1. 0 \in 0 .. n /\ \A i \in 1 .. n : i \in 0 .. n /\ i # 0
      BY <1>2
    <2>2. ASSUME NEW i \in 1 .. n, i - 1 \in T PROVE i \in T
      BY <1>3, <1>10, <2>1, <2>2
    <2>3. QED
      BY <1>4, <1>10, <2>1, <2>2
  <1> HIDE DEF T
  <1>12. n \in T
    <2>1. \A i \in 0 .. n : i \in T
      BY <1>2, <1>11, Upward
    <2>2. QED
      BY <1>2, <2>1
  <1>13. r \in S
    BY <1>8, <1>12 DEF T
  <1>14. r \in Seq(Int) /\ Len(r) \in Nat /\ Len(r) <= room /\ \A j \in DOMAIN r : r[j] > VFD_NULL
    BY <1>13 DEF S
  <1>15. dest.multi => VfdSize * Len(r) <= VfdSize * room
    <2>1. ASSUME NEW a \in Nat, NEW b \in Nat, NEW c \in Nat, a <= b PROVE c * a <= c * b
      BY <2>1
    <2>2. QED
      BY <1>1, <1>14, <2>1, RoomAssumption
  <1>16. VfdSize * Len(r) \in Nat /\ VfdSize * room \in Nat
    BY <1>1, <1>14, RoomAssumption
  <1>17. used + (IF dest.multi THEN VfdSize * Len(r) ELSE 0) <= MAXTONETD
    <2> DEFINE a == VfdSize * Len(r)
               c == VfdSize * room
    <2>1. a \in Nat /\ c \in Nat /\ (dest.multi => a <= c /\ c <= MAXTONETD - used) /\ MAXTONETD \in Nat
      BY <1>1, <1>15, <1>16, RoomAssumption
    <2> HIDE DEF a, c
    <2>2. used + (IF dest.multi THEN a ELSE 0) <= MAXTONETD
      BY <2>1
    <2>3. QED
      BY <2>2 DEF a
  <1>18. QED
    BY <1>14, <1>17

(* What the script passes: a value for each argument.                           *)
LEMMA InputsFit ==
  ASSUME NEW A, NEW args \in Seq(A), NEW vals \in Inputs(args)
  PROVE  \A i \in 1 .. Len(args) : vals[i] \in ValuesOf(args[i])
  <1> DEFINE n == Len(args)
             V == UNION {ValuesOf(args[i]) : i \in 1 .. n}
             S == SUBSET Seq(V)
             next(L, i) == {Append(w, v) : w \in L, v \in ValuesOf(args[i])}
             Eq(f) == f = [i \in 0 .. n |-> IF i = 0 THEN {<<>>} ELSE next(f[i - 1], i)]
             step == [x \in S \X (1 .. n) |-> next(x[1], x[2])]
  <1>1. n \in Nat
    OBVIOUS
  <1>2. ASSUME NEW i \in 1 .. n PROVE ValuesOf(args[i]) \subseteq V
    OBVIOUS
  <1> HIDE DEF V
  <1>3. ASSUME NEW L \in S, NEW i \in 1 .. n PROVE next(L, i) \in S
    <2>1. ASSUME NEW w \in L, NEW v \in ValuesOf(args[i]) PROVE Append(w, v) \in Seq(V)
      <3>1. w \in Seq(V) /\ v \in V
        BY <1>2
      <3>2. QED
        BY <3>1
    <2>2. QED
      BY <2>1
  <1> DEFINE b == {<<>>}
  <1>4. b \in S
    OBVIOUS
  <1> HIDE DEF S, next, n, b
  <1>5. step \in [S \X (1 .. n) -> S] /\ \A L \in S, i \in 1 .. n : step[<<L, i>>] = next(L, i)
    BY <1>3
  <1> HIDE DEF step
  <1>6. PICK f \in [0 .. n -> S] : Solves(f, n, b, step)
    BY <1>1, <1>4, <1>5, Recursion
  <1>7. Eq(f)
    <2>1. ASSUME NEW i \in 0 .. n PROVE f[i] = IF i = 0 THEN b ELSE next(f[i - 1], i)
      <3>1. i # 0 => i - 1 \in 0 .. n /\ i \in 1 .. n
        BY <1>1
      <3>2. i # 0 => f[i - 1] \in S
        BY <3>1
      <3>3. f[i] = IF i = 0 THEN b ELSE step[<<f[i - 1], i>>]
        BY <1>6 DEF Solves
      <3>4. QED
        BY <1>5, <3>1, <3>2, <3>3
    <2>2. QED
      BY <2>1 DEF b
  <1> DEFINE g == CHOOSE h : Eq(h)
  <1>8. Inputs(args) = g[n]
    BY DEF Inputs, n, next
  <1>9. Eq(g)
    <2> HIDE DEF Eq
    <2>1. QED
      BY <1>7
  <1> HIDE DEF g
  <1>10. ASSUME NEW i \in 0 .. n PROVE g[i] = IF i = 0 THEN b ELSE next(g[i - 1], i)
    BY <1>9 DEF b
  <1> HIDE DEF Eq
  <1> DEFINE Fit(L, i) == \A w \in L : w \in Seq(V) /\ Len(w) = i /\ \A j \in 1 .. i : w[j] \in ValuesOf(args[j])
             T == {i \in 0 .. n : Fit(g[i], i)}
  <1>11. ASSUME NEW i \in 1 .. n, Fit(g[i - 1], i - 1) PROVE Fit(g[i], i)
    <2>1. g[i] = next(g[i - 1], i)
      BY <1>1, <1>10
    <2>2. SUFFICES ASSUME NEW x \in g[i - 1], NEW v \in ValuesOf(args[i])
                   PROVE  /\ Append(x, v) \in Seq(V) /\ Len(Append(x, v)) = i
                          /\ \A j \in 1 .. i : Append(x, v)[j] \in ValuesOf(args[j])
      <3>1. ASSUME NEW w \in g[i]
            PROVE  \E x \in g[i - 1], v \in ValuesOf(args[i]) : w = Append(x, v)
        BY <2>1 DEF next
      <3> HIDE DEF n
      <3>2. QED
        BY <3>1
    <2>3. /\ x \in Seq(V) /\ Len(x) = i - 1 /\ v \in V
          /\ \A j \in 1 .. i - 1 : x[j] \in ValuesOf(args[j])
      BY <1>2, <1>11
    <2>4. ASSUME NEW j \in 1 .. i PROVE Append(x, v)[j] = IF j = i THEN v ELSE x[j]
      BY <1>1, <2>3
    <2>5. ASSUME NEW j \in 1 .. i PROVE Append(x, v)[j] \in ValuesOf(args[j])
      <3>1. j # i => j \in 1 .. i - 1
        BY <1>1
      <3>2. QED
        BY <2>3, <2>4, <3>1
    <2>6. QED
      BY <1>1, <2>3, <2>5
  <1>12. Fit(g[0], 0) /\ 0 \in 0 .. n
    <2>1. 0 \in 0 .. n
      BY <1>1
    <2>2. g[0] = {<<>>}
      BY <1>10, <2>1 DEF b
    <2>3. <<>> \in Seq(V) /\ Len(<<>>) = 0 /\ 1 .. 0 = {}
      OBVIOUS
    <2>4. Fit({<<>>}, 0)
      BY <2>3
    <2>5. QED
      BY <2>1, <2>2, <2>4
  <1> HIDE DEF Fit
  <1>13. 0 \in T /\ \A i \in 1 .. n : i - 1 \in T => i \in T
    <2>1. \A i \in 1 .. n : i \in 0 .. n
      BY <1>1
    <2>2. QED
      BY <1>11, <1>12, <2>1
  <1> HIDE DEF T
  <1>14. n \in T
    <2>1. \A i \in 0 .. n : i \in T
      BY <1>1, <1>13, Upward
    <2>2. QED
      BY <1>1, <2>1
  <1>15. QED
    BY <1>8, <1>14 DEF T, Fit, n

(* What is asked of the formats, for every list of types and whatever follows.  *)
Agree(A) == FormatsAgree(A, Seq(A), Seq(Bytes))

(* Bytes one after another.                                                     *)
LEMMA Associate ==
  ASSUME NEW a \in Seq(Bytes), NEW b \in Seq(Bytes), NEW c \in Seq(Bytes)
  PROVE  (a \o b) \o c = a \o (b \o c)
  BY ConcatAssociative

(* Rest skips exactly what came first.                                          *)
LEMMA RestFacts ==
  ASSUME NEW a \in Seq(Bytes), NEW b \in Seq(Bytes)
  PROVE  /\ a \o b \in Seq(Bytes) /\ Len(a \o b) = Len(a) + Len(b)
         /\ Rest(a \o b, Len(a)) = b
  <1>1. a \o b \in Seq(Bytes) /\ Len(a \o b) = Len(a) + Len(b) /\ Len(a) \in Nat /\ Len(b) \in Nat
    OBVIOUS
  <1>2. \A i \in 1 .. Len(b) : (a \o b)[Len(a) + i] = b[i]
    OBVIOUS
  <1> DEFINE c == a \o b
  <1> HIDE DEF c
  <1>3. Rest(c, Len(a)) \in Seq(Bytes) /\ Len(Rest(c, Len(a))) = Len(b)
    BY <1>1 DEF Rest, c
  <1>4. ASSUME NEW i \in 1 .. Len(b) PROVE Rest(c, Len(a))[i] = b[i]
    <2>1. Rest(c, Len(a))[i] = c[Len(a) + 1 + i - 1]
      BY <1>1 DEF Rest, c
    <2>2. Len(a) + 1 + i - 1 = Len(a) + i
      BY <1>1
    <2>3. QED
      BY <1>2, <2>1, <2>2 DEF c
  <1> DEFINE d == Rest(c, Len(a))
  <1>5. d = b
    <2>1. d \in Seq(Bytes) /\ Len(d) = Len(b) /\ \A i \in 1 .. Len(b) : d[i] = b[i]
      BY <1>3, <1>4
    <2> HIDE DEF d
    <2>2. QED
      BY <2>1
  <1>6. QED
    BY <1>1, <1>5 DEF c

(* The id of a packet has one byte, or a 0 and two: unpack_data can tell which. *)
LEMMA IdFacts ==
  ASSUME NEW id \in Nat \ {0}
  PROVE  /\ IdBytes(id) \in Seq(Bytes)
         /\ Len(IdBytes(id)) = IF IdBytes(id)[1] = 0 THEN 3 ELSE 1
         /\ Len(IdBytes(id)) > 0
  <1>1. ASSUME NEW x \in Nat PROVE x % Byte \in Bytes /\ x \div Byte \in Nat
    BY ByteAssumption DEF Bytes
  <1>2. CASE id < Byte
    <2>1. id \in Bytes /\ IdBytes(id) = <<id>>
      BY <1>2, ByteAssumption DEF Bytes, IdBytes
    <2>2. QED
      BY <2>1
  <1>3. CASE ~(id < Byte)
    <2> DEFINE x == id % Byte
               y == (id \div Byte) % Byte
    <2>1. x \in Bytes /\ y \in Bytes /\ 0 \in Bytes /\ IdBytes(id) = <<0, x, y>>
      BY <1>1, <1>3, ByteAssumption DEF Bytes, IdBytes
    <2> HIDE DEF x, y
    <2>2. QED
      BY <2>1
  <1>4. QED
    BY <1>2, <1>3

(* Every prefix of the packet is followed by bytes.                             *)
Grows(m, part, n) ==
  /\ \A i \in 0 .. n : m[i] \in Seq(Bytes)
  /\ \A i \in 1 .. n : part[i] \in Seq(Bytes) /\ m[i] = m[i - 1] \o part[i]
Continues(m, n) == \A i \in 0 .. n : \E s \in Seq(Bytes) : m[n] = m[i] \o s

(* The buffer of marshal starts with what it was after each argument.           *)
LEMMA Prefixes ==
  ASSUME NEW n \in Nat, NEW part, NEW m, Grows(m, part, n)
  PROVE  Continues(m, n)
  <1> DEFINE T == {k \in 0 .. n : \E s \in Seq(Bytes) : m[n] = m[n - k] \o s}
  <1>1. 0 \in T
    <2>1. m[n] \in Seq(Bytes) /\ n - 0 = n
      BY DEF Grows
    <2>2. m[n] = m[n] \o <<>> /\ <<>> \in Seq(Bytes)
      BY <2>1
    <2>3. \E s \in Seq(Bytes) : m[n] = m[n - 0] \o s
      BY <2>1, <2>2
    <2>4. QED
      BY <2>3
  <1>2. ASSUME NEW k \in 1 .. n, k - 1 \in T PROVE k \in T
    <2>1. PICK s \in Seq(Bytes) : m[n] = m[n - (k - 1)] \o s
      BY <1>2
    <2>2. n - (k - 1) \in 1 .. n /\ n - (k - 1) - 1 = n - k /\ n - k \in 0 .. n /\ k \in 0 .. n
      OBVIOUS
    <2> DEFINE j == n - (k - 1)
    <2>3. m[j] = m[n - k] \o part[j] /\ part[j] \in Seq(Bytes) /\ m[n - k] \in Seq(Bytes)
      BY <2>2 DEF Grows
    <2> HIDE DEF j
    <2>4. (m[n - k] \o part[j]) \o s = m[n - k] \o (part[j] \o s)
      BY <2>3, Associate
    <2>5. part[j] \o s \in Seq(Bytes)
      BY <2>3
    <2>6. m[n] = m[n - k] \o (part[j] \o s)
      BY <2>1, <2>3, <2>4 DEF j
    <2>7. QED
      BY <2>2, <2>5, <2>6
  <1> HIDE DEF T
  <1>3. \A k \in 0 .. n : k \in T
    BY <1>1, <1>2, Upward
  <1>4. ASSUME NEW i \in 0 .. n PROVE \E s \in Seq(Bytes) : m[n] = m[i] \o s
    <2>1. n - i \in 0 .. n /\ n - (n - i) = i
      OBVIOUS
    <2>2. n - i \in T
      BY <1>3, <2>1
    <2>3. QED
      BY <2>1, <2>2 DEF T
  <1>5. QED
    BY <1>4 DEF Continues

(* Skipping the id and then what was read is skipping both.                     *)
LEMMA RestTwice ==
  ASSUME NEW b \in Seq(Bytes), NEW h \in Nat, NEW k \in Nat, h + k <= Len(b)
  PROVE  Rest(Rest(b, h), k) = Rest(b, h + k)
  <1> DEFINE c == Rest(b, h)
             d == Rest(c, k)
             e == Rest(b, h + k)
  <1>1. /\ c \in Seq(Bytes) /\ Len(c) = Len(b) - h /\ Len(b) \in Nat
        /\ \A i \in 1 .. Len(b) - h : c[i] = b[h + i]
    BY DEF Rest
  <1> HIDE DEF c
  <1>2. /\ d \in Seq(Bytes) /\ Len(d) = Len(b) - h - k
        /\ \A i \in 1 .. Len(b) - h - k : d[i] = c[k + i]
    BY <1>1 DEF Rest
  <1>3. /\ e \in Seq(Bytes) /\ Len(e) = Len(b) - h - k
        /\ \A i \in 1 .. Len(b) - h - k : e[i] = b[h + k + i]
    BY <1>1 DEF Rest
  <1> HIDE DEF d, e
  <1>4. ASSUME NEW i \in 1 .. Len(b) - h - k PROVE d[i] = e[i]
    <2>1. k + i \in 1 .. Len(b) - h /\ h + (k + i) = h + k + i
      BY <1>1
    <2>2. d[i] = c[k + i] /\ c[k + i] = b[h + (k + i)] /\ e[i] = b[h + k + i]
      BY <1>1, <1>2, <1>3, <2>1
    <2>3. QED
      BY <2>1, <2>2
  <1>5. d = e
    BY <1>2, <1>3, <1>4
  <1>6. QED
    BY <1>5 DEF c, d, e

(* The first k of the values that come back.                                    *)
Back(args, vals, k) == [j \in 1 .. k |-> CutArg(args[j], vals[j])]

(* One value more comes back.                                                   *)
LEMMA BackGrows ==
  ASSUME NEW args, NEW vals, NEW k \in Nat \ {0}
  PROVE  Append(Back(args, vals, k - 1), CutArg(args[k], vals[k])) = Back(args, vals, k)
  <1> DEFINE T == {CutArg(args[j], vals[j]) : j \in 1 .. k}
             a == Back(args, vals, k - 1)
             x == CutArg(args[k], vals[k])
             b == Back(args, vals, k)
  <1>1. a \in Seq(T) /\ Len(a) = k - 1 /\ \A j \in 1 .. k - 1 : a[j] = CutArg(args[j], vals[j])
    <2>1. a \in [1 .. k - 1 -> T] /\ k - 1 \in Nat
      BY DEF Back
    <2>2. \A j \in 1 .. k - 1 : a[j] = CutArg(args[j], vals[j])
      BY DEF Back
    <2> HIDE DEF a, T
    <2>3. QED
      BY <2>1, <2>2
  <1>2. b \in Seq(T) /\ Len(b) = k /\ \A j \in 1 .. k : b[j] = CutArg(args[j], vals[j])
    <2>1. b \in [1 .. k -> T]
      BY DEF Back
    <2>2. \A j \in 1 .. k : b[j] = CutArg(args[j], vals[j])
      BY DEF Back
    <2> HIDE DEF b, T
    <2>3. QED
      BY <2>1, <2>2
  <1>3. x \in T
    OBVIOUS
  <1>4. x = b[k]
    BY <1>2
  <1> HIDE DEF a, x, b, T
  <1>5. Append(a, x) \in Seq(T) /\ Len(Append(a, x)) = k
    BY <1>1, <1>3
  <1>6. ASSUME NEW j \in 1 .. k PROVE Append(a, x)[j] = b[j]
    <2>1. CASE j = k
      BY <1>1, <1>3, <1>4, <2>1
    <2>2. CASE j # k
      BY <1>1, <1>2, <1>3, <2>2
    <2>3. QED
      BY <2>1, <2>2
  <1>7. Append(a, x) = b
    BY <1>2, <1>5, <1>6
  <1>8. QED
    BY <1>7 DEF a, x, b

Packable(self, vals) == \A i \in 1 .. Len(self.args) :
  vals[i] \in ValuesOf(self.args[i]) /\ PackArg(self.args[i], vals[i]) # <<>>

(* After the id, the receiver reads to the last byte what the sender packed.    *)
ReadWell(self, vals, bytes, head, peer) ==
  /\ bytes \in Seq(Bytes) /\ Len(bytes) >= head /\ bytes[1] = IdBytes(self.id)[1]
  /\ Unpacked(peer, Rest(bytes, head))[Len(self.args)] =
        [n |-> Len(bytes) - head, vals |-> Back(self.args, vals, Len(self.args))]

(* What was packed is read to its end, and comes back.                          *)
LEMMA ReadsBack ==
  ASSUME NEW A, Agree(A), NEW self, self.id \in Nat \ {0}, self.args \in Seq(A),
         NEW vals, Packable(self, vals),
         NEW bytes, bytes = Marshalled(self, vals)[Len(self.args)],
         NEW head, head = Len(IdBytes(self.id)),
         NEW peer, peer.args = self.args
  PROVE  ReadWell(self, vals, bytes, head, peer)
  <1> DEFINE args == self.args
             n == Len(args)
             m == Marshalled(self, vals)
             part == [i \in 1 .. n |-> PackArg(args[i], vals[i])]
             buf == Rest(bytes, head)
             far(i) == Len(m[i]) - head
  <1>1. n \in Nat /\ \A i \in 1 .. n : args[i] \in A
    OBVIOUS
  <1>2. \A i \in 1 .. n : part[i] = PackArg(args[i], vals[i])
    OBVIOUS
  <1>3. \A i \in 1 .. n : part[i] \in Seq(Bytes)
    <2>1. \A i \in 1 .. n : PackArg(args[i], vals[i]) \in Seq(Bytes)
      BY <1>1 DEF Agree, FormatsAgree, Packable
    <2>2. QED
      BY <1>2, <2>1
  <1>4. IdBytes(self.id) \in Seq(Bytes) /\ head \in Nat /\ head > 0
    BY IdFacts
  <1>5. /\ m[0] = IdBytes(self.id)
        /\ \A i \in 1 .. n : m[i] = m[i - 1] \o part[i]
        /\ \A i \in 0 .. n : m[i] \in Seq(Bytes)
    <2>1. \A i \in 1 .. n : PackArg(args[i], vals[i]) \in Seq(Bytes)
      BY <1>2, <1>3
    <2> HIDE DEF m, part
    <2>2. /\ m[0] = IdBytes(self.id)
          /\ \A i \in 1 .. n : m[i] = m[i - 1] \o PackArg(args[i], vals[i])
          /\ \A i \in 0 .. n : m[i] \in Seq(Bytes)
      BY <1>1, <1>4, <2>1, MarshalledGrows DEF m
    <2>3. QED
      BY <1>2, <2>2
  <1> HIDE DEF m, part
  <1>6. bytes = m[n] /\ bytes \in Seq(Bytes) /\ 0 \in 0 .. n
    <2>1. bytes = m[n] /\ n \in 0 .. n /\ 0 \in 0 .. n
      BY <1>1 DEF m
    <2>2. QED
      BY <1>5, <2>1
  <1> HIDE DEF n
  <1>7. \A i \in 0 .. n : \E s \in Seq(Bytes) : bytes = m[i] \o s
    <2>1. Grows(m, part, n)
      BY <1>3, <1>5 DEF Grows
    <2>2. Continues(m, n)
      BY <1>1, <2>1, Prefixes
    <2>3. QED
      BY <1>6, <2>2 DEF Continues
  <1>8. Len(bytes) >= head /\ bytes[1] = IdBytes(self.id)[1]
    <2>1. PICK s \in Seq(Bytes) : bytes = m[0] \o s
      BY <1>6, <1>7
    <2> DEFINE d == IdBytes(self.id)
    <2>2. d \in Seq(Bytes) /\ Len(d) > 0 /\ bytes = d \o s /\ Len(d) = head
      BY <1>4, <1>5, <2>1
    <2> HIDE DEF d
    <2>3. Len(bytes) >= head /\ bytes[1] = d[1]
      BY <2>2
    <2>4. QED
      BY <2>3 DEF d
  <1>9. ASSUME NEW i \in 0 .. n
        PROVE  /\ far(i) \in Nat
               /\ \E s \in Seq(Bytes) : bytes = m[i] \o s /\ Rest(buf, far(i)) = s
    <2>1. PICK s \in Seq(Bytes) : bytes = m[i] \o s
      BY <1>7
    <2>2. m[i] \in Seq(Bytes) /\ Len(m[i]) \in Nat
      BY <1>5
    <2>3. Len(m[i]) >= head
      <3> DEFINE T == {k \in 0 .. n : Len(m[k]) >= head}
      <3>1. 0 \in T
        BY <1>4, <1>5, <1>6
      <3>2. ASSUME NEW k \in 1 .. n, k - 1 \in T PROVE k \in T
        <4>1. m[k] = m[k - 1] \o part[k] /\ part[k] \in Seq(Bytes) /\ k \in 0 .. n /\ k - 1 \in 0 .. n
          <5>1. k \in 0 .. n /\ k - 1 \in 0 .. n
            BY <1>1
          <5>2. QED
            BY <1>3, <1>5, <5>1
        <4>2. m[k - 1] \in Seq(Bytes) /\ Len(m[k - 1]) >= head
          BY <1>5, <3>2, <4>1
        <4>3. Len(m[k]) = Len(m[k - 1]) + Len(part[k]) /\ Len(m[k - 1]) \in Nat /\ Len(part[k]) \in Nat
          BY <4>1, <4>2, RestFacts
        <4>4. Len(m[k]) >= head
          <5> DEFINE a == Len(m[k - 1])
                     b == Len(part[k])
          <5>1. a \in Nat /\ b \in Nat /\ a >= head /\ head \in Nat /\ Len(m[k]) = a + b
            BY <1>4, <4>2, <4>3
          <5> HIDE DEF a, b
          <5>2. QED
            BY <5>1
        <4>5. QED
          BY <4>1, <4>4
      <3> HIDE DEF T
      <3>3. \A k \in 0 .. n : k \in T
        BY <1>1, <3>1, <3>2, Upward
      <3>4. QED
        BY <3>3 DEF T
    <2>4. far(i) \in Nat /\ head + far(i) = Len(m[i])
      BY <1>4, <2>2, <2>3
    <2>5. Len(bytes) = Len(m[i]) + Len(s) /\ Len(s) \in Nat /\ Rest(bytes, Len(m[i])) = s
      BY <2>1, <2>2, RestFacts
    <2> HIDE DEF far
    <2>6. head + far(i) <= Len(bytes)
      BY <2>2, <2>4, <2>5
    <2>7. Rest(buf, far(i)) = Rest(bytes, Len(m[i]))
      BY <1>4, <1>6, <2>4, <2>6, RestTwice
    <2>8. QED
      BY <2>1, <2>4, <2>5, <2>7
  <1> HIDE DEF buf, args
  <1> DEFINE next(st, i) ==
               LET u == UnpackArg(args[i], Rest(buf, st.n))
               IN IF st.n < 0 \/ u.n = 0 THEN [st EXCEPT !.n = FormatError]
                  ELSE [n |-> st.n + u.n, vals |-> Append(st.vals, u.v)]
             at(i) == [n |-> far(i), vals |-> Back(args, vals, i)]
  <1>10. ASSUME NEW i \in 1 .. n PROVE next(at(i - 1), i) = at(i)
    <2> DEFINE p == PackArg(args[i], vals[i])
               q == CutArg(args[i], vals[i])
               l == Len(m[i - 1])
    <2>1. i - 1 \in 0 .. n /\ i \in Nat \ {0} /\ i \in 0 .. n
      BY <1>1
    <2>2. PICK s \in Seq(Bytes) : bytes = m[i - 1] \o s /\ Rest(buf, far(i - 1)) = s
      BY <1>9, <2>1
    <2>3. PICK t \in Seq(Bytes) : bytes = m[i] \o t
      BY <1>7, <2>1
    <2>4. p \in Seq(Bytes) /\ p # <<>> /\ m[i] = m[i - 1] \o p /\ m[i - 1] \in Seq(Bytes)
      BY <1>2, <1>3, <1>5, <2>1 DEF args, n, Packable
    <2>5. s = p \o t
      <3>1. bytes = m[i - 1] \o (p \o t) /\ p \o t \in Seq(Bytes)
        <4> HIDE DEF p
        <4>1. (m[i - 1] \o p) \o t = m[i - 1] \o (p \o t)
          BY <2>3, <2>4, Associate
        <4>2. p \o t \in Seq(Bytes)
          BY <2>3, <2>4
        <4>3. QED
          BY <2>3, <2>4, <4>1, <4>2
      <3>2. Rest(m[i - 1] \o s, l) = s
        BY <2>4, RestFacts
      <3>3. Rest(m[i - 1] \o (p \o t), l) = p \o t
        BY <2>4, <3>1, RestFacts
      <3>4. QED
        BY <2>2, <3>1, <3>2, <3>3
    <2>6. UnpackArg(args[i], s) = [n |-> Len(p), v |-> q]
      <3>1. args[i] \in A /\ vals[i] \in ValuesOf(args[i])
        BY <1>1 DEF args, n, Packable
      <3>2. QED
        BY <2>3, <2>4, <2>5, <3>1 DEF Agree, FormatsAgree
    <2>7. Len(p) \in Nat \ {0} /\ far(i - 1) \in Nat /\ far(i) = far(i - 1) + Len(p)
      <3>1. Len(p) \in Nat \ {0} /\ Len(m[i - 1]) \in Nat /\ Len(m[i]) = Len(m[i - 1]) + Len(p)
        <4> HIDE DEF p
        <4>1. QED
          BY <2>4
      <3>2. far(i - 1) \in Nat
        BY <1>9, <2>1
      <3>3. QED
        BY <1>4, <3>1, <3>2
    <2> HIDE DEF far, p, q
    <2>8. next(at(i - 1), i) = [n |-> far(i - 1) + Len(p), vals |-> Append(Back(args, vals, i - 1), q)]
      <3> DEFINE a == far(i - 1)
                 b == Back(args, vals, i - 1)
                 st == at(i - 1)
                 u == UnpackArg(args[i], Rest(buf, st.n))
      <3>1. st = [n |-> a, vals |-> b] /\ st.n = a /\ st.vals = b
        OBVIOUS
      <3>2. u = [n |-> Len(p), v |-> q] /\ u.n = Len(p) /\ u.v = q
        BY <2>2, <2>6, <3>1
      <3>3. ~(st.n < 0 \/ u.n = 0)
        BY <2>7, <3>1, <3>2
      <3>4. next(st, i) = [n |-> st.n + u.n, vals |-> Append(st.vals, u.v)]
        <4> HIDE DEF u, st
        <4>1. QED
          BY <3>3 DEF u
      <3> HIDE DEF u, st, next
      <3>5. QED
        BY <3>1, <3>2, <3>4 DEF st
    <2>9. Append(Back(args, vals, i - 1), q) = Back(args, vals, i)
      BY <2>1, BackGrows DEF q
    <2>10. QED
      BY <2>7, <2>8, <2>9
  <1>11. at(0) = [n |-> 0, vals |-> <<>>]
    <2>1. far(0) = 0
      BY <1>4, <1>5
    <2>2. Back(args, vals, 0) = <<>>
      BY DEF Back
    <2>3. QED
      BY <2>1, <2>2
  <1> DEFINE start == [n |-> 0, vals |-> <<>>]
             Eq(f) == f = [i \in 0 .. n |-> IF i = 0 THEN start ELSE next(f[i - 1], i)]
             g == CHOOSE h : Eq(h)
             w == [i \in 0 .. n |-> at(i)]
  <1>12. Unpacked(peer, buf) = g
    BY DEF Unpacked, args, n
  <1> HIDE DEF next, at, start
  <1>13. Eq(w)
    <2>1. ASSUME NEW i \in 0 .. n PROVE w[i] = IF i = 0 THEN start ELSE next(w[i - 1], i)
      <3>1. CASE i = 0
        BY <1>11, <3>1 DEF start
      <3>2. CASE i # 0
        <4>1. i \in 1 .. n /\ i - 1 \in 0 .. n
          BY <1>1, <3>2
        <4>2. w[i - 1] = at(i - 1) /\ w[i] = at(i)
          BY <4>1
        <4>3. QED
          BY <1>10, <3>2, <4>1, <4>2
      <3>3. QED
        BY <3>1, <3>2
    <2>2. QED
      BY <2>1
  <1>14. Eq(g)
    <2> HIDE DEF Eq, w
    <2>1. QED
      BY <1>13
  <1> HIDE DEF g, w
  <1>15. ASSUME NEW i \in 0 .. n PROVE g[i] = IF i = 0 THEN start ELSE next(g[i - 1], i)
    BY <1>14
  <1> HIDE DEF Eq
  <1> DEFINE T == {i \in 0 .. n : g[i] = at(i)}
  <1>16. 0 \in T /\ \A i \in 1 .. n : i - 1 \in T => i \in T
    <2>1. g[0] = at(0)
      BY <1>6, <1>11, <1>15 DEF start
    <2>2. ASSUME NEW i \in 1 .. n, g[i - 1] = at(i - 1) PROVE g[i] = at(i) /\ i \in 0 .. n
      <3>1. i \in 0 .. n /\ i # 0
        BY <1>1
      <3>2. QED
        BY <1>10, <1>15, <2>2, <3>1
    <2>3. QED
      BY <1>6, <2>1, <2>2
  <1> HIDE DEF T
  <1>17. g[n] = at(n)
    <2>1. \A i \in 0 .. n : i \in T
      BY <1>1, <1>16, Upward
    <2>2. n \in T
      BY <1>1, <2>1
    <2>3. QED
      BY <2>2 DEF T
  <1>18. QED
    <2>1. /\ bytes \in Seq(Bytes) /\ Len(bytes) >= head /\ bytes[1] = IdBytes(self.id)[1]
          /\ Unpacked(peer, Rest(bytes, head))[Len(self.args)] =
               [n |-> Len(bytes) - head, vals |-> Back(self.args, vals, Len(self.args))]
      BY <1>6, <1>8, <1>12, <1>17 DEF at, buf, args, n
    <2>2. QED
      BY <2>1 DEF ReadWell

(* Apart from loading, nothing touches the table.                               *)
LEMMA CallsLoad ==
  ASSUME SlotsInv, [CallsNext]_callVars
  PROVE  [SlotsNext]_slotVars
  <1>1. ASSUME NEW p \in Peers, NEW f \in Files, LoadFile(p, f) PROVE SlotsNext
    <2> DEFINE list == ReadList(types[p], f.args)
    <2>1. add_protocol(p, f, list) \/ \E id \in 0 .. MaxLoads : update_protocol(p, id, f, list)
      BY <1>1 DEF LoadFile
    <2> HIDE DEF list
    <2>2. \A id \in 0 .. MaxLoads : id \in Nat
      OBVIOUS
    <2>3. \E l : \/ add_protocol(p, f, l)
                 \/ \E id \in Nat : update_protocol(p, id, f, l)
      BY <2>1, <2>2
    <2>4. QED
      BY <2>3 DEF SlotsNext
  <1>2. ASSUME NEW p \in Peers, NEW t \in TypeFiles, add_arg_type(p, t) PROVE UNCHANGED slotVars
    BY <1>2 DEF add_arg_type
  <1>3. ASSUME NEW p \in Peers, NEW n \in FuncNames, pack(p, n) \/ pack_protocol(p, n)
        PROVE  UNCHANGED slotVars
    BY <1>3 DEF pack, pack_protocol, protoVars
  <1>4. ASSUME NEW p \in Peers, NEW vfd \in Vfds, send_pack_data(p, vfd) PROVE UNCHANGED slotVars
    BY <1>4 DEF send_pack_data, protoVars
  <1>5. ASSUME NEW p \in Peers, NEW fails \in BOOLEAN, unpack_data(p, fails) PROVE UNCHANGED slotVars
    BY <1>5 DEF unpack_data, protoVars
  <1>6. CASE UNCHANGED callVars
    BY <1>6 DEF callVars, protoVars
  <1>7. QED
    BY <1>1, <1>2, <1>3, <1>4, <1>5, <1>6 DEF CallsNext

(* The packets of either process, of whoever chose the receivers.               *)
Sent(self, vals, to, multi, chosen) == Packet(self, vals, marshal(self, vals), to, multi, chosen)
Marshals(A, self, vals) ==
  /\ self.id \in Nat \ {0} /\ self.args \in Seq(A) /\ vals \in Inputs(self.args)
  /\ marshal(self, vals) # <<>>
Fits(pk) ==
  /\ pk.chosen => \A j \in DOMAIN pk.to : pk.to[j] > VFD_NULL
  /\ Len(pk.bytes) + (IF pk.multi THEN VfdSize * Len(pk.to) ELSE 0) <= MAXTONETD
PacketSound(A, pk) ==
  /\ \E self, vals : Marshals(A, self, vals) /\ pk = Sent(self, vals, pk.to, pk.multi, pk.chosen)
  /\ Fits(pk)

CallRight(g) ==
  g.did /\ g.packet.args = g.proto.args /\ g.proto.ref =>
       /\ g.res \in {Len(g.packet.bytes), ScriptError}
       /\ g.vals = [i \in DOMAIN g.packet.args |-> CutArg(g.packet.args[i], g.packet.vals[i])]

ObjectsKnown(A, o) == \A k \in 1 .. Len(o) : o[k].id \in Nat /\ o[k].args \in Seq(A)
NetSound(A, s) == IsSeq(s) /\ \A i \in DOMAIN s : PacketSound(A, s[i])
StringSound(A, s) == s = <<>> \/ \E pk : s = <<pk>> /\ PacketSound(A, pk) /\ pk.multi = FALSE

CallsInv(A) ==
  /\ SlotsInv
  /\ types = [p \in Peers |-> types[p]] /\ net = [p \in Peers |-> net[p]] /\ packed = [p \in Peers |-> packed[p]]
  /\ \A p \in Peers : /\ types[p] \in Seq(A)
                      /\ ObjectsKnown(A, objs[p])
                      /\ NetSound(A, net[p])
                      /\ StringSound(A, packed[p])
                      /\ CallRight(got[p])

(* What marshal returns is whole and fits the buffer.                           *)
LEMMA MarshalFacts ==
  ASSUME NEW A, Agree(A), NEW self, self.id \in Nat \ {0}, self.args \in Seq(A),
         NEW vals \in Inputs(self.args), marshal(self, vals) # <<>>
  PROVE  /\ Packable(self, vals)
         /\ marshal(self, vals) = Marshalled(self, vals)[Len(self.args)]
         /\ Len(marshal(self, vals)) \in Nat /\ Len(marshal(self, vals)) <= MAXTONETD
  <1> DEFINE all == Marshalled(self, vals)[Len(self.args)]
             parts == \A i \in 1 .. Len(self.args) : PackArg(self.args[i], vals[i]) # <<>>
  <1>1. \A i \in 1 .. Len(self.args) : vals[i] \in ValuesOf(self.args[i])
    BY InputsFit
  <1>2. marshal(self, vals) = all /\ ~(Len(all) > MAXTONETD) /\ parts
    BY DEF marshal
  <1> HIDE DEF all
  <1>3. all \in Seq(Bytes)
    <2> DEFINE h == Len(IdBytes(self.id))
    <2>1. Packable(self, vals)
      BY <1>1, <1>2 DEF Packable
    <2> HIDE DEF h
    <2>2. QED
      <3> DEFINE b == Marshalled(self, vals)[Len(self.args)]
      <3>1. b = Marshalled(self, vals)[Len(self.args)] /\ h = Len(IdBytes(self.id))
        BY DEF h
      <3> HIDE DEF b
      <3>2. ReadWell(self, vals, b, h, self)
        BY <2>1, <3>1, ReadsBack
      <3>3. b \in Seq(Bytes)
        BY <3>2 DEF ReadWell
      <3>4. QED
        BY <3>3 DEF b, all
  <1>4. Len(all) \in Nat /\ Len(all) <= MAXTONETD
    BY <1>2, <1>3, RoomAssumption
  <1>5. QED
    BY <1>1, <1>2, <1>4 DEF all, Packable

(* Nothing but an unpacking says that a call was made.                          *)
LEMMA NoneMade ==
  ASSUME got' = [q \in Peers |-> NoCall]
  PROVE  \A q \in Peers : CallRight(got[q])'
  <1>1. \A q \in Peers : got'[q] = NoCall
    OBVIOUS
  <1>2. ~NoCall.did
    BY DEF NoCall
  <1>3. QED
    BY <1>1, <1>2 DEF CallRight

(* net_protocol::load: the arguments it reads are of known types.              *)
LEMMA LoadKeeps ==
  ASSUME NEW A, Agree(A), CallsInv(A), SlotsInv', NEW p \in Peers, NEW f \in Files, LoadFile(p, f)
  PROVE  CallsInv(A)'
  <1> DEFINE list == ReadList(types[p], f.args)
             l == load(p, f, list)
  <1>1. got' = [q \in Peers |-> NoCall] /\ packed' = packed /\ net' = net
    BY DEF LoadFile
  <1>2. PICK id \in Nat : Load(p, f, id, l)
    <2>1. CASE add_protocol(p, f, list)
      <3>1. Load(p, f, Len(slots[p]), l)
        BY <2>1 DEF add_protocol
      <3>2. slots[p] \in Seq(Nat)
        BY DEF CallsInv, SlotsInv, Tabled, Table
      <3>3. QED
        BY <3>1, <3>2
    <2>2. CASE \E id \in 0 .. MaxLoads : update_protocol(p, id, f, list)
      <3>1. PICK id \in 0 .. MaxLoads : update_protocol(p, id, f, list)
        BY <2>2
      <3>2. Load(p, f, id, l)
        BY <3>1 DEF update_protocol
      <3>3. id \in Nat
        OBVIOUS
      <3>4. QED
        BY <3>2, <3>3
    <2>3. QED
      BY <2>1, <2>2 DEF LoadFile
  <1>3. list.args \in Seq(A) /\ list.types \in Seq(A)
    BY DEF CallsInv, Agree, FormatsAgree
  <1>4. l.args \in Seq(A) /\ l.types \in Seq(A)
    <2>1. types[p] \in Seq(A) /\ <<>> \in Seq(A)
      BY DEF CallsInv
    <2> HIDE DEF list
    <2>2. l.args \in {<<>>, list.args} /\ l.types \in {types[p], list.types}
      BY DEF load
    <2>3. QED
      BY <1>3, <2>1, <2>2
  <1> DEFINE x == Loaded(p, f, id, l)
             o == WithNew(objs[p], x, Kept(l))
  <1>5. x.id \in Nat /\ x.args \in Seq(A)
    <2> HIDE DEF l
    <2>1. x.id = id /\ x.args = l.args
      BY DEF Loaded
    <2>2. QED
      BY <1>4, <2>1
  <1>6. ObjectsKnown(A, o)
    <2>1. IsSeq(objs[p]) /\ ObjectsKnown(A, objs[p])
      BY DEF CallsInv, SlotsInv, Tabled, Table
    <2> HIDE DEF x
    <2>2. /\ Len(objs[p]) \in Nat /\ Len(Append(objs[p], x)) = Len(objs[p]) + 1
          /\ Append(objs[p], x)[Len(objs[p]) + 1] = x
          /\ \A k \in 1 .. Len(objs[p]) : Append(objs[p], x)[k] = objs[p][k]
      BY <2>1, ObjectAdded
    <2>3. ObjectsKnown(A, Append(objs[p], x))
      <3> DEFINE q == Append(objs[p], x)
      <3>1. ASSUME NEW k \in 1 .. Len(objs[p]) + 1 PROVE q[k].id \in Nat /\ q[k].args \in Seq(A)
        <4>1. CASE k = Len(objs[p]) + 1
          BY <1>5, <2>2, <4>1
        <4>2. CASE k # Len(objs[p]) + 1
          <5>1. k \in 1 .. Len(objs[p]) /\ q[k] = objs[p][k]
            BY <2>2, <4>2
          <5>2. QED
            BY <2>1, <5>1 DEF ObjectsKnown
        <4>3. QED
          BY <4>1, <4>2
      <3>2. QED
        BY <2>2, <3>1 DEF ObjectsKnown
    <2>4. QED
      BY <2>1, <2>3 DEF WithNew
  <1>7. objs' = [objs EXCEPT ![p] = o] /\ types' = [types EXCEPT ![p] = l.types]
    BY <1>2 DEF Load, WithNew
  <1> HIDE DEF o, l
  <1>8. \A q \in Peers : ObjectsKnown(A, objs[q])' /\ types'[q] \in Seq(A)
    <2>1. /\ objs = [q \in Peers |-> objs[q]] /\ types = [q \in Peers |-> types[q]]
          /\ \A q \in Peers : ObjectsKnown(A, objs[q]) /\ types[q] \in Seq(A)
      BY DEF CallsInv, SlotsInv
    <2>2. \A q \in Peers : objs'[q] = IF q = p THEN o ELSE objs[q]
      BY <1>7, <2>1
    <2>3. \A q \in Peers : types'[q] = IF q = p THEN l.types ELSE types[q]
      BY <1>7, <2>1
    <2>4. QED
      BY <1>4, <1>6, <2>1, <2>2, <2>3
  <1>9. types' = [q \in Peers |-> types'[q]]
    BY <1>7 DEF CallsInv
  <1>10. \A q \in Peers : CallRight(got[q])'
    BY <1>1, NoneMade
  <1>11. QED
    BY <1>1, <1>8, <1>9, <1>10 DEF CallsInv

(* add_arg_type keeps a type only when its description can be read.             *)
LEMMA TypeKeeps ==
  ASSUME NEW A, Agree(A), CallsInv(A), SlotsInv', NEW p \in Peers, NEW t \in TypeFiles, add_arg_type(p, t)
  PROVE  CallsInv(A)'
  <1> DEFINE arg == ReadType(types[p], t)
  <1>1. /\ got' = [q \in Peers |-> NoCall] /\ packed' = packed /\ net' = net /\ objs' = objs
        /\ arg.kind # "none" /\ types' = [types EXCEPT ![p] = Append(types[p], arg)]
    BY DEF add_arg_type, slotVars
  <1>2. arg \in A /\ types[p] \in Seq(A)
    BY <1>1 DEF CallsInv, Agree, FormatsAgree
  <1> HIDE DEF arg
  <1>3. Append(types[p], arg) \in Seq(A)
    BY <1>2
  <1>4. types' = [q \in Peers |-> types'[q]] /\ \A q \in Peers : types'[q] \in Seq(A)
    BY <1>1, <1>3 DEF CallsInv
  <1>5. \A q \in Peers : CallRight(got[q])'
    BY <1>1, NoneMade
  <1>6. QED
    BY <1>1, <1>4, <1>5 DEF CallsInv

(* A packet that was packed and fits is sound, whoever it goes to.              *)
LEMMA SentSound ==
  ASSUME NEW A, NEW self, NEW vals, NEW to, NEW multi, NEW chosen, Marshals(A, self, vals),
         chosen => \A j \in DOMAIN to : to[j] > VFD_NULL,
         Len(marshal(self, vals)) + (IF multi THEN VfdSize * Len(to) ELSE 0) <= MAXTONETD
  PROVE  PacketSound(A, Sent(self, vals, to, multi, chosen))
  <1> DEFINE pk == Sent(self, vals, to, multi, chosen)
  <1>1. pk.to = to /\ pk.multi = multi /\ pk.chosen = chosen /\ pk.bytes = marshal(self, vals)
    BY DEF Packet, Sent
  <1>2. pk = Sent(self, vals, pk.to, pk.multi, pk.chosen)
    BY <1>1, Zenon
  <1> HIDE DEF pk
  <1>3. Fits(pk)
    BY <1>1 DEF Fits
  <1>4. QED
    BY <1>2, <1>3, Zenon DEF PacketSound, pk

(* One packet more is on its way.                                               *)
LEMMA NetGrows ==
  ASSUME NEW A, NEW s, NetSound(A, s), NEW pk, PacketSound(A, pk)
  PROVE  NetSound(A, Append(s, pk))
  <1> DEFINE t == Append(s, pk)
  <1>1. /\ IsSeq(t) /\ Len(s) \in Nat /\ Len(t) = Len(s) + 1 /\ t[Len(s) + 1] = pk
        /\ \A k \in 1 .. Len(s) : t[k] = s[k]
    BY ObjectAdded DEF NetSound
  <1>2. DOMAIN s = 1 .. Len(s) /\ DOMAIN t = 1 .. Len(s) + 1
    BY <1>1 DEF NetSound, IsSeq
  <1> HIDE DEF t
  <1>3. ASSUME NEW k \in 1 .. Len(s) + 1 PROVE PacketSound(A, t[k])
    <2>1. CASE k = Len(s) + 1
      BY <1>1, <2>1
    <2>2. CASE k # Len(s) + 1
      <3>1. k \in 1 .. Len(s)
        BY <1>1, <2>2
      <3>2. t[k] = s[k] /\ PacketSound(A, s[k])
        BY <1>1, <1>2, <3>1 DEF NetSound
      <3>3. QED
        BY <3>2
    <2>3. QED
      BY <2>1, <2>2
  <1>4. NetSound(A, t)
    BY <1>1, <1>2, <1>3 DEF NetSound
  <1>5. QED
    BY <1>4 DEF t

(* hook_send.                                                                   *)
LEMMA SendKeeps ==
  ASSUME NEW A, CallsInv(A), NEW p, NEW pk, PacketSound(A, pk), Send(p, pk)
  PROVE  net' = [q \in Peers |-> net'[q]] /\ \A q \in Peers : NetSound(A, net'[q])
  <1>1. net' = [net EXCEPT ![Other(p)] = Append(net[Other(p)], pk)]
    BY DEF Send
  <1>2. net = [q \in Peers |-> net[q]] /\ \A q \in Peers : NetSound(A, net[q])
    BY DEF CallsInv
  <1>3. ASSUME NEW q \in Peers PROVE NetSound(A, net'[q])
    <2>1. net'[q] = net[q] \/ net'[q] = Append(net[q], pk)
      BY <1>1, <1>2
    <2>2. QED
      BY <1>2, <2>1, NetGrows
  <1>4. QED
    BY <1>1, <1>2, <1>3

(* The object that a function packs for.                                        *)
LEMMA CallerKnown ==
  ASSUME NEW A, CallsInv(A), NEW p \in Peers, NEW n \in FuncNames, NEW self,
         self = objs[p][forCaller[p][n]], Usable(p, forCaller[p][n]), self.id # 0
  PROVE  self.id \in Nat \ {0} /\ self.args \in Seq(A)
  <1>1. IsSeq(objs[p]) /\ forCaller[p][n] \in Nat \ {0} /\ forCaller[p][n] <= Len(objs[p])
    BY DEF CallsInv, SlotsInv, Tabled, Table, Usable
  <1>2. Len(objs[p]) \in Nat
    BY <1>1, ObjectAdded
  <1>3. forCaller[p][n] \in 1 .. Len(objs[p]) /\ ObjectsKnown(A, objs[p])
    BY <1>1, <1>2 DEF CallsInv
  <1>4. QED
    BY <1>3 DEF ObjectsKnown

(* net_protocol::pack sends what fits, to the reachable.                        *)
LEMMA PackKeeps ==
  ASSUME NEW A, Agree(A), CallsInv(A), SlotsInv', NEW p \in Peers, NEW n \in FuncNames, pack(p, n)
  PROVE  CallsInv(A)'
  <1> DEFINE o == forCaller[p][n]
             self == objs[p][o]
  <1>1. /\ got' = [q \in Peers |-> NoCall] /\ packed' = packed /\ objs' = objs /\ types' = types
        /\ Usable(p, o)
    BY DEF pack, protoVars, slotVars
  <1>2. net' = [q \in Peers |-> net'[q]] /\ \A q \in Peers : NetSound(A, net'[q])
    <2>1. CASE self.id = 0
      <3>1. net' = net
        BY <2>1 DEF pack
      <3>2. QED
        BY <3>1 DEF CallsInv
    <2>2. CASE self.id # 0
      <3>1. PICK vals \in Inputs(self.args), dest \in Dests :
              /\ marshal(self, vals) # <<>>
              /\ Send(p, Packet(self, vals, marshal(self, vals), Recipients(dest, Len(marshal(self, vals))), dest.multi, TRUE))
        BY <2>2 DEF pack
      <3>2. self.id \in Nat \ {0} /\ self.args \in Seq(A)
        BY <1>1, <2>2, CallerKnown
      <3> HIDE DEF self
      <3> DEFINE bytes == marshal(self, vals)
                 to == Recipients(dest, Len(bytes))
                 pk == Packet(self, vals, bytes, to, dest.multi, TRUE)
      <3>3. Len(bytes) \in Nat /\ Len(bytes) <= MAXTONETD
        BY <3>1, <3>2, MarshalFacts
      <3>4. /\ \A j \in DOMAIN to : to[j] > VFD_NULL
            /\ Len(bytes) + (IF dest.multi THEN VfdSize * Len(to) ELSE 0) <= MAXTONETD
        <4> DEFINE k == Len(bytes)
        <4>1. k \in Nat /\ k <= MAXTONETD /\ to = Recipients(dest, k)
          BY <3>3
        <4> HIDE DEF k, to, bytes
        <4>2. /\ \A j \in DOMAIN to : to[j] > VFD_NULL
              /\ k + (IF dest.multi THEN VfdSize * Len(to) ELSE 0) <= MAXTONETD
          BY <4>1, ReceiversFit
        <4>3. QED
          BY <4>2 DEF k
      <3> HIDE DEF to
      <3>5. PacketSound(A, pk)
        <4>1. pk = Sent(self, vals, to, dest.multi, TRUE)
          BY DEF Packet, Sent
        <4>2. QED
          BY <3>1, <3>2, <3>4, <4>1, SentSound DEF Marshals
      <3>6. Send(p, pk)
        BY <3>1 DEF to
      <3> HIDE DEF pk
      <3>7. QED
        BY <3>5, <3>6, SendKeeps
    <2>3. QED
      BY <2>1, <2>2
  <1>3. \A q \in Peers : CallRight(got[q])'
    BY <1>1, NoneMade
  <1>4. QED
    BY <1>1, <1>2, <1>3 DEF CallsInv

(* pack_protocol keeps the same packet as a string of the script.               *)
LEMMA PackStringKeeps ==
  ASSUME NEW A, Agree(A), CallsInv(A), SlotsInv', NEW p \in Peers, NEW n \in FuncNames, pack_protocol(p, n)
  PROVE  CallsInv(A)'
  <1> DEFINE o == forCaller[p][n]
             self == objs[p][o]
  <1>1. /\ got' = [q \in Peers |-> NoCall] /\ net' = net /\ objs' = objs /\ types' = types
        /\ Usable(p, o) /\ self.id # 0
    BY DEF pack_protocol, protoVars, slotVars
  <1>2. PICK vals \in Inputs(self.args) :
          /\ marshal(self, vals) # <<>>
          /\ packed' = [packed EXCEPT ![p] = <<Packet(self, vals, marshal(self, vals), <<>>, FALSE, TRUE)>>]
    BY DEF pack_protocol
  <1>3. self.id \in Nat \ {0} /\ self.args \in Seq(A)
    BY <1>1, CallerKnown
  <1> HIDE DEF self
  <1> DEFINE bytes == marshal(self, vals)
             pk == Packet(self, vals, bytes, <<>>, FALSE, TRUE)
  <1>4. Len(bytes) \in Nat /\ Len(bytes) <= MAXTONETD
    BY <1>2, <1>3, MarshalFacts
  <1>5. PacketSound(A, pk)
    <2> DEFINE none == <<>>
    <2>1. \A j \in DOMAIN none : none[j] > VFD_NULL
      OBVIOUS
    <2>2. Len(bytes) + (IF FALSE THEN VfdSize * Len(none) ELSE 0) <= MAXTONETD
      BY <1>4
    <2> HIDE DEF none
    <2>3. pk = Sent(self, vals, none, FALSE, TRUE)
      BY DEF none, Packet, Sent
    <2>4. QED
      BY <1>2, <1>3, <2>1, <2>2, <2>3, SentSound DEF Marshals
  <1> HIDE DEF pk
  <1>6. packed' = [packed EXCEPT ![p] = <<pk>>]
    BY <1>2 DEF pk
  <1>7. packed' = [q \in Peers |-> packed'[q]] /\ \A q \in Peers : StringSound(A, packed'[q])
    <2>1. packed = [q \in Peers |-> packed[q]] /\ \A q \in Peers : StringSound(A, packed[q])
      BY DEF CallsInv
    <2>2. StringSound(A, <<pk>>)
      <3>1. pk.multi = FALSE
        BY DEF pk, Packet
      <3>2. QED
        BY <1>5, <3>1 DEF StringSound
    <2>3. QED
      BY <1>6, <2>1, <2>2
  <1>8. \A q \in Peers : CallRight(got[q])'
    BY <1>1, NoneMade
  <1>9. QED
    BY <1>1, <1>7, <1>8 DEF CallsInv

(* send_pack_data sends that string to one receiver.                            *)
LEMMA SendStringKeeps ==
  ASSUME NEW A, CallsInv(A), SlotsInv', NEW p \in Peers, NEW vfd \in Vfds, send_pack_data(p, vfd)
  PROVE  CallsInv(A)'
  <1>1. /\ got' = [q \in Peers |-> NoCall] /\ objs' = objs /\ types' = types
        /\ packed[p] # <<>> /\ packed' = [packed EXCEPT ![p] = <<>>]
        /\ Send(p, Packet(Head(packed[p]), Head(packed[p]).vals, Head(packed[p]).bytes, <<vfd>>, FALSE, FALSE))
    BY DEF send_pack_data, protoVars, slotVars
  <1>2. PICK pk : packed[p] = <<pk>> /\ PacketSound(A, pk) /\ pk.multi = FALSE
    BY <1>1 DEF CallsInv, StringSound
  <1> DEFINE to == <<vfd>>
             sent == Packet(pk, pk.vals, pk.bytes, to, FALSE, FALSE)
  <1>3. Send(p, sent)
    <2>1. Head(packed[p]) = pk
      BY <1>2
    <2>2. QED
      BY <1>1, <2>1, Zenon
  <1>4. PacketSound(A, sent)
    <2>1. PICK self, vals : Marshals(A, self, vals) /\ pk = Sent(self, vals, pk.to, pk.multi, pk.chosen)
      BY <1>2 DEF PacketSound
    <2>2. Len(marshal(self, vals)) + 0 <= MAXTONETD
      <3>1. pk.bytes = marshal(self, vals)
        BY <2>1 DEF Packet, Sent
      <3>2. QED
        BY <1>2, <3>1 DEF PacketSound, Fits
    <2>3. sent = Sent(self, vals, to, FALSE, FALSE)
      <3>1. /\ pk.vals = vals /\ pk.bytes = marshal(self, vals)
            /\ pk.args = self.args /\ pk.name = self.name
        BY <2>1 DEF Packet, Sent
      <3> DEFINE bytes == marshal(self, vals)
      <3> HIDE DEF to, bytes
      <3>2. Packet(pk, vals, bytes, to, FALSE, FALSE) = Packet(self, vals, bytes, to, FALSE, FALSE)
        BY <3>1 DEF Packet
      <3>3. QED
        BY <3>1, <3>2, Zenon DEF Sent, bytes
    <2> HIDE DEF to, sent
    <2>4. QED
      BY <2>1, <2>2, <2>3, SentSound
  <1> HIDE DEF sent
  <1>5. net' = [q \in Peers |-> net'[q]] /\ \A q \in Peers : NetSound(A, net'[q])
    BY <1>3, <1>4, SendKeeps
  <1>6. packed' = [q \in Peers |-> packed'[q]] /\ \A q \in Peers : StringSound(A, packed'[q])
    <2>1. packed = [q \in Peers |-> packed[q]] /\ \A q \in Peers : StringSound(A, packed[q])
      BY DEF CallsInv
    <2>2. StringSound(A, <<>>)
      BY DEF StringSound
    <2>3. QED
      BY <1>1, <2>1, <2>2
  <1>7. \A q \in Peers : CallRight(got[q])'
    BY <1>1, NoneMade
  <1>8. QED
    BY <1>1, <1>5, <1>6, <1>7 DEF CallsInv

(* What is left of the packets on their way.                                    *)
LEMMA NetTail ==
  ASSUME NEW A, NEW s, NetSound(A, s), s # <<>>
  PROVE  NetSound(A, Tail(s)) /\ PacketSound(A, Head(s))
  <1>1. PICK T : s \in Seq(T)
    BY DEF NetSound, IsSeq
  <1>2. /\ Len(s) \in Nat \ {0} /\ DOMAIN s = 1 .. Len(s) /\ Head(s) = s[1] /\ Tail(s) \in Seq(T)
        /\ Len(Tail(s)) = Len(s) - 1 /\ \A k \in 1 .. Len(s) - 1 : Tail(s)[k] = s[k + 1]
    BY <1>1
  <1> DEFINE t == Tail(s)
  <1> HIDE DEF t
  <1>3. t \in Seq(T) /\ Len(t) = Len(s) - 1 /\ \A k \in 1 .. Len(s) - 1 : t[k] = s[k + 1]
    BY <1>2 DEF t
  <1>4. DOMAIN t = 1 .. Len(s) - 1
    BY <1>3
  <1>5. ASSUME NEW k \in DOMAIN t PROVE PacketSound(A, t[k])
    <2>1. k + 1 \in DOMAIN s /\ t[k] = s[k + 1]
      BY <1>2, <1>3, <1>4
    <2>2. QED
      BY <2>1 DEF NetSound
  <1>6. NetSound(A, t)
    BY <1>3, <1>5 DEF NetSound, IsSeq
  <1>7. 1 \in DOMAIN s
    BY <1>2
  <1>8. QED
    BY <1>2, <1>6, <1>7 DEF NetSound, t

(* The receiver o, of whatever protocol, and what it makes of a packet.         *)
LEMMA ReceivedRight ==
  ASSUME NEW A, Agree(A), NEW pk, PacketSound(A, pk), NEW o, o.ref, o.args = pk.args,
         NEW head, head = IF pk.bytes[1] = 0 THEN 3 ELSE 1,
         NEW u, u = unpack(o, Rest(pk.bytes, head))
  PROVE  /\ u.n \in Nat /\ head + u.n = Len(pk.bytes)
         /\ u.vals = [i \in DOMAIN pk.args |-> CutArg(pk.args[i], pk.vals[i])]
  <1>1. PICK self, vals :
          /\ self.id \in Nat \ {0} /\ self.args \in Seq(A) /\ vals \in Inputs(self.args)
          /\ marshal(self, vals) # <<>>
          /\ pk = Sent(self, vals, pk.to, pk.multi, pk.chosen)
    BY DEF PacketSound, Marshals
  <1>2. pk.args = self.args /\ pk.vals = vals /\ pk.bytes = marshal(self, vals)
    BY <1>1 DEF Packet, Sent
  <1> DEFINE n == Len(self.args)
             bytes == Marshalled(self, vals)[n]
             h == Len(IdBytes(self.id))
  <1>3. Packable(self, vals) /\ pk.bytes = bytes
    BY <1>1, <1>2, MarshalFacts
  <1>4. o.args = self.args
    BY <1>2
  <1>5. /\ bytes \in Seq(Bytes) /\ Len(bytes) >= h /\ bytes[1] = IdBytes(self.id)[1]
        /\ Unpacked(o, Rest(bytes, h))[n] = [n |-> Len(bytes) - h, vals |-> Back(self.args, vals, n)]
    <2> DEFINE b == bytes
               k == h
    <2>1. b = Marshalled(self, vals)[Len(self.args)] /\ k = Len(IdBytes(self.id))
      OBVIOUS
    <2>2. self.id \in Nat \ {0} /\ self.args \in Seq(A)
      BY <1>1
    <2> HIDE DEF b, k
    <2>3. ReadWell(self, vals, b, k, o)
      BY <1>3, <1>4, <2>1, <2>2, ReadsBack
    <2>4. QED
      BY <2>3 DEF b, k, ReadWell
  <1>6. h \in Nat /\ head = h
    <2> DEFINE d == IdBytes(self.id)
    <2>1. d \in Seq(Bytes) /\ Len(d) = IF d[1] = 0 THEN 3 ELSE 1
      BY <1>1, IdFacts
    <2> HIDE DEF bytes
    <2>2. head = IF d[1] = 0 THEN 3 ELSE 1
      BY <1>3, <1>5
    <2> HIDE DEF d
    <2>3. Len(d) \in Nat /\ head = Len(d)
      BY <2>1, <2>2
    <2>4. QED
      BY <2>3 DEF d
  <1> HIDE DEF bytes, h
  <1>7. u = [n |-> Len(bytes) - h, vals |-> Back(self.args, vals, n)]
    BY <1>3, <1>4, <1>5, <1>6 DEF unpack
  <1>8. u.n = Len(bytes) - h /\ u.vals = Back(self.args, vals, n)
    BY <1>7
  <1>9. DOMAIN self.args = 1 .. n
    BY <1>1
  <1>10. QED
    BY <1>2, <1>3, <1>5, <1>6, <1>8, <1>9 DEF Back

(* unpack_data finds the object by the id, and reads what was packed.           *)
LEMMA UnpackKeeps ==
  ASSUME NEW A, Agree(A), CallsInv(A), SlotsInv', NEW p \in Peers, NEW fails \in BOOLEAN,
         unpack_data(p, fails)
  PROVE  CallsInv(A)'
  <1> DEFINE pk == Head(net[p])
             buf == pk.bytes
             head == IF buf[1] = 0 THEN 3 ELSE 1
             id == IF buf[1] = 0 THEN buf[2] + Byte * buf[3] ELSE buf[1]
             o == objs[p][slots[p][id + 1]]
             u == unpack(o, Rest(buf, head))
             known == Has(buf, head) /\ id < Len(slots[p])
             seen == [pk EXCEPT !.to = <<>>, !.multi = FALSE, !.chosen = TRUE]
             none == [did |-> TRUE, packet |-> seen, res |-> FormatError, proto |-> net_protocol(0)]
             bad == [did |-> TRUE, packet |-> seen, res |-> FormatError, proto |-> o]
             good == [did |-> TRUE, packet |-> seen, res |-> IF fails THEN ScriptError ELSE head + u.n,
                      proto |-> o, vals |-> u.vals]
  <1>1. /\ objs' = objs /\ types' = types /\ packed' = packed
        /\ net[p] # <<>> /\ net' = [net EXCEPT ![p] = Tail(net[p])]
    BY DEF unpack_data, protoVars, slotVars
  <1>2. got' = [q \in Peers |-> IF q # p THEN NoCall ELSE IF ~known THEN none ELSE IF u.n < 0 THEN bad ELSE good]
    BY DEF unpack_data
  <1>3. PacketSound(A, pk) /\ NetSound(A, Tail(net[p]))
    BY <1>1, NetTail DEF CallsInv
  <1>4. net' = [q \in Peers |-> net'[q]] /\ \A q \in Peers : NetSound(A, net'[q])
    <2>1. net = [q \in Peers |-> net[q]] /\ \A q \in Peers : NetSound(A, net[q])
      BY DEF CallsInv
    <2>2. QED
      BY <1>1, <1>3, <2>1
  <1> HIDE DEF pk
  <1>5. seen.args = pk.args /\ seen.vals = pk.vals /\ seen.bytes = buf
    BY <1>3 DEF PacketSound, Packet, Sent
  <1> HIDE DEF id
  <1> HIDE DEF o
  <1>6. CallRight(none)
    <2>1. ~net_protocol(0).ref
      BY DEF net_protocol
    <2> HIDE DEF seen
    <2>2. QED
      BY <2>1 DEF CallRight
  <1>7. o.ref /\ o.args = pk.args =>
          /\ u.n \in Nat /\ head + u.n = Len(buf)
          /\ u.vals = [i \in DOMAIN pk.args |-> CutArg(pk.args[i], pk.vals[i])]
    BY <1>3, ReceivedRight
  <1> HIDE DEF u, seen, head
  <1>8. u.n < 0 => CallRight(bad)
    <2>1. bad.proto = o /\ bad.packet = seen
      OBVIOUS
    <2>2. u.n < 0 => ~(o.ref /\ o.args = pk.args)
      BY <1>7
    <2> HIDE DEF bad
    <2>3. QED
      BY <1>5, <2>1, <2>2 DEF CallRight
  <1>9. CallRight(good)
    <2>1. /\ good.proto = o /\ good.packet = seen /\ good.vals = u.vals
          /\ good.res = IF fails THEN ScriptError ELSE head + u.n
      OBVIOUS
    <2> HIDE DEF good
    <2>2. QED
      BY <1>5, <1>7, <2>1 DEF CallRight
  <1>10. ~NoCall.did
    BY DEF NoCall
  <1>11. CallRight(NoCall)
    BY <1>10 DEF CallRight
  <1> HIDE DEF none, bad, good, known
  <1>12. ASSUME NEW q \in Peers PROVE CallRight(got'[q])
    BY <1>2, <1>6, <1>8, <1>9, <1>11
  <1>13. QED
    BY <1>1, <1>4, <1>12 DEF CallsInv

(* Nothing is loaded, packed or on its way.                                     *)
LEMMA CallsStart ==
  ASSUME NEW A, Agree(A), CallsInit
  PROVE  CallsInv(A)
  <1>1. SlotsInv
    BY SlotsStart DEF CallsInit
  <1>2. ASSUME NEW p \in Peers PROVE ObjectsKnown(A, objs[p])
    <2>1. objs[p] = <<net_protocol(0)>>
      BY DEF CallsInit, SlotsInit
    <2>2. net_protocol(0).id \in Nat /\ net_protocol(0).args \in Seq(A)
      BY DEF net_protocol
    <2> DEFINE x == net_protocol(0)
    <2> HIDE DEF x
    <2>3. ObjectsKnown(A, <<x>>)
      BY <2>2 DEF ObjectsKnown, x
    <2>4. QED
      BY <2>1, <2>3 DEF x
  <1>3. NetSound(A, <<>>) /\ StringSound(A, <<>>) /\ FirstTypes \in Seq(A)
    BY DEF NetSound, StringSound, IsSeq, Agree, FormatsAgree
  <1>4. CallRight(NoCall)
    <2>1. ~NoCall.did
      BY DEF NoCall
    <2>2. QED
      BY <2>1 DEF CallRight
  <1>5. QED
    BY <1>1, <1>2, <1>3, <1>4 DEF CallsInit, CallsInv

(* Every operation of a process keeps the invariant of the calls.               *)
LEMMA CallsStep ==
  ASSUME NEW A, Agree(A), CallsInv(A), [CallsNext]_callVars
  PROVE  CallsInv(A)'
  <1>1. SlotsInv'
    BY CallsLoad, SlotsStep DEF CallsInv
  <1>2. CASE UNCHANGED callVars
    BY <1>1, <1>2 DEF CallsInv, callVars, protoVars, slotVars
  <1>3. CASE CallsNext
    <2>1. PICK p \in Peers :
            \/ \E t \in TypeFiles : add_arg_type(p, t)
            \/ \E f \in Files : LoadFile(p, f)
            \/ \E n \in FuncNames : pack(p, n) \/ pack_protocol(p, n)
            \/ \E vfd \in Vfds : send_pack_data(p, vfd)
            \/ \E fails \in BOOLEAN : unpack_data(p, fails)
      BY <1>3 DEF CallsNext
    <2>2. CASE \E t \in TypeFiles : add_arg_type(p, t)
      BY <1>1, <2>2, TypeKeeps
    <2>3. CASE \E f \in Files : LoadFile(p, f)
      BY <1>1, <2>3, LoadKeeps
    <2>4. CASE \E n \in FuncNames : pack(p, n) \/ pack_protocol(p, n)
      BY <1>1, <2>4, PackKeeps, PackStringKeeps
    <2>5. CASE \E vfd \in Vfds : send_pack_data(p, vfd)
      BY <1>1, <2>5, SendStringKeeps
    <2>6. CASE \E fails \in BOOLEAN : unpack_data(p, fails)
      BY <1>1, <2>6, UnpackKeeps
    <2>7. QED
      BY <2>1, <2>2, <2>3, <2>4, <2>5, <2>6
  <1>4. QED
    BY <1>2, <1>3

(* The calls only load files as SlotsSpec does.                                 *)
THEOREM CallsImplementSlots == CallsSpec => SlotsSpec
  <1>1. CallsInit => SlotsInit /\ SlotsInv
    BY SlotsStart DEF CallsInit
  <1>2. SlotsInv /\ [CallsNext]_callVars => SlotsInv' /\ [SlotsNext]_slotVars
    BY CallsLoad, SlotsStep
  <1>3. QED
    BY <1>1, <1>2, PTL DEF CallsSpec, SlotsSpec

(* Delivered, in every state: for whatever types A the formats agree on, what    *)
(* marshal packed fits the buffer with its receivers, those that pack chose are  *)
(* reachable, and a receiver that describes the arguments in the same way reads  *)
(* all of it and passes the values on, as far as an int and the types carry      *)
(* them (net_protocol::pack, marshal, unpack and unpack_data).                   *)
THEOREM CallsDelivered ==
  ASSUME NEW CONSTANT A, FormatsAgree(A, Seq(A), Seq(Bytes))
  PROVE  CallsSpec => []Delivered
  <1>0. Agree(A)
    BY DEF Agree
  <1>1. CallsInit => CallsInv(A)
    BY <1>0, CallsStart
  <1>2. CallsInv(A) /\ [CallsNext]_callVars => CallsInv(A)'
    BY <1>0, CallsStep
  <1>3. CallsInv(A) => Delivered
    <2>1. ASSUME CallsInv(A), NEW p \in Peers, NEW i \in DOMAIN net[p]
          PROVE  /\ Len(net[p][i].bytes) + (IF net[p][i].multi THEN VfdSize * Len(net[p][i].to) ELSE 0) <= MAXTONETD
                 /\ net[p][i].chosen => \A j \in DOMAIN net[p][i].to : net[p][i].to[j] > VFD_NULL
      <3>1. PacketSound(A, net[p][i])
        BY <2>1 DEF CallsInv, NetSound
      <3>2. QED
        BY <3>1 DEF PacketSound, Fits
    <2>2. ASSUME CallsInv(A), NEW p \in Peers PROVE CallRight(got[p])
      BY <2>2 DEF CallsInv
    <2>3. QED
      BY <2>1, <2>2 DEF CallRight, Delivered
  <1>4. QED
    BY <1>1, <1>2, <1>3, PTL DEF CallsSpec
===============================================================================
