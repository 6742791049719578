--------------------------- MODULE HostServer_proofs --------------------------
(***************************************************************************)
(* Proofs about the two programs whose buffers grow by doubling.  Of       *)
(* cs/my_event, that the buffers and buffered events of Bufferevent keep   *)
(* every byte and its place, and wait for what they have to do.  Of        *)
(* cs/my_xy3, from the section "The packet server" on, that HostServer     *)
(* keeps its tables, the events of each host id and the packets of each    *)
(* program in order.                                                       *)
(***************************************************************************)
EXTENDS HostServer, Bufferevent, FiniteSetTheorems, SequenceTheorems,
        WellFoundedInduction, TLAPS

------------------------------------------------------------------------------
\* Buffered events.  First the buffers of Evbuffer: doubling ends, and no
\* operation loses or moves a byte out of its place.

\* The least-number principle.
LEMMA LeastElement ==
    ASSUME NEW T, T \subseteq Nat, T # {}
    PROVE  \E x \in T : \A y \in T : x <= y
  <1>1. IsWellFoundedOn(OpToRel(<, Nat), Nat)
    BY NatLessThanWellFounded
  <1>2. PICK x \in T : \A y \in T : ~(<<y, x>> \in OpToRel(<, Nat))
    BY <1>1, WFMin
  <1>3. \A y \in T : ~(y < x)
    BY <1>2 DEF OpToRel
  <1>4. QED
    BY <1>3

\* The equation by which evbuffer_expand doubles a length.
Doubles(f, need) ==
    f = [l \in Nat |-> IF l >= need \/ l = 0 THEN l ELSE f[2 * l]]

\* Everything that doubling l over and over gives.
Powers(l) == {m \in Nat : \A S \in SUBSET Nat : l \in S /\ (\A x \in S : 2 * x \in S) => m \in S}
Above(l, n) == {m \in Powers(l) : m >= n}

LEMMA PowersFacts ==
    ASSUME NEW l \in Nat
    PROVE  /\ l \in Powers(l) /\ \A m \in Powers(l) : m >= l
           /\ Powers(l) = Powers(2 * l) \cup {l}
  <1>1. l \in Powers(l)
    BY DEF Powers
  <1>2. ASSUME NEW m \in Powers(l) PROVE m >= l
    <2> DEFINE S == {x \in Nat : x >= l}
    <2>1. S \in SUBSET Nat /\ l \in S /\ \A x \in S : 2 * x \in S
      OBVIOUS
    <2>2. m \in S
      BY <2>1 DEF Powers
    <2>3. QED
      BY <2>2
  <1>3. Powers(2 * l) \subseteq Powers(l)
    BY DEF Powers
  <1>4. ASSUME NEW m \in Powers(l), m \notin Powers(2 * l) PROVE m = l
    <2>1. m \in Nat /\ 2 * l \in Nat
      BY DEF Powers
    <2>2. PICK S \in SUBSET Nat : 2 * l \in S /\ (\A x \in S : 2 * x \in S) /\ m \notin S
      BY <1>4, <2>1 DEF Powers
    <2> DEFINE T == S \cup {l}
    <2>3. T \in SUBSET Nat /\ l \in T /\ \A x \in T : 2 * x \in T
      BY <2>2
    <2>4. m \in T
      <3> HIDE DEF T
      <3>1. QED
        BY <2>3 DEF Powers
    <2>5. QED
      BY <2>2, <2>4
  <1>5. QED
    BY <1>1, <1>2, <1>3, <1>4

LEMMA DoublesExists ==
    ASSUME NEW n \in Nat
    PROVE  \E f : Doubles(f, n)
  <1> DEFINE Smallest(T) == CHOOSE m \in T : \A k \in T : m <= k
             W(l) == IF l = 0 THEN 0 ELSE Smallest(Above(l, n))
             f == [l \in Nat |-> W(l)]
  <1>1. ASSUME NEW l \in Nat
        PROVE  W(l) = IF l >= n \/ l = 0 THEN l ELSE f[2 * l]
    <2>1. CASE l = 0
      BY <2>1
    <2>2. CASE l # 0 /\ l >= n
      <3>1. l \in Above(l, n) /\ \A k \in Above(l, n) : l <= k /\ k \in Nat
        BY <2>2, PowersFacts DEF Above, Powers
      <3>2. \A m \in Above(l, n) : (\A k \in Above(l, n) : m <= k) => m = l
        BY <3>1
      <3>3. Smallest(Above(l, n)) = l
        BY <3>1, <3>2
      <3>4. QED
        BY <2>2, <3>3
    <2>3. CASE l # 0 /\ ~(l >= n)
      <3>1. Above(l, n) = Above(2 * l, n)
        BY <2>3, PowersFacts DEF Above
      <3>2. 2 * l \in Nat /\ 2 * l # 0
        BY <2>3
      <3>3. f[2 * l] = Smallest(Above(2 * l, n))
        <4> HIDE DEF Smallest
        <4>1. QED
          BY <3>2
      <3>4. W(l) = Smallest(Above(l, n))
        BY <2>3
      <3>5. QED
        BY <2>3, <3>1, <3>3, <3>4
    <2>4. QED
      BY <2>1, <2>2, <2>3
  <1>2. Doubles(f, n)
    <2> HIDE DEF W
    <2>1. QED
      BY <1>1 DEF Doubles
  <1>3. QED
    BY <1>2

\* Doubling ends with enough.
LEMMA GrowsEnough ==
    ASSUME NEW len \in Nat \ {0}, NEW need \in Nat, NEW f, Doubles(f, need)
    PROVE  f[len] \in Nat /\ f[len] >= need /\ f[len] >= len
  <1>1. \A l \in Nat : f[l] = IF l >= need \/ l = 0 THEN l ELSE f[2 * l]
    BY DEF Doubles
  <1> DEFINE Enough(l) == f[l] \in Nat /\ f[l] >= need /\ f[l] >= l
             Bad == {g \in Nat : \E l \in Nat \ {0} : l < need /\ g = need - l /\ ~Enough(l)}
  <1>2. Bad = {}
    <2>1. SUFFICES ASSUME Bad # {} PROVE FALSE
      OBVIOUS
    <2>2. PICK g \in Bad : \A h \in Bad : g <= h
      <3>1. Bad \subseteq Nat
        OBVIOUS
      <3> HIDE DEF Bad
      <3>2. QED
        BY <2>1, <3>1, LeastElement
    <2>3. PICK l \in Nat \ {0} : l < need /\ g = need - l /\ ~Enough(l)
      OBVIOUS
    <2>4. f[l] = f[2 * l] /\ 2 * l \in Nat \ {0} /\ 2 * l > l
      BY <1>1, <2>3
    <2>5. CASE 2 * l >= need
      <3>1. f[2 * l] = 2 * l
        BY <1>1, <2>4, <2>5
      <3>2. QED
        BY <2>3, <2>4, <2>5, <3>1
    <2>6. CASE 2 * l < need
      <3>1. need - 2 * l \in Nat /\ need - 2 * l < g
        BY <2>3, <2>4, <2>6
      <3>2. Enough(2 * l)
        BY <2>2, <2>4, <2>6, <3>1
      <3>3. QED
        BY <2>3, <2>4, <3>2
    <2>7. QED
      BY <2>4, <2>5, <2>6
  <1>3. CASE len >= need
    BY <1>1, <1>3
  <1>4. CASE len < need
    <2>1. need - len \in Nat
      BY <1>4
    <2>2. Enough(len)
      BY <1>2, <1>4, <2>1
    <2>3. QED
      BY <2>2
  <1>5. QED
    BY <1>3, <1>4

LEMMA DoubledFacts ==
    ASSUME NEW len \in Nat \ {0}, NEW need \in Nat
    PROVE  /\ Doubled(len, need) \in Nat /\ Doubled(len, need) >= need
           /\ Doubled(len, need) >= len
  <1> DEFINE f == CHOOSE g : Doubles(g, need)
  <1>1. Doubled(len, need) = f[len]
    BY DEF Doubled, Doubles
  <1>2. Doubles(f, need)
    BY DoublesExists
  <1> HIDE DEF f
  <1>3. QED
    BY <1>1, <1>2, GrowsEnough

------------------------------------------------------------------------------
\* A buffer, and that it holds the bytes numbered from f + 1 on.
Buffer == [mem : Seq(Nat), misalign : Nat, off : Nat]
Holds(b, f) == \A i \in 1 .. b.off : b.mem[b.misalign + i] = f + i

LEMMA DrainFacts ==
    ASSUME NEW b \in Buffer, InMemory(b), NEW f \in Nat, Holds(b, f),
           NEW n \in Nat, n <= b.off, NEW c, c = evbuffer_drain(b, n)
    PROVE  c \in Buffer /\ InMemory(c) /\ c.off = b.off - n /\ Holds(c, f + n)
  <1>1. /\ b.mem \in Seq(Nat) /\ b.misalign \in Nat /\ b.off \in Nat
        /\ b.misalign + b.off <= Len(b.mem) /\ Len(b.mem) \in Nat
    BY DEF Buffer, InMemory
  <1>2. CASE n >= b.off
    <2>1. /\ c.off = 0 /\ c.misalign = 0 /\ c.mem = b.mem /\ c \in Buffer
      BY <1>1, <1>2 DEF evbuffer_drain, Buffer
    <2>2. QED
      BY <1>1, <1>2, <2>1 DEF Holds, InMemory
  <1>3. CASE ~(n >= b.off)
    <2>1. /\ c.off = b.off - n /\ c.misalign = b.misalign + n /\ c.mem = b.mem
          /\ c = [mem |-> c.mem, misalign |-> c.misalign, off |-> c.off]
      BY <1>1, <1>3 DEF evbuffer_drain, Buffer
    <2>2. c \in Buffer
      BY <1>1, <1>3, <2>1 DEF Buffer
    <2>3. ASSUME NEW i \in 1 .. c.off PROVE c.mem[c.misalign + i] = (f + n) + i
      <3>1. n + i \in 1 .. b.off /\ c.misalign + i = b.misalign + (n + i) /\ (f + n) + i = f + (n + i)
        BY <1>1, <2>1
      <3>2. QED
        BY <2>1, <3>1 DEF Holds
    <2>4. QED
      BY <1>1, <2>1, <2>2, <2>3 DEF Holds, InMemory
  <1>4. QED
    BY <1>2, <1>3

LEMMA AlignFacts ==
    ASSUME NEW b \in Buffer, InMemory(b), NEW f \in Nat, Holds(b, f),
           NEW c, c = evbuffer_align(b)
    PROVE  /\ c \in Buffer /\ c.misalign = 0 /\ c.off = b.off
           /\ Len(c.mem) = Len(b.mem) /\ Holds(c, f)
  <1>1. /\ b.mem \in Seq(Nat) /\ b.misalign \in Nat /\ b.off \in Nat
        /\ b.misalign + b.off <= Len(b.mem) /\ Len(b.mem) \in Nat
        /\ DOMAIN b.mem = 1 .. Len(b.mem)
    BY DEF Buffer, InMemory
  <1> DEFINE m == [i \in 1 .. Len(b.mem) |-> IF i <= b.off THEN b.mem[b.misalign + i] ELSE b.mem[i]]
  <1>2. \A i \in 1 .. b.off : Cell(b, i) = b.mem[b.misalign + i]
    BY <1>1 DEF Cell
  <1>3. [i \in DOMAIN b.mem |-> IF i <= b.off THEN Cell(b, i) ELSE b.mem[i]] = m
    BY <1>1, <1>2
  <1>4. c.mem = m /\ c.misalign = 0 /\ c.off = b.off
        /\ c = [mem |-> m, misalign |-> 0, off |-> b.off]
    BY <1>3 DEF evbuffer_align
  <1>5. \A i \in 1 .. Len(b.mem) : b.mem[i] \in Nat
    BY <1>1
  <1>6. \A i \in 1 .. Len(b.mem) : i <= b.off => b.misalign + i \in 1 .. Len(b.mem)
    BY <1>1
  <1>7. \A i \in 1 .. Len(b.mem) : m[i] \in Nat
    BY <1>1, <1>5, <1>6
  <1>8. m \in Seq(Nat) /\ Len(m) = Len(b.mem)
    <2>1. m \in [1 .. Len(b.mem) -> Nat]
      BY <1>7
    <2> HIDE DEF m
    <2>2. QED
      BY <1>1, <2>1
  <1>9. \A i \in 1 .. b.off : m[i] = f + i
    BY <1>1 DEF Holds
  <1> HIDE DEF m
  <1>10. c \in Buffer
    BY <1>1, <1>4, <1>8 DEF Buffer
  <1>11. \A i \in 1 .. c.off : c.misalign + i = i
    BY <1>1, <1>4
  <1>12. QED
    BY <1>4, <1>8, <1>9, <1>10, <1>11 DEF Holds

\* evbuffer_expand makes room for n bytes and keeps those that are there.
LEMMA ExpandFacts ==
    ASSUME NEW b \in Buffer, InMemory(b), NEW f \in Nat, Holds(b, f),
           NEW n \in Nat, NEW c, c = evbuffer_expand(b, n)
    PROVE  /\ c \in Buffer /\ c.off = b.off /\ Holds(c, f) /\ InMemory(c)
           /\ c.misalign + c.off + n <= Len(c.mem)
  <1>1. /\ b.mem \in Seq(Nat) /\ b.misalign \in Nat /\ b.off \in Nat
        /\ b.misalign + b.off <= Len(b.mem) /\ Len(b.mem) \in Nat
    BY DEF Buffer, InMemory
  <1>2. PICK low : low = evbuffer_align(b)
    OBVIOUS
  <1>3. /\ low \in Buffer /\ low.misalign = 0 /\ low.off = b.off
        /\ Len(low.mem) = Len(b.mem) /\ Holds(low, f)
    BY <1>2, AlignFacts
  <1>4. low.mem \in Seq(Nat) /\ DOMAIN low.mem = 1 .. Len(b.mem)
    BY <1>3 DEF Buffer
  <1>5. CASE Len(b.mem) >= Need(b, n)
    <2>1. c = b
      <3>1. ~(Len(b.mem) < Need(b, n)) /\ ~Reallocs(b, n)
        BY <1>1, <1>5 DEF Reallocs, Need
      <3>2. QED
        BY <1>5, <3>1 DEF evbuffer_expand
    <2>2. QED
      BY <1>1, <1>5, <2>1 DEF Need
  <1>6. CASE Len(b.mem) < Need(b, n) /\ ~Reallocs(b, n)
    <2>1. c = low
      BY <1>1, <1>2, <1>6 DEF evbuffer_expand, Reallocs, Need
    <2>2. n <= b.misalign
      BY <1>1, <1>6 DEF Reallocs
    <2>3. QED
      BY <1>1, <1>3, <2>1, <2>2 DEF InMemory
  <1>7. CASE Reallocs(b, n)
    <2>1. PICK k \in Nat : k = NewLen(b, n) /\ k >= Need(b, n)
      <3>1. PICK l \in Nat \ {0} : l = IF Len(b.mem) < MinLen THEN MinLen ELSE Len(b.mem)
        BY <1>1, MinLenAssumption
      <3>2. Need(b, n) \in Nat
        BY <1>1 DEF Need
      <3>3. QED
        BY <3>1, <3>2, DoubledFacts DEF NewLen
    <2>2. Len(b.mem) < k /\ b.misalign + b.off + n <= k
      BY <1>1, <1>7, <2>1 DEF Reallocs, Need
    <2> DEFINE m == [i \in 1 .. k |-> IF i \in DOMAIN low.mem THEN low.mem[i] ELSE Junk]
    <2>3. c = [low EXCEPT !.mem = m]
      BY <1>1, <1>2, <1>7, <2>1 DEF evbuffer_expand, Reallocs, Need
    <2>4. \A i \in 1 .. k : m[i] \in Nat
      BY <1>4 DEF Junk
    <2>5. \A i \in 1 .. b.off : m[i] = low.mem[i]
      BY <1>1, <1>4, <2>2
    <2>6. m \in Seq(Nat) /\ Len(m) = k
      <3>1. m \in [1 .. k -> Nat]
        BY <2>4
      <3> HIDE DEF m
      <3>2. QED
        BY <3>1
    <2> HIDE DEF m
    <2>7. /\ c.mem = m /\ c.misalign = 0 /\ c.off = b.off /\ c \in Buffer
      BY <1>1, <1>3, <2>3, <2>6 DEF Buffer
    <2>8. \A i \in 1 .. b.off : 0 + i = i
      BY <1>1
    <2>9. Holds(c, f)
      BY <1>3, <2>5, <2>7, <2>8 DEF Holds
    <2>10. QED
      BY <1>1, <2>2, <2>6, <2>7, <2>9 DEF InMemory
  <1>8. QED
    BY <1>5, <1>6, <1>7, <1>1 DEF Need

LEMMA PutFacts ==
    ASSUME NEW b \in Buffer, NEW data \in Seq(Nat), NEW f \in Nat, Holds(b, f),
           b.misalign + b.off + Len(data) <= Len(b.mem),
           \A i \in 1 .. Len(data) : data[i] = f + b.off + i,
           NEW c, c = Put(b, data)
    PROVE  /\ c \in Buffer /\ InMemory(c) /\ c.off = b.off + Len(data) /\ Holds(c, f)
  <1>1. /\ b.mem \in Seq(Nat) /\ b.misalign \in Nat /\ b.off \in Nat
        /\ Len(b.mem) \in Nat /\ Len(data) \in Nat
        /\ DOMAIN b.mem = 1 .. Len(b.mem) /\ DOMAIN data = 1 .. Len(data)
    BY DEF Buffer
  <1>2. /\ b.misalign \in Nat /\ b.off \in Nat /\ Len(data) \in Nat /\ Len(b.mem) \in Nat
        /\ b.misalign + b.off + Len(data) <= Len(b.mem)
    BY <1>1
  <1>3. PICK gap \in Nat, held \in Nat, more \in Nat, room \in Nat, a \in Nat :
          /\ gap = b.misalign /\ held = b.off /\ more = Len(data) /\ room = Len(b.mem)
          /\ a = gap + held /\ a + more <= room
    BY <1>2
  <1>4. a = gap + held /\ a + more <= room
    BY <1>3
  <1>5. PICK cells : cells = b.mem
    OBVIOUS
  <1> DEFINE m == [i \in 1 .. room |-> IF i - a \in 1 .. more THEN data[i - a] ELSE cells[i]]
  <1>6. /\ c.mem = m /\ c.misalign = gap /\ c.off = held + more
        /\ c = [mem |-> m, misalign |-> gap, off |-> held + more]
    BY <1>1, <1>3, <1>5 DEF Put, Buffer
  <1>7. /\ \A i \in 1 .. room : cells[i] \in Nat
        /\ \A i \in 1 .. more : data[i] \in Nat /\ data[i] = f + held + i
        /\ \A i \in 1 .. held : cells[gap + i] = f + i
    <2>1. \A i \in 1 .. Len(b.mem) : b.mem[i] \in Nat
      BY <1>1
    <2>2. \A i \in 1 .. Len(data) : data[i] \in Nat /\ data[i] = f + b.off + i
      BY <1>1
    <2>3. \A i \in 1 .. b.off : b.mem[b.misalign + i] = f + i
      BY DEF Holds
    <2>4. QED
      BY <1>3, <1>5, <2>1, <2>2, <2>3
  <1>8. m \in Seq(Nat) /\ Len(m) = room
    <2>1. m \in [1 .. room -> Nat]
      BY <1>7
    <2> HIDE DEF m
    <2>2. QED
      BY <2>1
  <1>9. ASSUME NEW i \in 1 .. held + more PROVE m[gap + i] = f + i
    <2>1. gap + i \in 1 .. room
      BY <1>4
    <2>2. CASE i <= held
      <3>1. ~((gap + i) - a \in 1 .. more) /\ i \in 1 .. held
        BY <1>4, <2>2
      <3>2. QED
        BY <1>7, <2>1, <3>1
    <2>3. CASE ~(i <= held)
      <3>1. i - held \in 1 .. more /\ (gap + i) - a = i - held /\ f + held + (i - held) = f + i
        BY <1>4, <2>3
      <3>2. QED
        BY <1>7, <2>1, <3>1
    <2>4. QED
      BY <2>2, <2>3
  <1> HIDE DEF m
  <1>10. c \in Buffer
    BY <1>6, <1>8 DEF Buffer
  <1>11. InMemory(c)
    BY <1>4, <1>6, <1>8 DEF InMemory
  <1>12. QED
    BY <1>3, <1>6, <1>9, <1>10, <1>11 DEF Holds

------------------------------------------------------------------------------
\* A sequence of bytes numbered from f + 1 on.
Counts(s, f) == \A i \in 1 .. Len(s) : s[i] = f + i

LEMMA RangeCounts ==
    ASSUME NEW f \in Nat, NEW n \in Nat, NEW s, s = Span(f, f + n)
    PROVE  s \in Seq(Nat) /\ Len(s) = n /\ Counts(s, f)
  <1>1. s = [i \in 1 .. n |-> f + i]
    BY DEF Span
  <1>2. s \in Seq(Nat) /\ Len(s) = n
    BY <1>1
  <1>3. QED
    BY <1>1, <1>2 DEF Counts

LEMMA CountsIsRange ==
    ASSUME NEW f \in Nat, NEW s \in Seq(Nat), Counts(s, f)
    PROVE  s = Span(f, f + Len(s))
  <1>1. Len(s) \in Nat /\ s = [i \in 1 .. Len(s) |-> s[i]]
    OBVIOUS
  <1>2. (f + Len(s)) - f = Len(s)
    BY <1>1
  <1>3. s = [i \in 1 .. Len(s) |-> f + i]
    BY <1>1 DEF Counts
  <1>4. QED
    BY <1>2, <1>3 DEF Span

\* Two such sequences without a gap between them, and what they join to.
Joins(f, s, t) ==
    /\ f \in Nat /\ s \in Seq(Nat) /\ t \in Seq(Nat)
    /\ Counts(s, f) /\ Counts(t, f + Len(s))

LEMMA JoinCounts ==
    ASSUME NEW f, NEW s, NEW t, Joins(f, s, t)
    PROVE  /\ s \o t \in Seq(Nat) /\ Len(s \o t) = Len(s) + Len(t) /\ Counts(s \o t, f)
           /\ Len(s) \in Nat /\ Len(t) \in Nat
  <1> DEFINE u == s \o t
  <1>0. /\ f \in Nat /\ s \in Seq(Nat) /\ t \in Seq(Nat)
        /\ Counts(s, f) /\ Counts(t, f + Len(s))
    BY DEF Joins
  <1>1. /\ u \in Seq(Nat) /\ Len(u) = Len(s) + Len(t) /\ Len(s) \in Nat /\ Len(t) \in Nat
        /\ \A i \in 1 .. Len(s) + Len(t) :
              u[i] = IF i <= Len(s) THEN s[i] ELSE t[i - Len(s)]
    BY <1>0
  <1> HIDE DEF u
  <1>2. ASSUME NEW i \in 1 .. Len(s) + Len(t) PROVE u[i] = f + i
    <2>1. CASE i <= Len(s)
      <3>1. i \in 1 .. Len(s)
        BY <1>1, <2>1
      <3>2. QED
        BY <1>0, <1>1, <2>1, <3>1 DEF Counts
    <2>2. CASE ~(i <= Len(s))
      <3>1. i - Len(s) \in 1 .. Len(t) /\ (f + Len(s)) + (i - Len(s)) = f + i
        BY <1>0, <1>1, <2>2
      <3>2. QED
        BY <1>0, <1>1, <2>2, <3>1 DEF Counts
    <2>3. QED
      BY <2>1, <2>2
  <1>3. Counts(u, f)
    BY <1>1, <1>2 DEF Counts
  <1>4. QED
    BY <1>1, <1>3 DEF u

LEMMA SplitCounts ==
    ASSUME NEW f \in Nat, NEW s \in Seq(Nat), Counts(s, f), NEW n \in Nat, n <= Len(s)
    PROVE  /\ SubSeq(s, 1, n) \in Seq(Nat) /\ Len(SubSeq(s, 1, n)) = n
           /\ Counts(SubSeq(s, 1, n), f)
           /\ SubSeq(s, n + 1, Len(s)) \in Seq(Nat)
           /\ Len(SubSeq(s, n + 1, Len(s))) = Len(s) - n
           /\ Counts(SubSeq(s, n + 1, Len(s)), f + n)
  <1>1. PICK l \in Nat, a \in Nat, r \in Nat : l = Len(s) /\ a = n + 1 /\ r = l - n /\ n <= l
    <2>1. Len(s) \in Nat /\ n + 1 \in Nat /\ Len(s) - n \in Nat
      OBVIOUS
    <2>2. QED
      BY <2>1
  <1>2. \A i \in 1 .. l : s[i] \in Nat /\ s[i] = f + i
    BY <1>1 DEF Counts
  <1>3. PICK u \in Seq(Nat) : u = SubSeq(s, 1, n) /\ Len(u) = n /\ \A i \in 1 .. n : u[i] = s[i]
    <2>1. \A i \in 1 .. n : s[i] \in Nat
      BY <1>1, <1>2
    <2>2. /\ SubSeq(s, 1, n) \in Seq(Nat)
          /\ Len(SubSeq(s, 1, n)) = IF 1 <= n THEN n - 1 + 1 ELSE 0
          /\ \A i \in 1 .. n - 1 + 1 : SubSeq(s, 1, n)[i] = s[1 + i - 1]
      BY <2>1, SubSeqProperties
    <2>3. n - 1 + 1 = n /\ (~(1 <= n) => n = 0) /\ \A i \in 1 .. n : 1 + i - 1 = i
      OBVIOUS
    <2>4. QED
      BY <2>2, <2>3
  <1>4. PICK v \in Seq(Nat) : v = SubSeq(s, a, l) /\ Len(v) = r /\ \A i \in 1 .. r : v[i] = s[n + i]
    <2>1. \A i \in a .. l : s[i] \in Nat
      BY <1>1, <1>2
    <2>2. /\ SubSeq(s, a, l) \in Seq(Nat)
          /\ Len(SubSeq(s, a, l)) = IF a <= l THEN l - a + 1 ELSE 0
          /\ \A i \in 1 .. l - a + 1 : SubSeq(s, a, l)[i] = s[a + i - 1]
      BY <2>1, SubSeqProperties
    <2>3. l - a + 1 = r /\ (~(a <= l) => r = 0) /\ \A i \in 1 .. r : a + i - 1 = n + i
      BY <1>1
    <2>4. PICK v \in Seq(Nat) :
             /\ v = SubSeq(s, a, l) /\ Len(v) = (IF a <= l THEN l - a + 1 ELSE 0)
             /\ \A i \in 1 .. l - a + 1 : v[i] = s[a + i - 1]
      BY <2>2
    <2>5. Len(v) = r
      BY <2>3, <2>4
    <2>6. \A i \in 1 .. r : v[i] = s[n + i]
      BY <2>3, <2>4
    <2>7. QED
      BY <2>4, <2>5, <2>6
  <1>5. Counts(u, f)
    <2>1. \A i \in 1 .. n : i \in 1 .. l
      BY <1>1
    <2>2. QED
      BY <1>2, <1>3, <2>1 DEF Counts
  <1>6. Counts(v, f + n)
    <2>1. \A i \in 1 .. r : n + i \in 1 .. l /\ f + (n + i) = (f + n) + i
      BY <1>1
    <2>2. QED
      BY <1>2, <1>4, <2>1 DEF Counts
  <1>7. QED
    BY <1>1, <1>3, <1>4, <1>5, <1>6

LEMMA TailCounts ==
    ASSUME NEW f \in Nat, NEW s \in Seq(Nat), Counts(s, f), s # <<>>
    PROVE  /\ Tail(s) \in Seq(Nat) /\ Len(Tail(s)) = Len(s) - 1 /\ Len(s) \in Nat \ {0}
           /\ Counts(Tail(s), f + 1) /\ Head(s) = f + 1
  <1>1. /\ Len(s) \in Nat \ {0} /\ Tail(s) \in Seq(Nat) /\ Len(Tail(s)) = Len(s) - 1
        /\ Head(s) = s[1] /\ \A i \in 1 .. Len(s) - 1 : Tail(s)[i] = s[i + 1]
    OBVIOUS
  <1>2. \A i \in 1 .. Len(s) - 1 : i + 1 \in 1 .. Len(s) /\ f + (i + 1) = (f + 1) + i
    BY <1>1
  <1>3. 1 \in 1 .. Len(s)
    BY <1>1
  <1>4. \A i \in 1 .. Len(s) - 1 : Tail(s)[i] = (f + 1) + i
    BY <1>1, <1>2 DEF Counts
  <1>5. QED
    BY <1>1, <1>3, <1>4 DEF Counts

LEMMA ContentCounts ==
    ASSUME NEW b \in Buffer, InMemory(b), NEW f \in Nat, Holds(b, f),
           NEW s, s = Content(b)
    PROVE  s \in Seq(Nat) /\ Len(s) = b.off /\ Counts(s, f)
  <1>1. /\ b.mem \in Seq(Nat) /\ b.misalign \in Nat /\ b.off \in Nat
        /\ b.misalign + b.off <= Len(b.mem) /\ Len(b.mem) \in Nat
        /\ DOMAIN b.mem = 1 .. Len(b.mem)
    BY DEF Buffer, InMemory
  <1>2. \A i \in 1 .. b.off : b.misalign + i \in 1 .. Len(b.mem)
    BY <1>1
  <1>3. \A i \in 1 .. b.off : Cell(b, i) = b.mem[b.misalign + i]
    BY <1>1, <1>2 DEF Cell
  <1>4. \A i \in 1 .. b.off : Cell(b, i) = f + i
    BY <1>3 DEF Holds
  <1>5. s = [i \in 1 .. b.off |-> f + i]
    BY <1>4 DEF Content
  <1>6. s \in Seq(Nat) /\ Len(s) = b.off
    <2>1. PICK n \in Nat : n = b.off
      BY <1>1
    <2>2. s = [i \in 1 .. n |-> f + i]
      BY <1>5, <2>1
    <2>3. s \in Seq(Nat) /\ Len(s) = n
      BY <2>2
    <2>4. QED
      BY <2>1, <2>3
  <1>7. QED
    BY <1>5, <1>6 DEF Counts


------------------------------------------------------------------------------
\* BytesKept and Scheduled with what they lean on.  The bytes are numbered
\* through the buffer and the kernel's queue without a gap.
InSide ==
    /\ input \in Buffer /\ InMemory(input) /\ inq \in Seq(Nat)
    /\ drained \in Nat /\ Holds(input, drained)
    /\ Counts(inq, drained + input.off)
    /\ sent = drained + input.off + Len(inq)

OutType ==
    /\ output \in Buffer /\ InMemory(output) /\ outq \in Seq(Nat)
    /\ received \in Nat /\ written \in Nat

OutSide ==
    /\ Counts(outq, received) /\ Holds(output, received + Len(outq))
    /\ written = received + Len(outq) + output.off

Life ==
    /\ state \in {"none", "open", "freed", "exit"}
    /\ added \subseteq {"r", "w"} /\ active \subseteq added
    /\ state = "open" => enabled = {"r", "w"}
    /\ FreedEmpty /\ Scheduled

WmType == wm_read \in [low : Nat, high : Nat] /\ wm_write \in [low : Nat, high : Nat]

BufInv == InSide /\ OutType /\ (state # "exit" => OutSide) /\ Life /\ WmType

LEMMA BufInit == BevInit => BufInv
  <1> SUFFICES ASSUME BevInit PROVE BufInv
    OBVIOUS
  <1>1. /\ state = "none" /\ added = {} /\ active = {}
        /\ input = [mem |-> <<>>, misalign |-> 0, off |-> 0]
        /\ output = [mem |-> <<>>, misalign |-> 0, off |-> 0]
        /\ wm_read = [low |-> 0, high |-> 0] /\ wm_write = [low |-> 0, high |-> 0]
        /\ sent = 0 /\ inq = <<>> /\ drained = 0
        /\ written = 0 /\ outq = <<>> /\ received = 0
    BY DEF BevInit, evbuffer_new, NoMark
  <1>2. /\ <<>> \in Seq(Nat) /\ Len(<<>>) = 0
        /\ [mem |-> <<>>, misalign |-> 0, off |-> 0] \in Buffer
    BY DEF Buffer
  <1>3. InSide
    BY <1>1, <1>2 DEF InSide, InMemory, Holds, Counts
  <1>4. OutType /\ OutSide
    BY <1>1, <1>2 DEF OutType, OutSide, InMemory, Holds, Counts
  <1>5. Life /\ WmType
    BY <1>1 DEF Life, WmType, FreedEmpty, Scheduled
  <1>6. QED
    BY <1>3, <1>4, <1>5 DEF BufInv

LEMMA BufSound == BufInv => BytesKept /\ Scheduled
  <1> SUFFICES ASSUME BufInv PROVE BytesKept /\ Scheduled
    OBVIOUS
  <1>1. Scheduled /\ FreedEmpty
    BY DEF BufInv, Life
  <1>2. Content(input) \o inq = Span(drained, sent)
    <2>1. InSide
      BY DEF BufInv
    <2>2. PICK s : s = Content(input)
      OBVIOUS
    <2>3. s \in Seq(Nat) /\ Len(s) = input.off /\ Counts(s, drained)
      BY <2>1, <2>2, ContentCounts DEF InSide
    <2>4. Joins(drained, s, inq) /\ drained \in Nat
      BY <2>1, <2>3 DEF InSide, Joins
    <2>5. PICK u : u = s \o inq
      OBVIOUS
    <2>6. /\ u \in Seq(Nat) /\ Len(u) = Len(s) + Len(inq) /\ Counts(u, drained)
          /\ Len(s) \in Nat /\ Len(inq) \in Nat
      BY <2>4, <2>5, JoinCounts
    <2>7. u = Span(drained, drained + Len(u))
      BY <2>4, <2>6, CountsIsRange
    <2>8. drained + Len(u) = sent
      <3>1. sent = drained + Len(s) + Len(inq)
        BY <2>1, <2>3 DEF InSide
      <3>2. QED
        BY <2>4, <2>6, <3>1
    <2>9. QED
      BY <2>2, <2>5, <2>7, <2>8
  <1>3. ASSUME state # "exit" PROVE outq \o Content(output) = Span(received, written)
    <2>1. OutType /\ OutSide
      BY <1>3 DEF BufInv
    <2>2. PICK s : s = Content(output)
      OBVIOUS
    <2>3. /\ outq \in Seq(Nat) /\ Len(outq) \in Nat /\ received \in Nat
          /\ received + Len(outq) \in Nat
      BY <2>1 DEF OutType
    <2>4. s \in Seq(Nat) /\ Len(s) = output.off /\ Counts(s, received + Len(outq))
      BY <2>1, <2>2, <2>3, ContentCounts DEF OutType, OutSide
    <2>5. PICK u : u = outq \o s
      OBVIOUS
    <2>6. Joins(received, outq, s)
      BY <2>1, <2>3, <2>4 DEF OutSide, Joins
    <2>7. /\ u \in Seq(Nat) /\ Len(u) = Len(outq) + Len(s) /\ Counts(u, received)
          /\ u = Span(received, received + Len(u)) /\ Len(s) \in Nat
      <3>1. /\ u \in Seq(Nat) /\ Len(u) = Len(outq) + Len(s) /\ Counts(u, received)
            /\ Len(s) \in Nat
        BY <2>5, <2>6, JoinCounts
      <3>2. QED
        BY <2>3, <3>1, CountsIsRange
    <2>8. received + Len(u) = written
      <3>1. written = received + Len(outq) + Len(s)
        BY <2>1, <2>4 DEF OutSide
      <3>2. QED
        BY <2>3, <2>7, <3>1
    <2>9. QED
      BY <2>2, <2>5, <2>7, <2>8
  <1>4. InMemory(input) /\ InMemory(output)
    BY DEF BufInv, InSide, OutType
  <1>5. QED
    BY <1>1, <1>2, <1>3, <1>4 DEF BytesKept, BytesInOrder

\* What a step that leaves a side alone keeps.
LEMMA SidesStay ==
    /\ InSide /\ UNCHANGED <<input, inq, drained, sent>> => InSide'
    /\ OutType /\ UNCHANGED <<output, outq, received, written>> => OutType'
    /\ OutSide /\ UNCHANGED <<output, outq, received, written>> => OutSide'
  BY DEF InSide, OutType, OutSide

\* The program and the peer put bytes behind those that are there.
LEMMA WriteBytes ==
    ASSUME OutType, OutSide, NEW n \in Nat,
           output' = evbuffer_add(output, Span(written, written + n)),
           written' = written + n, UNCHANGED <<outq, received>>
    PROVE  OutType' /\ OutSide'
  <1>1. /\ output \in Buffer /\ InMemory(output) /\ outq \in Seq(Nat)
        /\ received \in Nat /\ written \in Nat
    BY DEF OutType
  <1>2. PICK f \in Nat : f = received + Len(outq)
    BY <1>1
  <1>3. Holds(output, f) /\ written = f + output.off /\ output.off \in Nat
    BY <1>1, <1>2 DEF OutSide, Buffer
  <1>4. PICK data : data = Span(written, written + n)
    OBVIOUS
  <1>5. data \in Seq(Nat) /\ Len(data) = n /\ Counts(data, written)
    BY <1>1, <1>4, RangeCounts
  <1>6. PICK c : c = evbuffer_expand(output, n)
    OBVIOUS
  <1>7. /\ c \in Buffer /\ c.off = output.off /\ Holds(c, f)
        /\ c.misalign + c.off + n <= Len(c.mem)
    BY <1>1, <1>3, <1>6, ExpandFacts
  <1>8. \A i \in 1 .. Len(data) : data[i] = f + c.off + i
    BY <1>3, <1>5, <1>7 DEF Counts
  <1>9. output' = Put(c, data)
    BY <1>4, <1>5, <1>6 DEF evbuffer_add
  <1>10. /\ output' \in Buffer /\ InMemory(output') /\ output'.off = output.off + n
         /\ Holds(output', f)
    BY <1>5, <1>7, <1>8, <1>9, PutFacts
  <1>11. written' \in Nat /\ written' = f + output'.off
    BY <1>1, <1>3, <1>10
  <1>12. QED
    BY <1>1, <1>2, <1>10, <1>11 DEF OutType, OutSide, InMemory

\* Bytes go from the output to the kernel.
LEMMA SendBytes ==
    ASSUME OutType, OutSide, NEW n \in Nat, n <= output.off,
           outq' = outq \o SubSeq(Content(output), 1, n),
           output' = evbuffer_drain(output, n), UNCHANGED <<received, written>>
    PROVE  OutType' /\ OutSide' /\ output'.off = output.off - n
  <1>1. /\ output \in Buffer /\ InMemory(output) /\ outq \in Seq(Nat) /\ Len(outq) \in Nat
        /\ received \in Nat /\ written \in Nat /\ output.off \in Nat
    BY DEF OutType, Buffer
  <1>2. PICK f \in Nat : f = received + Len(outq)
    BY <1>1
  <1>3. Holds(output, f) /\ written = f + output.off /\ Counts(outq, received)
    BY <1>2 DEF OutSide
  <1>4. PICK s : s = Content(output)
    OBVIOUS
  <1>5. s \in Seq(Nat) /\ Len(s) = output.off /\ Counts(s, f)
    BY <1>1, <1>3, <1>4, ContentCounts
  <1>6. PICK t : t = SubSeq(s, 1, n)
    OBVIOUS
  <1>7. t \in Seq(Nat) /\ Len(t) = n /\ Counts(t, f)
    BY <1>5, <1>6, SplitCounts
  <1>8. outq' = outq \o t
    BY <1>4, <1>6
  <1>9. outq' \in Seq(Nat) /\ Len(outq') = Len(outq) + n /\ Counts(outq', received)
    <2>1. Joins(received, outq, t)
      BY <1>1, <1>2, <1>3, <1>7 DEF Joins
    <2>2. QED
      BY <1>7, <1>8, <2>1, JoinCounts
  <1>10. /\ output' \in Buffer /\ InMemory(output') /\ output'.off = output.off - n
         /\ Holds(output', f + n)
    BY <1>1, <1>3, DrainFacts
  <1>11. f + n = received + Len(outq') /\ written = received + Len(outq') + output'.off
    <2>1. PICK q \in Nat, o \in Nat : q = Len(outq) /\ o = output.off
      BY <1>1
    <2>2. /\ f = received + q /\ written = f + o /\ Len(outq') = q + n
          /\ output'.off = o - n
      BY <1>2, <1>3, <1>9, <1>10, <2>1
    <2>3. received \in Nat
      BY <1>1
    <2>4. f + n = received + (q + n) /\ written = received + (q + n) + (o - n)
      BY <2>2, <2>3
    <2>5. QED
      BY <2>2, <2>4
  <1>12. QED
    BY <1>1, <1>9, <1>10, <1>11 DEF OutType, OutSide, InMemory


\* What came goes into the input, or room was made for it.
LEMMA ReadBytes ==
    ASSUME InSide, NEW n \in Nat, n <= Len(inq),
           input' = Put(evbuffer_expand(input, n), SubSeq(inq, 1, n)),
           inq' = SubSeq(inq, n + 1, Len(inq)), UNCHANGED <<drained, sent>>
    PROVE  InSide' /\ input'.off = input.off + n
  <1>1. /\ input \in Buffer /\ InMemory(input) /\ inq \in Seq(Nat) /\ Len(inq) \in Nat
        /\ drained \in Nat /\ input.off \in Nat /\ Holds(input, drained)
    BY DEF InSide, Buffer
  <1>2. PICK f \in Nat : f = drained + input.off
    BY <1>1
  <1>3. Counts(inq, f) /\ sent = f + Len(inq)
    BY <1>2 DEF InSide
  <1>4. PICK data : data = SubSeq(inq, 1, n)
    OBVIOUS
  <1>5. /\ data \in Seq(Nat) /\ Len(data) = n /\ Counts(data, f)
        /\ inq' \in Seq(Nat) /\ Len(inq') = Len(inq) - n /\ Counts(inq', f + n)
    BY <1>1, <1>3, <1>4, SplitCounts
  <1>6. PICK c : c = evbuffer_expand(input, n)
    OBVIOUS
  <1>7. /\ c \in Buffer /\ c.off = input.off /\ Holds(c, drained)
        /\ c.misalign + c.off + n <= Len(c.mem)
    BY <1>1, <1>6, ExpandFacts
  <1>8. \A i \in 1 .. Len(data) : data[i] = drained + c.off + i
    BY <1>2, <1>5, <1>7 DEF Counts
  <1>9. input' = Put(c, data)
    BY <1>4, <1>6
  <1>10. /\ input' \in Buffer /\ InMemory(input') /\ input'.off = input.off + n
         /\ Holds(input', drained)
    <2>1. drained \in Nat /\ c.misalign + c.off + Len(data) <= Len(c.mem)
      BY <1>1, <1>5, <1>7
    <2>2. /\ input' \in Buffer /\ InMemory(input') /\ input'.off = c.off + Len(data)
          /\ Holds(input', drained)
      BY <1>5, <1>7, <1>8, <1>9, <2>1, PutFacts
    <2>3. QED
      BY <1>5, <1>7, <2>2
  <1>11. f + n = drained + input'.off /\ sent = drained + input'.off + Len(inq')
    <2>1. PICK q \in Nat, o \in Nat : q = Len(inq) /\ o = input.off
      BY <1>1
    <2>2. /\ f = drained + o /\ sent = f + q /\ Len(inq') = q - n /\ input'.off = o + n
          /\ drained \in Nat
      BY <1>1, <1>2, <1>3, <1>5, <1>10, <2>1
    <2>3. f + n = drained + (o + n) /\ sent = drained + (o + n) + (q - n)
      BY <2>2
    <2>4. QED
      BY <2>2, <2>3
  <1>12. QED
    BY <1>1, <1>5, <1>10, <1>11 DEF InSide, InMemory

LEMMA ExpandBytes ==
    ASSUME InSide, NEW n \in Nat,
           input' = evbuffer_expand(input, n), UNCHANGED <<inq, drained, sent>>
    PROVE  InSide' /\ input'.off = input.off
  <1>1. /\ input \in Buffer /\ InMemory(input) /\ drained \in Nat /\ Holds(input, drained)
    BY DEF InSide
  <1>2. /\ input' \in Buffer /\ input'.off = input.off /\ Holds(input', drained)
        /\ InMemory(input')
    BY <1>1, ExpandFacts
  <1>3. QED
    BY <1>2 DEF InSide, InMemory

\* The program takes bytes out of the input.
LEMMA TakeBytes ==
    ASSUME InSide, NEW n \in Nat, n <= input.off,
           input' = evbuffer_drain(input, n), drained' = drained + n,
           UNCHANGED <<inq, sent>>
    PROVE  InSide' /\ input'.off = input.off - n
  <1>1. /\ input \in Buffer /\ InMemory(input) /\ drained \in Nat /\ Holds(input, drained)
        /\ input.off \in Nat
    BY DEF InSide, Buffer
  <1>2. /\ input' \in Buffer /\ InMemory(input') /\ input'.off = input.off - n
        /\ Holds(input', drained + n)
    BY <1>1, DrainFacts
  <1>3. PICK f \in Nat : f = drained + input.off
    BY <1>1
  <1>4. drained' + input'.off = f
    BY <1>1, <1>2, <1>3
  <1>5. drained' \in Nat /\ drained' = drained + n
    BY <1>1
  <1>6. inq \in Seq(Nat) /\ Counts(inq, f) /\ sent \in Nat /\ sent = f + Len(inq)
    BY <1>3 DEF InSide
  <1>7. QED
    BY <1>2, <1>4, <1>5, <1>6 DEF InSide, InMemory

\* The peer writes, and reads.
LEMMA ArriveBytes ==
    ASSUME InSide, NEW n \in Nat, inq' = inq \o Span(sent, sent + n),
           sent' = sent + n, UNCHANGED <<input, drained>>
    PROVE  InSide'
  <1>1. /\ inq \in Seq(Nat) /\ Len(inq) \in Nat /\ drained \in Nat /\ input.off \in Nat
    BY DEF InSide, Buffer
  <1>2. PICK f \in Nat : f = drained + input.off
    BY <1>1
  <1>3. Counts(inq, f) /\ sent = f + Len(inq) /\ sent \in Nat
    <2>1. Counts(inq, drained + input.off) /\ sent = drained + input.off + Len(inq)
      BY DEF InSide
    <2>2. PICK q \in Nat : q = Len(inq)
      BY <1>1
    <2>3. Counts(inq, f) /\ sent = f + q
      BY <1>2, <2>1, <2>2
    <2>4. f + q \in Nat
      OBVIOUS
    <2>5. QED
      BY <2>2, <2>3, <2>4
  <1>4. PICK t : t = Span(sent, sent + n)
    OBVIOUS
  <1>5. t \in Seq(Nat) /\ Len(t) = n /\ Counts(t, sent)
    BY <1>3, <1>4, RangeCounts
  <1>6. Joins(f, inq, t)
    BY <1>1, <1>3, <1>5 DEF Joins
  <1>7. inq' \in Seq(Nat) /\ Len(inq') = Len(inq) + n /\ Counts(inq', f)
    <2>1. inq' = inq \o t
      BY <1>4
    <2>2. inq' \in Seq(Nat) /\ Len(inq') = Len(inq) + Len(t) /\ Counts(inq', f)
      BY <1>6, <2>1, JoinCounts
    <2>3. QED
      BY <1>5, <2>2
  <1>8. sent' = f + Len(inq')
    <2>1. PICK q \in Nat : q = Len(inq)
      BY <1>1
    <2>2. Len(inq') = q + n /\ sent' = (f + q) + n
      BY <1>3, <1>7, <2>1
    <2>3. QED
      BY <2>2
  <1>9. QED
    BY <1>2, <1>7, <1>8 DEF InSide

LEMMA DeliverBytes ==
    ASSUME OutType, outq # <<>>, Head(outq) = received + 1, outq' = Tail(outq),
           received' = Head(outq), UNCHANGED <<output, written>>
    PROVE  OutType' /\ (OutSide => OutSide')
  <1>1. outq \in Seq(Nat) /\ received \in Nat /\ output.off \in Nat
    BY DEF OutType, Buffer
  <1>2. /\ outq' \in Seq(Nat) /\ Len(outq') = Len(outq) - 1 /\ Len(outq) \in Nat
        /\ received' = received + 1
    BY <1>1
  <1>3. received' + Len(outq') = received + Len(outq)
    BY <1>1, <1>2
  <1>4. Counts(outq, received) => Counts(outq', received')
    BY <1>1, <1>2, TailCounts
  <1>5. OutType'
    BY <1>1, <1>2 DEF OutType, InMemory
  <1>6. QED
    BY <1>3, <1>4, <1>5 DEF OutSide


\* evbuffer_read leaves room below a high mark.
LEMMA RoomFacts ==
    ASSUME InSide, WmType, wm_read.high = 0 \/ wm_read.high > input.off,
           NEW n, n = Room(Len(inq))
    PROVE  /\ n \in Nat /\ n <= Len(inq)
           /\ wm_read.high = 0 \/ input.off + n <= wm_read.high
  <1>1. Len(inq) \in Nat /\ input.off \in Nat /\ wm_read.high \in Nat
    BY DEF InSide, Buffer, WmType
  <1>2. PICK q \in Nat, o \in Nat, h \in Nat : q = Len(inq) /\ o = input.off /\ h = wm_read.high
    BY <1>1
  <1>3. n = IF h = 0 \/ q < h - o THEN q ELSE h - o
    BY <1>2 DEF Room
  <1>4. h = 0 \/ h > o
    BY <1>2
  <1>5. n \in Nat /\ n <= q /\ (h = 0 \/ o + n <= h)
    BY <1>3, <1>4
  <1>6. QED
    BY <1>2, <1>5

\* The mark's property, of one step.
UnderMark == input'.off > input.off => wm_read.high = 0 \/ input'.off <= wm_read.high

InputStays == input' = input /\ inq' = inq /\ drained' = drained /\ sent' = sent
OutputStays == output' = output /\ outq' = outq /\ received' = received /\ written' = written

LEMMA StaysFacts ==
    /\ InSide /\ InputStays => InSide' /\ UnderMark
    /\ OutType /\ OutputStays => OutType'
    /\ OutSide /\ OutputStays => OutSide'
  <1>1. InSide /\ InputStays => InSide'
    BY DEF InSide, InputStays
  <1>2. InSide /\ InputStays => UnderMark
    BY DEF InSide, Buffer, InputStays, UnderMark
  <1>3. QED
    BY <1>1, <1>2 DEF OutType, OutSide, OutputStays

\* The program's calls.
LEMMA ProgramStep ==
    ASSUME BufInv,
           \/ new_client
           \/ \E n \in 1 .. Chunk : bufferevent_write(n) \/ Drains(n)
           \/ \E low \in Marks, high \in Marks : bufferevent_setwatermark("r", low, high)
           \/ \E high \in Marks : bufferevent_setwatermark("w", 0, high)
    PROVE  BufInv' /\ UnderMark
  <1>0. InSide /\ OutType /\ (state # "exit" => OutSide) /\ Life /\ WmType
    BY DEF BufInv
  <1>1. CASE new_client
    <2>1. /\ InputStays /\ OutputStays /\ wm_read' = wm_read /\ wm_write' = wm_write
          /\ state = "none" /\ state' = "open" /\ added' = {"r", "w"} /\ enabled' = {"r", "w"}
          /\ active' = active
      BY <1>1 DEF new_client, inVars, outVars, InputStays, OutputStays
    <2>2. Life'
      BY <1>0, <2>1 DEF Life, FreedEmpty, Scheduled
    <2>3. WmType'
      BY <1>0, <2>1 DEF WmType
    <2>4. QED
      BY <1>0, <2>1, <2>2, <2>3, StaysFacts DEF BufInv
  <1>2. ASSUME NEW n \in 1 .. Chunk, bufferevent_write(n) PROVE BufInv' /\ UnderMark
    <2>1. /\ InputStays /\ wm_read' = wm_read /\ wm_write' = wm_write
          /\ state = "open" /\ state' = "open" /\ active' = active /\ enabled' = enabled
          /\ output' = evbuffer_add(output, Span(written, written + n))
          /\ written' = written + n /\ outq' = outq /\ received' = received
          /\ IF "w" \in enabled THEN AddEvent("w") ELSE UNCHANGED added
      BY <1>2 DEF bufferevent_write, inVars, InputStays
    <2>2. n \in Nat
      BY BuffereventAssumption
    <2>3. OutType' /\ OutSide'
      BY <1>0, <2>1, <2>2, WriteBytes
    <2>4. added' = IF "w" \in active THEN added ELSE added \cup {"w"}
      BY <1>0, <2>1 DEF Life, AddEvent
    <2>5. Life'
      BY <1>0, <2>1, <2>4 DEF Life, FreedEmpty, Scheduled
    <2>6. WmType'
      BY <1>0, <2>1 DEF WmType
    <2>7. QED
      BY <1>0, <2>1, <2>3, <2>5, <2>6, StaysFacts DEF BufInv
  <1>3. ASSUME NEW n \in 1 .. Chunk, Drains(n) PROVE BufInv' /\ UnderMark
    <2>1. PICK size : size = IF input.off < n THEN input.off ELSE n
      OBVIOUS
    <2>2. /\ OutputStays /\ wm_read' = wm_read /\ wm_write' = wm_write
          /\ state = "open" /\ state' = state /\ active' = active /\ enabled' = enabled
          /\ added' = added /\ inq' = inq /\ sent' = sent
          /\ input' = evbuffer_drain(input, size) /\ drained' = drained + size
      BY <1>3, <2>1 DEF Drains, outVars, OutputStays
    <2>3. input.off \in Nat /\ n \in Nat
      BY <1>0, BuffereventAssumption DEF InSide, Buffer
    <2>4. size \in Nat /\ size <= input.off
      BY <2>1, <2>3
    <2>5. InSide' /\ input'.off = input.off - size
      BY <1>0, <2>2, <2>4, TakeBytes
    <2>6. UnderMark
      BY <2>3, <2>4, <2>5 DEF UnderMark
    <2>7. Life' /\ WmType'
      BY <1>0, <2>2 DEF Life, WmType, FreedEmpty, Scheduled, OutputStays
    <2>8. QED
      BY <1>0, <2>2, <2>5, <2>6, <2>7, StaysFacts DEF BufInv
  <1>4. ASSUME NEW ev \in {"r", "w"}, NEW low \in Marks \cup {0}, NEW high \in Marks,
               bufferevent_setwatermark(ev, low, high)
        PROVE  BufInv' /\ UnderMark
    <2>1. /\ InputStays /\ OutputStays /\ state = "open" /\ state' = state
          /\ active' = active /\ enabled' = enabled
          /\ \/ wm_read' = [low |-> low, high |-> high] /\ wm_write' = wm_write
             \/ wm_write' = [low |-> low, high |-> high] /\ wm_read' = wm_read
          /\ IF (wm_read'.high = 0 \/ input.off < wm_read'.high) /\ "r" \in enabled
             THEN AddEvent("r") ELSE UNCHANGED added
      BY <1>4 DEF bufferevent_setwatermark, read_pressure_cb, inVars, outVars,
             InputStays, OutputStays
    <2>2. WmType'
      BY <1>0, <2>1, BuffereventAssumption DEF WmType
    <2>3. enabled = {"r", "w"}
      BY <1>0, <2>1 DEF Life
    <2>4. /\ added' \in {added, added \cup {"r"}}
          /\ wm_read'.high = 0 => added' = IF "r" \in active THEN added ELSE added \cup {"r"}
      BY <2>1, <2>3 DEF AddEvent
    <2>5. Life'
      BY <1>0, <2>1, <2>3, <2>4 DEF Life, FreedEmpty, Scheduled, OutputStays
    <2>6. QED
      BY <1>0, <2>1, <2>2, <2>5, StaysFacts DEF BufInv
  <1>5. QED
    BY <1>1, <1>2, <1>3, <1>4

\* The peer, and the waiting.
LEMMA PeerStep ==
    ASSUME BufInv,
           \/ Poll \/ PeerWrites \/ PeerReads \/ PeerCloses \/ PeerResets
    PROVE  BufInv' /\ UnderMark
  <1>0. InSide /\ OutType /\ (state # "exit" => OutSide) /\ Life /\ WmType
    BY DEF BufInv
  <1>1. /\ state' = state /\ added' = added /\ input' = input /\ output' = output
        /\ enabled' = enabled /\ wm_read' = wm_read /\ wm_write' = wm_write
        /\ active' = active \/ active' = Woken
    BY DEF Poll, PeerWrites, PeerReads, PeerCloses, PeerResets, bufVars
  <1>2. Life'
    <2>1. state # "open" => active' = active
      BY DEF Poll, PeerWrites, PeerReads, PeerCloses, PeerResets
    <2>2. active' \subseteq added
      BY <1>0, <1>1 DEF Life, Woken
    <2>3. QED
      BY <1>0, <1>1, <2>1, <2>2 DEF Life, FreedEmpty, Scheduled
  <1>3. WmType'
    BY <1>0, <1>1 DEF WmType
  <1>4. UnderMark
    BY <1>0, <1>1 DEF UnderMark, InSide, Buffer
  <1>5. CASE Poll \/ PeerCloses \/ PeerResets
    <2>1. InputStays /\ OutputStays
      BY <1>5 DEF Poll, PeerCloses, PeerResets, bufVars, inVars,
             outVars, InputStays, OutputStays
    <2>2. QED
      BY <1>0, <1>1, <1>2, <1>3, <1>4, <2>1, StaysFacts DEF BufInv
  <1>6. CASE PeerWrites
    <2>1. PICK n \in 1 .. Chunk : inq' = inq \o Span(sent, sent + n) /\ sent' = sent + n
      BY <1>6 DEF PeerWrites
    <2>2. drained' = drained /\ OutputStays
      BY <1>1, <1>6 DEF PeerWrites, outVars, OutputStays
    <2>3. n \in Nat
      BY BuffereventAssumption
    <2>4. InSide'
      BY <1>0, <1>1, <2>1, <2>2, <2>3, ArriveBytes
    <2>5. QED
      BY <1>0, <1>1, <1>2, <1>3, <1>4, <2>2, <2>4, StaysFacts DEF BufInv
  <1>7. CASE PeerReads
    <2>1. /\ outq # <<>> /\ Head(outq) = received + 1 /\ outq' = Tail(outq)
          /\ received' = Head(outq) /\ written' = written /\ InputStays
      BY <1>1, <1>7 DEF PeerReads, inVars, InputStays
    <2>2. OutType' /\ (OutSide => OutSide')
      BY <1>0, <1>1, <2>1, DeliverBytes
    <2>3. QED
      BY <1>0, <1>1, <1>2, <1>3, <1>4, <2>1, <2>2, StaysFacts DEF BufInv
  <1>8. QED
    BY <1>5, <1>6, <1>7


\* The end of a connection: what is left is sent, or the program ends.
LEMMA ErrorFacts ==
    ASSUME OutType, OutSide, client_errorcb
    PROVE  /\ OutType' /\ (state' # "exit" => OutSide')
           /\ state' \in {"freed", "exit"} /\ added' = {} /\ active' = {}
           /\ state' = "freed" => output'.off = 0
  <1>1. /\ added' = {} /\ active' = {} /\ written' = written /\ received' = received
        /\ \/ state' = "exit" /\ outq' = outq /\ output' = output
           \/ /\ state' = "freed"
              /\ outq' = outq \o Content(output)
              /\ output' = evbuffer_drain(output, output.off)
    BY DEF client_errorcb
  <1>2. CASE state' = "exit" /\ outq' = outq /\ output' = output
    BY <1>1, <1>2 DEF OutType, InMemory
  <1>3. CASE /\ state' = "freed"
             /\ outq' = outq \o Content(output)
             /\ output' = evbuffer_drain(output, output.off)
    <2>1. /\ output \in Buffer /\ InMemory(output) /\ output.off \in Nat
          /\ received + Len(outq) \in Nat /\ Holds(output, received + Len(outq))
      BY DEF OutType, OutSide, Buffer
    <2>2. PICK s : s = Content(output)
      OBVIOUS
    <2>3. s \in Seq(Nat) /\ Len(s) = output.off
      BY <2>1, <2>2, ContentCounts
    <2>4. SubSeq(s, 1, output.off) = s
      BY <2>3
    <2>5. PICK n \in Nat : n = output.off
      BY <2>1
    <2>6. /\ n <= output.off /\ outq' = outq \o SubSeq(Content(output), 1, n)
          /\ output' = evbuffer_drain(output, n) /\ UNCHANGED <<received, written>>
      BY <1>1, <1>3, <2>2, <2>4, <2>5
    <2>7. OutType' /\ OutSide' /\ output'.off = output.off - n
      BY <2>6, SendBytes
    <2>8. QED
      BY <1>1, <1>3, <2>5, <2>7
  <1>4. QED
    BY <1>1, <1>2, <1>3

LEMMA ReadStep ==
    ASSUME BufInv, bufferevent_readcb
    PROVE  BufInv' /\ UnderMark
  <1>0. /\ InSide /\ OutType /\ OutSide /\ Life /\ WmType
        /\ state = "open" /\ "r" \in active /\ enabled = {"r", "w"}
    BY DEF BufInv, Life, bufferevent_readcb, Due
  <1>1. CASE ReadNone
    <2>1. /\ InputStays /\ OutputStays /\ state' = state /\ enabled' = enabled
          /\ wm_read' = wm_read /\ wm_write' = wm_write
          /\ wm_read.high # 0 /\ added' = added \ {"r"} /\ active' = active \ {"r"}
      BY <1>1 DEF ReadNone, Taken, bufVars, inVars, outVars,
             InputStays, OutputStays
    <2>2. Life' /\ WmType'
      BY <1>0, <2>1 DEF Life, WmType, FreedEmpty, Scheduled, OutputStays
    <2>3. QED
      BY <1>0, <2>1, <2>2, StaysFacts DEF BufInv
  <1>2. CASE ReadSome
    <2>1. PICK n : n = Room(Len(inq))
      OBVIOUS
    <2>2. /\ OutputStays /\ state' = state /\ enabled' = enabled
          /\ wm_read' = wm_read /\ wm_write' = wm_write /\ drained' = drained /\ sent' = sent
          /\ wm_read.high = 0 \/ wm_read.high > input.off
          /\ inq' = SubSeq(inq, n + 1, Len(inq))
          /\ input' = Put(evbuffer_expand(input, n), SubSeq(inq, 1, n))
          /\ added' = IF Pauses(input'.off) THEN added \ {"r"} ELSE added \cup {"r"}
          /\ active' = active \ {"r"}
      BY <1>2, <2>1 DEF ReadSome, Taken, outVars, OutputStays
    <2>3. n \in Nat /\ n <= Len(inq) /\ (wm_read.high = 0 \/ input.off + n <= wm_read.high)
      BY <1>0, <2>1, <2>2, RoomFacts
    <2>4. InSide' /\ input'.off = input.off + n
      BY <1>0, <2>2, <2>3, ReadBytes
    <2>5. UnderMark
      BY <2>3, <2>4 DEF UnderMark
    <2>6. wm_read.high = 0 => added' = added \cup {"r"}
      BY <2>2 DEF Pauses
    <2>7. Life' /\ WmType'
      BY <1>0, <2>2, <2>6 DEF Life, WmType, FreedEmpty, Scheduled, OutputStays
    <2>8. QED
      BY <1>0, <2>2, <2>4, <2>5, <2>7, StaysFacts DEF BufInv
  <1>3. CASE ReadAgain
    <2>1. PICK n : n = Room(Len(inq))
      OBVIOUS
    <2>2. /\ OutputStays /\ state' = state /\ enabled' = enabled /\ added' = added
          /\ wm_read' = wm_read /\ wm_write' = wm_write
          /\ inq' = inq /\ drained' = drained /\ sent' = sent
          /\ wm_read.high = 0 \/ wm_read.high > input.off
          /\ input' = evbuffer_expand(input, n) /\ active' = active \ {"r"}
      BY <1>3, <2>1 DEF ReadAgain, inVars, outVars, OutputStays
    <2>3. n \in Nat
      BY <1>0, <2>1, <2>2, RoomFacts
    <2>4. InSide' /\ input'.off = input.off /\ input.off \in Nat
      BY <1>0, <2>2, <2>3, ExpandBytes DEF InSide, Buffer
    <2>5. UnderMark
      BY <2>4 DEF UnderMark
    <2>6. Life' /\ WmType'
      BY <1>0, <2>2 DEF Life, WmType, FreedEmpty, Scheduled, OutputStays
    <2>7. QED
      BY <1>0, <2>2, <2>4, <2>5, <2>6, StaysFacts DEF BufInv
  <1>4. CASE ReadFails
    <2>1. /\ InputStays /\ wm_read' = wm_read /\ wm_write' = wm_write /\ enabled' = enabled
          /\ client_errorcb
      BY <1>4 DEF ReadFails, inVars, InputStays
    <2>2. /\ OutType' /\ (state' # "exit" => OutSide')
          /\ state' \in {"freed", "exit"} /\ added' = {} /\ active' = {}
          /\ state' = "freed" => output'.off = 0
      BY <1>0, <2>1, ErrorFacts
    <2>3. Life' /\ WmType'
      BY <1>0, <2>1, <2>2 DEF Life, WmType, FreedEmpty, Scheduled
    <2>4. QED
      BY <1>0, <2>1, <2>2, <2>3, StaysFacts DEF BufInv
  <1>5. QED
    BY <1>1, <1>2, <1>3, <1>4 DEF bufferevent_readcb

LEMMA WriteStep ==
    ASSUME BufInv, bufferevent_writecb
    PROVE  BufInv' /\ UnderMark
  <1>0. /\ InSide /\ OutType /\ OutSide /\ Life /\ WmType
        /\ state = "open" /\ "w" \in active /\ enabled = {"r", "w"}
    BY DEF BufInv, Life, bufferevent_writecb, Due
  <1>1. CASE WriteSome
    <2>1. PICK n \in 1 .. output.off :
            /\ outq' = outq \o SubSeq(Content(output), 1, n)
            /\ output' = evbuffer_drain(output, n)
      BY <1>1 DEF WriteSome
    <2>2. /\ InputStays /\ state' = state /\ enabled' = enabled
          /\ wm_read' = wm_read /\ wm_write' = wm_write
          /\ written' = written /\ received' = received
          /\ added' = IF output'.off # 0 THEN added \cup {"w"} ELSE added \ {"w"}
          /\ active' = active \ {"w"}
      BY <1>1 DEF WriteSome, Taken, inVars, InputStays
    <2>3. n \in Nat /\ n <= output.off
      BY <1>0 DEF OutType, Buffer
    <2>4. OutType' /\ OutSide'
      BY <1>0, <2>1, <2>2, <2>3, SendBytes
    <2>5. Life' /\ WmType'
      BY <1>0, <2>2 DEF Life, WmType, FreedEmpty, Scheduled
    <2>6. QED
      BY <1>0, <2>2, <2>4, <2>5, StaysFacts DEF BufInv
  <1>2. CASE WriteNone \/ WriteAgain
    <2>1. /\ InputStays /\ OutputStays /\ state' = state /\ enabled' = enabled
          /\ wm_read' = wm_read /\ wm_write' = wm_write /\ active' = active \ {"w"}
          /\ \/ output.off = 0 /\ added' = added \ {"w"}
             \/ added' = added
      BY <1>2 DEF WriteNone, WriteAgain, Taken, bufVars, inVars,
             outVars, InputStays, OutputStays
    <2>2. Life' /\ WmType'
      BY <1>0, <2>1 DEF Life, WmType, FreedEmpty, Scheduled, OutputStays
    <2>3. QED
      BY <1>0, <2>1, <2>2, StaysFacts DEF BufInv
  <1>3. CASE WriteFails
    <2>1. /\ InputStays /\ OutputStays /\ wm_read' = wm_read /\ wm_write' = wm_write
          /\ state' = "exit" /\ added' = {} /\ active' = {}
      BY <1>3 DEF WriteFails, bufVars, inVars, outVars, InputStays, OutputStays
    <2>2. Life' /\ WmType'
      BY <1>0, <2>1 DEF Life, WmType, FreedEmpty, Scheduled
    <2>3. QED
      BY <1>0, <2>1, <2>2, StaysFacts DEF BufInv
  <1>4. QED
    BY <1>1, <1>2, <1>3 DEF bufferevent_writecb

LEMMA BufStep ==
    ASSUME BufInv, BevNext
    PROVE  BufInv' /\ UnderMark
  <1>1. \/ new_client
        \/ \E n \in 1 .. Chunk : bufferevent_write(n) \/ Drains(n)
        \/ \E low \in Marks, high \in Marks : bufferevent_setwatermark("r", low, high)
        \/ \E high \in Marks : bufferevent_setwatermark("w", 0, high)
        \/ Poll \/ bufferevent_readcb \/ bufferevent_writecb
        \/ PeerWrites \/ PeerReads \/ PeerCloses \/ PeerResets
    BY DEF BevNext
  <1>2. QED
    BY <1>1, ProgramStep, PeerStep, ReadStep, WriteStep

LEMMA BufStutter == BufInv /\ UNCHANGED bevVars => BufInv'
  <1> SUFFICES ASSUME BufInv, UNCHANGED bevVars PROVE BufInv'
    OBVIOUS
  <1>1. /\ InputStays /\ OutputStays /\ state' = state /\ added' = added /\ active' = active
        /\ enabled' = enabled /\ wm_read' = wm_read /\ wm_write' = wm_write
    BY DEF bevVars, bufVars, inVars, outVars, InputStays, OutputStays
  <1>2. InSide' /\ OutType' /\ (state' # "exit" => OutSide')
    BY <1>1, StaysFacts DEF BufInv
  <1>3. Life' /\ WmType'
    BY <1>1 DEF BufInv, Life, WmType, FreedEmpty, Scheduled, OutputStays
  <1>4. QED
    BY <1>2, <1>3 DEF BufInv

LEMMA BufInvAlways == BevSpec => []BufInv
  <1>1. BevInit => BufInv
    BY BufInit
  <1>2. BufInv /\ [BevNext]_bevVars => BufInv'
    BY BufStep, BufStutter
  <1>3. QED
    BY <1>1, <1>2, PTL DEF BevSpec

\* Bytes arrive as they were written, in both directions and through every move,
\* alignment and growth of the buffers (evbuffer_expand, evbuffer_drain), and
\* none is lost in silence, for buffers and writes of any size.
THEOREM BytesStayInOrder == BevSpec => []BytesKept
  <1>1. BufInv => BytesKept
    BY BufSound
  <1>2. QED
    BY <1>1, BufInvAlways, PTL

\* Between callbacks the events of a connection wait for what there is to do:
\* to write whatever is in output, to read unless a high mark is set.
THEOREM EventsWait == BevSpec => []Scheduled
  <1>1. BufInv => Scheduled
    BY BufSound
  <1>2. QED
    BY <1>1, BufInvAlways, PTL

\* No read fills the input above its high mark, wherever the mark is moved.
THEOREM MarkHolds == BevSpec => MarkKept
  <1>1. BevInit => BufInv
    BY BufInit
  <1>2. BufInv /\ [BevNext]_bevVars => BufInv'
    BY BufStep, BufStutter
  <1>3. BufInv /\ [BevNext]_bevVars => [UnderMark]_bevVars
    BY BufStep
  <1>4. [UnderMark]_bevVars <=>
          [input'.off > input.off => wm_read.high = 0 \/ input'.off <= wm_read.high]_bevVars
    BY DEF UnderMark
  <1>5. QED
    BY <1>1, <1>2, <1>3, <1>4, PTL DEF BevSpec, MarkKept

------------------------------------------------------------------------------
\* The packet server.  First its buffers: what each operation makes of a sound
\* buffer is sound, and has the bytes it should have.

Bytes == Seq(Nat)
SoundBuf(b) == b \in Buffers /\ Sound(b) /\ b.len > 0

LEMMA EmptyFacts == SoundBuf(Empty) /\ Empty.data = <<>>
  BY DataBufAssumption DEF SoundBuf, Empty, Buffers, Sound

\* The fields of a sound buffer.
LEMMA FieldFacts ==
    ASSUME NEW b, SoundBuf(b)
    PROVE  /\ b.len \in Nat \ {0} /\ b.head \in Nat /\ b.tail \in Nat /\ b.left \in Nat
           /\ b.data \in Bytes /\ b.head <= b.tail /\ b.tail <= b.len /\ b.left = b.len - b.tail
           /\ Len(b.data) = b.tail - b.head
           /\ b = [len |-> b.len, head |-> b.head, tail |-> b.tail, left |-> b.left, data |-> b.data]
  <1>1. b \in Buffers /\ Sound(b) /\ b.len > 0
    BY DEF SoundBuf
  <1>2. /\ b.len \in Nat /\ b.head \in Nat /\ b.tail \in Nat /\ b.left \in Nat /\ b.data \in Seq(Nat)
        /\ b = [len |-> b.len, head |-> b.head, tail |-> b.tail, left |-> b.left, data |-> b.data]
    BY <1>1 DEF Buffers
  <1>3. QED
    BY <1>1, <1>2 DEF Sound, Bytes

LEMMA BufferIs ==
    ASSUME NEW len \in Nat \ {0}, NEW head \in Nat, NEW tail \in Nat, NEW left0 \in Nat,
           NEW data \in Bytes, head <= tail, tail <= len, left0 = len - tail,
           Len(data) = tail - head
    PROVE  SoundBuf([len |-> len, head |-> head, tail |-> tail, left |-> left0, data |-> data])
  BY DEF SoundBuf, Buffers, Sound, Bytes

LEMMA MoveHeadFacts ==
    ASSUME NEW b, SoundBuf(b)
    PROVE  LET m == moveHead(b)
           IN  /\ SoundBuf(m) /\ m.data = b.data /\ m.head = 0 /\ m.len = b.len
               /\ m.left = b.len - Len(b.data) /\ m.left >= b.left /\ m.tail = Len(b.data)
               /\ b.left \in Nat /\ b.len \in Nat \ {0} /\ Len(b.data) \in Nat
  <1>1. PICK l \in Nat \ {0}, h \in Nat, t \in Nat, e \in Nat, d \in Bytes :
           /\ b = [len |-> l, head |-> h, tail |-> t, left |-> e, data |-> d]
           /\ h <= t /\ t <= l /\ e = l - t /\ Len(d) = t - h
    BY FieldFacts
  <1>2. PICK t2 \in Nat, e2 \in Nat : t2 = t - h /\ e2 = e + h
    BY <1>1
  <1>3. 0 <= t2 /\ t2 <= l /\ e2 = l - t2 /\ t2 - 0 = t2 /\ e2 >= e /\ Len(d) = t2
    BY <1>1, <1>2
  <1>4. moveHead(b) = [len |-> l, head |-> 0, tail |-> t2, left |-> e2, data |-> d]
    <2>1. b.len = l /\ b.head = h /\ b.tail = t /\ b.left = e /\ b.data = d
      BY <1>1
    <2>2. moveHead(b) = [b EXCEPT !.tail = t2, !.left = e2, !.head = 0]
      BY <1>2, <2>1 DEF moveHead
    <2>3. QED
      BY <1>1, <2>2
  <1>5. SoundBuf([len |-> l, head |-> 0, tail |-> t2, left |-> e2, data |-> d])
    <2>1. Len(d) = t2 - 0
      BY <1>3
    <2>2. QED
      BY <1>3, <2>1, BufferIs
  <1>6. QED
    BY <1>1, <1>3, <1>4, <1>5

LEMMA NewLenFacts ==
    ASSUME NEW len \in Nat \ {0}, NEW need \in Nat
    PROVE  newLen(len, need) \in Nat /\ newLen(len, need) >= len + need
  <1> DEFINE n == len + need
             f == CHOOSE g : Doubles(g, n)
  <1>1. newLen(len, need) = f[2 * len]
    BY DEF newLen, Doubles
  <1>2. n \in Nat /\ 2 * len \in Nat \ {0}
    OBVIOUS
  <1> HIDE DEF n
  <1>3. Doubles(f, n)
    BY <1>2, DoublesExists
  <1> HIDE DEF f
  <1>4. f[2 * len] \in Nat /\ f[2 * len] >= n
    BY <1>2, <1>3, GrowsEnough
  <1>5. QED
    BY <1>1, <1>4 DEF n

LEMMA GrowFacts ==
    ASSUME NEW b, SoundBuf(b), NEW need \in Nat
    PROVE  LET e == expandBuf(b, need)
           IN  SoundBuf(e) /\ e.data = b.data /\ e.left >= need
  <1> DEFINE m == moveHead(b)
             n == newLen(m.len, need)
  <1>1. SoundBuf(m) /\ m.data = b.data
    BY MoveHeadFacts
  <1>2. expandBuf(b, need) =
          IF m.left >= need THEN m ELSE [m EXCEPT !.len = n, !.left = n - m.tail]
    BY DEF expandBuf
  <1> HIDE DEF m
  <1>3. CASE m.left >= need
    BY <1>1, <1>2, <1>3
  <1>4. CASE ~(m.left >= need)
    <2>1. PICK l \in Nat \ {0}, h \in Nat, t \in Nat, e \in Nat, d \in Bytes :
             /\ m = [len |-> l, head |-> h, tail |-> t, left |-> e, data |-> d]
             /\ h <= t /\ t <= l /\ e = l - t /\ Len(d) = t - h
      BY <1>1, FieldFacts
    <2>2. n \in Nat /\ n >= l + need
      BY <2>1, NewLenFacts
    <2> HIDE DEF n
    <2>3. PICK e2 \in Nat : e2 = n - t /\ e2 >= need /\ n # 0 /\ t <= n
      BY <2>1, <2>2
    <2>4. expandBuf(b, need) = [len |-> n, head |-> h, tail |-> t, left |-> e2, data |-> d]
      BY <1>2, <1>4, <2>1, <2>3
    <2>5. SoundBuf([len |-> n, head |-> h, tail |-> t, left |-> e2, data |-> d])
      BY <2>1, <2>2, <2>3, BufferIs
    <2>6. QED
      BY <1>1, <2>1, <2>3, <2>4, <2>5
  <1>5. QED
    BY <1>3, <1>4

LEMMA AddFacts ==
    ASSUME NEW b, SoundBuf(b), NEW s \in Bytes, Len(s) <= b.left
    PROVE  SoundBuf(Add(b, s)) /\ Add(b, s).data = b.data \o s
  <1>1. PICK l \in Nat \ {0}, h \in Nat, t \in Nat, e \in Nat, d \in Bytes :
           /\ b = [len |-> l, head |-> h, tail |-> t, left |-> e, data |-> d]
           /\ h <= t /\ t <= l /\ e = l - t /\ Len(d) = t - h
    BY FieldFacts
  <1>2. PICK k \in Nat : k = Len(s) /\ k <= e
    BY <1>1 DEF Bytes
  <1>3. PICK t2 \in Nat, e2 \in Nat : t2 = t + k /\ e2 = e - k
    <2>1. t + k \in Nat /\ e - k \in Nat
      BY <1>2
    <2>2. QED
      BY <2>1
  <1>4. PICK w \in Bytes : w = d \o s /\ Len(w) = Len(d) + k
    <2>1. d \o s \in Bytes /\ Len(d \o s) = Len(d) + Len(s)
      BY DEF Bytes
    <2>2. QED
      BY <1>2, <2>1
  <1>5. h <= t2 /\ t2 <= l /\ e2 = l - t2 /\ Len(w) = t2 - h
    BY <1>1, <1>2, <1>3, <1>4
  <1>6. Add(b, s) = [len |-> l, head |-> h, tail |-> t2, left |-> e2, data |-> w]
    <2>1. b.len = l /\ b.head = h /\ b.tail = t /\ b.left = e /\ b.data = d
      BY <1>1
    <2>2. Add(b, s) = [b EXCEPT !.tail = t2, !.left = e2, !.data = w]
      BY <1>2, <1>3, <1>4, <2>1 DEF Add
    <2>3. QED
      BY <1>1, <2>2
  <1>7. SoundBuf([len |-> l, head |-> h, tail |-> t2, left |-> e2, data |-> w])
    BY <1>5, BufferIs
  <1>8. SoundBuf(Add(b, s))
    BY <1>6, <1>7
  <1>9. Add(b, s).data = w
    BY <1>6
  <1>10. b.data = d
    BY <1>1
  <1>11. QED
    BY <1>4, <1>8, <1>9, <1>10

LEMMA RawFacts ==
    ASSUME NEW b, SoundBuf(b), NEW s \in Bytes
    PROVE  SoundBuf(appendRawData(b, s)) /\ appendRawData(b, s).data = b.data \o s
  <1>1. Len(s) \in Nat
    BY DEF Bytes
  <1>2. PICK e : e = expandBuf(b, Len(s)) /\ SoundBuf(e) /\ e.data = b.data /\ e.left >= Len(s)
    BY <1>1, GrowFacts
  <1>3. Len(s) <= e.left
    BY <1>1, <1>2, FieldFacts
  <1>4. QED
    BY <1>2, <1>3, AddFacts DEF appendRawData

LEMMA CutFacts ==
    ASSUME NEW b, SoundBuf(b), NEW n \in Nat
    PROVE  /\ SoundBuf(cutData(b, n))
           /\ cutData(b, n).data = IF n > Len(b.data) THEN b.data
                                        ELSE SubSeq(b.data, n + 1, Len(b.data))
  <1>1. PICK l \in Nat \ {0}, h \in Nat, t \in Nat, e \in Nat, d \in Bytes :
           /\ b = [len |-> l, head |-> h, tail |-> t, left |-> e, data |-> d]
           /\ h <= t /\ t <= l /\ e = l - t /\ Len(d) = t - h
    BY FieldFacts
  <1>2. PICK k \in Nat : k = Len(d) /\ k = t - h
    BY <1>1 DEF Bytes
  <1>3. getDataSize(b) = k
    BY <1>1, <1>2 DEF getDataSize
  <1>4. CASE n > k
    BY <1>1, <1>2, <1>3, <1>4 DEF cutData
  <1>5. CASE ~(n > k)
    <2>1. PICK w : w = SubSeq(d, n + 1, k)
      OBVIOUS
    <2>2. w \in Bytes /\ Len(w) = k - n
      <3>1. n + 1 \in Nat /\ n + 1 >= 1 /\ n + 1 <= k + 1 /\ k - (n + 1) + 1 = k - n
        BY <1>5
      <3>2. d \in Seq(Nat) /\ Len(d) = k
        BY <1>2 DEF Bytes
      <3>3. SubSeq(d, n + 1, k) \in Seq(Nat) /\ Len(SubSeq(d, n + 1, k)) = k - (n + 1) + 1
        BY <3>1, <3>2
      <3>4. QED
        BY <2>1, <3>1, <3>3 DEF Bytes
    <2>3. PICK h2 \in Nat : h2 = h + n
      OBVIOUS
    <2>4. h2 <= t /\ Len(w) = t - h2
      BY <1>2, <1>5, <2>2, <2>3
    <2>5. cutData(b, n) = [len |-> l, head |-> h2, tail |-> t, left |-> e, data |-> w]
      BY <1>1, <1>2, <1>3, <1>5, <2>1, <2>3 DEF cutData
    <2>6. SoundBuf([len |-> l, head |-> h2, tail |-> t, left |-> e, data |-> w])
      BY <1>1, <2>2, <2>4, BufferIs
    <2>7. QED
      <3>1. b.data = d /\ cutData(b, n).data = w
        BY <1>1, <2>5
      <3>2. QED
        BY <1>2, <1>5, <2>1, <2>5, <2>6, <3>1
  <1>6. QED
    BY <1>4, <1>5

LEMMA FrameFacts ==
    ASSUME NEW s \in Bytes
    PROVE  /\ Frame(s) \in Bytes /\ Len(Frame(s)) = Len(s) + 2
           /\ Frame(s)[1] = Len(s) % 256 /\ Frame(s)[2] = Len(s) \div 256
           /\ SubSeq(Frame(s), 3, Len(s) + 2) = s
  <1>1. PICK k \in Nat, x \in Nat, y \in Nat : k = Len(s) /\ x = k % 256 /\ y = k \div 256
    <2>1. PICK k \in Nat : k = Len(s)
      BY DEF Bytes
    <2>2. k % 256 \in Nat /\ k \div 256 \in Nat
      BY <2>1
    <2>3. QED
      BY <2>1, <2>2
  <1>2. PICK h : h = <<x, y>> /\ h \in Bytes /\ Len(h) = 2 /\ h[1] = x /\ h[2] = y
    <2>1. <<x, y>> \in Seq(Nat) /\ Len(<<x, y>>) = 2 /\ <<x, y>>[1] = x /\ <<x, y>>[2] = y
      BY <1>1
    <2>2. QED
      BY <2>1 DEF Bytes
  <1>3. PICK f : f = h \o s
    OBVIOUS
  <1>4. Frame(s) = f
    BY <1>1, <1>2, <1>3 DEF Frame
  <1>5. f \in Bytes /\ Len(f) = 2 + k /\ \A i \in 1 .. 2 + k : f[i] = IF i <= 2 THEN h[i] ELSE s[i - 2]
    BY <1>1, <1>2, <1>3 DEF Bytes
  <1>6. f[1] = x /\ f[2] = y
    BY <1>2, <1>5
  <1>7. SubSeq(f, 3, k + 2) = s
    <2>1. PICK w : w = SubSeq(f, 3, k + 2)
      OBVIOUS
    <2>2. w \in Seq(Nat) /\ Len(w) = k /\ \A i \in 1 .. k : w[i] = f[3 + i - 1]
      BY <1>5, <2>1 DEF Bytes
    <2>3. ASSUME NEW i \in 1 .. k PROVE w[i] = s[i]
      <3>1. 3 + i - 1 \in 1 .. 2 + k /\ ~(3 + i - 1 <= 2) /\ 3 + i - 1 - 2 = i
        OBVIOUS
      <3>2. QED
        BY <1>5, <2>2, <3>1
    <2>4. QED
      BY <1>1, <2>1, <2>2, <2>3, SeqEqual DEF Bytes
  <1>8. QED
    BY <1>1, <1>4, <1>5, <1>6, <1>7

LEMMA PackFacts ==
    ASSUME NEW b, SoundBuf(b), NEW s \in Bytes
    PROVE  /\ SoundBuf(appendPack(b, s))
           /\ appendPack(b, s).data =
                IF Fits(b, s) THEN b.data \o Frame(s) ELSE b.data
  <1>1. PICK k \in Nat : k = Len(s)
    BY DEF Bytes
  <1>2. PICK m : m = moveHead(b) /\ SoundBuf(m) /\ m.data = b.data /\ m.left >= b.left
    BY MoveHeadFacts
  <1>3. PICK o : o = IF 2 + k > b.left THEN m ELSE b
    OBVIOUS
  <1>4. /\ Fits(b, s) <=> 2 + k <= m.left
        /\ appendPack(b, s) = IF Fits(b, s) THEN Add(o, Frame(s)) ELSE o
    BY <1>1, <1>2, <1>3 DEF appendPack, Fits, HeadLen
  <1>5. SoundBuf(o) /\ o.data = b.data
    BY <1>2, <1>3
  <1>6. CASE Fits(b, s)
    <2>1. b.left \in Nat /\ m.left \in Nat
      BY <1>2, FieldFacts
    <2>2. 2 + k <= o.left
      BY <1>3, <1>4, <1>6, <2>1
    <2>3. Frame(s) \in Bytes /\ Len(Frame(s)) <= o.left
      <3>1. k + 2 <= o.left
        BY <1>5, <2>2, FieldFacts
      <3>2. QED
        BY <1>1, <3>1, FrameFacts
    <2>4. QED
      BY <1>4, <1>5, <1>6, <2>3, AddFacts
  <1>7. CASE ~Fits(b, s)
    BY <1>4, <1>5, <1>7
  <1>8. QED
    BY <1>6, <1>7

------------------------------------------------------------------------------
\* FlattenSeq by its equation: g[i] is the first i pieces of ss together.
Piece(g, ss, i) == IF i = 1 THEN ss[i] ELSE g[i - 1] \o ss[i]
FlatTo(g, ss, n) == g = [i \in 1 .. n |-> Piece(g, ss, i)]

LEMMA FlatIs ==
    ASSUME NEW ss, NEW n \in Nat, NEW g, DOMAIN g = 1 .. n, NEW h, g = [i \in 1 .. n |-> h[i]],
           \A i \in 1 .. n : h[i] = Piece(g, ss, i)
    PROVE  FlatTo(g, ss, n)
  <1>1. g = [i \in 1 .. n |-> Piece(g, ss, i)]
    OBVIOUS
  <1>2. QED
    BY <1>1 DEF FlatTo

LEMMA FlatValue ==
    ASSUME NEW ss, NEW n \in Nat, NEW g, FlatTo(g, ss, n), NEW i \in 1 .. n
    PROVE  g[i] = Piece(g, ss, i)
  <1>1. PICK h : h = [j \in 1 .. n |-> Piece(g, ss, j)]
    OBVIOUS
  <1>2. g = h
    BY <1>1 DEF FlatTo
  <1>3. h[i] = Piece(g, ss, i)
    BY <1>1
  <1>4. QED
    BY <1>2, <1>3

\* One element more.
GoesOn(tt, ss, n) == \A i \in 1 .. n : tt[i] = ss[i]

LEMMA FlatLonger ==
    ASSUME NEW ss, NEW tt, NEW n \in Nat, GoesOn(tt, ss, n), NEW g, FlatTo(g, ss, n)
    PROVE  \E h : /\ FlatTo(h, tt, n + 1)
                  /\ h[n + 1] = IF n = 0 THEN tt[1] ELSE g[n] \o tt[n + 1]
  <1> DEFINE last == IF n = 0 THEN tt[1] ELSE g[n] \o tt[n + 1]
             h == [i \in 1 .. n + 1 |-> IF i = n + 1 THEN last ELSE g[i]]
  <1>1. n + 1 \in Nat /\ n + 1 \in 1 .. n + 1
    OBVIOUS
  <1>2. /\ h[n + 1] = last /\ \A i \in 1 .. n : h[i] = g[i]
        /\ DOMAIN h = 1 .. n + 1 /\ h = [i \in 1 .. n + 1 |-> h[i]]
    <2>1. \A i \in 1 .. n : i \in 1 .. n + 1 /\ i # n + 1
      OBVIOUS
    <2> HIDE DEF last
    <2>2. QED
      BY <1>1, <2>1
  <1> HIDE DEF h
  <1>3. ASSUME NEW i \in 1 .. n + 1 PROVE h[i] = Piece(h, tt, i)
    <2>1. CASE i = n + 1
      <3>1. CASE n = 0
        BY <1>2, <2>1, <3>1 DEF Piece
      <3>2. CASE n # 0
        <4>1. i # 1 /\ i - 1 = n /\ n \in 1 .. n
          BY <2>1, <3>2
        <4>2. QED
          BY <1>2, <2>1, <3>2, <4>1 DEF Piece
      <3>3. QED
        BY <3>1, <3>2
    <2>2. CASE i # n + 1
      <3>1. i \in 1 .. n /\ (i # 1 => i - 1 \in 1 .. n)
        BY <2>2
      <3>2. g[i] = Piece(g, ss, i)
        BY <3>1, FlatValue
      <3>3. tt[i] = ss[i] /\ h[i] = g[i] /\ (i # 1 => h[i - 1] = g[i - 1])
        BY <1>2, <3>1 DEF GoesOn
      <3>4. QED
        BY <3>2, <3>3 DEF Piece
    <2>3. QED
      BY <2>1, <2>2
  <1>4. FlatTo(h, tt, n + 1)
    BY <1>1, <1>2, <1>3, FlatIs
  <1>5. QED
    BY <1>2, <1>4

LEMMA FlatExists ==
    ASSUME NEW ss, NEW n \in Nat
    PROVE  \E g : FlatTo(g, ss, n)
  <1> DEFINE Bad == {k \in Nat : ~\E g : FlatTo(g, ss, k)}
  <1>1. SUFFICES ASSUME Bad # {} PROVE FALSE
    OBVIOUS
  <1>2. PICK k \in Bad : \A l \in Bad : k <= l
    <2>1. Bad \subseteq Nat
      OBVIOUS
    <2> HIDE DEF Bad
    <2>2. QED
      BY <1>1, <2>1, LeastElement
  <1>3. k \in Nat /\ ~\E g : FlatTo(g, ss, k)
    OBVIOUS
  <1>4. CASE k = 0
    <2>1. [i \in 1 .. 0 |-> Piece(<<>>, ss, i)] = <<>> /\ 1 .. 0 = {}
      OBVIOUS
    <2>2. FlatTo(<<>>, ss, 0)
      BY <2>1 DEF FlatTo
    <2>3. QED
      BY <1>3, <1>4, <2>2
  <1>5. CASE k # 0
    <2>1. k - 1 \in Nat /\ ~(k <= k - 1) /\ (k - 1) + 1 = k
      BY <1>3, <1>5
    <2>2. k - 1 \notin Bad
      BY <1>2, <2>1
    <2>3. PICK g : FlatTo(g, ss, k - 1)
      BY <2>1, <2>2
    <2>4. GoesOn(ss, ss, k - 1)
      BY DEF GoesOn
    <2>5. \E h : FlatTo(h, ss, (k - 1) + 1)
      BY <2>1, <2>3, <2>4, FlatLonger
    <2>6. QED
      BY <1>3, <2>1, <2>5
  <1>6. QED
    BY <1>4, <1>5

LEMMA FlatUnique ==
    ASSUME NEW ss, NEW n \in Nat, NEW g, FlatTo(g, ss, n), NEW h, FlatTo(h, ss, n),
           NEW i \in 1 .. n
    PROVE  g[i] = h[i]
  <1> DEFINE Bad == {k \in 1 .. n : g[k] # h[k]}
  <1>1. SUFFICES ASSUME Bad # {} PROVE FALSE
    OBVIOUS
  <1>2. PICK k \in Bad : \A l \in Bad : k <= l
    <2>1. Bad \subseteq Nat
      OBVIOUS
    <2> HIDE DEF Bad
    <2>2. QED
      BY <1>1, <2>1, LeastElement
  <1>3. k \in 1 .. n /\ g[k] # h[k]
    OBVIOUS
  <1>4. g[k] = Piece(g, ss, k) /\ h[k] = Piece(h, ss, k)
    BY <1>3, FlatValue
  <1>5. k # 1 => g[k - 1] = h[k - 1]
    <2>1. SUFFICES ASSUME k # 1 PROVE g[k - 1] = h[k - 1]
      OBVIOUS
    <2>2. k - 1 \in 1 .. n /\ ~(k <= k - 1)
      BY <1>3, <2>1
    <2>3. k - 1 \notin Bad
      BY <1>2, <2>2
    <2>4. QED
      BY <2>2, <2>3
  <1>6. QED
    BY <1>3, <1>4, <1>5 DEF Piece

LEMMA FlattenIs ==
    ASSUME NEW ss, NEW n \in Nat \ {0}, Len(ss) = n, NEW g, FlatTo(g, ss, n)
    PROVE  FlattenSeq(ss) = g[n]
  <1> DEFINE f == CHOOSE h : FlatTo(h, ss, n)
  <1>1. FlattenSeq(ss) = f[n]
    BY DEF FlattenSeq, FlatTo, Piece
  <1>2. FlatTo(f, ss, n)
    BY FlatExists
  <1> HIDE DEF f
  <1>3. n \in 1 .. n
    OBVIOUS
  <1>4. f[n] = g[n]
    BY <1>2, <1>3, FlatUnique
  <1>5. QED
    BY <1>1, <1>4

------------------------------------------------------------------------------
\* Bytes, and the frames of packets one after the other.
LEMMA BytesAssociate ==
    ASSUME NEW s \in Bytes, NEW t \in Bytes, NEW u \in Bytes
    PROVE  (s \o t) \o u = s \o (t \o u)
  BY ConcatAssociative DEF Bytes

LEMMA BytesJoin ==
    ASSUME NEW s \in Bytes, NEW t \in Bytes
    PROVE  /\ s \o t \in Bytes /\ Len(s \o t) = Len(s) + Len(t) /\ Len(s) \in Nat /\ Len(t) \in Nat
           /\ <<>> \in Bytes /\ s \o <<>> = s /\ <<>> \o s = s
  BY ConcatProperties, ConcatEmptySeq DEF Bytes

\* The bytes of two sequences, one after the other.
LEMMA BytesAt ==
    ASSUME NEW s \in Bytes, NEW t \in Bytes, NEW k \in Nat, k = Len(s), NEW l \in Nat, l = Len(t),
           NEW w, w = s \o t
    PROVE  \A i \in 1 .. k + l : w[i] = IF i <= k THEN s[i] ELSE t[i - k]
  BY ConcatProperties DEF Bytes

\* A packet is short, so the first byte of its frame is its length.
Bodies == {s \in Bytes : Len(s) \in 1 .. 100}

LEMMA FramesNone == Frames(<<>>) = <<>>
  <1>1. [i \in DOMAIN <<>> |-> Frame(<<>>[i])] = <<>>
    OBVIOUS
  <1>2. FlattenSeq(<<>>) = <<>>
    BY DEF FlattenSeq
  <1>3. QED
    BY <1>1, <1>2 DEF Frames

LEMMA FramesAppend ==
    ASSUME NEW ps \in Seq(Bodies), NEW p \in Bodies
    PROVE  /\ ps = <<>> => Frames(Append(ps, p)) = Frame(p)
           /\ ps # <<>> => Frames(Append(ps, p)) = Frames(ps) \o Frame(p)
  <1> DEFINE qs == Append(ps, p)
             ss == [i \in DOMAIN ps |-> Frame(ps[i])]
             tt == [i \in DOMAIN qs |-> Frame(qs[i])]
  <1>1. PICK n \in Nat : n = Len(ps) /\ (n = 0 <=> ps = <<>>)
    OBVIOUS
  <1>2. /\ DOMAIN ps = 1 .. n /\ DOMAIN qs = 1 .. n + 1 /\ qs[n + 1] = p
        /\ \A i \in 1 .. n : qs[i] = ps[i] /\ i \in 1 .. n + 1
        /\ n + 1 \in 1 .. n + 1 /\ n + 1 \in Nat \ {0}
    BY <1>1
  <1>3. Frames(ps) = FlattenSeq(ss) /\ Frames(qs) = FlattenSeq(tt)
    BY DEF Frames
  <1> HIDE DEF qs
  <1>4. /\ \A i \in 1 .. n : tt[i] = ss[i]
        /\ tt[n + 1] = Frame(p) /\ (n = 0 => tt[1] = Frame(p))
    BY <1>2
  <1>5. Len(ss) = n /\ Len(tt) = n + 1
    BY <1>2
  <1> HIDE DEF ss, tt
  <1>6. PICK g : FlatTo(g, ss, n)
    BY FlatExists
  <1>7. PICK h : /\ FlatTo(h, tt, n + 1)
                 /\ h[n + 1] = IF n = 0 THEN tt[1] ELSE g[n] \o tt[n + 1]
    <2>1. GoesOn(tt, ss, n)
      BY <1>4 DEF GoesOn
    <2>2. QED
      BY <1>6, <2>1, FlatLonger
  <1>8. FlattenSeq(tt) = h[n + 1]
    BY <1>2, <1>5, <1>7, FlattenIs
  <1>9. n # 0 => FlattenSeq(ss) = g[n]
    BY <1>5, <1>6, FlattenIs
  <1>10. QED
    BY <1>1, <1>3, <1>4, <1>7, <1>8, <1>9 DEF qs

LEMMA FramesType ==
    ASSUME NEW ps \in Seq(Bodies)
    PROVE  Frames(ps) \in Bytes
  <1> DEFINE Bad == {k \in Nat : \E s \in Seq(Bodies) : Len(s) = k /\ Frames(s) \notin Bytes}
  <1>1. SUFFICES ASSUME Bad # {} PROVE FALSE
    OBVIOUS
  <1>2. PICK k \in Bad : \A l \in Bad : k <= l
    <2>1. Bad \subseteq Nat
      OBVIOUS
    <2> HIDE DEF Bad
    <2>2. QED
      BY <1>1, <2>1, LeastElement
  <1>3. PICK s \in Seq(Bodies) : Len(s) = k /\ Frames(s) \notin Bytes
    OBVIOUS
  <1>4. s # <<>>
    BY <1>3, FramesNone DEF Bytes
  <1>5. PICK t \in Seq(Bodies), p \in Bodies : s = Append(t, p)
    BY <1>3, <1>4, SequenceEmptyOrAppend
  <1>6. Len(t) \in Nat /\ k = Len(t) + 1
    BY <1>3, <1>5
  <1>7. Frames(t) \in Bytes
    <2>1. ~(k <= Len(t))
      BY <1>6
    <2>2. Len(t) \notin Bad
      BY <1>2, <2>1
    <2>3. QED
      BY <1>6, <2>2
  <1>8. Frame(p) \in Bytes
    BY FrameFacts DEF Bodies
  <1>9. Frames(s) \in Bytes
    BY <1>5, <1>7, <1>8, FramesAppend, BytesJoin
  <1>10. QED
    BY <1>3, <1>9

LEMMA FramesEnd ==
    ASSUME NEW ps \in Seq(Bodies), NEW p \in Bodies
    PROVE  Frames(Append(ps, p)) = Frames(ps) \o Frame(p)
  <1>1. CASE ps = <<>>
    <2>1. Frame(p) \in Bytes /\ <<>> \o Frame(p) = Frame(p)
      BY FrameFacts, BytesJoin DEF Bodies
    <2>2. QED
      BY <1>1, <2>1, FramesNone, FramesAppend
  <1>2. QED
    BY <1>1, FramesAppend

\* The frames start with the first.
LEMMA FramesFirst ==
    ASSUME NEW ps \in Seq(Bodies), ps # <<>>
    PROVE  /\ Head(ps) \in Bodies /\ Tail(ps) \in Seq(Bodies)
           /\ Frames(ps) = Frame(Head(ps)) \o Frames(Tail(ps))
  <1> DEFINE Splits(s) == Frames(s) = Frame(Head(s)) \o Frames(Tail(s))
             Bad == {k \in Nat : \E s \in Seq(Bodies) : s # <<>> /\ Len(s) = k /\ ~Splits(s)}
  <1>1. \A s \in Seq(Bodies) : s # <<>> => Splits(s)
    <2>1. SUFFICES ASSUME Bad # {} PROVE FALSE
      OBVIOUS
    <2>2. PICK k \in Bad : \A l \in Bad : k <= l
      <3>1. Bad \subseteq Nat
        OBVIOUS
      <3> HIDE DEF Bad
      <3>2. QED
        BY <2>1, <3>1, LeastElement
    <2>3. PICK s \in Seq(Bodies) : s # <<>> /\ Len(s) = k /\ ~Splits(s)
      OBVIOUS
    <2>4. PICK t \in Seq(Bodies), p \in Bodies : s = Append(t, p)
      BY <2>3, SequenceEmptyOrAppend
    <2>5. Frames(s) = Frames(t) \o Frame(p) /\ Frame(p) \in Bytes
      BY <2>4, FramesEnd, FrameFacts DEF Bodies
    <2>6. /\ Head(s) = IF t = <<>> THEN p ELSE Head(t)
          /\ Tail(s) = IF t = <<>> THEN <<>> ELSE Append(Tail(t), p)
      BY <2>4, HeadTailAppend
    <2>7. CASE t = <<>>
      <3>1. <<>> \o Frame(p) = Frame(p) \o <<>>
        BY <2>5, BytesJoin
      <3>2. QED
        BY <2>3, <2>5, <2>6, <2>7, <3>1, FramesNone
    <2>8. CASE t # <<>>
      <3>1. Len(t) \in Nat /\ k = Len(t) + 1
        BY <2>3, <2>4
      <3>2. Splits(t)
        <4>1. ~(k <= Len(t))
          BY <3>1
        <4>2. Len(t) \notin Bad
          BY <2>2, <4>1
        <4>3. QED
          BY <2>8, <3>1, <4>2
      <3>3. PICK h \in Bodies, u \in Seq(Bodies) : h = Head(t) /\ u = Tail(t)
        BY <2>8, HeadTailProperties
      <3>4. Frame(h) \in Bytes /\ Frames(u) \in Bytes
        BY FramesType, FrameFacts DEF Bodies
      <3>5. Frames(s) = Frame(h) \o (Frames(u) \o Frame(p))
        <4>1. PICK x \in Bytes, y \in Bytes, z \in Bytes :
                 x = Frame(h) /\ y = Frames(u) /\ z = Frame(p)
          BY <2>5, <3>4
        <4>2. (x \o y) \o z = x \o (y \o z)
          BY BytesAssociate
        <4>3. Frames(t) = x \o y
          BY <3>2, <3>3, <4>1
        <4>4. QED
          BY <2>5, <4>1, <4>2, <4>3
      <3>6. Frames(Append(u, p)) = Frames(u) \o Frame(p)
        BY FramesEnd
      <3>7. QED
        BY <2>3, <2>6, <2>8, <3>3, <3>5, <3>6
    <2>9. QED
      BY <2>7, <2>8
  <1>2. Head(ps) \in Bodies /\ Tail(ps) \in Seq(Bodies)
    BY HeadTailProperties
  <1>3. QED
    BY <1>1, <1>2

\* Bytes in two parts.
LEMMA BytesSplit ==
    ASSUME NEW s \in Bytes, NEW m \in Nat, m <= Len(s)
    PROVE  /\ SubSeq(s, 1, m) \in Bytes /\ SubSeq(s, m + 1, Len(s)) \in Bytes
           /\ SubSeq(s, 1, m) \o SubSeq(s, m + 1, Len(s)) = s
           /\ Len(SubSeq(s, 1, m)) = m /\ Len(SubSeq(s, m + 1, Len(s))) = Len(s) - m
           /\ m = 0 => SubSeq(s, 1, m) = <<>> /\ SubSeq(s, m + 1, Len(s)) = s
  <1>1. PICK l \in Nat : l = Len(s)
    BY DEF Bytes
  <1>2. s \in Seq(Nat) /\ \A i \in 1 .. l : s[i] \in Nat
    BY <1>1 DEF Bytes
  <1>3. PICK u, v : u = SubSeq(s, 1, m) /\ v = SubSeq(s, m + 1, l)
    OBVIOUS
  <1>4. u \in Seq(Nat) /\ Len(u) = m
    <2>1. \A i \in 1 .. m : i \in 1 .. l
      BY <1>1
    <2>2. /\ SubSeq(s, 1, m) \in Seq(Nat)
          /\ Len(SubSeq(s, 1, m)) = IF 1 <= m THEN m - 1 + 1 ELSE 0
      BY <1>2, <2>1, SubSeqProperties
    <2>3. (IF 1 <= m THEN m - 1 + 1 ELSE 0) = m
      OBVIOUS
    <2>4. QED
      BY <1>3, <2>2, <2>3
  <1>5. v \in Seq(Nat) /\ Len(v) = l - m
    <2>1. \A i \in m + 1 .. l : i \in 1 .. l
      OBVIOUS
    <2>2. PICK k \in Nat : k = m + 1
      OBVIOUS
    <2>3. /\ SubSeq(s, k, l) \in Seq(Nat)
          /\ Len(SubSeq(s, k, l)) = IF k <= l THEN l - k + 1 ELSE 0
      BY <1>2, <2>1, <2>2, SubSeqProperties
    <2>4. (IF k <= l THEN l - k + 1 ELSE 0) = l - m
      BY <1>1, <2>2
    <2>5. QED
      BY <1>3, <2>2, <2>3, <2>4
  <1>6. u \o v = s
    <2>1. 1 \in 1 .. l + 1 /\ m \in 1 - 1 .. l /\ l \in m .. l
      BY <1>1
    <2>2. SubSeq(s, 1, m) \o SubSeq(s, m + 1, l) = SubSeq(s, 1, l)
      BY <1>1, <1>2, <2>1, ConcatAdjacentSubSeq
    <2>3. SubSeq(s, 1, l) = s
      BY <1>1, <1>2, SubSeqFull
    <2>4. QED
      BY <1>3, <2>2, <2>3
  <1>7. m = 0 => u = <<>>
    BY <1>4
  <1>8. m = 0 => v = s
    BY <1>4, <1>5, <1>6, <1>7, ConcatEmptySeq
  <1>9. QED
    BY <1>1, <1>3, <1>4, <1>5, <1>6, <1>7, <1>8 DEF Bytes

\* Two ways to cut the same bytes: the longer first piece starts with the
\* shorter one.
CutsAlike(d, r, f, t) == d \o r = f \o t /\ Len(f) <= Len(d)

LEMMA CutTwice ==
    ASSUME NEW d \in Bytes, NEW r \in Bytes, NEW f \in Bytes, NEW t \in Bytes,
           CutsAlike(d, r, f, t)
    PROVE  /\ SubSeq(d, 1, Len(f)) = f
           /\ SubSeq(d, Len(f) + 1, Len(d)) \in Bytes
           /\ SubSeq(d, Len(f) + 1, Len(d)) \o r = t
  <1>1. PICK k \in Nat, l \in Nat : k = Len(f) /\ l = Len(d) /\ k <= l
    BY DEF Bytes, CutsAlike
  <1>2. PICK u \in Bytes, v \in Bytes :
           u = SubSeq(d, 1, k) /\ v = SubSeq(d, k + 1, l) /\ u \o v = d /\ Len(u) = k
    <2>1. /\ SubSeq(d, 1, k) \in Bytes /\ SubSeq(d, k + 1, Len(d)) \in Bytes
          /\ SubSeq(d, 1, k) \o SubSeq(d, k + 1, Len(d)) = d /\ Len(SubSeq(d, 1, k)) = k
      BY <1>1, BytesSplit
    <2>2. QED
      BY <1>1, <2>1
  <1>3. u \o (v \o r) = f \o t /\ v \o r \in Bytes
    <2>1. (u \o v) \o r = u \o (v \o r) /\ v \o r \in Bytes
      <3>1. u \in Bytes /\ v \in Bytes /\ r \in Bytes
        BY <1>2
      <3>2. (u \o v) \o r = u \o (v \o r)
        BY <3>1, BytesAssociate
      <3>3. v \o r \in Bytes
        BY <3>1, BytesJoin
      <3>4. QED
        BY <3>2, <3>3
    <2>2. QED
      BY <1>2, <2>1 DEF CutsAlike
  <1>4. u = f
    <2>1. PICK y \in Bytes : y = v \o r
      BY <1>3
    <2>2. PICK w : w = u \o y /\ w = f \o t
      BY <1>3, <2>1
    <2>3. \A i \in 1 .. Len(u) + Len(y) : (u \o y)[i] = IF i <= Len(u) THEN u[i] ELSE y[i - Len(u)]
      BY ConcatProperties DEF Bytes
    <2>4. \A i \in 1 .. Len(f) + Len(t) : (f \o t)[i] = IF i <= Len(f) THEN f[i] ELSE t[i - Len(f)]
      BY ConcatProperties DEF Bytes
    <2>5. ASSUME NEW i \in 1 .. k PROVE u[i] = f[i]
      <3>1. PICK m, n \in Nat : m = Len(y) /\ n = Len(t)
        BY DEF Bytes
      <3>2. i \in 1 .. k + m /\ i \in 1 .. k + n /\ i <= k
        OBVIOUS
      <3>3. w[i] = u[i]
        BY <1>2, <2>2, <2>3, <3>1, <3>2
      <3>4. w[i] = f[i]
        BY <1>1, <2>2, <2>4, <3>1, <3>2
      <3>5. QED
        BY <3>3, <3>4
    <2>6. QED
      BY <1>1, <1>2, <2>5, SeqEqual DEF Bytes
  <1>5. v \o r = t
    BY <1>3, <1>4, ConcatSimplifications DEF Bytes
  <1>6. QED
    BY <1>1, <1>2, <1>4, <1>5

LEMMA TakeFirst ==
    ASSUME NEW b, SoundBuf(b), NEW rest \in Bytes, NEW ps \in Seq(Bodies),
           b.data \o rest = Frames(ps), HasPack(b)
    PROVE  /\ ps # <<>> /\ Body(b) = Head(ps)
           /\ SoundBuf(Rest(b)) /\ Rest(b).data \in Bytes
           /\ Rest(b).data \o rest = Frames(Tail(ps))
  <1>1. PICK d \in Bytes : d = b.data
    BY FieldFacts
  <1>2. Len(d) = b.tail - b.head /\ Len(d) \in Nat
    BY <1>1, FieldFacts DEF Bytes
  <1>3. Len(d) >= 2 /\ Len(d) >= Char(d[1]) + 2
    BY <1>1, <1>2 DEF HasPack, getDataSize, HeadLen
  <1>4. ps # <<>>
    <2>1. Len(d \o rest) = Len(d) + Len(rest) /\ Len(rest) \in Nat /\ Len(<<>>) = 0
      BY BytesJoin
    <2>2. Len(d \o rest) # 0
      BY <1>2, <1>3, <2>1
    <2>3. QED
      BY <1>1, <2>1, <2>2, FramesNone
  <1>5. PICK p \in Bodies, t \in Bytes : p = Head(ps) /\ t = Frames(Tail(ps))
    BY <1>4, FramesFirst, FramesType
  <1>6. PICK f \in Bytes : f = Frame(p)
    BY FrameFacts DEF Bodies
  <1>7. d \o rest = f \o t
    BY <1>1, <1>4, <1>5, <1>6, FramesFirst
  <1>8. PICK n \in 1 .. 100 : n = Len(p)
    BY DEF Bodies
  <1>9. /\ f[1] = n % 256 /\ f[2] = n \div 256 /\ Len(f) = n + 2
        /\ SubSeq(f, 3, n + 2) = p
    BY <1>6, <1>8, FrameFacts DEF Bodies
  <1>10. f[1] = n /\ f[2] = 0
    BY <1>9
  <1>11. d[1] = f[1] /\ d[2] = f[2]
    <2>1. PICK k \in Nat, l \in Nat, m \in Nat, o \in Nat :
             k = Len(f) /\ l = Len(d) /\ m = Len(rest) /\ o = Len(t)
      BY DEF Bytes
    <2>2. PICK w : w = d \o rest /\ w = f \o t
      BY <1>7
    <2>3. \A i \in 1 .. l + m : w[i] = IF i <= l THEN d[i] ELSE rest[i - l]
      BY <1>1, <2>1, <2>2, BytesAt
    <2>4. \A i \in 1 .. k + o : w[i] = IF i <= k THEN f[i] ELSE t[i - k]
      BY <1>5, <1>6, <2>1, <2>2, BytesAt
    <2>5. k >= 2 /\ l >= 2
      BY <1>3, <1>9, <2>1
    <2>6. 1 \in 1 .. l + m /\ 2 \in 1 .. l + m /\ 1 \in 1 .. k + o /\ 2 \in 1 .. k + o
      BY <2>5
    <2>7. QED
      BY <2>3, <2>4, <2>5, <2>6
  <1>12. PackSize(b) = n /\ Char(d[1]) = n
    BY <1>1, <1>10, <1>11 DEF PackSize, Char
  <1>13. n + 2 <= Len(d)
    BY <1>2, <1>3, <1>12
  <1>14. /\ SubSeq(d, 1, n + 2) = f /\ SubSeq(d, n + 3, Len(d)) \in Bytes
         /\ SubSeq(d, n + 3, Len(d)) \o rest = t
    <2>1. CutsAlike(d, rest, f, t)
      BY <1>7, <1>9, <1>13 DEF CutsAlike
    <2>2. /\ SubSeq(d, 1, Len(f)) = f
          /\ SubSeq(d, Len(f) + 1, Len(d)) \in Bytes
          /\ SubSeq(d, Len(f) + 1, Len(d)) \o rest = t
      BY <2>1, CutTwice
    <2>3. Len(f) + 1 = n + 3 /\ Len(f) = n + 2
      BY <1>9
    <2>4. QED
      BY <2>2, <2>3
  <1>15. Body(b) = p
    <2>1. Body(b) = SubSeq(d, 3, n + 2)
      BY <1>1, <1>12 DEF Body, HeadLen
    <2>2. SubSeq(SubSeq(d, 1, n + 2), 3, n + 2) = SubSeq(d, 3, n + 2)
      <3>1. PICK e \in Nat, l \in Nat : e = n + 2 /\ l = Len(d) /\ e <= l /\ e >= 3
        <4>1. PICK e \in Nat : e = n + 2 /\ e >= 3
          BY <1>8
        <4>2. PICK l \in Nat : l = Len(d)
          BY <1>2
        <4>3. QED
          BY <1>13, <4>1, <4>2
      <3>2. /\ 1 \in 1 .. l /\ e \in 1 .. l /\ e - 1 + 1 = e /\ 3 \in 1 .. e - 1 + 1
            /\ e \in 1 .. e - 1 + 1 /\ 1 + 3 - 1 = 3 /\ 1 + e - 1 = e
        BY <3>1
      <3>3. SubSeq(SubSeq(d, 1, e), 3, e) = SubSeq(d, 1 + 3 - 1, 1 + e - 1)
        BY <3>1, <3>2, SubSeqOfSubSeq DEF Bytes
      <3>4. QED
        BY <3>1, <3>2, <3>3
    <2>3. QED
      BY <1>9, <1>14, <2>1, <2>2
  <1>16. SoundBuf(Rest(b)) /\ Rest(b).data = SubSeq(d, n + 3, Len(d))
    <2>1. Rest(b) = cutData(b, n + 2) /\ n + 2 \in Nat /\ n + 2 + 1 = n + 3
      BY <1>12 DEF Rest, HeadLen
    <2>2. ~(n + 2 > Len(d))
      BY <1>2, <1>13
    <2>3. QED
      BY <1>1, <2>1, <2>2, CutFacts
  <1>17. QED
    BY <1>4, <1>5, <1>14, <1>15, <1>16

------------------------------------------------------------------------------
\* The inductive invariant of the server and its programs.
Used == {f \in Fd : sock[f] # NULL}
Busy == {p \in Pos : clients[p] # NULL}

Note == [event : {"new", "leave"}, hid : Pos, of : Conn]
DataEvent == [event : {"data"}, hid : Pos, of : Conn, data : Bytes]

HostType ==
    /\ pc \in {"wait", "events", "packs", "killed"} /\ cur \in Pos \cup {NULL}
    /\ count \in Nat /\ fdCnt \in Nat
    /\ clients \in [Pos -> Client \cup {NULL}]
    /\ \A p \in Busy : SoundBuf(clients[p].rbuf) /\ SoundBuf(clients[p].wbuf)
    /\ queue \in Seq(Note \cup DataEvent)
    /\ events \subseteq Fd \cup {Listen} /\ edge \subseteq Fd \cup {Listen}
    /\ sock \in [Fd -> Conn \cup {NULL}]
    /\ backlog \in Seq(Conn) /\ shut \subseteq Conn

ProgramType ==
    /\ peer \in [Conn -> {"none", "1", "2", "0", "exited"}]
    /\ link \in [Conn -> {"open", "fin", "bounced", "dead", "rst"}]
    /\ cw \in [Conn -> Buffers] /\ \A c \in Conn : SoundBuf(cw[c])
    /\ cr \in [Conn -> Buffers] /\ \A c \in Conn : SoundBuf(cr[c])
    /\ up \in [Conn -> Bytes] /\ down \in [Conn -> Bytes]
    /\ asked \in [Conn -> Seq(Bodies)] /\ got \in [Conn -> Seq(Bytes)]
    /\ noted \in [Conn -> Nat] /\ \A c \in Conn : noted[c] <= Len(asked[c])

\* Descriptors in use and taken positions belong together, one to one, and only
\* such descriptors are reported; the one whose turn it is was taken off.
HostTables ==
    /\ fpos \in [Used -> Pos]
    /\ \A f \in Used : fpos[f] \in Busy /\ clients[fpos[f]].sock = f
    /\ \A p \in Busy : /\ clients[p].hid = p /\ clients[p].sock \in Used
                       /\ fpos[clients[p].sock] = p
    /\ (events \cup edge) \ {Listen} \subseteq Used
    /\ pc = "packs" => cur \in Busy /\ clients[cur].sock \notin events

HostCounts ==
    Cardinality(Busy) = count /\ Cardinality(Used) = count /\ fdCnt = count + 1

\* A program is in one place: not connected, waiting, served, or let go.
Places ==
    /\ \A f, g \in Used : sock[f] = sock[g] => f = g
    /\ \A i, j \in DOMAIN backlog : backlog[i] = backlog[j] => i = j
    /\ \A i \in DOMAIN backlog : backlog[i] \notin shut /\ \A f \in Used : sock[f] # backlog[i]
    /\ \A f \in Used : sock[f] \notin shut
    /\ \A c \in Conn : peer[c] = "none" =>
          /\ c \notin shut /\ \A f \in Used : sock[f] # c
          /\ \A i \in DOMAIN backlog : backlog[i] # c

\* The socket is whole as long as the program runs, and the server lets only
\* those go whose is not.
Links ==
    /\ \A c \in Conn : link[c] = "open" <=> peer[c] # "exited"
    /\ \A p \in Busy : clients[p].state = 0 => link[sock[clients[p].sock]] # "open"

\* Packets that became events.
Noted == UNION {{asked[c][k] : k \in 1 .. noted[c]} : c \in Conn}

\* What a program has sent and the server has not taken out of its buffer.
OnItsWay(c) ==
    \E rest \in Bytes :
       /\ InTransit(c) \o rest = Outstanding(c)
       /\ peer[c] # "exited" => rest = <<>>

Requests == \A c \in Conn \ shut : OnItsWay(c)

\* Which of the packets of a program an event is.
Numbered ==
    /\ \A i \in DOMAIN queue : queue[i].event = "data" =>
          LET c == queue[i].of
          IN  queue[i].data = asked[c][noted[c] + 1 - Cardinality(PacketsFrom(c, i))]
    /\ \A c \in Conn : Cardinality(PacketsFrom(c, 1)) <= noted[c]

\* What the server has for a program and the program has not taken out.
ToSend(c) ==
    IF FdOf(c) = {} THEN <<>> ELSE clients[fpos[Least(FdOf(c))]].wbuf.data

ToCome(c) ==
    \E ps \in Seq(Bodies) :
       /\ \A i \in DOMAIN ps : ps[i] \in Noted
       /\ (cr[c].data \o down[c]) \o ToSend(c) = Frames(ps)

Answers ==
    /\ \A c \in Conn : peer[c] # "exited" => ToCome(c)
    /\ \A c \in Conn : \A i \in DOMAIN got[c] : got[c][i] \in Noted

\* The tables and the types: what the rest of the invariant is about.
HostState == HostType /\ ProgramType /\ HostTables /\ HostCounts /\ Places /\ Links

HostInv == HostState /\ EventsInOrder /\ Requests /\ Numbered /\ Answers

LEMMA PlacesFinite ==
    /\ MaxClients \in Nat \ {0} /\ Pos = 0 .. MaxClients - 1 /\ Fd = 1 .. MaxClients
    /\ Pos \subseteq Nat /\ Fd \subseteq Nat
    /\ Conn \subseteq Nat /\ NULL \notin Nat /\ NULL \notin Client
    /\ Listen \notin Fd
    /\ IsFiniteSet(Pos) /\ Cardinality(Pos) = MaxClients
    /\ IsFiniteSet(Fd) /\ Cardinality(Fd) = MaxClients
    /\ IsFiniteSet(Busy) /\ IsFiniteSet(Used)
  <1>1. MaxClients \in Nat \ {0} /\ Conn \subseteq Nat /\ NULL \notin Nat
        /\ NULL \notin Client /\ Listen \notin Nat
    BY HostServerAssumption
  <1>2. Pos = 0 .. MaxClients - 1 /\ Fd = 1 .. MaxClients
    BY DEF Pos, Fd
  <1>3. /\ IsFiniteSet(0 .. MaxClients - 1) /\ Cardinality(0 .. MaxClients - 1) = MaxClients
        /\ IsFiniteSet(1 .. MaxClients) /\ Cardinality(1 .. MaxClients) = MaxClients
    <2>1. PICK m \in Int : m = MaxClients - 1
      BY <1>1
    <2>2. 0 <= m /\ 1 <= MaxClients /\ m - 0 + 1 = MaxClients /\ MaxClients - 1 + 1 = MaxClients
      BY <1>1, <2>1
    <2>3. IsFiniteSet(0 .. m) /\ Cardinality(0 .. m) = m - 0 + 1
      BY <2>2, FS_Interval
    <2>4. IsFiniteSet(1 .. MaxClients) /\ Cardinality(1 .. MaxClients) = MaxClients - 1 + 1
      BY <1>1, <2>2, FS_Interval
    <2>5. QED
      BY <2>1, <2>2, <2>3, <2>4
  <1>4. Busy \subseteq Pos /\ Used \subseteq Fd
    BY DEF Busy, Used
  <1>5. IsFiniteSet(Busy) /\ IsFiniteSet(Used)
    BY <1>2, <1>3, <1>4, FS_Subset
  <1>6. Pos \subseteq Nat /\ Fd \subseteq Nat
    BY <1>1, <1>2
  <1>7. QED
    BY <1>1, <1>2, <1>3, <1>5, <1>6

\* Positions and buffers of a Client.
LEMMA ClientFacts ==
    ASSUME HostType, NEW p \in Busy
    PROVE  /\ p \in Pos /\ p \in Nat /\ clients[p] \in Client
           /\ clients[p].sock \in Fd /\ clients[p].sock \in Nat /\ clients[p].state \in {0, 2}
           /\ clients[p].hid \in Pos
           /\ SoundBuf(clients[p].rbuf) /\ clients[p].rbuf.data \in Bytes
           /\ SoundBuf(clients[p].wbuf) /\ clients[p].wbuf.data \in Bytes
  <1>1. p \in Pos /\ clients[p] \in Client
    BY DEF HostType, Busy
  <1>2. SoundBuf(clients[p].rbuf) /\ SoundBuf(clients[p].wbuf)
    BY DEF HostType
  <1>3. QED
    BY <1>1, <1>2, PlacesFinite DEF Client, SoundBuf, Buffers, Bytes

\* A new or changed Client.
LEMMA ClientIs ==
    ASSUME NEW ct \in Client, NEW s \in {0, 2}, NEW r, SoundBuf(r), NEW w, SoundBuf(w)
    PROVE  LET x == [ct EXCEPT !.state = s, !.rbuf = r, !.wbuf = w]
           IN  /\ x \in Client /\ x.sock = ct.sock /\ x.hid = ct.hid
               /\ x.state = s /\ x.rbuf = r /\ x.wbuf = w
  BY DEF Client, SoundBuf

LEMMA BodyBytes == Bodies \subseteq Bytes
  BY DEF Bodies

LEMMA HostInit == Init => HostInv
  <1> SUFFICES ASSUME Init PROVE HostInv
    OBVIOUS
  <1>1. Busy = {} /\ Used = {}
    BY PlacesFinite DEF Busy, Used, Init
  <1>2. SoundBuf(Empty) /\ Empty.data = <<>> /\ Empty \in Buffers
        /\ <<>> \in Bytes
    BY EmptyFacts DEF SoundBuf, Bytes
  <1>3. HostType
    BY <1>1 DEF Init, HostType
  <1>4. ProgramType
    BY <1>2 DEF Init, ProgramType
  <1>5. HostTables
    <2>1. fpos = [f \in {} |-> 0]
      BY DEF Init, NoMap
    <2>2. fpos \in [Used -> Pos]
      BY <1>1, <2>1
    <2>3. QED
      BY <1>1, <2>2 DEF Init, HostTables
  <1>6. HostCounts
    BY <1>1, FS_EmptySet DEF Init, HostCounts
  <1>7. Places
    BY <1>1 DEF Init, Places
  <1>8. Links
    BY <1>1 DEF Init, Links
  <1>9. EventsInOrder
    BY DEF Init, EventsInOrder
  <1>10. \A c \in Conn : FdOf(c) = {}
    BY PlacesFinite DEF Init, FdOf
  <1>11. Requests
    <2>1. ASSUME NEW c \in Conn
          PROVE  InTransit(c) \o <<>> = Outstanding(c)
      <3>1. Outstanding(c) = <<>>
        <4>1. SubSeq(asked[c], noted[c] + 1, Len(asked[c])) = <<>>
          BY DEF Init
        <4>2. QED
          BY <4>1, FramesNone DEF Outstanding
      <3>2. InTransit(c) = <<>>
        <4>1. Unread(c) = <<>> /\ up[c] = <<>> /\ cw[c].data = <<>>
          BY <1>2, <1>10 DEF Init, Unread
        <4>2. QED
          BY <4>1 DEF InTransit
      <3>3. QED
        BY <3>1, <3>2
    <2>2. QED
      BY <1>2, <2>1 DEF Requests, OnItsWay
  <1>12. Numbered
    <2>1. queue = <<>>
      BY DEF Init
    <2>2. \A c \in Conn : Cardinality(PacketsFrom(c, 1)) <= noted[c]
      <3>1. \A c \in Conn : PacketsFrom(c, 1) = {} /\ noted[c] = 0
        BY <2>1 DEF PacketsFrom, Init
      <3>2. QED
        BY <3>1, FS_EmptySet
    <2>3. QED
      BY <2>1, <2>2 DEF Numbered
  <1>13. Answers
    <2>1. ASSUME NEW c \in Conn
          PROVE  (cr[c].data \o down[c]) \o ToSend(c) = Frames(<<>>)
      <3>1. ToSend(c) = <<>> /\ down[c] = <<>> /\ cr[c].data = <<>>
        BY <1>2, <1>10 DEF Init, ToSend
      <3>2. QED
        BY <3>1, FramesNone
    <2>2. <<>> \in Seq(Bodies) /\ \A i \in DOMAIN <<>> : <<>>[i] \in Noted
      OBVIOUS
    <2>3. \A c \in Conn : got[c] = <<>>
      BY DEF Init
    <2>4. QED
      BY <2>1, <2>2, <2>3 DEF Answers, ToCome
  <1>14. QED
    BY <1>3, <1>4, <1>5, <1>6, <1>7, <1>8, <1>9, <1>11, <1>12, <1>13 DEF HostInv, HostState

------------------------------------------------------------------------------
\* Every action keeps the tables and the types.
KeepsTables == UNCHANGED <<clients, count, fpos, fdCnt, sock>>

LEMMA SameTables ==
    ASSUME KeepsTables
    PROVE  /\ Busy' = Busy /\ Used' = Used /\ (HostCounts => HostCounts')
  BY DEF KeepsTables, Busy, Used, HostCounts

LEMMA doConnectState ==
    ASSUME HostState, NEW c \in Conn, doConnect(c)
    PROVE  HostState'
  <1> USE DEF serverVars, roundVars, kernelVars, peerVars
  <1>1. KeepsTables /\ Busy' = Busy /\ Used' = Used /\ HostCounts'
    BY SameTables DEF doConnect, KeepsTables, HostState
  <1>2. /\ peer[c] = "none" /\ peer' = [peer EXCEPT ![c] = "1"]
        /\ backlog' = Append(backlog, c) /\ edge' = edge \cup {Listen}
        /\ UNCHANGED <<queue, pc, cur, events, up, down, link, shut, cw, cr, asked, noted, got>>
    BY DEF doConnect
  <1>3. HostType'
    BY <1>1, <1>2 DEF HostState, HostType, KeepsTables
  <1>4. ProgramType'
    BY <1>2 DEF HostState, ProgramType
  <1>5. HostTables'
    BY <1>1, <1>2 DEF HostState, HostTables, KeepsTables
  <1>6. Places'
    <2>1. /\ DOMAIN backlog' = DOMAIN backlog \cup {Len(backlog) + 1}
          /\ \A i \in DOMAIN backlog : backlog'[i] = backlog[i]
          /\ backlog'[Len(backlog) + 1] = c
      BY <1>2 DEF HostState, HostType
    <2>2. \A i \in DOMAIN backlog : backlog[i] # c
      BY <1>2 DEF HostState, Places
    <2>3. \A d \in Conn : peer'[d] = "none" => d # c /\ peer[d] = "none"
      BY <1>2 DEF HostState, ProgramType
    <2>4. c \notin shut /\ \A f \in Used : sock[f] # c
      BY <1>2 DEF HostState, Places
    <2>5. QED
      BY <1>1, <1>2, <2>1, <2>2, <2>3, <2>4 DEF HostState, Places, KeepsTables
  <1>7. Links'
    BY <1>1, <1>2 DEF HostState, Links, KeepsTables, ProgramType
  <1>8. QED
    BY <1>1, <1>3, <1>4, <1>5, <1>6, <1>7 DEF HostState

LEMMA tryConnectState ==
    ASSUME HostState, NEW c \in Conn, tryConnect(c)
    PROVE  HostState'
  <1> USE DEF serverVars, roundVars, kernelVars, peerVars
  <1>1. KeepsTables /\ Busy' = Busy /\ Used' = Used /\ HostCounts'
    BY SameTables DEF tryConnect, KeepsTables, HostState
  <1>2. /\ peer[c] = "1" /\ peer' = [peer EXCEPT ![c] = "2"]
        /\ UNCHANGED <<queue, pc, cur, events, edge, backlog, up, down, link, shut, cw, cr,
                       asked, noted, got>>
    BY DEF tryConnect
  <1>3. HostType'
    BY <1>1, <1>2 DEF HostState, HostType, KeepsTables
  <1>4. ProgramType'
    BY <1>2 DEF HostState, ProgramType
  <1>5. HostTables'
    BY <1>1, <1>2 DEF HostState, HostTables, KeepsTables
  <1>6. Places'
    <2>1. \A d \in Conn : peer'[d] = "none" => peer[d] = "none"
      BY <1>2 DEF HostState, ProgramType
    <2>2. QED
      BY <1>1, <1>2, <2>1 DEF HostState, Places, KeepsTables
  <1>7. Links'
    BY <1>1, <1>2 DEF HostState, Links, KeepsTables, ProgramType
  <1>8. QED
    BY <1>1, <1>3, <1>4, <1>5, <1>6, <1>7 DEF HostState

\* A script of program c sends a packet.
Asks(c, body) ==
    /\ body \in Bodies /\ peer[c] \in {"1", "2"}
    /\ cw' = [cw EXCEPT ![c] = appendPack(cw[c], body)]
    /\ asked' = IF Fits(cw[c], body) THEN [asked EXCEPT ![c] = Append(@, body)] ELSE asked
    /\ KeepsTables
    /\ UNCHANGED <<queue, pc, cur, events, edge, backlog, up, down, link, shut,
                   peer, cr, noted, got>>

LEMMA ScriptSendsIs ==
    ASSUME HostState, NEW c \in Conn, NEW len \in Lens, ScriptSends(c, len)
    PROVE  Asks(c, Packet(c, Len(asked[c]) + 1, len))
  <1> USE DEF serverVars, roundVars, kernelVars, peerVars
  <1> DEFINE body == Packet(c, Len(asked[c]) + 1, len)
  <1>1. body \in Bodies
    <2>1. c \in Nat /\ len \in 1 .. 100 /\ asked[c] \in Seq(Bodies)
      BY PlacesFinite, HostServerAssumption DEF HostState, ProgramType
    <2>2. PICK n \in Nat : n = (c + (Len(asked[c]) + 1)) * (c + (Len(asked[c]) + 1)) + c
      <3>1. PICK l \in Nat : l = c + (Len(asked[c]) + 1)
        BY <2>1
      <3>2. l * l + c \in Nat
        <4>1. l * l \in Nat
          OBVIOUS
        <4>2. QED
          BY <2>1, <4>1
      <3>3. QED
        BY <3>1, <3>2
    <2>3. body = [i \in 1 .. len |-> n]
      BY <2>2 DEF Packet
    <2>4. body \in Seq(Nat) /\ Len(body) = len
      BY <2>1, <2>3
    <2>5. QED
      BY <2>1, <2>4 DEF Bodies, Bytes
  <1> HIDE DEF body
  <1>2. QED
    BY <1>1 DEF ScriptSends, Asks, KeepsTables, body

LEMMA ScriptSendsState ==
    ASSUME HostState, NEW c \in Conn, NEW body, Asks(c, body)
    PROVE  HostState'
  <1>1. KeepsTables /\ Busy' = Busy /\ Used' = Used /\ HostCounts'
    BY SameTables DEF Asks, HostState
  <1>2. /\ cw' = [cw EXCEPT ![c] = appendPack(cw[c], body)]
        /\ asked' = IF Fits(cw[c], body)
                    THEN [asked EXCEPT ![c] = Append(@, body)] ELSE asked
        /\ UNCHANGED <<queue, pc, cur, events, edge, backlog, up, down, link, shut,
                       peer, cr, noted, got>>
    BY DEF Asks
  <1>3. body \in Bodies
    BY DEF Asks
  <1>4. SoundBuf(appendPack(cw[c], body))
    BY <1>3, BodyBytes, PackFacts DEF HostState, ProgramType
  <1>5. HostType'
    BY <1>1, <1>2 DEF HostState, HostType, KeepsTables
  <1>6. ProgramType'
    <2>1. cw' \in [Conn -> Buffers] /\ \A d \in Conn : SoundBuf(cw'[d])
      BY <1>2, <1>4 DEF HostState, ProgramType, SoundBuf
    <2>2. asked' \in [Conn -> Seq(Bodies)] /\ \A d \in Conn : noted[d] <= Len(asked'[d])
      <3>1. Append(asked[c], body) \in Seq(Bodies) /\ Len(Append(asked[c], body)) = Len(asked[c]) + 1
            /\ Len(asked[c]) \in Nat
        BY <1>3 DEF HostState, ProgramType
      <3>2. QED
        BY <1>2, <3>1 DEF HostState, ProgramType
    <2>3. QED
      BY <1>2, <2>1, <2>2 DEF HostState, ProgramType
  <1>7. HostTables'
    BY <1>1, <1>2 DEF HostState, HostTables, KeepsTables
  <1>8. Places' /\ Links'
    BY <1>1, <1>2 DEF HostState, Places, Links, KeepsTables
  <1>9. QED
    BY <1>1, <1>5, <1>6, <1>7, <1>8 DEF HostState

\* What a recv takes.
LEMMA RecvFacts ==
    ASSUME NEW s \in Bytes
    PROVE  LET m == IF Len(s) < RecvMax THEN Len(s) ELSE RecvMax
           IN  m \in Nat /\ m <= Len(s) /\ (m = 0 <=> s = <<>>)
  <1>1. PICK l \in Nat, r \in Nat : l = Len(s) /\ r = RecvMax /\ r > 0
    BY HostServerAssumption DEF Bytes
  <1>2. s = <<>> <=> l = 0
    BY <1>1 DEF Bytes
  <1>3. PICK m \in Nat : m = (IF l < r THEN l ELSE r)
    OBVIOUS
  <1>4. m <= l /\ (m = 0 <=> l = 0)
    BY <1>1, <1>3
  <1>5. QED
    BY <1>1, <1>2, <1>3, <1>4

\* What a send takes, and what is left of the buffer.
LEMMA SendFacts ==
    ASSUME NEW b, SoundBuf(b), NEW n \in Nat, n <= Len(b.data)
    PROVE  /\ SoundBuf(cutData(b, n)) /\ cutData(b, n).data \in Bytes
           /\ SubSeq(b.data, 1, n) \in Bytes
           /\ SubSeq(b.data, 1, n) \o cutData(b, n).data = b.data
           /\ n = 0 => SubSeq(b.data, 1, n) = <<>> /\ cutData(b, n).data = b.data
  <1>1. b.data \in Bytes
    BY FieldFacts
  <1>2. Len(b.data) \in Nat
    BY <1>1 DEF Bytes
  <1>3. SoundBuf(cutData(b, n)) /\ cutData(b, n).data = SubSeq(b.data, n + 1, Len(b.data))
    <2>1. ~(n > Len(b.data))
      BY <1>2
    <2>2. QED
      BY <2>1, CutFacts
  <1>4. PICK s \in Bytes : s = b.data
    BY <1>1
  <1>5. /\ SubSeq(s, 1, n) \in Bytes /\ SubSeq(s, n + 1, Len(s)) \in Bytes
        /\ SubSeq(s, 1, n) \o SubSeq(s, n + 1, Len(s)) = s
        /\ n = 0 => SubSeq(s, 1, n) = <<>> /\ SubSeq(s, n + 1, Len(s)) = s
    BY <1>4, BytesSplit
  <1>6. QED
    BY <1>3, <1>4, <1>5

LEMMA SizeIs ==
    ASSUME NEW b, SoundBuf(b)
    PROVE  getDataSize(b) = Len(b.data) /\ b.data \in Bytes /\ Len(b.data) \in Nat
  BY FieldFacts DEF getDataSize, Bytes

\* The first packet is taken off, whatever there is.
LEMMA RestFacts ==
    ASSUME NEW b, SoundBuf(b), HasPack(b)
    PROVE  SoundBuf(Rest(b)) /\ Rest(b).data \in Bytes
  <1>1. b.data \in Bytes /\ Len(b.data) >= 2
    BY SizeIs DEF HasPack, HeadLen
  <1>2. PICK i, j \in Nat : i = b.data[1] /\ j = b.data[2]
    <2>1. 1 \in 1 .. Len(b.data) /\ 2 \in 1 .. Len(b.data)
      BY <1>1 DEF Bytes
    <2>2. \A k \in 1 .. Len(b.data) : b.data[k] \in Nat
      BY <1>1 DEF Bytes
    <2>3. QED
      BY <2>1, <2>2
  <1>3. PackSize(b) + HeadLen \in Nat
    BY <1>2 DEF PackSize, HeadLen
  <1>4. SoundBuf(Rest(b))
    BY <1>3, CutFacts DEF Rest
  <1>5. QED
    BY <1>4, SizeIs

\* The buffer after a recv from a socket with the bytes s, and what is left there.
TakenFrom(s) == IF Len(s) < RecvMax THEN Len(s) ELSE RecvMax
Into(b, s) == IF TakenFrom(s) = 0 THEN b ELSE appendRawData(b, SubSeq(s, 1, TakenFrom(s)))
After(s) == SubSeq(s, TakenFrom(s) + 1, Len(s))

LEMMA IntoFacts ==
    ASSUME NEW b, SoundBuf(b), NEW s \in Bytes
    PROVE  /\ SoundBuf(Into(b, s)) /\ Into(b, s).data \in Bytes /\ After(s) \in Bytes
           /\ Into(b, s).data \o After(s) = b.data \o s
  <1>1. PICK m \in Nat : m = TakenFrom(s) /\ m <= Len(s) /\ (m = 0 <=> s = <<>>)
    BY RecvFacts DEF TakenFrom
  <1>2. PICK u, v \in Bytes :
           u = SubSeq(s, 1, m) /\ v = SubSeq(s, m + 1, Len(s)) /\ u \o v = s /\ (m = 0 => v = s)
    <2>1. /\ SubSeq(s, 1, m) \in Bytes /\ SubSeq(s, m + 1, Len(s)) \in Bytes
          /\ SubSeq(s, 1, m) \o SubSeq(s, m + 1, Len(s)) = s
          /\ m = 0 => SubSeq(s, m + 1, Len(s)) = s
      BY <1>1, BytesSplit
    <2>2. QED
      BY <2>1
  <1>3. b.data \in Bytes
    BY SizeIs
  <1>4. After(s) = v
    BY <1>1, <1>2 DEF After
  <1>5. CASE m = 0
    <2>1. Into(b, s) = b
      BY <1>1, <1>5 DEF Into
    <2>2. QED
      BY <1>2, <1>3, <1>4, <1>5, <2>1
  <1>6. CASE m # 0
    <2>1. Into(b, s) = appendRawData(b, u)
      BY <1>1, <1>2, <1>6 DEF Into
    <2>2. SoundBuf(Into(b, s)) /\ Into(b, s).data = b.data \o u
      BY <1>2, <2>1, RawFacts
    <2>3. (b.data \o u) \o v = b.data \o (u \o v) /\ b.data \o u \in Bytes
      <3>1. PICK d \in Bytes : d = b.data
        BY <1>3
      <3>2. (d \o u) \o v = d \o (u \o v) /\ d \o u \in Bytes
        <4>1. (d \o u) \o v = d \o (u \o v)
          BY BytesAssociate
        <4>2. d \o u \in Bytes
          BY BytesJoin
        <4>3. QED
          BY <4>1, <4>2
      <3>3. QED
        BY <3>1, <3>2
    <2>4. QED
      BY <1>2, <1>4, <2>2, <2>3
  <1>7. QED
    BY <1>5, <1>6

\* The buffer of a program after its recv.
Read(c) == Into(cr[c], down[c])
StillDown(c) == After(down[c])

LEMMA ReadFacts ==
    ASSUME ProgramType, NEW c \in Conn
    PROVE  /\ SoundBuf(Read(c)) /\ Read(c).data \in Bytes /\ StillDown(c) \in Bytes
           /\ Read(c).data \o StillDown(c) = cr[c].data \o down[c]
  BY IntoFacts DEF ProgramType, Read, StillDown

\* What a round of a program does, without the sharing of the code.
Rounds(c, n) ==
    /\ peer[c] = "2" /\ n \in Nat /\ n <= Len(cw[c].data)
    /\ down' = [down EXCEPT ![c] = StillDown(c)]
    /\ \/ /\ HasPack(Read(c))
          /\ got' = [got EXCEPT ![c] = Append(@, Body(Read(c)))]
          /\ cr' = [cr EXCEPT ![c] = Rest(Read(c))]
       \/ got' = got /\ cr' = [cr EXCEPT ![c] = Read(c)]
    /\ cw' = [cw EXCEPT ![c] = cutData(cw[c], n)]
    /\ peer' = [peer EXCEPT ![c] = "0"] \/ peer' = peer
    /\ c \in shut => up' = up /\ edge' = edge
    /\ c \notin shut => /\ up' = [up EXCEPT ![c] = up[c] \o SubSeq(cw[c].data, 1, n)]
                        /\ edge' = edge \cup FdOf(c) \/ edge' = edge
    /\ KeepsTables
    /\ UNCHANGED <<queue, pc, cur, events, backlog, link, shut, asked, noted>>

LEMMA ClientRoundIs ==
    ASSUME HostState, NEW c \in Conn, NEW n \in 0 .. BufLen, ClientRound(c, n)
    PROVE  Rounds(c, n)
  <1> USE DEF serverVars, roundVars, kernelVars, peerVars
  <1>1. n \in Nat /\ n <= Len(cw[c].data)
    <2>1. Takes(n, getDataSize(cw[c]))
      BY DEF ClientRound
    <2>2. getDataSize(cw[c]) = Len(cw[c].data) /\ Len(cw[c].data) \in Nat
      BY SizeIs DEF HostState, ProgramType
    <2>3. n \in Nat
      BY DataBufAssumption
    <2>4. QED
      BY <2>1, <2>2, <2>3 DEF Takes
  <1>2. /\ peer[c] = "2" /\ KeepsTables
        /\ UNCHANGED <<queue, pc, cur, events, backlog, link, shut, asked, noted>>
    BY DEF ClientRound, KeepsTables
  <1>3. peer' = [peer EXCEPT ![c] = "0"] \/ peer' = peer
    BY DEF ClientRound, HostState, ProgramType
  <1>4. /\ cw' = [cw EXCEPT ![c] = cutData(cw[c], n)]
        /\ down' = [down EXCEPT ![c] = StillDown(c)]
    BY DEF ClientRound, HostState, ProgramType, StillDown, After, TakenFrom
  <1>5. \/ /\ HasPack(Read(c))
           /\ got' = [got EXCEPT ![c] = Append(@, Body(Read(c)))]
           /\ cr' = [cr EXCEPT ![c] = Rest(Read(c))]
        \/ got' = got /\ cr' = [cr EXCEPT ![c] = Read(c)]
    BY DEF ClientRound, Read, Into, TakenFrom
  <1>6. /\ c \in shut => up' = up /\ edge' = edge
        /\ c \notin shut => /\ up' = [up EXCEPT ![c] = up[c] \o SubSeq(cw[c].data, 1, n)]
                            /\ edge' = edge \cup FdOf(c) \/ edge' = edge
    BY DEF ClientRound, HostState, ProgramType
  <1>7. QED
    BY <1>1, <1>2, <1>3, <1>4, <1>5, <1>6 DEF Rounds

LEMMA FdOfFacts ==
    ASSUME NEW c \in Conn
    PROVE  FdOf(c) \subseteq Used /\ FdOf(c) \subseteq Fd
  BY PlacesFinite DEF FdOf, Used

LEMMA ClientRoundState ==
    ASSUME HostState, NEW c \in Conn, NEW n, Rounds(c, n),
           got' \in [Conn -> Seq(Bytes)]
    PROVE  HostState'
  <1>1. KeepsTables /\ Busy' = Busy /\ Used' = Used /\ HostCounts'
    BY SameTables DEF Rounds, HostState
  <1>2. UNCHANGED <<queue, pc, cur, events, backlog, link, shut, asked, noted>>
    BY DEF Rounds
  <1>3. edge' \subseteq edge \cup FdOf(c)
    BY DEF Rounds
  <1>4. HostType'
    BY <1>1, <1>2, <1>3, FdOfFacts DEF HostState, HostType, KeepsTables
  <1>5. ProgramType'
    <2>1. \A b : SoundBuf(b) => b \in Buffers
      BY DEF SoundBuf
    <2>2. cw' \in [Conn -> Buffers] /\ \A d \in Conn : SoundBuf(cw'[d])
      <3>1. SoundBuf(cutData(cw[c], n)) /\ cw' = [cw EXCEPT ![c] = cutData(cw[c], n)]
        BY SendFacts DEF Rounds, HostState, ProgramType
      <3>2. QED
        BY <2>1, <3>1 DEF HostState, ProgramType
    <2>3. cr' \in [Conn -> Buffers] /\ \A d \in Conn : SoundBuf(cr'[d])
      <3>1. PICK b : SoundBuf(b) /\ cr' = [cr EXCEPT ![c] = b]
        BY ReadFacts, RestFacts DEF Rounds, HostState
      <3>2. QED
        BY <2>1, <3>1 DEF HostState, ProgramType
    <2>4. down' \in [Conn -> Bytes]
      BY ReadFacts DEF Rounds, HostState, ProgramType
    <2>5. up' \in [Conn -> Bytes]
      <3>1. up[c] \o SubSeq(cw[c].data, 1, n) \in Bytes
        BY SendFacts, BytesJoin DEF Rounds, HostState, ProgramType
      <3>2. QED
        BY <3>1 DEF Rounds, HostState, ProgramType
    <2>6. peer' \in [Conn -> {"none", "1", "2", "0", "exited"}]
      BY DEF Rounds, HostState, ProgramType
    <2>7. QED
      BY <1>2, <2>2, <2>3, <2>4, <2>5, <2>6 DEF HostState, ProgramType
  <1>6. HostTables'
    BY <1>1, <1>2, <1>3, FdOfFacts DEF HostState, HostTables, KeepsTables
  <1>7. \A d \in Conn : /\ peer'[d] = "none" <=> peer[d] = "none"
                        /\ peer'[d] = "exited" <=> peer[d] = "exited"
    BY DEF Rounds, HostState, ProgramType
  <1>8. Places' /\ Links'
    BY <1>1, <1>2, <1>7 DEF HostState, Places, Links, KeepsTables
  <1>9. QED
    BY <1>1, <1>4, <1>5, <1>6, <1>8 DEF HostState

LEMMA ExitsState ==
    ASSUME HostState, NEW c \in Conn, Exits(c)
    PROVE  HostState'
  <1> USE DEF serverVars, roundVars, kernelVars, peerVars
  <1>1. KeepsTables /\ Busy' = Busy /\ Used' = Used /\ HostCounts'
    BY SameTables DEF Exits, KeepsTables, HostState
  <1>2. /\ peer[c] \in {"1", "2"} /\ peer' = [peer EXCEPT ![c] = "exited"]
        /\ \E l \in {"fin", "rst"} : link' = [link EXCEPT ![c] = l]
        /\ edge' = edge \cup FdOf(c) /\ down' = [down EXCEPT ![c] = <<>>]
        /\ cw' = [cw EXCEPT ![c] = Empty] /\ cr' = [cr EXCEPT ![c] = Empty]
        /\ UNCHANGED <<queue, pc, cur, events, backlog, up, shut, asked, noted, got>>
    BY DEF Exits
  <1>3. HostType'
    BY <1>1, <1>2, FdOfFacts DEF HostState, HostType, KeepsTables
  <1>4. ProgramType'
    <2>1. SoundBuf(Empty) /\ Empty \in Buffers /\ <<>> \in Bytes
      BY EmptyFacts DEF SoundBuf, Bytes
    <2>2. /\ cw' \in [Conn -> Buffers] /\ \A d \in Conn : SoundBuf(cw'[d])
          /\ cr' \in [Conn -> Buffers] /\ \A d \in Conn : SoundBuf(cr'[d])
      BY <1>2, <2>1 DEF HostState, ProgramType
    <2>3. /\ peer' \in [Conn -> {"none", "1", "2", "0", "exited"}]
          /\ link' \in [Conn -> {"open", "fin", "bounced", "dead", "rst"}]
          /\ down' \in [Conn -> Bytes]
      BY <1>2, <2>1 DEF HostState, ProgramType
    <2>4. QED
      BY <1>2, <2>2, <2>3 DEF HostState, ProgramType
  <1>5. HostTables'
    BY <1>1, <1>2, FdOfFacts DEF HostState, HostTables, KeepsTables
  <1>6. Places'
    <2>1. \A d \in Conn : peer'[d] = "none" => peer[d] = "none"
      BY <1>2 DEF HostState, ProgramType
    <2>2. QED
      BY <1>1, <1>2, <2>1 DEF HostState, Places, KeepsTables
  <1>7. Links'
    <2>1. PICK l \in {"fin", "rst"} : link' = [link EXCEPT ![c] = l]
      BY <1>2
    <2>2. \A d \in Conn : link'[d] = "open" <=> peer'[d] # "exited"
      BY <1>2, <2>1 DEF HostState, ProgramType, Links
    <2>3. \A d : link[d] # "open" /\ d \in Conn => link'[d] # "open"
      BY <2>1 DEF HostState, ProgramType
    <2>4. \A p \in Busy : sock[clients[p].sock] \in Conn
      BY PlacesFinite, ClientFacts DEF HostState, HostTables, Used, HostType
    <2>5. QED
      BY <1>1, <2>2, <2>3, <2>4 DEF HostState, Links, KeepsTables
  <1>8. QED
    BY <1>1, <1>3, <1>4, <1>5, <1>6, <1>7 DEF HostState

LEMMA ResetArrivesState ==
    ASSUME HostState, NEW c \in Conn, ResetArrives(c)
    PROVE  HostState'
  <1> USE DEF serverVars, roundVars, kernelVars, peerVars
  <1>1. KeepsTables /\ Busy' = Busy /\ Used' = Used /\ HostCounts'
    BY SameTables DEF ResetArrives, KeepsTables, HostState
  <1>2. /\ link[c] = "bounced" /\ link' = [link EXCEPT ![c] = "dead"]
        /\ edge' = edge \cup FdOf(c)
        /\ UNCHANGED <<queue, pc, cur, events, backlog, up, down, shut, peer, cw, cr, asked,
                       noted, got>>
    BY DEF ResetArrives
  <1>3. HostType'
    BY <1>1, <1>2, FdOfFacts DEF HostState, HostType, KeepsTables
  <1>4. ProgramType'
    BY <1>2 DEF HostState, ProgramType
  <1>5. HostTables'
    BY <1>1, <1>2, FdOfFacts DEF HostState, HostTables, KeepsTables
  <1>6. Places'
    BY <1>1, <1>2 DEF HostState, Places, KeepsTables
  <1>7. Links'
    <2>1. \A d \in Conn : link'[d] = "open" <=> link[d] = "open"
      BY <1>2 DEF HostState, ProgramType
    <2>2. \A p \in Busy : sock[clients[p].sock] \in Conn
      BY PlacesFinite, ClientFacts DEF HostState, HostTables, Used, HostType
    <2>3. QED
      BY <1>1, <1>2, <2>1, <2>2 DEF HostState, Links, KeepsTables
  <1>8. QED
    BY <1>1, <1>3, <1>4, <1>5, <1>6, <1>7 DEF HostState

LEMMA doDispatchState ==
    ASSUME HostState, doDispatch
    PROVE  HostState'
  <1> USE DEF serverVars, roundVars, kernelVars, peerVars
  <1>1. KeepsTables /\ Busy' = Busy /\ Used' = Used /\ HostCounts'
    BY SameTables DEF doDispatch, KeepsTables, HostState
  <1>2. /\ events' = edge /\ edge' = {} /\ pc' = "events"
        /\ UNCHANGED <<queue, cur, backlog, up, down, link, shut, peer, cw, cr, asked,
                       noted, got>>
    BY DEF doDispatch
  <1>3. HostType'
    BY <1>1, <1>2 DEF HostState, HostType, KeepsTables
  <1>4. ProgramType'
    BY <1>2 DEF HostState, ProgramType
  <1>5. HostTables'
    BY <1>1, <1>2 DEF HostState, HostTables, KeepsTables
  <1>6. Places' /\ Links'
    BY <1>1, <1>2 DEF HostState, Places, Links, KeepsTables
  <1>7. QED
    BY <1>1, <1>3, <1>4, <1>5, <1>6 DEF HostState

LEMMA LeastIn ==
    ASSUME NEW S \in SUBSET Nat, S # {}
    PROVE  Least(S) \in S
  BY LeastElement DEF Least

\* The first of a sequence and the rest of it; a sequence with one more.
LEMMA RestOfSeq ==
    ASSUME NEW S, NEW s \in Seq(S), s # <<>>
    PROVE  /\ Head(s) \in S /\ Head(s) = s[1] /\ 1 \in DOMAIN s /\ Tail(s) \in Seq(S)
           /\ Len(Tail(s)) = Len(s) - 1 /\ DOMAIN s = 1 .. Len(s) /\ Len(s) \in Nat \ {0}
           /\ DOMAIN Tail(s) = 1 .. Len(s) - 1
           /\ \A i \in DOMAIN Tail(s) : i + 1 \in DOMAIN s /\ i + 1 # 1 /\ Tail(s)[i] = s[i + 1]
           /\ \A i, j \in DOMAIN Tail(s) : i + 1 = j + 1 => i = j
  OBVIOUS

LEMMA AppendFacts ==
    ASSUME NEW S, NEW s \in Seq(S), NEW x
    PROVE  /\ DOMAIN Append(s, x) = DOMAIN s \cup {Len(s) + 1} /\ Len(Append(s, x)) = Len(s) + 1
           /\ Len(s) \in Nat /\ DOMAIN s = 1 .. Len(s) /\ Len(s) + 1 \notin DOMAIN s
           /\ \A i \in DOMAIN s : Append(s, x)[i] = s[i]
           /\ Append(s, x)[Len(s) + 1] = x
           /\ x \in S => Append(s, x) \in Seq(S)
  OBVIOUS

\* A connection gets position pos and descriptor f.
Admits(pos, f, c) ==
    /\ c = Head(backlog) /\ pos \in Pos /\ pos \notin Busy /\ f \in Fd /\ f \notin Used
    /\ sock' = [sock EXCEPT ![f] = c]
    /\ clients' = [clients EXCEPT ![pos] = NewClient(f, pos)]
    /\ count' = count + 1 /\ fdCnt' = fdCnt + 1
    /\ fpos' = [x \in DOMAIN fpos \cup {f} |-> IF x = f THEN pos ELSE fpos[x]]
    /\ edge' = edge \cup {f} \/ edge' = edge
    /\ queue' = Append(queue, [event |-> "new", hid |-> pos, of |-> c])
    /\ shut' = shut

Refuses == shut' = shut \cup {Head(backlog)} /\ edge' = edge /\ queue' = queue /\ KeepsTables

Accepts ==
    /\ pc = "events" /\ events' = events \ {Listen}
    /\ \/ backlog = <<>> /\ KeepsTables /\ UNCHANGED <<queue, edge, backlog, shut>>
       \/ /\ backlog # <<>> /\ backlog' = Tail(backlog)
          /\ Refuses \/ \E pos, f, c : Admits(pos, f, c)
    /\ UNCHANGED <<pc, cur, up, down, link, peer, cw, cr, asked, noted, got>>

LEMMA HandleListenIs ==
    ASSUME HostState, HandleListen
    PROVE  Accepts
  <1> USE DEF serverVars, roundVars, kernelVars, peerVars
  <1>1. /\ pc = "events" /\ events' = events \ {Listen}
        /\ UNCHANGED <<pc, cur, up, down, link, peer, cw, cr, asked, noted, got>>
    BY DEF HandleListen
  <1>2. CASE backlog = <<>>
    BY <1>1, <1>2 DEF HandleListen, Accepts, KeepsTables
  <1>3. CASE backlog # <<>> /\ (count >= MaxClients \/ Free = {})
    BY <1>1, <1>3 DEF HandleListen, Accepts, Refuses, KeepsTables
  <1>4. CASE backlog # <<>> /\ ~(count >= MaxClients \/ Free = {})
    <2> DEFINE pos == Least(Free)
               T == {x \in Fd : sock[x] = NULL}
               f == Least(T)
               c == Head(backlog)
    <2>1. backlog' = Tail(backlog) /\ Admit(c)
      BY <1>4 DEF HandleListen
    <2>2. pos \in Pos /\ pos \notin Busy
      <3>1. Free \in SUBSET Nat
        BY PlacesFinite DEF Free
      <3>2. pos \in Free
        BY <1>4, <3>1, LeastIn
      <3>3. QED
        BY <3>2 DEF Free, Busy
    <2>3. f \in Fd /\ f \notin Used
      <3>1. T # {}
        <4>1. SUFFICES ASSUME T = {} PROVE FALSE
          OBVIOUS
        <4>2. Used = Fd
          BY <4>1 DEF Used
        <4>3. count = MaxClients
          BY <4>2, PlacesFinite DEF HostState, HostCounts
        <4>4. QED
          BY <1>4, <4>3, PlacesFinite
      <3>2. T \in SUBSET Nat
        BY PlacesFinite
      <3>3. f \in T
        BY <3>1, <3>2, LeastIn
      <3>4. QED
        BY <3>3 DEF Used
    <2>4. Admits(pos, f, c)
      <3>1. edge' = edge \cup {f} \/ edge' = edge
        BY <2>1 DEF Admit, addFd
      <3>2. QED
        BY <2>1, <2>2, <2>3, <3>1 DEF Admit, addFd, Admits
    <2> HIDE DEF pos, f, c
    <2>5. QED
      BY <1>1, <1>4, <2>1, <2>4 DEF Accepts
  <1>5. QED
    BY <1>2, <1>3, <1>4

\* A connection leaves the backlog.
LEMMA BacklogTail ==
    ASSUME HostState, backlog # <<>>, backlog' = Tail(backlog)
    PROVE  /\ backlog' \in Seq(Conn) /\ Head(backlog) \in Conn
           /\ Head(backlog) \notin shut /\ \A f \in Used : sock[f] # Head(backlog)
           /\ peer[Head(backlog)] # "none"
           /\ \A i \in DOMAIN backlog' :
                 /\ backlog'[i] # Head(backlog) /\ backlog'[i] \notin shut
                 /\ \A f \in Used : sock[f] # backlog'[i]
           /\ \A i, j \in DOMAIN backlog' : backlog'[i] = backlog'[j] => i = j
           /\ \A x : (\A i \in DOMAIN backlog : backlog[i] # x)
                        => \A i \in DOMAIN backlog' : backlog'[i] # x
  <1>1. backlog \in Seq(Conn) /\ Places
    BY DEF HostState, HostType
  <1>2. PICK s, t : s \in Seq(Conn) /\ s = backlog /\ t = backlog' /\ t = Tail(s) /\ s # <<>>
    BY <1>1
  <1>3. /\ Head(s) \in Conn /\ Head(s) = s[1] /\ 1 \in DOMAIN s /\ t \in Seq(Conn)
        /\ \A i \in DOMAIN t : i + 1 \in DOMAIN s /\ i + 1 # 1 /\ t[i] = s[i + 1]
        /\ \A i, j \in DOMAIN t : i + 1 = j + 1 => i = j
    BY <1>2, RestOfSeq
  <1>4. QED
    BY <1>1, <1>2, <1>3 DEF Places

LEMMA NewClientIs ==
    ASSUME NEW pos \in Pos, NEW f \in Fd
    PROVE  LET x == NewClient(f, pos)
           IN  /\ x \in Client /\ x # NULL /\ x.sock = f /\ x.hid = pos /\ x.state = 2
               /\ SoundBuf(x.rbuf) /\ SoundBuf(x.wbuf) /\ x.rbuf.data = <<>> /\ x.wbuf.data = <<>>
  <1>1. PICK b : b = Empty /\ SoundBuf(b) /\ b \in Buffers /\ b.data = <<>>
    BY EmptyFacts DEF SoundBuf
  <1>2. NewClient(f, pos) = [sock |-> f, state |-> 2, hid |-> pos, rbuf |-> b, wbuf |-> b]
    BY <1>1 DEF NewClient
  <1>3. QED
    BY <1>1, <1>2, PlacesFinite DEF Client

\* What the tables are when a connection was admitted.
Placed(pos, f, c) ==
    /\ pos \in Pos \ Busy /\ f \in Fd \ Used
    /\ Busy' = Busy \cup {pos} /\ Used' = Used \cup {f}
    /\ clients'[pos] = NewClient(f, pos) /\ \A p \in Busy : clients'[p] = clients[p]
    /\ sock'[f] = c /\ \A g \in Used : sock'[g] = sock[g]
    /\ DOMAIN fpos' = Used \cup {f} /\ fpos'[f] = pos
    /\ \A g \in Used : fpos'[g] = fpos[g]
    /\ \A p \in Busy : clients[p].sock # f

LEMMA AdmitsTables ==
    ASSUME HostState, NEW pos, NEW f, NEW c \in Conn, Admits(pos, f, c)
    PROVE  Placed(pos, f, c)
  <1>1. /\ pos \in Pos /\ pos \notin Busy /\ f \in Fd /\ f \notin Used
        /\ sock' = [sock EXCEPT ![f] = c]
        /\ clients' = [clients EXCEPT ![pos] = NewClient(f, pos)]
        /\ fpos' = [x \in DOMAIN fpos \cup {f} |-> IF x = f THEN pos ELSE fpos[x]]
    BY DEF Admits
  <1>2. /\ clients \in [Pos -> Client \cup {NULL}]
        /\ sock \in [Fd -> Conn \cup {NULL}] /\ DOMAIN fpos = Used
    BY DEF HostState, HostType, HostTables
  <1>3. c # NULL
    BY PlacesFinite
  <1>4. NewClient(f, pos) # NULL
    BY <1>1, NewClientIs
  <1>5. Busy' = Busy \cup {pos}
    BY <1>1, <1>2, <1>4 DEF Busy
  <1>6. Used' = Used \cup {f}
    BY <1>1, <1>2, <1>3 DEF Used
  <1>7. \A p \in Busy : clients'[p] = clients[p]
    BY <1>1, <1>2 DEF Busy
  <1>8. \A g \in Used : sock'[g] = sock[g]
    BY <1>1, <1>2 DEF Used
  <1>9. \A p \in Busy : clients[p].sock # f
    BY <1>1 DEF HostState, HostTables
  <1>10. \A g \in Used : fpos'[g] = fpos[g]
    BY <1>1, <1>2
  <1>11. clients'[pos] = NewClient(f, pos) /\ sock'[f] = c /\ fpos'[f] = pos
         /\ DOMAIN fpos' = Used \cup {f}
    BY <1>1, <1>2
  <1>12. QED
    BY <1>1, <1>5, <1>6, <1>7, <1>8, <1>9, <1>10, <1>11 DEF Placed

LEMMA AdmitsState ==
    ASSUME HostState, Accepts, backlog # <<>>, backlog' = Tail(backlog),
           NEW pos, NEW f, NEW c, Admits(pos, f, c)
    PROVE  HostState'
  <1>1. c = Head(backlog) /\ c \in Conn
    BY BacklogTail DEF Admits
  <1>2. /\ pos \in Pos \ Busy /\ f \in Fd \ Used
        /\ Busy' = Busy \cup {pos} /\ Used' = Used \cup {f}
        /\ clients'[pos] = NewClient(f, pos) /\ \A p \in Busy : clients'[p] = clients[p]
        /\ sock'[f] = c /\ \A g \in Used : sock'[g] = sock[g]
        /\ DOMAIN fpos' = Used \cup {f} /\ fpos'[f] = pos
        /\ \A g \in Used : fpos'[g] = fpos[g]
        /\ \A p \in Busy : clients[p].sock # f
    <2>1. Placed(pos, f, c)
      BY <1>1, AdmitsTables
    <2>2. QED
      BY <2>1 DEF Placed
  <1>3. PICK x : /\ x = NewClient(f, pos)
                 /\ x \in Client /\ x # NULL /\ x.sock = f /\ x.hid = pos /\ x.state = 2
                 /\ SoundBuf(x.rbuf) /\ SoundBuf(x.wbuf)
    BY <1>2, NewClientIs
  <1>4. /\ pc = "events" /\ events' = events \ {Listen}
        /\ UNCHANGED <<pc, cur, up, down, link, peer, cw, cr, asked, noted, got>>
    BY DEF Accepts
  <1>5. /\ count' = count + 1 /\ fdCnt' = fdCnt + 1 /\ shut' = shut
        /\ edge' \subseteq edge \cup {f}
        /\ queue' = Append(queue, [event |-> "new", hid |-> pos, of |-> c])
        /\ sock' = [sock EXCEPT ![f] = c]
        /\ clients' = [clients EXCEPT ![pos] = x]
    BY <1>3 DEF Admits
  <1>6. HostType'
    <2>1. queue' \in Seq(Note \cup DataEvent)
      <3>1. [event |-> "new", hid |-> pos, of |-> c] \in Note
        BY <1>1, <1>2 DEF Note
      <3>2. QED
        BY <1>5, <3>1, AppendFacts DEF HostState, HostType
    <2>2. /\ clients' \in [Pos -> Client \cup {NULL}]
          /\ sock' \in [Fd -> Conn \cup {NULL}]
      BY <1>1, <1>2, <1>3, <1>5 DEF HostState, HostType
    <2>3. \A p \in Busy' : SoundBuf(clients'[p].rbuf) /\ SoundBuf(clients'[p].wbuf)
      BY <1>2, <1>3 DEF HostState, HostType
    <2>4. count' \in Nat /\ fdCnt' \in Nat
      BY <1>5 DEF HostState, HostType
    <2>5. backlog' \in Seq(Conn) /\ shut' \subseteq Conn
      BY <1>5, BacklogTail DEF HostState, HostType
    <2>6. events' \subseteq Fd \cup {Listen} /\ edge' \subseteq Fd \cup {Listen}
      BY <1>2, <1>4, <1>5 DEF HostState, HostType
    <2>7. pc' \in {"wait", "events", "packs", "killed"} /\ cur' \in Pos \cup {NULL}
      BY <1>4 DEF HostState, HostType
    <2>8. QED
      BY <2>1, <2>2, <2>3, <2>4, <2>5, <2>6, <2>7 DEF HostType
  <1>7. ProgramType'
    BY <1>4 DEF HostState, ProgramType
  <1>8. HostTables'
    <2>1. fpos' \in [Used' -> Pos]
      <3>1. \A g \in Used' : fpos'[g] \in Pos
        BY <1>2 DEF HostState, HostTables
      <3>2. fpos' = [g \in DOMAIN fpos' |-> fpos'[g]]
        BY DEF Admits
      <3>3. QED
        BY <1>2, <3>1, <3>2
    <2>2. \A g \in Used' : fpos'[g] \in Busy' /\ clients'[fpos'[g]].sock = g
      BY <1>2, <1>3 DEF HostState, HostTables
    <2>3. \A p \in Busy' : /\ clients'[p].hid = p /\ clients'[p].sock \in Used'
                           /\ fpos'[clients'[p].sock] = p
      BY <1>2, <1>3 DEF HostState, HostTables
    <2>4. (events' \cup edge') \ {Listen} \subseteq Used'
      BY <1>2, <1>4, <1>5 DEF HostState, HostTables
    <2>5. pc' # "packs"
      BY <1>4
    <2>6. QED
      BY <2>1, <2>2, <2>3, <2>4, <2>5 DEF HostTables
  <1>9. HostCounts'
    <2>1. /\ Cardinality(Busy \cup {pos}) = Cardinality(Busy) + 1
          /\ Cardinality(Used \cup {f}) = Cardinality(Used) + 1
      BY <1>2, PlacesFinite, FS_AddElement
    <2>2. QED
      BY <1>2, <1>5, <2>1 DEF HostState, HostCounts
  <1>10. Places'
    <2>1. /\ c \notin shut /\ \A g \in Used : sock[g] # c
          /\ peer[c] # "none"
          /\ \A i \in DOMAIN backlog' :
                 /\ backlog'[i] # c /\ backlog'[i] \notin shut
                 /\ \A g \in Used : sock[g] # backlog'[i]
          /\ \A i, j \in DOMAIN backlog' : backlog'[i] = backlog'[j] => i = j
          /\ \A d : (\A i \in DOMAIN backlog : backlog[i] # d)
                        => \A i \in DOMAIN backlog' : backlog'[i] # d
      BY <1>1, BacklogTail
    <2>2. \A g, h \in Used' : sock'[g] = sock'[h] => g = h
      BY <1>2, <2>1 DEF HostState, Places
    <2>3. \A i \in DOMAIN backlog' : backlog'[i] \notin shut' /\ \A g \in Used' : sock'[g] # backlog'[i]
      BY <1>2, <1>5, <2>1
    <2>4. \A g \in Used' : sock'[g] \notin shut'
      BY <1>2, <1>5, <2>1 DEF HostState, Places
    <2>5. \A d \in Conn : peer'[d] = "none" =>
          /\ d \notin shut' /\ \A g \in Used' : sock'[g] # d
          /\ \A i \in DOMAIN backlog' : backlog'[i] # d
      <3>1. SUFFICES ASSUME NEW d \in Conn, peer'[d] = "none"
                     PROVE  /\ d \notin shut' /\ \A g \in Used' : sock'[g] # d
                            /\ \A i \in DOMAIN backlog' : backlog'[i] # d
        OBVIOUS
      <3>2. /\ peer[d] = "none" /\ d \notin shut /\ \A g \in Used : sock[g] # d
            /\ \A i \in DOMAIN backlog : backlog[i] # d
        BY <1>4, <3>1 DEF HostState, Places
      <3>3. d # c
        BY <2>1, <3>2
      <3>4. \A g \in Used' : sock'[g] # d
        BY <1>2, <3>2, <3>3
      <3>5. QED
        BY <1>5, <2>1, <3>2, <3>4
    <2>6. QED
      BY <2>1, <2>2, <2>3, <2>4, <2>5 DEF Places
  <1>11. Links'
    <2>1. \A p \in Busy : clients'[p] = clients[p] /\ sock'[clients[p].sock] = sock[clients[p].sock]
      BY <1>2 DEF HostState, HostTables
    <2>2. QED
      BY <1>2, <1>3, <1>4, <2>1 DEF HostState, Links
  <1>12. QED
    BY <1>6, <1>7, <1>8, <1>9, <1>10, <1>11 DEF HostState

LEMMA HandleListenState ==
    ASSUME HostState, Accepts
    PROVE  HostState'
  <1>1. /\ pc = "events" /\ events' = events \ {Listen}
        /\ UNCHANGED <<pc, cur, up, down, link, peer, cw, cr, asked, noted, got>>
    BY DEF Accepts
  <1>2. ProgramType'
    BY <1>1 DEF HostState, ProgramType
  <1>3. CASE backlog = <<>> /\ KeepsTables /\ UNCHANGED <<queue, edge, backlog, shut>>
    <2>1. Busy' = Busy /\ Used' = Used /\ HostCounts'
      BY <1>3, SameTables DEF HostState
    <2>2. HostType'
      BY <1>1, <1>3, <2>1 DEF HostState, HostType, KeepsTables
    <2>3. HostTables'
      BY <1>1, <1>3, <2>1 DEF HostState, HostTables, KeepsTables
    <2>4. Places' /\ Links'
      BY <1>1, <1>3, <2>1 DEF HostState, Places, Links, KeepsTables
    <2>5. QED
      BY <1>2, <2>1, <2>2, <2>3, <2>4 DEF HostState
  <1>4. CASE backlog # <<>> /\ backlog' = Tail(backlog) /\ Refuses
    <2>1. /\ KeepsTables /\ Busy' = Busy /\ Used' = Used /\ HostCounts'
          /\ queue' = queue /\ edge' = edge /\ shut' = shut \cup {Head(backlog)}
      BY <1>4, SameTables DEF Refuses, HostState
    <2>2. HostType'
      BY <1>1, <1>4, <2>1, BacklogTail DEF HostState, HostType, KeepsTables
    <2>3. HostTables'
      BY <1>1, <2>1 DEF HostState, HostTables, KeepsTables
    <2>4. Links'
      BY <1>1, <2>1 DEF HostState, Links, KeepsTables
    <2>5. Places'
      <3>1. \A i, j \in DOMAIN backlog' : backlog'[i] = backlog'[j] => i = j
        BY <1>4, BacklogTail
      <3>2. \A i \in DOMAIN backlog' : backlog'[i] \notin shut' /\ \A f \in Used' : sock'[f] # backlog'[i]
        BY <1>4, <2>1, BacklogTail DEF KeepsTables
      <3>3. \A f \in Used' : sock'[f] \notin shut'
        BY <1>4, <2>1, BacklogTail DEF KeepsTables, HostState, Places
      <3>4. \A d \in Conn : peer'[d] = "none" =>
            /\ d \notin shut' /\ \A f \in Used' : sock'[f] # d
            /\ \A i \in DOMAIN backlog' : backlog'[i] # d
        BY <1>1, <1>4, <2>1, BacklogTail DEF KeepsTables, HostState, Places
      <3>5. \A f, g \in Used' : sock'[f] = sock'[g] => f = g
        BY <2>1 DEF KeepsTables, HostState, Places
      <3>6. QED
        BY <3>1, <3>2, <3>3, <3>4, <3>5 DEF Places
    <2>6. QED
      BY <1>2, <2>1, <2>2, <2>3, <2>4, <2>5 DEF HostState
  <1>5. CASE backlog # <<>> /\ backlog' = Tail(backlog) /\ \E pos, f, c : Admits(pos, f, c)
    BY <1>5, AdmitsState
  <1>6. QED
    BY <1>3, <1>4, <1>5 DEF Accepts

\* A connection with an event is read and written.
Handles(p, c, n, x) ==
    /\ pc = "events" /\ pc' \in {"packs", "killed"} /\ cur' = p
    /\ p \in Busy /\ c \in Conn /\ sock[clients[p].sock] = c
    /\ events' = events \ {clients[p].sock}
    /\ n \in Nat /\ n <= Len(clients[p].wbuf.data)
    /\ up' = [up EXCEPT ![c] = After(up[c])]
    /\ clients' = [clients EXCEPT ![p] = x]
    /\ x \in Client /\ x.sock = clients[p].sock /\ x.hid = clients[p].hid
    /\ x.rbuf = Into(clients[p].rbuf, up[c])
    /\ x.wbuf = cutData(clients[p].wbuf, n)
    /\ SoundBuf(x.rbuf) /\ SoundBuf(x.wbuf)
    /\ x.state = 0 => clients[p].state = 0 \/ link[c] # "open"
    /\ link[c] = "open" =>
          /\ down' = [down EXCEPT ![c] = down[c] \o SubSeq(clients[p].wbuf.data, 1, n)]
          /\ link' = link
    /\ link[c] # "open" =>
          /\ down' = down
          /\ \E l \in {"fin", "bounced", "dead", "rst"} : link' = [link EXCEPT ![c] = l]
    /\ UNCHANGED <<count, fpos, fdCnt, sock, queue, edge, backlog, shut, peer, cw, cr, asked,
                   noted, got>>

\* Fields of a Client that was read and written.
LEMMA HandledClient ==
    ASSUME NEW ct \in Client, NEW r, NEW s \in {0, 2}, NEW w, SoundBuf(r), SoundBuf(w)
    PROVE  LET x == [ct EXCEPT !.rbuf = r, !.state = s, !.wbuf = w]
           IN  /\ x \in Client /\ x.sock = ct.sock /\ x.hid = ct.hid
               /\ x.state = s /\ x.rbuf = r /\ x.wbuf = w
  BY DEF Client, SoundBuf

LEMMA HandleConnIs ==
    ASSUME HostState, NEW f \in Fd, NEW n \in 0 .. BufLen, HandleConn(f, n)
    PROVE  \E p, c, x : Handles(p, c, n, x)
  <1> USE DEF serverVars, roundVars, kernelVars, peerVars
  <1>1. PICK p, c, ct : p = fpos[f] /\ c = sock[f] /\ ct = clients[p]
    OBVIOUS
  <1>2. f \in Used /\ f \in events
    <2>1. f \in events /\ f # Listen
      BY PlacesFinite DEF HandleConn
    <2>2. QED
      BY <2>1 DEF HostState, HostTables
  <1>3. p \in Busy /\ clients[p].sock = f /\ ct \in Client
    BY <1>1, <1>2, ClientFacts DEF HostState, HostTables
  <1>4. c \in Conn /\ up[c] \in Bytes /\ link[c] \in {"open", "fin", "bounced", "dead", "rst"}
    <2>1. c \in Conn
      BY <1>1, <1>2 DEF Used, HostState, HostType
    <2>2. QED
      BY <2>1 DEF HostState, ProgramType
  <1>5. /\ SoundBuf(ct.rbuf) /\ SoundBuf(ct.wbuf) /\ ct.state \in {0, 2}
        /\ getDataSize(ct.wbuf) = Len(ct.wbuf.data) /\ Len(ct.wbuf.data) \in Nat
    BY <1>1, <1>3, ClientFacts, SizeIs DEF HostState
  <1>6. n \in Nat
    BY DataBufAssumption
  <1> DEFINE size == Len(ct.wbuf.data)
             r == Into(ct.rbuf, up[c])
             s == IF HungUp(c) \/ (size > 0 /\ SendFails(c)) THEN 0 ELSE ct.state
             w == cutData(ct.wbuf, n)
             x == [ct EXCEPT !.rbuf = r, !.state = s, !.wbuf = w]
  <1>7. /\ pc = "events" /\ cur' = p /\ events' = events \ {f}
        /\ UNCHANGED <<count, fpos, fdCnt, sock, queue, edge, backlog, shut, peer, cw, cr, asked,
                       noted, got>>
    BY <1>1 DEF HandleConn
  <1>8. up' = [up EXCEPT ![c] = After(up[c])]
    BY <1>1 DEF HandleConn, After, TakenFrom, Received
  <1>9. clients' = [clients EXCEPT ![p] = x]
    <2>1. clients' = [clients EXCEPT ![p] =
             [ct EXCEPT !.rbuf = IF Received(c) = 0 THEN @
                                 ELSE appendRawData(@, SubSeq(up[c], 1, Received(c))),
                        !.state = IF HungUp(c) \/ (size > 0 /\ SendFails(c)) THEN 0 ELSE @,
                        !.wbuf = Unsent(@, n)]]
      BY <1>1, <1>5 DEF HandleConn
    <2>2. /\ Received(c) = TakenFrom(up[c]) /\ Unsent(ct.wbuf, n) = w
      BY DEF Received, TakenFrom, Unsent
    <2>3. [ct EXCEPT !.rbuf = IF Received(c) = 0 THEN @
                              ELSE appendRawData(@, SubSeq(up[c], 1, Received(c))),
                     !.state = IF HungUp(c) \/ (size > 0 /\ SendFails(c)) THEN 0 ELSE @,
                     !.wbuf = Unsent(@, n)] = x
      BY <1>3, <2>2 DEF Into, Client
    <2> HIDE DEF x
    <2>4. QED
      BY <2>1, <2>3
  <1> HIDE DEF x, r, s, w
  <1>10. ASSUME link[c] = "open"
         PROVE  /\ s = ct.state /\ n <= size /\ pc' = "packs" /\ link' = link
                /\ down' = [down EXCEPT ![c] = down[c] \o SubSeq(ct.wbuf.data, 1, n)]
    <2>1. ~HungUp(c) /\ ~SendFails(c) /\ ~SendKills(c)
      BY <1>10 DEF HungUp, SendFails, SendKills
    <2>2. s = ct.state
      BY <2>1 DEF s
    <2>3. /\ pc' = "packs" /\ link' = link
          /\ \/ size = 0 /\ n = 0 /\ down' = down
             \/ Takes(n, size) /\ down' = [down EXCEPT ![c] = @ \o SubSeq(ct.wbuf.data, 1, n)]
      <3>1. PICK l \in Nat : l = size /\ l = getDataSize(ct.wbuf)
        BY <1>5
      <3>2. CASE l = 0
        BY <1>1, <3>1, <3>2 DEF HandleConn
      <3>3. CASE l > 0
        BY <1>1, <1>10, <2>1, <3>1, <3>3 DEF HandleConn
      <3>4. l = 0 \/ l > 0
        OBVIOUS
      <3>5. QED
        BY <3>2, <3>3, <3>4, Zenon
    <2>4. n <= size
      <3>1. PICK l \in Nat : l = size
        BY <1>5
      <3>2. n = 0 \/ Takes(n, l)
        BY <2>3, <3>1
      <3>3. n <= l
        BY <1>6, <3>2 DEF Takes
      <3>4. QED
        BY <3>1, <3>3
    <2>5. down' = [down EXCEPT ![c] = down[c] \o SubSeq(ct.wbuf.data, 1, n)]
      <3>1. CASE n = 0 /\ down' = down
        <4>1. PICK d : d = down[c] /\ d \in Bytes
          BY <1>4 DEF HostState, ProgramType
        <4>2. SubSeq(ct.wbuf.data, 1, n) = <<>>
          BY <1>5, <3>1, <2>4, SendFacts
        <4>3. d \o <<>> = d
          BY <4>1, ConcatSimplifications DEF Bytes
        <4>4. down = [down EXCEPT ![c] = d]
          BY <4>1 DEF HostState, ProgramType
        <4>5. QED
          BY <3>1, <4>1, <4>2, <4>3, <4>4
      <3>2. QED
        BY <2>3, <3>1
    <2>6. QED
      BY <2>2, <2>3, <2>4, <2>5
  <1>11. ASSUME link[c] # "open"
         PROVE  /\ n <= size /\ pc' \in {"packs", "killed"} /\ down' = down
                /\ \E l \in {"fin", "bounced", "dead", "rst"} : link' = [link EXCEPT ![c] = l]
    <2>1. /\ down' = down /\ pc' \in {"packs", "killed"}
          /\ \E l \in {"fin", "bounced", "dead", "rst"} : link' = [link EXCEPT ![c] = l]
      <3>1. \/ down' = down /\ pc' \in {"packs", "killed"} /\ link' = link
            \/ down' = down /\ pc' = "packs" /\ link' = [link EXCEPT ![c] = "bounced"]
        BY <1>1, <1>11 DEF HandleConn
      <3>2. link = [link EXCEPT ![c] = link[c]]
        BY DEF HostState, ProgramType
      <3>3. QED
        BY <1>4, <1>11, <3>1, <3>2
    <2>2. n <= size
      <3>1. n = 0 \/ n = size \/ Takes(n, size)
        BY <1>1, <1>5 DEF HandleConn
      <3>2. PICK l \in Nat : l = size
        BY <1>5
      <3>3. n = 0 \/ n = l \/ Takes(n, l)
        BY <3>1, <3>2
      <3>4. n <= l
        BY <1>6, <3>3 DEF Takes
      <3>5. QED
        BY <3>2, <3>4
    <2>3. QED
      BY <2>1, <2>2
  <1>12. n <= size /\ pc' \in {"packs", "killed"} /\ (s = 0 => ct.state = 0 \/ link[c] # "open")
    BY <1>10, <1>11, <1>5
  <1>13. SoundBuf(r) /\ SoundBuf(w)
    BY <1>4, <1>5, <1>6, <1>12, IntoFacts, SendFacts DEF r, w
  <1>14. s \in {0, 2}
    BY <1>5 DEF s
  <1>15. /\ x \in Client /\ x.sock = ct.sock /\ x.hid = ct.hid
         /\ x.state = s /\ x.rbuf = r /\ x.wbuf = w
    BY <1>3, <1>13, <1>14 DEF x, Client, SoundBuf
  <1>16. Handles(p, c, n, x)
    BY <1>1, <1>3, <1>4, <1>6, <1>7, <1>8, <1>9, <1>10, <1>11, <1>12, <1>13, <1>15
    DEF Handles, r, w
  <1>17. QED
    BY <1>16

\* A Client changes but for its socket and its host id.
Renews(p, x) ==
    /\ p \in Busy /\ clients' = [clients EXCEPT ![p] = x]
    /\ x \in Client /\ x.sock = clients[p].sock /\ x.hid = clients[p].hid
    /\ SoundBuf(x.rbuf) /\ SoundBuf(x.wbuf)
    /\ UNCHANGED <<count, fpos, fdCnt, sock>>

Renewed(p, x) ==
    /\ Busy' = Busy /\ Used' = Used /\ HostCounts'
    /\ clients' \in [Pos -> Client \cup {NULL}]
    /\ clients'[p] = x /\ \A q \in Pos : q # p => clients'[q] = clients[q]
    /\ \A q \in Busy : /\ SoundBuf(clients'[q].rbuf) /\ SoundBuf(clients'[q].wbuf)
                       /\ clients'[q].sock = clients[q].sock /\ clients'[q].hid = clients[q].hid

LEMMA RenewsTables ==
    ASSUME HostState, NEW p, NEW x, Renews(p, x)
    PROVE  Renewed(p, x)
  <1>1. /\ p \in Busy /\ clients' = [clients EXCEPT ![p] = x]
        /\ x \in Client /\ x.sock = clients[p].sock /\ x.hid = clients[p].hid
        /\ SoundBuf(x.rbuf) /\ SoundBuf(x.wbuf) /\ UNCHANGED <<count, fpos, fdCnt, sock>>
    BY DEF Renews
  <1>2. x # NULL
    BY <1>1, PlacesFinite
  <1>3. /\ clients \in [Pos -> Client \cup {NULL}] /\ p \in Pos
        /\ \A q \in Busy : SoundBuf(clients[q].rbuf) /\ SoundBuf(clients[q].wbuf)
    BY <1>1 DEF HostState, HostType, Busy
  <1>4. /\ clients'[p] = x /\ \A q \in Pos : q # p => clients'[q] = clients[q]
        /\ clients' \in [Pos -> Client \cup {NULL}]
    BY <1>1, <1>3
  <1>5. Busy' = Busy /\ Used' = Used
    BY <1>1, <1>2, <1>4 DEF Busy, Used
  <1>6. HostCounts'
    BY <1>1, <1>5 DEF HostCounts, HostState
  <1>7. \A q \in Busy : /\ SoundBuf(clients'[q].rbuf) /\ SoundBuf(clients'[q].wbuf)
                        /\ clients'[q].sock = clients[q].sock /\ clients'[q].hid = clients[q].hid
    <2>1. SUFFICES ASSUME NEW q \in Busy
                   PROVE  /\ SoundBuf(clients'[q].rbuf) /\ SoundBuf(clients'[q].wbuf)
                          /\ clients'[q].sock = clients[q].sock /\ clients'[q].hid = clients[q].hid
      OBVIOUS
    <2>2. q \in Pos
      BY DEF Busy
    <2>3. CASE q = p
      BY <1>1, <1>4, <2>3
    <2>4. CASE q # p
      BY <1>3, <1>4, <2>2, <2>4
    <2>5. QED
      BY <2>3, <2>4
  <1>8. QED
    BY <1>4, <1>5, <1>6, <1>7 DEF Renewed

LEMMA HandleConnState ==
    ASSUME HostState, NEW p, NEW c, NEW n, NEW x, Handles(p, c, n, x)
    PROVE  HostState'
  <1>1. Renewed(p, x)
    BY RenewsTables DEF Handles, Renews
  <1>2. /\ pc' \in {"packs", "killed"} /\ cur' = p /\ p \in Busy /\ c \in Conn
        /\ sock[clients[p].sock] = c /\ events' = events \ {clients[p].sock}
        /\ UNCHANGED <<count, fpos, fdCnt, sock, queue, edge, backlog, shut, peer, cw, cr, asked,
                       noted, got>>
    BY DEF Handles
  <1>3. HostType'
    <2>1. pc' \in {"wait", "events", "packs", "killed"} /\ cur' \in Pos \cup {NULL}
      BY <1>2 DEF Busy
    <2>2. \A q \in Busy' : SoundBuf(clients'[q].rbuf) /\ SoundBuf(clients'[q].wbuf)
      BY <1>1 DEF Renewed
    <2>3. clients' \in [Pos -> Client \cup {NULL}]
      BY <1>1 DEF Renewed
    <2>4. QED
      BY <1>2, <2>1, <2>2, <2>3 DEF HostState, HostType
  <1>4. ProgramType'
    <2>1. up' = [up EXCEPT ![c] = After(up[c])] /\ After(up[c]) \in Bytes
      <3>1. up[c] \in Bytes /\ SoundBuf(clients[p].rbuf)
        BY <1>2 DEF HostState, ProgramType, HostType
      <3>2. After(up[c]) \in Bytes
        BY <3>1, IntoFacts
      <3>3. QED
        BY <3>2 DEF Handles
    <2>2. down' \in [Conn -> Bytes]
      <3>1. CASE link[c] = "open"
        <4>1. down[c] \o SubSeq(clients[p].wbuf.data, 1, n) \in Bytes
          <5>1. SubSeq(clients[p].wbuf.data, 1, n) \in Bytes
            BY SendFacts DEF Handles, HostState, HostType
          <5>2. down[c] \in Bytes
            BY <1>2 DEF HostState, ProgramType
          <5>3. QED
            BY <5>1, <5>2, BytesJoin
        <4>2. down' = [down EXCEPT ![c] = down[c] \o SubSeq(clients[p].wbuf.data, 1, n)]
          BY <3>1 DEF Handles
        <4>3. QED
          BY <4>1, <4>2 DEF HostState, ProgramType
      <3>2. CASE link[c] # "open"
        BY <3>2 DEF Handles, HostState, ProgramType
      <3>3. QED
        BY <3>1, <3>2
    <2>3. link' \in [Conn -> {"open", "fin", "bounced", "dead", "rst"}]
      <3>1. link' = link \/ \E l \in {"fin", "bounced", "dead", "rst"} : link' = [link EXCEPT ![c] = l]
        BY DEF Handles
      <3>2. QED
        BY <3>1 DEF HostState, ProgramType
    <2>4. up' \in [Conn -> Bytes]
      BY <2>1 DEF HostState, ProgramType
    <2>5. QED
      BY <1>2, <2>2, <2>3, <2>4 DEF HostState, ProgramType
  <1>5. HostTables'
    <2>1. fpos' \in [Used' -> Pos]
      BY <1>1, <1>2 DEF Renewed, HostState, HostTables
    <2>2. \A f \in Used' : fpos'[f] \in Busy' /\ clients'[fpos'[f]].sock = f
      BY <1>1, <1>2 DEF Renewed, HostState, HostTables
    <2>3. \A q \in Busy' : /\ clients'[q].hid = q /\ clients'[q].sock \in Used'
                           /\ fpos'[clients'[q].sock] = q
      BY <1>1, <1>2 DEF Renewed, HostState, HostTables
    <2>4. (events' \cup edge') \ {Listen} \subseteq Used'
      BY <1>1, <1>2 DEF Renewed, HostState, HostTables
    <2>5. cur' \in Busy' /\ clients'[cur'].sock \notin events'
      BY <1>1, <1>2 DEF Renewed
    <2>6. QED
      BY <2>1, <2>2, <2>3, <2>4, <2>5 DEF HostTables
  <1>6. Places'
    BY <1>1, <1>2 DEF Renewed, HostState, Places
  <1>7. Links'
    <2>1. \A d \in Conn : /\ link'[d] = "open" <=> link[d] = "open"
      <3>1. CASE link[c] = "open"
        BY <3>1 DEF Handles
      <3>2. CASE link[c] # "open"
        <4>1. PICK l \in {"fin", "bounced", "dead", "rst"} : link' = [link EXCEPT ![c] = l]
          BY <3>2 DEF Handles
        <4>2. QED
          BY <3>2, <4>1 DEF HostState, ProgramType
      <3>3. QED
        BY <3>1, <3>2
    <2>2. SUFFICES ASSUME NEW q \in Busy, clients'[q].state = 0
                   PROVE  link[sock[clients[q].sock]] # "open" /\ sock[clients[q].sock] \in Conn
      BY <1>1, <1>2, <2>1 DEF Renewed, HostState, Links
    <2>3. sock[clients[q].sock] \in Conn
      BY DEF HostState, HostTables, Used, HostType
    <2>4. CASE q = p
      <3>1. x.state = 0
        BY <1>1, <2>2, <2>4 DEF Renewed
      <3>2. clients[p].state = 0 \/ link[c] # "open"
        BY <3>1 DEF Handles
      <3>3. QED
        BY <1>2, <2>3, <2>4, <3>2 DEF HostState, Links
    <2>5. CASE q # p
      <3>1. clients'[q] = clients[q]
        BY <1>1, <2>5 DEF Renewed, Busy
      <3>2. QED
        BY <2>2, <2>3, <3>1 DEF HostState, Links
    <2>6. QED
      BY <2>3, <2>4, <2>5
  <1>8. QED
    BY <1>1, <1>3, <1>4, <1>5, <1>6, <1>7 DEF HostState, Renewed

\* A packet of connection c, at position p, becomes an event.
Receives(p, c, x, body) ==
    /\ pc = "packs" /\ p = cur /\ p \in Busy /\ c \in Conn /\ sock[clients[p].sock] = c
    /\ HasPack(clients[p].rbuf) /\ body = Body(clients[p].rbuf)
    /\ Renews(p, x) /\ x.state = clients[p].state
    /\ x.rbuf = Rest(clients[p].rbuf) /\ x.wbuf = clients[p].wbuf
    /\ queue' = Append(queue, [event |-> "data", hid |-> p, of |-> c, data |-> body])
    /\ noted' = [noted EXCEPT ![c] = noted[c] + 1]
    /\ UNCHANGED <<pc, events, cur, edge, backlog, up, down, link, shut, peer, cw, cr, asked, got>>

LEMMA SockOf ==
    ASSUME HostState, NEW p \in Busy
    PROVE  sock[clients[p].sock] \in Conn /\ clients[p].sock \in Used /\ clients[p].hid = p
  BY DEF HostState, HostTables, HostType, Used

LEMMA doRecvIs ==
    ASSUME HostState, doRecv
    PROVE  \E p, c, x, body : Receives(p, c, x, body)
  <1> USE DEF serverVars, roundVars, kernelVars, peerVars
  <1>1. PICK p, c, ct, body : /\ p = cur /\ ct = clients[p] /\ c = sock[ct.sock]
                              /\ body = Body(ct.rbuf)
    OBVIOUS
  <1>2. /\ pc = "packs" /\ HasPack(ct.rbuf)
        /\ UNCHANGED <<count, fpos, fdCnt, sock>>
        /\ UNCHANGED <<pc, events, cur, edge, backlog, up, down, link, shut, peer, cw, cr, asked, got>>
    BY <1>1 DEF doRecv
  <1>3. p \in Busy
    BY <1>1, <1>2 DEF HostState, HostTables
  <1>4. /\ ct \in Client /\ SoundBuf(ct.rbuf) /\ SoundBuf(ct.wbuf) /\ c \in Conn /\ ct.hid = p
    BY <1>1, <1>3, ClientFacts, SockOf DEF HostState
  <1>5. PICK r : r = Rest(ct.rbuf) /\ SoundBuf(r)
    BY <1>2, <1>4, RestFacts
  <1>6. PICK x : x = [ct EXCEPT !.rbuf = r]
    OBVIOUS
  <1>7. /\ x \in Client /\ x.sock = ct.sock /\ x.hid = ct.hid /\ x.state = ct.state
        /\ x.rbuf = r /\ x.wbuf = ct.wbuf
    BY <1>4, <1>5, <1>6 DEF Client, SoundBuf
  <1>8. clients' = [clients EXCEPT ![p] = x]
    BY <1>1, <1>5, <1>6 DEF doRecv
  <1>9. /\ queue' = Append(queue, [event |-> "data", hid |-> p, of |-> c, data |-> body])
        /\ noted' = [noted EXCEPT ![c] = noted[c] + 1]
    BY <1>1, <1>4 DEF doRecv
  <1>10. Renews(p, x)
    BY <1>1, <1>2, <1>3, <1>4, <1>5, <1>7, <1>8 DEF Renews
  <1>11. QED
    BY <1>1, <1>2, <1>3, <1>4, <1>5, <1>7, <1>9, <1>10 DEF Receives

LEMMA doRecvState ==
    ASSUME HostState, NEW p, NEW c, NEW x, NEW body \in Bytes, Receives(p, c, x, body),
           noted[c] + 1 <= Len(asked[c])
    PROVE  HostState'
  <1>1. Renewed(p, x)
    BY RenewsTables DEF Receives
  <1>2. /\ pc = "packs" /\ p \in Pos /\ c \in Conn
        /\ queue' = Append(queue, [event |-> "data", hid |-> p, of |-> c, data |-> body])
        /\ noted' = [noted EXCEPT ![c] = noted[c] + 1] /\ UNCHANGED <<count, fpos, fdCnt, sock>>
        /\ UNCHANGED <<pc, events, cur, edge, backlog, up, down, link, shut, peer, cw, cr, asked, got>>
    BY DEF Receives, Busy, Renews
  <1>3. HostType'
    <2>1. queue' \in Seq(Note \cup DataEvent)
      <3>1. [event |-> "data", hid |-> p, of |-> c, data |-> body] \in DataEvent
        BY <1>2 DEF DataEvent
      <3>2. QED
        BY <1>2, <3>1, AppendFacts DEF HostState, HostType
    <2>2. \A q \in Busy' : SoundBuf(clients'[q].rbuf) /\ SoundBuf(clients'[q].wbuf)
      BY <1>1 DEF Renewed
    <2>3. clients' \in [Pos -> Client \cup {NULL}]
      BY <1>1 DEF Renewed
    <2>4. QED
      BY <1>2, <2>1, <2>2, <2>3 DEF HostState, HostType
  <1>4. ProgramType'
    <2>1. noted' \in [Conn -> Nat] /\ \A d \in Conn : noted'[d] <= Len(asked'[d])
      BY <1>2 DEF HostState, ProgramType
    <2>2. QED
      BY <1>2, <2>1 DEF HostState, ProgramType
  <1>5. HostTables'
    BY <1>1, <1>2 DEF Renewed, HostState, HostTables
  <1>6. Places'
    BY <1>1, <1>2 DEF Renewed, HostState, Places
  <1>7. Links'
    <2>1. SUFFICES ASSUME NEW q \in Busy, clients'[q].state = 0
                   PROVE  link[sock[clients[q].sock]] # "open"
      BY <1>1, <1>2 DEF Renewed, HostState, Links
    <2>2. clients[q].state = 0
      BY <1>1, <2>1 DEF Renewed, Receives, Busy
    <2>3. QED
      BY <2>2 DEF HostState, Links
  <1>8. QED
    BY <1>1, <1>3, <1>4, <1>5, <1>6, <1>7 DEF HostState, Renewed

\* The connection c at position p hung up: everything about it is given back.
Leaves(p, f, c) ==
    /\ pc = "packs" /\ p = cur /\ p \in Busy /\ f = clients[p].sock /\ c = sock[f]
    /\ clients[p].state = 0 /\ c \in Conn /\ f \in Used
    /\ pc' = "events" /\ cur' = NULL
    /\ clients' = [clients EXCEPT ![p] = NULL] /\ sock' = [sock EXCEPT ![f] = NULL]
    /\ fpos' = [g \in DOMAIN fpos \ {f} |-> fpos[g]]
    /\ count' = count - 1 /\ fdCnt' = fdCnt - 1
    /\ edge' = edge \ {f} /\ shut' = shut \cup {c}
    /\ queue' = Append(queue, [event |-> "leave", hid |-> p, of |-> c])
    /\ UNCHANGED <<events, backlog, up, down, link, peer, cw, cr, asked, noted, got>>

Stays ==
    /\ pc' = "events" /\ cur' = NULL /\ KeepsTables
    /\ UNCHANGED <<queue, events, edge, backlog, up, down, link, shut, peer, cw, cr, asked, noted, got>>

LEMMA ConnDoneIs ==
    ASSUME HostState, ConnDone
    PROVE  Stays \/ \E p, f, c : Leaves(p, f, c)
  <1> USE DEF serverVars, roundVars, kernelVars, peerVars
  <1>1. PICK p, f, c : p = cur /\ f = clients[p].sock /\ c = sock[f]
    OBVIOUS
  <1>2. /\ pc = "packs" /\ pc' = "events" /\ cur' = NULL
        /\ UNCHANGED <<events, backlog, up, down, link, peer, cw, cr, asked, noted, got>>
    BY DEF ConnDone
  <1>3. p \in Busy
    BY <1>1, <1>2 DEF HostState, HostTables
  <1>4. c \in Conn /\ f \in Used /\ clients[p].hid = p
    BY <1>1, <1>3, SockOf
  <1>5. CASE clients[p].state = 0
    <2>1. Leave(p)
      BY <1>1, <1>5 DEF ConnDone
    <2>2. /\ clients' = [clients EXCEPT ![p] = NULL] /\ sock' = [sock EXCEPT ![f] = NULL]
          /\ fpos' = [g \in DOMAIN fpos \ {f} |-> fpos[g]]
          /\ count' = count - 1 /\ fdCnt' = fdCnt - 1
          /\ edge' = edge \ {f} /\ shut' = shut \cup {c}
      BY <1>1, <2>1 DEF Leave, rmFd, CloseSock
    <2>3. queue' = Append(queue, [event |-> "leave", hid |-> p, of |-> c])
      BY <1>1, <1>4, <2>1 DEF Leave
    <2>4. Leaves(p, f, c)
      BY <1>1, <1>2, <1>3, <1>4, <1>5, <2>2, <2>3 DEF Leaves
    <2>5. QED
      BY <2>4
  <1>6. CASE clients[p].state # 0
    BY <1>1, <1>2, <1>6 DEF ConnDone, Stays, KeepsTables
  <1>7. QED
    BY <1>5, <1>6

LEMMA StaysState ==
    ASSUME HostState, Stays
    PROVE  HostState'
  <1>1. KeepsTables /\ Busy' = Busy /\ Used' = Used /\ HostCounts'
    BY SameTables DEF Stays, HostState
  <1>2. /\ pc' = "events" /\ cur' = NULL
        /\ UNCHANGED <<queue, events, edge, backlog, up, down, link, shut, peer, cw, cr, asked, noted, got>>
    BY DEF Stays
  <1>3. HostType'
    BY <1>1, <1>2 DEF HostState, HostType, KeepsTables
  <1>4. ProgramType'
    BY <1>2 DEF HostState, ProgramType
  <1>5. HostTables'
    BY <1>1, <1>2 DEF HostState, HostTables, KeepsTables
  <1>6. Places' /\ Links'
    BY <1>1, <1>2 DEF HostState, Places, Links, KeepsTables
  <1>7. QED
    BY <1>1, <1>3, <1>4, <1>5, <1>6 DEF HostState

\* What the tables are when a connection is gone.
Vacated(p, f, c) ==
    /\ p \in Busy /\ f \in Used /\ clients[p].sock = f /\ sock[f] = c
    /\ Busy' = Busy \ {p} /\ Used' = Used \ {f}
    /\ clients'[p] = NULL /\ \A q \in Busy' : clients'[q] = clients[q] /\ clients[q].sock \in Used'
    /\ sock'[f] = NULL /\ \A g \in Used' : sock'[g] = sock[g] /\ sock[g] # c
    /\ DOMAIN fpos' = Used' /\ \A g \in Used' : fpos'[g] = fpos[g] /\ fpos[g] # p

LEMMA LeavesTables ==
    ASSUME HostState, NEW p, NEW f, NEW c, Leaves(p, f, c)
    PROVE  Vacated(p, f, c)
  <1>1. /\ p \in Busy /\ f = clients[p].sock /\ c = sock[f] /\ f \in Used
        /\ clients' = [clients EXCEPT ![p] = NULL] /\ sock' = [sock EXCEPT ![f] = NULL]
        /\ fpos' = [g \in DOMAIN fpos \ {f} |-> fpos[g]]
    BY DEF Leaves
  <1>2. /\ clients \in [Pos -> Client \cup {NULL}] /\ p \in Pos
        /\ sock \in [Fd -> Conn \cup {NULL}] /\ DOMAIN fpos = Used
    BY <1>1 DEF HostState, HostType, HostTables, Busy
  <1>3. Busy' = Busy \ {p}
    BY <1>1, <1>2 DEF Busy
  <1>4. Used' = Used \ {f}
    BY <1>1, <1>2 DEF Used
  <1>5. \A q \in Busy' : clients'[q] = clients[q] /\ clients[q].sock \in Used'
    <2>1. SUFFICES ASSUME NEW q \in Busy, q # p
                   PROVE  clients'[q] = clients[q] /\ clients[q].sock \in Used \ {f}
      BY <1>3, <1>4
    <2>2. clients'[q] = clients[q]
      BY <1>1, <1>2, <2>1 DEF Busy
    <2>3. clients[q].sock \in Used /\ fpos[clients[q].sock] = q /\ fpos[f] = p
      BY <1>1 DEF HostState, HostTables
    <2>4. QED
      BY <2>1, <2>2, <2>3
  <1>6. \A g \in Used' : sock'[g] = sock[g] /\ sock[g] # c
    BY <1>1, <1>2, <1>4 DEF HostState, Places, Used
  <1>7. \A g \in Used' : fpos'[g] = fpos[g] /\ fpos[g] # p
    BY <1>1, <1>2, <1>4 DEF HostState, HostTables
  <1>8. clients'[p] = NULL /\ sock'[f] = NULL /\ DOMAIN fpos' = Used'
    BY <1>1, <1>2, <1>4 DEF Used
  <1>9. QED
    BY <1>1, <1>3, <1>4, <1>5, <1>6, <1>7, <1>8 DEF Vacated

LEMMA LeavesState ==
    ASSUME HostState, NEW p, NEW f, NEW c, Leaves(p, f, c)
    PROVE  HostState'
  <1>1. Vacated(p, f, c)
    BY LeavesTables
  <1>2. /\ p \in Busy /\ Busy' = Busy \ {p} /\ Used' = Used \ {f} /\ f \in Used /\ sock[f] = c
        /\ clients[p].sock = f
        /\ \A q \in Busy' : clients'[q] = clients[q] /\ clients[q].sock \in Used'
        /\ \A g \in Used' : sock'[g] = sock[g] /\ sock[g] # c
    BY <1>1 DEF Vacated
  <1>3. /\ pc = "packs" /\ p = cur /\ pc' = "events" /\ cur' = NULL /\ c \in Conn
        /\ clients[p].state = 0
        /\ clients' = [clients EXCEPT ![p] = NULL] /\ sock' = [sock EXCEPT ![f] = NULL]
        /\ fpos' = [g \in DOMAIN fpos \ {f} |-> fpos[g]]
        /\ count' = count - 1 /\ fdCnt' = fdCnt - 1
        /\ edge' = edge \ {f} /\ shut' = shut \cup {c}
        /\ queue' = Append(queue, [event |-> "leave", hid |-> p, of |-> c])
        /\ UNCHANGED <<events, backlog, up, down, link, peer, cw, cr, asked, noted, got>>
    BY DEF Leaves
  <1>4. HostCounts'
    <2>1. PICK k \in Nat : k = Cardinality(Busy) /\ k = Cardinality(Used) /\ k = count
      BY DEF HostState, HostCounts, HostType
    <2>2. Cardinality(Busy \ {p}) = k - 1 /\ Cardinality(Used \ {f}) = k - 1
      <3>1. p \in Busy /\ f \in Used
        BY <1>2
      <3>2. IsFiniteSet(Busy) /\ IsFiniteSet(Used)
        BY PlacesFinite
      <3>3. Cardinality(Busy \ {p}) = k - 1
        BY <2>1, <3>1, <3>2, FS_RemoveElement
      <3>4. Cardinality(Used \ {f}) = k - 1
        BY <2>1, <3>1, <3>2, FS_RemoveElement
      <3>5. QED
        BY <3>3, <3>4
    <2>3. count' = k - 1 /\ fdCnt' = k /\ (k - 1) + 1 = k
      BY <1>3, <2>1 DEF HostState, HostCounts
    <2>4. QED
      BY <1>2, <2>2, <2>3 DEF HostCounts
  <1>5. HostType'
    <2>1. queue' \in Seq(Note \cup DataEvent)
      <3>1. [event |-> "leave", hid |-> p, of |-> c] \in Note
        BY <1>2, <1>3 DEF Note, Busy
      <3>2. QED
        BY <1>3, <3>1, AppendFacts DEF HostState, HostType
    <2>2. /\ clients' \in [Pos -> Client \cup {NULL}]
          /\ sock' \in [Fd -> Conn \cup {NULL}]
      BY <1>2, <1>3 DEF HostState, HostType
    <2>3. \A q \in Busy' : SoundBuf(clients'[q].rbuf) /\ SoundBuf(clients'[q].wbuf)
      BY <1>2 DEF HostState, HostType
    <2>4. count' \in Nat /\ fdCnt' \in Nat
      <3>1. PICK k \in Nat : k = count /\ fdCnt = k + 1 /\ k = Cardinality(Busy)
        BY DEF HostState, HostCounts, HostType
      <3>2. k # 0
        BY <1>2, <3>1, PlacesFinite, FS_EmptySet
      <3>3. QED
        BY <1>3, <3>1, <3>2
    <2>5. shut' \subseteq Conn
      BY <1>3 DEF HostState, HostType
    <2>6. events' \subseteq Fd \cup {Listen} /\ edge' \subseteq Fd \cup {Listen}
          /\ backlog' \in Seq(Conn)
      BY <1>3 DEF HostState, HostType
    <2>7. pc' \in {"wait", "events", "packs", "killed"} /\ cur' \in Pos \cup {NULL}
      BY <1>3
    <2>8. QED
      BY <2>1, <2>2, <2>3, <2>4, <2>5, <2>6, <2>7 DEF HostType
  <1>6. ProgramType'
    BY <1>3 DEF HostState, ProgramType
  <1>7. HostTables'
    <2>1. DOMAIN fpos' = Used' /\ \A g \in Used' : fpos'[g] = fpos[g] /\ fpos[g] # p
      BY <1>1 DEF Vacated
    <2>2. fpos' \in [Used' -> Pos]
      <3>1. \A g \in Used' : fpos'[g] \in Pos
        BY <1>2, <2>1 DEF HostState, HostTables
      <3>2. fpos' = [g \in DOMAIN fpos' |-> fpos'[g]]
        BY <1>3
      <3>3. QED
        BY <2>1, <3>1, <3>2
    <2>3. \A g \in Used' : fpos'[g] \in Busy' /\ clients'[fpos'[g]].sock = g
      BY <1>2, <2>1 DEF HostState, HostTables
    <2>4. \A q \in Busy' : /\ clients'[q].hid = q /\ clients'[q].sock \in Used'
                           /\ fpos'[clients'[q].sock] = q
      BY <1>2, <2>1 DEF HostState, HostTables
    <2>5. (events' \cup edge') \ {Listen} \subseteq Used'
      BY <1>2, <1>3 DEF HostState, HostTables
    <2>6. QED
      BY <1>3, <2>2, <2>3, <2>4, <2>5 DEF HostTables
  <1>8. Places'
    <2>1. \A g, h \in Used' : sock'[g] = sock'[h] => g = h
      BY <1>2 DEF HostState, Places
    <2>2. \A i \in DOMAIN backlog' : backlog'[i] \notin shut' /\ \A g \in Used' : sock'[g] # backlog'[i]
      BY <1>2, <1>3 DEF HostState, Places
    <2>3. \A g \in Used' : sock'[g] \notin shut'
      BY <1>2, <1>3 DEF HostState, Places
    <2>4. \A d \in Conn : peer'[d] = "none" =>
          /\ d \notin shut' /\ \A g \in Used' : sock'[g] # d
          /\ \A i \in DOMAIN backlog' : backlog'[i] # d
      BY <1>2, <1>3 DEF HostState, Places
    <2>5. \A i, j \in DOMAIN backlog' : backlog'[i] = backlog'[j] => i = j
      BY <1>3 DEF HostState, Places
    <2>6. QED
      BY <2>1, <2>2, <2>3, <2>4, <2>5 DEF Places
  <1>9. Links'
    <2>1. \A q \in Busy' : /\ q \in Busy /\ clients'[q] = clients[q]
                           /\ sock'[clients[q].sock] = sock[clients[q].sock]
      BY <1>2
    <2>2. QED
      BY <1>3, <2>1 DEF HostState, Links
  <1>10. QED
    BY <1>4, <1>5, <1>6, <1>7, <1>8, <1>9 DEF HostState

\* One event is taken off the queue; a packet is answered to whoever is at its
\* host id now.
Serves(p, x, body) ==
    /\ Renews(p, x) /\ body \in Bytes /\ x.state = clients[p].state
    /\ x.rbuf = clients[p].rbuf /\ x.wbuf = appendPack(clients[p].wbuf, body)
    /\ queue # <<>> /\ Head(queue).event = "data" /\ body = Head(queue).data

Handed ==
    /\ pc = "events" /\ pc' = "wait"
    /\ UNCHANGED <<count, fpos, fdCnt, sock>>
    /\ UNCHANGED <<events, cur, edge, backlog, up, down, link, shut, peer, cw, cr, asked, noted, got>>
    /\ \/ queue = <<>> /\ queue' = queue /\ clients' = clients
       \/ /\ queue # <<>> /\ queue' = Tail(queue)
          /\ clients' = clients \/ \E p, x, body : Serves(p, x, body)

LEMMA doReadIs ==
    ASSUME HostState, doRead
    PROVE  Handed
  <1> USE DEF serverVars, roundVars, kernelVars, peerVars
  <1>1. /\ pc = "events" /\ pc' = "wait"
        /\ UNCHANGED <<count, fpos, fdCnt, sock>>
        /\ UNCHANGED <<events, cur, edge, backlog, up, down, link, shut, peer, cw, cr, asked, noted, got>>
    BY DEF doRead
  <1>2. CASE queue = <<>>
    BY <1>1, <1>2 DEF doRead, Handed
  <1>3. CASE queue # <<>>
    <2>1. PICK e \in Note \cup DataEvent : e = Head(queue)
      BY <1>3 DEF HostState, HostType
    <2>2. queue' = Tail(queue) /\ on_event(e)
      BY <1>3, <2>1 DEF doRead
    <2>3. CASE clients' = clients
      BY <1>1, <1>3, <2>2, <2>3 DEF Handed
    <2>4. CASE clients' # clients
      <3>1. e.event = "data" /\ doSend(e.hid, e.data)
        BY <2>2, <2>4 DEF on_event
      <3>2. e \in DataEvent
        BY <2>1, <3>1 DEF Note
      <3>3. PICK p, body, ct : p = e.hid /\ body = e.data /\ ct = clients[p]
        OBVIOUS
      <3>4. p \in Pos /\ body \in Bytes
        BY <3>2, <3>3 DEF DataEvent
      <3>5. /\ ct # NULL
            /\ clients' = [clients EXCEPT ![p].wbuf = appendPack(@, body)]
        BY <2>4, <3>1, <3>3 DEF doSend
      <3>6. p \in Busy
        BY <3>3, <3>4, <3>5 DEF Busy
      <3>7. ct \in Client /\ SoundBuf(ct.rbuf) /\ SoundBuf(ct.wbuf)
        BY <3>3, <3>6, ClientFacts DEF HostState
      <3>8. PICK w : w = appendPack(ct.wbuf, body) /\ SoundBuf(w)
        BY <3>4, <3>7, PackFacts
      <3>9. PICK x : x = [ct EXCEPT !.wbuf = w]
        OBVIOUS
      <3>10. /\ x \in Client /\ x.sock = ct.sock /\ x.hid = ct.hid /\ x.state = ct.state
             /\ x.rbuf = ct.rbuf /\ x.wbuf = w
        BY <3>7, <3>8, <3>9 DEF Client, SoundBuf
      <3>11. clients' = [clients EXCEPT ![p] = x]
        BY <3>3, <3>5, <3>8, <3>9
      <3>12. Serves(p, x, body)
        BY <1>1, <1>3, <2>1, <3>1, <3>3, <3>4, <3>6, <3>7, <3>8, <3>10, <3>11 DEF Serves, Renews
      <3>13. QED
        BY <1>1, <1>3, <2>2, <3>12 DEF Handed
    <2>5. QED
      BY <2>3, <2>4
  <1>4. QED
    BY <1>2, <1>3

LEMMA HandedState ==
    ASSUME HostState, Handed
    PROVE  HostState'
  <1>1. /\ pc = "events" /\ pc' = "wait"
        /\ UNCHANGED <<count, fpos, fdCnt, sock>>
        /\ UNCHANGED <<events, cur, edge, backlog, up, down, link, shut, peer, cw, cr, asked, noted, got>>
    BY DEF Handed
  <1>2. queue' \in Seq(Note \cup DataEvent)
    BY RestOfSeq DEF Handed, HostState, HostType
  <1>3. ProgramType'
    BY <1>1 DEF HostState, ProgramType
  <1>4. CASE clients' = clients
    <2>1. KeepsTables /\ Busy' = Busy /\ Used' = Used /\ HostCounts'
      BY <1>1, <1>4, SameTables DEF HostState, KeepsTables
    <2>2. HostType'
      BY <1>1, <1>2, <2>1 DEF HostState, HostType, KeepsTables
    <2>3. HostTables'
      BY <1>1, <2>1 DEF HostState, HostTables, KeepsTables
    <2>4. Places' /\ Links'
      BY <1>1, <2>1 DEF HostState, Places, Links, KeepsTables
    <2>5. QED
      BY <1>3, <2>1, <2>2, <2>3, <2>4 DEF HostState
  <1>5. ASSUME NEW p, NEW x, NEW body, Serves(p, x, body)
        PROVE  HostState'
    <2>1. Renewed(p, x) /\ x.state = clients[p].state
      BY <1>5, RenewsTables DEF Serves
    <2>2. HostType'
      <3>1. \A q \in Busy' : SoundBuf(clients'[q].rbuf) /\ SoundBuf(clients'[q].wbuf)
        BY <2>1 DEF Renewed
      <3>2. clients' \in [Pos -> Client \cup {NULL}]
        BY <2>1 DEF Renewed
      <3>3. QED
        BY <1>1, <1>2, <3>1, <3>2 DEF HostState, HostType
    <2>3. HostTables'
      BY <1>1, <2>1 DEF Renewed, HostState, HostTables
    <2>4. Places'
      BY <1>1, <2>1 DEF Renewed, HostState, Places
    <2>5. Links'
      <3>1. SUFFICES ASSUME NEW q \in Busy, clients'[q].state = 0
                     PROVE  link[sock[clients[q].sock]] # "open"
        BY <1>1, <2>1 DEF Renewed, HostState, Links
      <3>2. clients[q].state = 0
        BY <2>1, <3>1 DEF Renewed, Busy
      <3>3. QED
        BY <3>2 DEF HostState, Links
    <2>6. QED
      BY <1>3, <2>1, <2>2, <2>3, <2>4, <2>5 DEF HostState, Renewed
  <1>6. QED
    BY <1>4, <1>5 DEF Handed

------------------------------------------------------------------------------
\* What is at the server's end of a connection.
Served(c) == \E f \in Used : sock[f] = c

\* The connection behind a position, and what the server has of it.
Views ==
    /\ \A p \in Busy :
          /\ FdOf(sock[clients[p].sock]) = {clients[p].sock}
          /\ Unread(sock[clients[p].sock]) = clients[p].rbuf.data
          /\ ToSend(sock[clients[p].sock]) = clients[p].wbuf.data
    /\ \A c \in Conn : ~Served(c) => /\ FdOf(c) = {}
                                     /\ Unread(c) = <<>> /\ ToSend(c) = <<>>
    /\ \A c \in Conn : Served(c) => \E p \in Busy : sock[clients[p].sock] = c
    /\ \A c \in Conn : Unread(c) \in Bytes /\ ToSend(c) \in Bytes

LEMMA LeastOne == ASSUME NEW n \in Nat PROVE Least({n}) = n
  BY DEF Least

LEMMA ViewsHold ==
    ASSUME HostState
    PROVE  Views
  <1>1. ASSUME NEW p \in Busy
        PROVE  /\ FdOf(sock[clients[p].sock]) = {clients[p].sock}
               /\ Unread(sock[clients[p].sock]) = clients[p].rbuf.data
               /\ ToSend(sock[clients[p].sock]) = clients[p].wbuf.data
    <2>1. PICK f, c : f = clients[p].sock /\ c = sock[f]
      OBVIOUS
    <2>2. c \in Conn /\ f \in Used /\ f \in Nat /\ fpos[f] = p
      BY <1>1, <2>1, SockOf, ClientFacts DEF HostState, HostTables
    <2>3. FdOf(c) = {f}
      BY <2>1, <2>2, PlacesFinite DEF FdOf, HostState, Places, Used
    <2>4. Least({f}) = f
      BY <2>2, LeastOne
    <2>5. Unread(c) = clients[p].rbuf.data /\ ToSend(c) = clients[p].wbuf.data
      BY <2>2, <2>3, <2>4 DEF Unread, ToSend
    <2>6. QED
      BY <2>1, <2>3, <2>5
  <1>2. ASSUME NEW c \in Conn, ~Served(c)
        PROVE  FdOf(c) = {} /\ Unread(c) = <<>> /\ ToSend(c) = <<>>
    <2>1. FdOf(c) = {}
      BY <1>2, FdOfFacts DEF Served, FdOf
    <2>2. QED
      BY <2>1 DEF Unread, ToSend
  <1>3. ASSUME NEW c \in Conn, Served(c)
        PROVE  \E p \in Busy : sock[clients[p].sock] = c
    BY <1>3 DEF Served, HostState, HostTables
  <1>4. ASSUME NEW c \in Conn
        PROVE  Unread(c) \in Bytes /\ ToSend(c) \in Bytes
    <2>1. CASE Served(c)
      <3>1. PICK p \in Busy : sock[clients[p].sock] = c
        BY <1>3, <2>1
      <3>2. Unread(c) = clients[p].rbuf.data /\ ToSend(c) = clients[p].wbuf.data
        BY <1>1, <3>1
      <3>3. QED
        BY <3>2, ClientFacts DEF HostState
    <2>2. CASE ~Served(c)
      <3>1. Unread(c) = <<>> /\ ToSend(c) = <<>>
        BY <1>2, <2>2
      <3>2. <<>> \in Bytes
        BY DEF Bytes
      <3>3. QED
        BY <3>1, <3>2
    <2>3. QED
      BY <2>1, <2>2
  <1>5. QED
    BY <1>1, <1>2, <1>3, <1>4 DEF Views

LEMMA ViewsStay ==
    ASSUME HostState'
    PROVE  Views'
  BY ViewsHold, PTL

\* The server's end of connection c does not change.
EndStays(c) == Unread(c)' = Unread(c) /\ ToSend(c)' = ToSend(c)

LEMMA TablesKeepEnds ==
    ASSUME KeepsTables, NEW c \in Conn
    PROVE  EndStays(c)
  BY DEF KeepsTables, EndStays, Unread, ToSend, FdOf, Least

LEMMA RenewedEnds ==
    ASSUME Views, Views', NEW p \in Busy, NEW x, Renewed(p, x), sock' = sock,
           NEW o, o = sock[clients[p].sock]
    PROVE  /\ \A c \in Conn : c # o => EndStays(c)
           /\ Unread(o)' = x.rbuf.data
           /\ ToSend(o)' = x.wbuf.data
  <1>1. /\ Busy' = Busy /\ Used' = Used /\ clients'[p] = x
        /\ \A q \in Busy : clients'[q].sock = clients[q].sock /\ (q # p => clients'[q] = clients[q])
    BY DEF Renewed, Busy
  <1>2. Unread(o)' = x.rbuf.data /\ ToSend(o)' = x.wbuf.data
    BY <1>1 DEF Views
  <1>3. ASSUME NEW c \in Conn, c # o
        PROVE  EndStays(c)
    <2>1. CASE Served(c)
      <3>1. PICK q \in Busy : sock[clients[q].sock] = c
        BY <2>1 DEF Views
      <3>2. /\ Unread(c) = clients[q].rbuf.data /\ ToSend(c) = clients[q].wbuf.data
        BY <3>1 DEF Views
      <3>3. q # p /\ clients'[q] = clients[q]
        BY <1>1, <1>3, <3>1
      <3>4. /\ Unread(c)' = clients[q].rbuf.data /\ ToSend(c)' = clients[q].wbuf.data
        BY <1>1, <3>1, <3>3 DEF Views
      <3>5. QED
        BY <3>2, <3>4 DEF EndStays
    <2>2. CASE ~Served(c)
      <3>1. ~Served(c)'
        BY <1>1, <2>2 DEF Served
      <3>2. QED
        BY <2>2, <3>1 DEF Views, EndStays
    <2>3. QED
      BY <2>1, <2>2
  <1>4. QED
    BY <1>2, <1>3

LEMMA PlacedEnds ==
    ASSUME Views, Views', NEW pos, NEW f, NEW d \in Conn, Placed(pos, f, d),
           ~Served(d), NEW c \in Conn
    PROVE  EndStays(c)
  <1>1. PICK x : x = NewClient(f, pos) /\ x.sock = f /\ x.rbuf.data = <<>> /\ x.wbuf.data = <<>>
    BY NewClientIs DEF Placed
  <1>2. /\ Busy' = Busy \cup {pos} /\ Used' = Used \cup {f} /\ clients'[pos] = x
        /\ \A p \in Busy : clients'[p] = clients[p] /\ clients[p].sock # f
        /\ sock'[f] = d /\ \A g \in Used : sock'[g] = sock[g]
    BY <1>1 DEF Placed
  <1>3. CASE c = d
    <2>1. Unread(c) = <<>> /\ ToSend(c) = <<>>
      BY <1>3 DEF Views
    <2>2. Unread(c)' = <<>> /\ ToSend(c)' = <<>>
      BY <1>1, <1>2, <1>3 DEF Views
    <2>3. QED
      BY <2>1, <2>2 DEF EndStays
  <1>4. CASE c # d /\ Served(c)
    <2>1. PICK q \in Busy : sock[clients[q].sock] = c
      BY <1>4 DEF Views
    <2>2. /\ Unread(c) = clients[q].rbuf.data /\ ToSend(c) = clients[q].wbuf.data
      BY <2>1 DEF Views
    <2>3. clients[q].sock \in Used /\ q \in Busy' /\ clients'[q] = clients[q]
      <3>1. FdOf(c) = {clients[q].sock}
        BY <2>1 DEF Views
      <3>2. QED
        BY <1>2, <3>1, FdOfFacts
    <2>4. sock'[clients'[q].sock] = c
      BY <1>2, <2>1, <2>3
    <2>5. /\ Unread(c)' = clients[q].rbuf.data /\ ToSend(c)' = clients[q].wbuf.data
      BY <2>3, <2>4 DEF Views
    <2>6. QED
      BY <2>2, <2>5 DEF EndStays
  <1>5. CASE c # d /\ ~Served(c)
    <2>1. ~Served(c)'
      BY <1>2, <1>5 DEF Served
    <2>2. QED
      BY <1>5, <2>1 DEF Views, EndStays
  <1>6. QED
    BY <1>3, <1>4, <1>5

LEMMA VacatedEnds ==
    ASSUME Views, Views', NEW p, NEW f, NEW d, Vacated(p, f, d), NEW c \in Conn, c # d
    PROVE  EndStays(c)
  <1>1. /\ Busy' = Busy \ {p} /\ Used' = Used \ {f} /\ clients[p].sock = f /\ sock[f] = d
        /\ \A q \in Busy' : clients'[q] = clients[q] /\ clients[q].sock \in Used'
        /\ \A g \in Used' : sock'[g] = sock[g]
    BY DEF Vacated
  <1>2. CASE Served(c)
    <2>1. PICK q \in Busy : sock[clients[q].sock] = c
      BY <1>2 DEF Views
    <2>2. /\ Unread(c) = clients[q].rbuf.data /\ ToSend(c) = clients[q].wbuf.data
      BY <2>1 DEF Views
    <2>3. q \in Busy' /\ clients'[q] = clients[q] /\ sock'[clients'[q].sock] = c
      BY <1>1, <2>1
    <2>4. /\ Unread(c)' = clients[q].rbuf.data /\ ToSend(c)' = clients[q].wbuf.data
      BY <2>3 DEF Views
    <2>5. QED
      BY <2>2, <2>4 DEF EndStays
  <1>3. CASE ~Served(c)
    <2>1. ~Served(c)'
      BY <1>1, <1>3 DEF Served
    <2>2. QED
      BY <1>3, <2>1 DEF Views, EndStays
  <1>4. QED
    BY <1>2, <1>3

------------------------------------------------------------------------------
\* Every action keeps Requests.  First what it takes for one program.
WayStays(c) ==
    /\ EndStays(c) /\ up'[c] = up[c] /\ cw'[c].data = cw[c].data
    /\ asked'[c] = asked[c] /\ noted'[c] = noted[c]
    /\ peer'[c] # "exited" => peer[c] # "exited"

LEMMA SameWay ==
    ASSUME NEW c \in Conn, WayStays(c), OnItsWay(c)
    PROVE  OnItsWay(c)'
  BY DEF OnItsWay, WayStays, EndStays, InTransit, Outstanding

\* The bytes of the two sides, whose operators are rigid.
LEMMA WayIs ==
    ASSUME HostState, Views, NEW c \in Conn
    PROVE  /\ Unread(c) \in Bytes /\ up[c] \in Bytes
           /\ SoundBuf(cw[c]) /\ cw[c].data \in Bytes
           /\ asked[c] \in Seq(Bodies) /\ noted[c] \in Nat /\ noted[c] <= Len(asked[c])
  BY SizeIs DEF Views, HostState, ProgramType

\* A packet is put in the buffer, as the last one to come.
LEMMA OutstandingOneMore ==
    ASSUME NEW ps \in Seq(Bodies), NEW k \in Nat, k <= Len(ps), NEW body \in Bodies
    PROVE  /\ SubSeq(Append(ps, body), k + 1, Len(Append(ps, body)))
                 = Append(SubSeq(ps, k + 1, Len(ps)), body)
           /\ SubSeq(ps, k + 1, Len(ps)) \in Seq(Bodies)
  <1>1. PICK n \in Nat, a \in Nat, m \in Nat :
           /\ n = Len(ps) /\ a = k + 1 /\ n + 1 - a = m /\ m = n - k /\ n - a + 1 = m
           /\ 1 <= a /\ a <= n + 1 /\ (a <= n <=> m # 0) /\ n + 1 - a + 1 = m + 1
    <2>1. PICK l \in Nat : l = Len(ps) /\ k <= l
      OBVIOUS
    <2>2. l - k \in Nat /\ k + 1 \in Nat /\ l + 1 - (k + 1) = l - k /\ l - (k + 1) + 1 = l - k
          /\ l + 1 - (k + 1) + 1 = (l - k) + 1
      BY <2>1
    <2>3. 1 <= k + 1 /\ k + 1 <= l + 1 /\ (k + 1 <= l <=> l - k # 0)
      BY <2>1
    <2>4. QED
      BY <2>1, <2>2, <2>3
  <1>2. PICK q \in Seq(Bodies) :
           /\ q = Append(ps, body) /\ Len(q) = n + 1 /\ q[n + 1] = body
           /\ \A i \in 1 .. n : q[i] = ps[i] /\ ps[i] \in Bodies
    <2>1. /\ Append(ps, body) \in Seq(Bodies) /\ Len(Append(ps, body)) = n + 1
          /\ \A i \in 1 .. n : Append(ps, body)[i] = ps[i] /\ ps[i] \in Bodies
          /\ Append(ps, body)[n + 1] = body
      BY <1>1
    <2>2. QED
      BY <2>1
  <1>3. PICK s \in Seq(Bodies) :
           s = SubSeq(ps, a, n) /\ Len(s) = m /\ \A i \in 1 .. m : s[i] = ps[a + i - 1]
    <2>1. \A i \in a .. n : ps[i] \in Bodies
      BY <1>1, <1>2
    <2>2. /\ SubSeq(ps, a, n) \in Seq(Bodies)
          /\ Len(SubSeq(ps, a, n)) = IF a <= n THEN n - a + 1 ELSE 0
          /\ \A i \in 1 .. n - a + 1 : SubSeq(ps, a, n)[i] = ps[a + i - 1]
      BY <2>1, SubSeqProperties
    <2>3. QED
      BY <1>1, <2>2
  <1>4. PICK t \in Seq(Bodies) :
           t = SubSeq(q, a, n + 1) /\ Len(t) = m + 1 /\ \A i \in 1 .. m + 1 : t[i] = q[a + i - 1]
    <2>1. \A i \in a .. n + 1 : q[i] \in Bodies
      BY <1>1, <1>2
    <2>2. /\ SubSeq(q, a, n + 1) \in Seq(Bodies)
          /\ Len(SubSeq(q, a, n + 1)) = IF a <= n + 1 THEN n + 1 - a + 1 ELSE 0
          /\ \A i \in 1 .. n + 1 - a + 1 : SubSeq(q, a, n + 1)[i] = q[a + i - 1]
      BY <2>1, SubSeqProperties
    <2>3. QED
      BY <1>1, <2>2
  <1>5. PICK v \in Seq(Bodies) : /\ v = Append(s, body) /\ Len(v) = m + 1 /\ v[m + 1] = body
                                 /\ \A i \in 1 .. m : v[i] = s[i]
    <2>1. /\ Append(s, body) \in Seq(Bodies) /\ Len(Append(s, body)) = m + 1
          /\ Append(s, body)[m + 1] = body /\ \A i \in 1 .. m : Append(s, body)[i] = s[i]
      BY <1>3
    <2>2. QED
      BY <2>1
  <1>6. \A i \in 1 .. m + 1 : t[i] = v[i]
    <2>1. SUFFICES ASSUME NEW i \in 1 .. m + 1 PROVE t[i] = v[i]
      OBVIOUS
    <2>2. CASE i = m + 1
      <3>1. a + i - 1 = n + 1
        BY <1>1, <2>2
      <3>2. QED
        BY <1>2, <1>4, <1>5, <2>2, <3>1
    <2>3. CASE i # m + 1
      <3>1. i \in 1 .. m /\ a + i - 1 \in 1 .. n
        <4>1. i \in Nat /\ 1 <= i /\ i <= m
          BY <2>3
        <4>2. n + 1 - a = m /\ 1 <= a
          BY <1>1
        <4>3. 1 <= a + i - 1 /\ a + i - 1 <= n
          BY <4>1, <4>2
        <4>4. QED
          BY <4>1, <4>3
      <3>2. QED
        BY <1>2, <1>3, <1>4, <1>5, <3>1
    <2>4. QED
      BY <2>2, <2>3
  <1>7. t = v
    BY <1>4, <1>5, <1>6, SeqEqual
  <1>8. QED
    BY <1>1, <1>2, <1>3, <1>4, <1>5, <1>7

LEMMA ScriptSendsRequests ==
    ASSUME HostState, Views, Requests, NEW c \in Conn, NEW body, Asks(c, body)
    PROVE  Requests'
  <1>1. /\ KeepsTables /\ shut' = shut /\ up' = up /\ noted' = noted /\ peer' = peer
        /\ cw' = [cw EXCEPT ![c] = appendPack(cw[c], body)] /\ body \in Bodies
        /\ asked' = IF Fits(cw[c], body) THEN [asked EXCEPT ![c] = Append(@, body)] ELSE asked
        /\ peer[c] # "exited"
    BY DEF Asks
  <1>2. SUFFICES ASSUME NEW d \in Conn, d \notin shut, OnItsWay(d)
                 PROVE  OnItsWay(d)'
    BY <1>1 DEF Requests
  <1>3. EndStays(d)
    BY <1>1, TablesKeepEnds
  <1>4. cw \in [Conn -> Buffers] /\ asked \in [Conn -> Seq(Bodies)]
    BY DEF HostState, ProgramType
  <1>5. CASE d # c
    BY <1>1, <1>2, <1>3, <1>4, <1>5, SameWay DEF WayStays
  <1>6. CASE d = c /\ ~Fits(cw[c], body)
    <2>1. cw'[c].data = cw[c].data
      BY <1>1, <1>4, <1>6, WayIs, PackFacts, BodyBytes
    <2>2. QED
      BY <1>1, <1>2, <1>3, <1>6, <2>1, SameWay DEF WayStays
  <1>7. CASE d = c /\ Fits(cw[c], body)
    <2>1. PICK r, u, w, ps, k : /\ r = Unread(c) /\ u = up[c] /\ w = cw[c].data /\ ps = asked[c]
                                /\ k = noted[c]
      OBVIOUS
    <2>2. /\ r \in Bytes /\ u \in Bytes /\ w \in Bytes /\ ps \in Seq(Bodies)
          /\ k \in Nat /\ k <= Len(ps)
      BY <2>1, WayIs
    <2>3. PICK fr \in Bytes : fr = Frame(body)
      BY <1>1, BodyBytes, FrameFacts
    <2>4. (r \o u) \o w = Frames(SubSeq(ps, k + 1, Len(ps)))
      <3>1. PICK rest \in Bytes : InTransit(c) \o rest = Outstanding(c) /\ rest = <<>>
        BY <1>1, <1>2, <1>7 DEF OnItsWay
      <3>2. (r \o u) \o w \in Bytes
        BY <2>2, BytesJoin
      <3>3. QED
        BY <2>1, <3>1, <3>2, BytesJoin DEF InTransit, Outstanding
    <2>5. cw'[c].data = w \o fr
      BY <1>1, <1>4, <1>7, <2>1, <2>3, WayIs, PackFacts, BodyBytes
    <2>6. asked'[c] = Append(ps, body)
      BY <1>1, <1>4, <1>7, <2>1
    <2>7. Outstanding(c)' = Frames(SubSeq(ps, k + 1, Len(ps))) \o fr
      <3>1. Outstanding(c)' = Frames(SubSeq(Append(ps, body), k + 1, Len(Append(ps, body))))
        BY <1>1, <2>1, <2>6 DEF Outstanding
      <3>2. QED
        BY <1>1, <2>2, <2>3, <3>1, OutstandingOneMore, FramesEnd
    <2>8. InTransit(c)' = (r \o u) \o (w \o fr)
      BY <1>1, <1>3, <1>7, <2>1, <2>5 DEF InTransit, EndStays
    <2>9. (r \o u) \o (w \o fr) = ((r \o u) \o w) \o fr /\ (r \o u) \o (w \o fr) \in Bytes
      <3>1. PICK ru \in Bytes : ru = r \o u
        BY <2>2, BytesJoin
      <3>2. PICK wf \in Bytes : wf = w \o fr
        BY <2>2, BytesJoin
      <3>3. ru \o wf = (ru \o w) \o fr /\ ru \o wf \in Bytes
        <4>1. w \in Bytes /\ fr \in Bytes /\ ru \in Bytes
          BY <2>2, <2>3, <3>1
        <4>2. (ru \o w) \o fr = ru \o (w \o fr)
          BY <4>1, BytesAssociate
        <4>3. ru \o wf \in Bytes
          BY <3>1, <3>2, BytesJoin
        <4>4. QED
          BY <3>2, <4>2, <4>3
      <3>4. QED
        BY <3>1, <3>2, <3>3
    <2>10. InTransit(c)' \o <<>> = Outstanding(c)' /\ <<>> \in Bytes
      BY <2>4, <2>7, <2>8, <2>9, BytesJoin
    <2>11. QED
      BY <1>7, <2>10 DEF OnItsWay
  <1>8. QED
    BY <1>5, <1>6, <1>7

LEMMA AllStay ==
    ASSUME Requests, \A d \in Conn : d \notin shut' => d \notin shut /\ WayStays(d)
    PROVE  Requests'
  <1>1. SUFFICES ASSUME NEW d \in Conn, d \notin shut' PROVE OnItsWay(d)'
    BY DEF Requests
  <1>2. OnItsWay(d) /\ WayStays(d)
    BY <1>1 DEF Requests
  <1>3. QED
    BY <1>2, SameWay

\* Concatenation, as an operator that the provers leave alone.
Cat(s, t) == s \o t

LEMMA CatFacts ==
    ASSUME NEW s \in Bytes, NEW t \in Bytes, NEW u \in Bytes
    PROVE  Cat(s, t) \in Bytes /\ Cat(Cat(s, t), u) = Cat(s, Cat(t, u))
  <1>1. s \o t \in Bytes
    BY BytesJoin
  <1>2. (s \o t) \o u = s \o (t \o u)
    BY BytesAssociate
  <1>3. QED
    BY <1>1, <1>2 DEF Cat

LEMMA BytesRegroup ==
    ASSUME NEW s1 \in Bytes, NEW s2 \in Bytes, NEW s3 \in Bytes, NEW s4 \in Bytes
    PROVE  /\ Cat(Cat(Cat(s1, s2), s3), s4) = Cat(s1, Cat(Cat(s2, s3), s4))
           /\ Cat(Cat(s2, s3), s4) \in Bytes
           /\ Cat(Cat(s1, Cat(s2, s3)), s4) = Cat(Cat(s1, s2), Cat(s3, s4))
  <1>1. /\ Cat(s1, s2) \in Bytes /\ Cat(s2, s3) \in Bytes /\ Cat(s3, s4) \in Bytes
    BY CatFacts
  <1>2. Cat(Cat(s1, s2), s3) = Cat(s1, Cat(s2, s3))
    BY CatFacts
  <1>3. Cat(Cat(s2, s3), s4) = Cat(s2, Cat(s3, s4)) /\ Cat(Cat(s2, s3), s4) \in Bytes
    BY <1>1, CatFacts
  <1>4. Cat(Cat(s1, Cat(s2, s3)), s4) = Cat(s1, Cat(Cat(s2, s3), s4))
    BY <1>1, CatFacts
  <1>5. Cat(Cat(s1, s2), Cat(s3, s4)) = Cat(s1, Cat(s2, Cat(s3, s4)))
    BY <1>1, CatFacts
  <1>6. QED
    BY <1>2, <1>3, <1>4, <1>5

LEMMA ClientRoundRequests ==
    ASSUME HostState, Views, Requests, NEW c \in Conn, NEW n, Rounds(c, n)
    PROVE  Requests'
  <1>1. /\ KeepsTables /\ shut' = shut /\ asked' = asked /\ noted' = noted
        /\ n \in Nat /\ n <= Len(cw[c].data) /\ cw' = [cw EXCEPT ![c] = cutData(cw[c], n)]
        /\ c \notin shut => up' = [up EXCEPT ![c] = up[c] \o SubSeq(cw[c].data, 1, n)]
        /\ c \in shut => up' = up
        /\ \A d \in Conn : peer'[d] # "exited" => peer[d] # "exited"
    BY DEF Rounds, HostState, ProgramType
  <1>2. SUFFICES ASSUME NEW d \in Conn, d \notin shut, OnItsWay(d)
                 PROVE  OnItsWay(d)'
    BY <1>1 DEF Requests
  <1>3. EndStays(d)
    BY <1>1, TablesKeepEnds
  <1>4. cw \in [Conn -> Buffers] /\ up \in [Conn -> Bytes]
    BY DEF HostState, ProgramType
  <1>5. CASE d # c
    <2>1. up'[d] = up[d]
      BY <1>1, <1>4, <1>5
    <2>2. QED
      BY <1>1, <1>2, <1>3, <1>4, <1>5, <2>1, SameWay DEF WayStays
  <1>6. CASE d = c
    <2>1. PICK r, u, x, y : /\ r = Unread(c) /\ u = up[c] /\ x = SubSeq(cw[c].data, 1, n)
                            /\ y = cutData(cw[c], n).data
      OBVIOUS
    <2>2. /\ r \in Bytes /\ u \in Bytes /\ x \in Bytes /\ y \in Bytes /\ x \o y = cw[c].data
      BY <1>1, <2>1, WayIs, SendFacts
    <2>3. up'[c] = u \o x /\ cw'[c].data = y /\ Unread(c)' = r
      BY <1>1, <1>2, <1>3, <1>4, <1>6, <2>1 DEF EndStays
    <2>4. (r \o (u \o x)) \o y = (r \o u) \o (x \o y)
      <3>1. r \in Bytes /\ u \in Bytes /\ x \in Bytes /\ y \in Bytes
        BY <2>2
      <3>2. Cat(Cat(r, Cat(u, x)), y) = Cat(Cat(r, u), Cat(x, y))
        BY <3>1, BytesRegroup
      <3>3. QED
        BY <3>2 DEF Cat
    <2>5. InTransit(c)' = InTransit(c)
      BY <2>1, <2>2, <2>3, <2>4 DEF InTransit
    <2>6. Outstanding(c)' = Outstanding(c)
      BY <1>1 DEF Outstanding
    <2>7. QED
      BY <1>1, <1>2, <1>6, <2>5, <2>6 DEF OnItsWay
  <1>7. QED
    BY <1>5, <1>6

LEMMA ExitsRequests ==
    ASSUME HostState, Views, Requests, NEW c \in Conn, Exits(c)
    PROVE  Requests'
  <1>1. /\ KeepsTables /\ shut' = shut /\ asked' = asked /\ noted' = noted /\ up' = up
        /\ peer' = [peer EXCEPT ![c] = "exited"] /\ cw' = [cw EXCEPT ![c] = Empty]
    BY DEF Exits, serverVars, roundVars, kernelVars, peerVars, KeepsTables
  <1>2. SUFFICES ASSUME NEW d \in Conn, d \notin shut, OnItsWay(d)
                 PROVE  OnItsWay(d)'
    BY <1>1 DEF Requests
  <1>3. EndStays(d)
    BY <1>1, TablesKeepEnds
  <1>4. /\ cw \in [Conn -> Buffers]
        /\ peer \in [Conn -> {"none", "1", "2", "0", "exited"}]
    BY DEF HostState, ProgramType
  <1>5. CASE d # c
    <2>1. peer'[d] = peer[d] /\ cw'[d] = cw[d]
      BY <1>1, <1>4, <1>5
    <2>2. QED
      BY <1>1, <1>2, <1>3, <2>1, SameWay DEF WayStays
  <1>6. CASE d = c
    <2>1. PICK r, u, w : r = Unread(c) /\ u = up[c] /\ w = cw[c].data
      OBVIOUS
    <2>2. r \in Bytes /\ u \in Bytes /\ w \in Bytes
      BY <2>1, WayIs
    <2>3. cw'[c].data = <<>> /\ peer'[c] = "exited" /\ Unread(c)' = r /\ up'[c] = u
      BY <1>1, <1>3, <1>4, <1>6, <2>1, EmptyFacts DEF EndStays
    <2>4. PICK rest \in Bytes : ((r \o u) \o w) \o rest = Outstanding(c)
      BY <1>2, <1>6, <2>1 DEF OnItsWay, InTransit
    <2>5. PICK more \in Bytes : more = w \o rest
      BY <2>2, BytesJoin
    <2>6. ((r \o u) \o <<>>) \o more = Outstanding(c)
      <3>1. PICK ru \in Bytes : ru = r \o u
        BY <2>2, BytesJoin
      <3>2. (ru \o w) \o rest = ru \o (w \o rest)
        BY <2>2, BytesAssociate
      <3>3. ru \o <<>> = ru
        BY BytesJoin
      <3>4. QED
        BY <2>4, <2>5, <3>1, <3>2, <3>3
    <2>7. InTransit(c)' = (r \o u) \o <<>>
      BY <2>3 DEF InTransit
    <2>8. Outstanding(c)' = Outstanding(c)
      BY <1>1 DEF Outstanding
    <2>9. QED
      BY <1>6, <2>3, <2>6, <2>7, <2>8 DEF OnItsWay
  <1>7. QED
    BY <1>5, <1>6

LEMMA HandleConnRequests ==
    ASSUME HostState, Views, Views', Requests, NEW p, NEW c, NEW n, NEW x,
           Handles(p, c, n, x)
    PROVE  Requests'
  <1>1. Renewed(p, x)
    BY RenewsTables DEF Handles, Renews
  <1>2. /\ p \in Busy /\ c \in Conn /\ sock[clients[p].sock] = c /\ sock' = sock
        /\ up' = [up EXCEPT ![c] = After(up[c])] /\ x.rbuf = Into(clients[p].rbuf, up[c])
        /\ UNCHANGED <<shut, peer, cw, asked, noted>>
    BY DEF Handles
  <1>3. /\ \A d \in Conn : d # c => EndStays(d)
        /\ Unread(c)' = x.rbuf.data
    BY <1>1, <1>2, RenewedEnds
  <1>4. up \in [Conn -> Bytes]
    BY DEF HostState, ProgramType
  <1>5. SUFFICES ASSUME NEW d \in Conn, d \notin shut, OnItsWay(d)
                 PROVE  OnItsWay(d)'
    BY <1>2 DEF Requests
  <1>6. CASE d # c
    <2>1. up'[d] = up[d]
      BY <1>2, <1>4, <1>6
    <2>2. QED
      BY <1>2, <1>3, <1>5, <1>6, <2>1, SameWay DEF WayStays
  <1>7. CASE d = c
    <2>1. PICK b, s : b = clients[p].rbuf /\ s = up[c]
      OBVIOUS
    <2>2. SoundBuf(b) /\ s \in Bytes /\ Unread(c) = b.data
      BY <1>2, <1>4, <2>1, ClientFacts DEF Views, HostState
    <2>3. Into(b, s).data \o After(s) = b.data \o s
      BY <2>2, IntoFacts
    <2>4. up'[c] = After(s) /\ Unread(c)' = Into(b, s).data
      BY <1>2, <1>3, <1>4, <2>1
    <2>5. InTransit(c)' = InTransit(c) /\ Outstanding(c)' = Outstanding(c)
      BY <1>2, <2>1, <2>2, <2>3, <2>4 DEF InTransit, Outstanding
    <2>6. QED
      BY <1>2, <1>5, <1>7, <2>5 DEF OnItsWay
  <1>8. QED
    BY <1>6, <1>7

\* A part of a sequence of packets, entry by entry.
LEMMA PartFacts ==
    ASSUME NEW ps, NEW a \in Nat, NEW n \in Nat, \A i \in a .. n : ps[i] \in Bodies
    PROVE  /\ SubSeq(ps, a, n) \in Seq(Bodies)
           /\ Len(SubSeq(ps, a, n)) = IF a <= n THEN n - a + 1 ELSE 0
           /\ \A i \in 1 .. n - a + 1 : SubSeq(ps, a, n)[i] = ps[a + i - 1]
  BY SubSeqProperties

LEMMA OutstandingOneLess ==
    ASSUME NEW ps \in Seq(Bodies), NEW k \in Nat, k <= Len(ps),
           SubSeq(ps, k + 1, Len(ps)) # <<>>
    PROVE  /\ k + 1 <= Len(ps) /\ ps[k + 1] \in Bodies
           /\ SubSeq(ps, k + 1, Len(ps)) \in Seq(Bodies)
           /\ Head(SubSeq(ps, k + 1, Len(ps))) = ps[k + 1]
           /\ Tail(SubSeq(ps, k + 1, Len(ps))) = SubSeq(ps, (k + 1) + 1, Len(ps))
  <1>1. PICK n \in Nat, a \in Nat : n = Len(ps) /\ a = k + 1 /\ 1 <= a
    OBVIOUS
  <1>2. PICK s \in Seq(Bodies) :
           /\ s = SubSeq(ps, a, n) /\ Len(s) = (IF a <= n THEN n - a + 1 ELSE 0)
           /\ \A i \in 1 .. n - a + 1 : s[i] = ps[a + i - 1]
    <2>1. \A i \in a .. n : ps[i] \in Bodies
      BY <1>1
    <2>2. /\ SubSeq(ps, a, n) \in Seq(Bodies)
          /\ Len(SubSeq(ps, a, n)) = IF a <= n THEN n - a + 1 ELSE 0
          /\ \A i \in 1 .. n - a + 1 : SubSeq(ps, a, n)[i] = ps[a + i - 1]
      BY <2>1, PartFacts
    <2>3. QED
      BY <2>2
  <1>3. s # <<>>
    BY <1>1, <1>2
  <1>4. a <= n
    BY <1>2, <1>3
  <1>5. PICK m \in Nat : m = n - a /\ Len(s) = m + 1 /\ \A i \in 1 .. m + 1 : s[i] = ps[a + i - 1]
    <2>1. n - a \in Nat /\ n - a + 1 = (n - a) + 1
      BY <1>4
    <2>2. QED
      BY <1>2, <1>4, <2>1
  <1>6. PICK t \in Seq(Bodies) :
           t = SubSeq(ps, a + 1, n) /\ Len(t) = m /\ \A i \in 1 .. m : t[i] = ps[(a + 1) + i - 1]
    <2>0. PICK b \in Nat : b = a + 1
      OBVIOUS
    <2>1. \A i \in b .. n : ps[i] \in Bodies
      BY <1>1, <2>0
    <2>2. /\ SubSeq(ps, b, n) \in Seq(Bodies)
          /\ Len(SubSeq(ps, b, n)) = IF b <= n THEN n - b + 1 ELSE 0
          /\ \A i \in 1 .. n - b + 1 : SubSeq(ps, b, n)[i] = ps[b + i - 1]
      BY <2>1, PartFacts
    <2>3. n - b + 1 = m /\ (~(b <= n) => m = 0)
      BY <1>4, <1>5, <2>0
    <2>4. PICK t \in Seq(Bodies) : t = SubSeq(ps, b, n) /\ Len(t) = m /\ \A i \in 1 .. m : t[i] = ps[b + i - 1]
      BY <2>2, <2>3
    <2>5. QED
      BY <2>0, <2>4
  <1>7. /\ Tail(s) \in Seq(Bodies) /\ Len(Tail(s)) = m /\ Head(s) = s[1]
        /\ \A i \in 1 .. m : Tail(s)[i] = s[i + 1]
    BY <1>3, <1>5
  <1>8. \A i \in 1 .. m : Tail(s)[i] = t[i]
    <2>1. SUFFICES ASSUME NEW i \in 1 .. m PROVE Tail(s)[i] = t[i]
      OBVIOUS
    <2>2. i + 1 \in 1 .. m + 1 /\ a + (i + 1) - 1 = (a + 1) + i - 1
      OBVIOUS
    <2>3. QED
      BY <1>5, <1>6, <1>7, <2>2
  <1>9. Tail(s) = t
    BY <1>6, <1>7, <1>8, SeqEqual
  <1>10. s[1] = ps[a]
    <2>1. 1 \in 1 .. m + 1 /\ a + 1 - 1 = a
      OBVIOUS
    <2>2. QED
      BY <1>5, <2>1
  <1>11. ps[a] \in Bodies
    BY <1>1, <1>4
  <1>12. QED
    BY <1>1, <1>2, <1>4, <1>6, <1>7, <1>9, <1>10, <1>11

\* The packet that is taken out of the buffer is the next one of its program.
LEMMA FirstToCome ==
    ASSUME HostState, Views, Requests, NEW p, NEW c, NEW x, NEW body,
           Receives(p, c, x, body)
    PROVE  /\ body \in Bodies /\ body = asked[c][noted[c] + 1] /\ noted[c] + 1 <= Len(asked[c])
           /\ \E rest \in Bytes :
                 /\ ((x.rbuf.data \o up[c]) \o cw[c].data) \o rest
                       = Frames(SubSeq(asked[c], (noted[c] + 1) + 1, Len(asked[c])))
                 /\ peer[c] # "exited" => rest = <<>>
  <1>1. /\ p \in Busy /\ c \in Conn /\ sock[clients[p].sock] = c
        /\ HasPack(clients[p].rbuf) /\ body = Body(clients[p].rbuf)
        /\ x.rbuf = Rest(clients[p].rbuf)
    BY DEF Receives
  <1>2. c \notin shut
    BY <1>1, SockOf DEF HostState, Places
  <1>3. PICK b, u, w, ps, k : b = clients[p].rbuf /\ u = up[c] /\ w = cw[c].data /\ ps = asked[c]
                              /\ k = noted[c]
    OBVIOUS
  <1>4. /\ SoundBuf(b) /\ b.data = Unread(c) /\ b.data \in Bytes /\ u \in Bytes /\ w \in Bytes
        /\ ps \in Seq(Bodies) /\ k \in Nat /\ k <= Len(ps)
    BY <1>1, <1>3, WayIs, ClientFacts DEF Views, HostState
  <1>5. PICK rest \in Bytes : /\ InTransit(c) \o rest = Outstanding(c)
                              /\ peer[c] # "exited" => rest = <<>>
    BY <1>1, <1>2 DEF Requests, OnItsWay
  <1>6. PICK r, s, qs : r = b.data /\ s = Rest(b).data /\ qs = SubSeq(ps, k + 1, Len(ps))
    OBVIOUS
  <1>7. ((r \o u) \o w) \o rest = Frames(qs)
    BY <1>3, <1>4, <1>5, <1>6 DEF InTransit, Outstanding
  <1>8. PICK e \in Bytes : e = (u \o w) \o rest
    <2>1. u \o w \in Bytes
      BY <1>4, BytesJoin
    <2>2. (u \o w) \o rest \in Bytes
      BY <2>1, BytesJoin
    <2>3. QED
      BY <2>2
  <1>9. \A v \in Bytes : ((v \o u) \o w) \o rest = v \o e
    <2>1. SUFFICES ASSUME NEW v \in Bytes PROVE ((v \o u) \o w) \o rest = v \o e
      OBVIOUS
    <2>2. Cat(Cat(Cat(v, u), w), rest) = Cat(v, Cat(Cat(u, w), rest))
      BY <1>4, BytesRegroup
    <2>3. QED
      BY <1>8, <2>2 DEF Cat
  <1>10. r \o e = Frames(qs) /\ qs \in Seq(Bodies)
    <2>1. r \in Bytes
      BY <1>4, <1>6
    <2>2. qs \in Seq(Bodies)
      BY <1>4, <1>6, OutstandingOneMore, FramesFirst
    <2>3. QED
      BY <1>7, <1>9, <2>1, <2>2
  <1>11. /\ qs # <<>> /\ Body(b) = Head(qs)
         /\ s \in Bytes /\ s \o e = Frames(Tail(qs))
    <2>1. SoundBuf(b) /\ HasPack(b) /\ b.data \o e = Frames(qs) /\ qs \in Seq(Bodies)
      BY <1>1, <1>3, <1>4, <1>6, <1>10
    <2>2. /\ qs # <<>> /\ Body(b) = Head(qs)
          /\ Rest(b).data \in Bytes /\ Rest(b).data \o e = Frames(Tail(qs))
      BY <2>1, TakeFirst
    <2>3. QED
      BY <1>6, <2>2
  <1>12. /\ k + 1 <= Len(ps) /\ ps[k + 1] \in Bodies /\ Head(qs) = ps[k + 1]
         /\ Tail(qs) = SubSeq(ps, (k + 1) + 1, Len(ps))
    BY <1>4, <1>6, <1>11, OutstandingOneLess
  <1>13. ((s \o u) \o w) \o rest = Frames(SubSeq(ps, (k + 1) + 1, Len(ps)))
    BY <1>9, <1>11, <1>12
  <1>14. QED
    BY <1>1, <1>3, <1>5, <1>6, <1>11, <1>12, <1>13

LEMMA doRecvRequests ==
    ASSUME HostState, Views, Views', Requests, NEW p, NEW c, NEW x, NEW body,
           Receives(p, c, x, body)
    PROVE  Requests'
  <1>1. Renewed(p, x)
    BY RenewsTables DEF Receives
  <1>2. /\ p \in Busy /\ c \in Conn /\ sock[clients[p].sock] = c /\ sock' = sock
        /\ noted' = [noted EXCEPT ![c] = noted[c] + 1]
        /\ UNCHANGED <<up, cw, asked, peer, shut>>
    BY DEF Receives, Renews
  <1>3. /\ \A d \in Conn : d # c => EndStays(d)
        /\ Unread(c)' = x.rbuf.data
    BY <1>1, <1>2, RenewedEnds
  <1>4. noted \in [Conn -> Nat]
    BY DEF HostState, ProgramType
  <1>5. SUFFICES ASSUME NEW d \in Conn, d \notin shut, OnItsWay(d)
                 PROVE  OnItsWay(d)'
    BY <1>2 DEF Requests
  <1>6. CASE d # c
    <2>1. noted'[d] = noted[d]
      BY <1>2, <1>4, <1>6
    <2>2. QED
      BY <1>2, <1>3, <1>5, <1>6, <2>1, SameWay DEF WayStays
  <1>7. CASE d = c
    <2>1. PICK rest \in Bytes :
             /\ ((x.rbuf.data \o up[c]) \o cw[c].data) \o rest
                   = Frames(SubSeq(asked[c], (noted[c] + 1) + 1, Len(asked[c])))
             /\ peer[c] # "exited" => rest = <<>>
      BY FirstToCome
    <2>2. noted'[c] = noted[c] + 1
      BY <1>2, <1>4
    <2>3. InTransit(c)' = (x.rbuf.data \o up[c]) \o cw[c].data
      BY <1>2, <1>3 DEF InTransit
    <2>4. Outstanding(c)' = Frames(SubSeq(asked[c], (noted[c] + 1) + 1, Len(asked[c])))
      BY <1>2, <2>2 DEF Outstanding
    <2>5. QED
      BY <1>2, <1>7, <2>1, <2>3, <2>4 DEF OnItsWay
  <1>8. QED
    BY <1>6, <1>7

------------------------------------------------------------------------------
\* What is on its way to a program stays.
SameToCome(c) ==
    cr'[c].data = cr[c].data /\ down'[c] = down[c] /\ ToSend(c)' = ToSend(c)

LEMMA ToComeStays ==
    ASSUME NEW c \in Conn, SameToCome(c), Noted \subseteq Noted', ToCome(c)
    PROVE  ToCome(c)'
  <1>1. PICK ps \in Seq(Bodies) : /\ \A i \in DOMAIN ps : ps[i] \in Noted
                                  /\ (cr[c].data \o down[c]) \o ToSend(c) = Frames(ps)
    BY DEF ToCome
  <1>2. \A i \in DOMAIN ps : ps[i] \in Noted'
    BY <1>1
  <1>3. (cr'[c].data \o down'[c]) \o ToSend(c)' = Frames(ps)
    BY <1>1 DEF SameToCome
  <1>4. QED
    BY <1>2, <1>3 DEF ToCome

\* Most steps leave alone what is on its way, both ways.
Quiet ==
    /\ \A c \in Conn : EndStays(c) \/ (c \in shut' /\ peer'[c] = "exited")
    /\ shut \subseteq shut' /\ UNCHANGED <<up, down, cw, cr, asked, noted, got>>
    /\ \A c \in Conn : peer'[c] # "exited" => peer[c] # "exited"

LEMMA QuietKeeps ==
    ASSUME Quiet, Requests, Answers
    PROVE  Requests' /\ Answers'
  <1>1. /\ shut \subseteq shut' /\ UNCHANGED <<up, down, cw, cr, asked, noted, got>>
        /\ \A c \in Conn : EndStays(c) \/ (c \in shut' /\ peer'[c] = "exited")
        /\ \A c \in Conn : peer'[c] # "exited" => peer[c] # "exited"
    BY DEF Quiet
  <1>2. Requests'
    <2>1. \A d \in Conn : d \notin shut' => d \notin shut /\ WayStays(d)
      BY <1>1 DEF WayStays
    <2>2. QED
      BY <2>1, AllStay
  <1>3. Noted' = Noted
    BY <1>1 DEF Noted
  <1>4. ASSUME NEW c \in Conn, peer'[c] # "exited"
        PROVE  ToCome(c)'
    <2>1. ToCome(c) /\ EndStays(c)
      BY <1>1, <1>4 DEF Answers
    <2>2. SameToCome(c)
      BY <1>1, <2>1 DEF SameToCome, EndStays
    <2>3. QED
      BY <1>3, <2>1, <2>2, ToComeStays
  <1>5. QED
    BY <1>1, <1>2, <1>3, <1>4 DEF Answers

LEMMA QuietSteps ==
    ASSUME HostState,
           \/ \E c \in Conn : doConnect(c) \/ tryConnect(c) \/ ResetArrives(c)
           \/ doDispatch \/ Stays \/ UNCHANGED vars
    PROVE  Quiet
  <1> USE DEF serverVars, roundVars, kernelVars, peerVars
  <1>1. KeepsTables /\ UNCHANGED <<up, down, cw, cr, asked, noted, got, shut>>
    BY DEF doConnect, tryConnect, ResetArrives, doDispatch, Stays, vars,
           KeepsTables
  <1>2. \A d \in Conn : peer'[d] # "exited" => peer[d] # "exited"
    <2>1. peer \in [Conn -> {"none", "1", "2", "0", "exited"}]
      BY DEF HostState, ProgramType
    <2>2. \/ peer' = peer
          \/ \E c \in Conn : peer[c] \in {"none", "1"} /\ \E s : peer' = [peer EXCEPT ![c] = s]
      BY DEF doConnect, tryConnect, ResetArrives, doDispatch, Stays, vars
    <2>3. QED
      BY <2>1, <2>2
  <1>3. \A c \in Conn : EndStays(c)
    BY <1>1, TablesKeepEnds
  <1>4. QED
    BY <1>1, <1>2, <1>3 DEF Quiet

LEMMA AcceptsQuiet ==
    ASSUME HostState, Views, Views', Accepts
    PROVE  Quiet
  <1>1. UNCHANGED <<up, down, cw, cr, asked, noted, got, peer>>
    BY DEF Accepts
  <1>2. shut \subseteq shut'
    BY DEF Accepts, Refuses, Admits
  <1>3. \A c \in Conn : EndStays(c)
    <2>1. CASE KeepsTables
      BY <2>1, TablesKeepEnds
    <2>2. CASE backlog # <<>> /\ backlog' = Tail(backlog) /\ \E pos, f, c : Admits(pos, f, c)
      <3>1. PICK pos, f, c : Admits(pos, f, c)
        BY <2>2
      <3>2. c \in Conn /\ ~Served(c)
        BY <2>2, <3>1, BacklogTail DEF Admits, Served
      <3>3. Placed(pos, f, c)
        BY <3>1, <3>2, AdmitsTables
      <3>4. QED
        BY <3>2, <3>3, PlacedEnds
    <2>3. QED
      BY <2>1, <2>2 DEF Accepts, Refuses
  <1>4. QED
    BY <1>1, <1>2, <1>3 DEF Quiet

LEMMA LeavesQuiet ==
    ASSUME HostState, Views, Views', NEW p, NEW f, NEW c, Leaves(p, f, c)
    PROVE  Quiet
  <1>1. /\ UNCHANGED <<up, down, cw, cr, asked, noted, got, peer>>
        /\ shut' = shut \cup {c} /\ p \in Busy /\ c = sock[clients[p].sock] /\ clients[p].state = 0
        /\ c \in Conn
    BY DEF Leaves
  <1>2. peer'[c] = "exited"
    BY <1>1 DEF HostState, Links
  <1>3. Vacated(p, f, c)
    BY LeavesTables
  <1>4. \A d \in Conn : d # c => EndStays(d)
    BY <1>3, VacatedEnds
  <1>5. QED
    BY <1>1, <1>2, <1>4 DEF Quiet

\* What a request or an answer has to do with the tables ends there: an answer
\* that is handed out changes what is to come for one program.
LEMMA HandedRequests ==
    ASSUME HostState, Views, Views', Requests, Handed
    PROVE  Requests'
  <1>1. UNCHANGED <<up, cw, asked, noted, peer, shut, sock, count, fpos, fdCnt>>
    BY DEF Handed
  <1>2. \A d \in Conn : Unread(d)' = Unread(d)
    <2>1. CASE clients' = clients
      <3>1. KeepsTables
        BY <1>1, <2>1 DEF KeepsTables
      <3>2. QED
        BY <3>1, TablesKeepEnds DEF EndStays
    <2>2. ASSUME NEW p, NEW x, NEW body, Serves(p, x, body), NEW d \in Conn
          PROVE  Unread(d)' = Unread(d)
      <3>1. Renewed(p, x) /\ p \in Busy /\ x.rbuf = clients[p].rbuf
        BY <2>2, RenewsTables DEF Serves, Renews
      <3>2. PICK o : o = sock[clients[p].sock]
        OBVIOUS
      <3>3. /\ \A e \in Conn : e # o => EndStays(e)
            /\ Unread(o)' = x.rbuf.data
        BY <1>1, <3>1, <3>2, RenewedEnds
      <3>4. Unread(o) = clients[p].rbuf.data
        BY <3>1, <3>2 DEF Views
      <3>5. QED
        BY <3>1, <3>3, <3>4 DEF EndStays
    <2>3. QED
      BY <2>1, <2>2 DEF Handed
  <1>3. SUFFICES ASSUME NEW d \in Conn, d \notin shut, OnItsWay(d)
                 PROVE  OnItsWay(d)'
    BY <1>1 DEF Requests
  <1>4. QED
    BY <1>1, <1>2, <1>3 DEF OnItsWay, InTransit, Outstanding

------------------------------------------------------------------------------
\* The other steps keep Answers.
LEMMA NotedBodies ==
    ASSUME ProgramType
    PROVE  Noted \subseteq Bodies
  <1>1. SUFFICES ASSUME NEW c \in Conn, NEW k \in 1 .. noted[c] PROVE asked[c][k] \in Bodies
    BY DEF Noted
  <1>2. PICK n \in Nat, l \in Nat, ps \in Seq(Bodies) :
           n = noted[c] /\ ps = asked[c] /\ l = Len(ps) /\ n <= l
    BY DEF ProgramType
  <1>3. k \in 1 .. n
    BY <1>2
  <1>4. k \in 1 .. l
    BY <1>2, <1>3
  <1>5. QED
    BY <1>2, <1>4

\* Packets that became events stay the same ones.
LEMMA NotedGrows ==
    ASSUME ProgramType,
           \A c \in Conn : /\ noted'[c] \in Nat /\ noted[c] <= noted'[c]
                           /\ \A k \in 1 .. noted[c] : asked'[c][k] = asked[c][k]
    PROVE  Noted \subseteq Noted'
  <1>1. SUFFICES ASSUME NEW c \in Conn, NEW k \in 1 .. noted[c] PROVE asked[c][k] \in Noted'
    BY DEF Noted
  <1>2. PICK m \in Nat, n \in Nat : m = noted[c] /\ n = noted'[c] /\ m <= n
    BY DEF ProgramType
  <1>3. k \in 1 .. n
    BY <1>2
  <1>4. asked'[c][k] = asked[c][k]
    OBVIOUS
  <1>5. QED
    BY <1>2, <1>3, <1>4 DEF Noted

LEMMA ScriptSendsNoted ==
    ASSUME HostState, NEW c \in Conn, NEW body, Asks(c, body)
    PROVE  Noted \subseteq Noted' /\ \A d \in Conn : \A k \in 1 .. noted[d] : asked'[d][k] = asked[d][k]
  <1>1. /\ noted' = noted /\ body \in Bodies
        /\ asked' = asked \/ asked' = [asked EXCEPT ![c] = Append(@, body)]
    BY DEF Asks
  <1>2. asked \in [Conn -> Seq(Bodies)] /\ noted \in [Conn -> Nat] /\ ProgramType
    BY DEF HostState, ProgramType
  <1>3. ASSUME NEW d \in Conn, NEW k \in 1 .. noted[d] PROVE asked'[d][k] = asked[d][k]
    <2>1. CASE d # c \/ asked' = asked
      BY <1>1, <1>2, <2>1
    <2>2. CASE d = c /\ asked' = [asked EXCEPT ![c] = Append(@, body)]
      <3>1. PICK ps \in Seq(Bodies), n \in Nat, l \in Nat :
               ps = asked[c] /\ n = noted[c] /\ l = Len(ps) /\ n <= l
        BY <1>2 DEF ProgramType
      <3>2. k \in 1 .. l
        <4>1. k \in 1 .. n
          BY <1>3, <2>2, <3>1
        <4>2. QED
          BY <3>1, <4>1
      <3>3. Append(ps, body)[k] = ps[k]
        BY <1>1, <3>1, <3>2
      <3>4. QED
        BY <1>2, <2>2, <3>1, <3>3
    <2>3. QED
      BY <1>1, <2>1, <2>2
  <1>4. \A d \in Conn : noted'[d] \in Nat /\ noted[d] <= noted'[d]
    BY <1>1, <1>2
  <1>5. Noted \subseteq Noted'
    BY <1>2, <1>3, <1>4, NotedGrows
  <1>6. QED
    BY <1>3, <1>5

LEMMA ScriptSendsAnswers ==
    ASSUME HostState, Answers, NEW c \in Conn, NEW body, Asks(c, body)
    PROVE  Answers'
  <1>1. KeepsTables /\ UNCHANGED <<down, peer, cr, got>>
    BY DEF Asks
  <1>2. Noted \subseteq Noted'
    BY ScriptSendsNoted
  <1>3. ASSUME NEW d \in Conn, peer'[d] # "exited" PROVE ToCome(d)'
    <2>1. EndStays(d) /\ ToCome(d)
      BY <1>1, <1>3, TablesKeepEnds DEF Answers
    <2>2. SameToCome(d)
      BY <1>1, <2>1 DEF SameToCome, EndStays
    <2>3. QED
      BY <1>2, <2>1, <2>2, ToComeStays
  <1>4. QED
    BY <1>1, <1>2, <1>3 DEF Answers

LEMMA ExitsAnswers ==
    ASSUME HostState, Answers, NEW c \in Conn, Exits(c)
    PROVE  Answers'
  <1>1. /\ KeepsTables /\ UNCHANGED <<asked, noted, got>>
        /\ peer' = [peer EXCEPT ![c] = "exited"] /\ down' = [down EXCEPT ![c] = <<>>]
        /\ cr' = [cr EXCEPT ![c] = Empty]
    BY DEF Exits, serverVars, roundVars, kernelVars, peerVars, KeepsTables
  <1>2. Noted' = Noted
    BY <1>1 DEF Noted
  <1>3. ASSUME NEW d \in Conn, peer'[d] # "exited" PROVE ToCome(d)'
    <2>1. d # c /\ peer[d] # "exited" /\ cr'[d] = cr[d] /\ down'[d] = down[d]
      BY <1>1, <1>3 DEF HostState, ProgramType
    <2>2. SameToCome(d) /\ ToCome(d)
      BY <1>1, <2>1, TablesKeepEnds DEF Answers, SameToCome, EndStays
    <2>3. QED
      BY <1>2, <2>2, ToComeStays
  <1>4. QED
    BY <1>1, <1>2, <1>3 DEF Answers

LEMMA HandleConnAnswers ==
    ASSUME HostState, Views, Views', Answers, NEW p, NEW c, NEW n, NEW x,
           Handles(p, c, n, x)
    PROVE  Answers'
  <1>1. Renewed(p, x)
    BY RenewsTables DEF Handles, Renews
  <1>2. /\ p \in Busy /\ c \in Conn /\ sock[clients[p].sock] = c /\ sock' = sock
        /\ x.wbuf = cutData(clients[p].wbuf, n) /\ n \in Nat /\ n <= Len(clients[p].wbuf.data)
        /\ UNCHANGED <<peer, cr, asked, noted, got>>
    BY DEF Handles
  <1>3. /\ \A d \in Conn : d # c => EndStays(d)
        /\ ToSend(c)' = x.wbuf.data
    BY <1>1, <1>2, RenewedEnds
  <1>4. Noted' = Noted
    BY <1>2 DEF Noted
  <1>5. ASSUME NEW d \in Conn, peer'[d] # "exited", d # c PROVE ToCome(d)'
    <2>1. down'[d] = down[d]
      BY <1>5 DEF Handles, HostState, ProgramType
    <2>2. SameToCome(d) /\ ToCome(d)
      BY <1>2, <1>3, <1>5, <2>1 DEF Answers, SameToCome, EndStays
    <2>3. QED
      BY <1>4, <2>2, ToComeStays
  <1>6. ASSUME peer'[c] # "exited" PROVE ToCome(c)'
    <2>1. link[c] = "open"
      BY <1>2, <1>6 DEF HostState, Links
    <2>2. PICK r, s, y, z, b : /\ r = cr[c].data /\ s = down[c] /\ b = clients[p].wbuf
                               /\ y = SubSeq(b.data, 1, n) /\ z = cutData(b, n).data
      OBVIOUS
    <2>3. r \in Bytes /\ s \in Bytes /\ SoundBuf(b) /\ ToSend(c) = b.data
      BY <1>2, <2>2, SizeIs, ClientFacts DEF HostState, ProgramType, Views
    <2>4. y \in Bytes /\ z \in Bytes /\ y \o z = b.data
      BY <1>2, <2>2, <2>3, SendFacts
    <2>5. (r \o (s \o y)) \o z = (r \o s) \o (y \o z)
      <3>1. Cat(Cat(r, Cat(s, y)), z) = Cat(Cat(r, s), Cat(y, z))
        BY <2>3, <2>4, BytesRegroup
      <3>2. QED
        BY <3>1 DEF Cat
    <2>6. cr'[c].data = r /\ down'[c] = s \o y /\ ToSend(c)' = z
      BY <1>2, <1>3, <2>1, <2>2 DEF Handles, HostState, ProgramType
    <2>7. PICK ps \in Seq(Bodies) : /\ \A i \in DOMAIN ps : ps[i] \in Noted
                                    /\ (r \o s) \o b.data = Frames(ps)
      BY <1>2, <1>6, <2>2, <2>3 DEF Answers, ToCome
    <2>8. (r \o (s \o y)) \o z = Frames(ps)
      BY <2>4, <2>5, <2>7
    <2>9. QED
      BY <1>4, <2>6, <2>7, <2>8 DEF ToCome
  <1>7. QED
    BY <1>2, <1>4, <1>5, <1>6 DEF Answers

LEMMA doRecvAnswers ==
    ASSUME HostState, Views, Views', Answers, NEW p, NEW c, NEW x, NEW body,
           Receives(p, c, x, body)
    PROVE  Answers' /\ Noted \subseteq Noted'
  <1>1. Renewed(p, x)
    BY RenewsTables DEF Receives
  <1>2. /\ p \in Busy /\ c \in Conn /\ sock[clients[p].sock] = c /\ sock' = sock
        /\ x.wbuf = clients[p].wbuf /\ noted' = [noted EXCEPT ![c] = noted[c] + 1]
        /\ UNCHANGED <<peer, cr, down, asked, got>>
    BY DEF Receives, Renews
  <1>3. /\ \A d \in Conn : d # c => EndStays(d)
        /\ ToSend(c)' = x.wbuf.data
    BY <1>1, <1>2, RenewedEnds
  <1>4. \A d \in Conn : ToSend(d)' = ToSend(d)
    BY <1>2, <1>3 DEF EndStays, Views
  <1>5. Noted \subseteq Noted'
    <2>1. \A d \in Conn : noted'[d] \in Nat /\ noted[d] <= noted'[d]
      BY <1>2 DEF HostState, ProgramType
    <2>2. QED
      BY <1>2, <2>1, NotedGrows DEF HostState
  <1>6. ASSUME NEW d \in Conn, peer'[d] # "exited" PROVE ToCome(d)'
    <2>1. SameToCome(d) /\ ToCome(d)
      BY <1>2, <1>4, <1>6 DEF Answers, SameToCome
    <2>2. QED
      BY <1>5, <2>1, ToComeStays
  <1>7. QED
    BY <1>2, <1>5, <1>6 DEF Answers

\* What a round of a program takes out is a packet that became an event.
LEMMA RoundTakes ==
    ASSUME HostState, Views, Answers, NEW c \in Conn, NEW n, Rounds(c, n)
    PROVE  /\ HasPack(Read(c)) => Body(Read(c)) \in Noted
           /\ \A b : cr' = [cr EXCEPT ![c] = b] /\ (b = Read(c) \/ (HasPack(Read(c)) /\ b = Rest(Read(c))))
                 => \E ps \in Seq(Bodies) : /\ \A i \in DOMAIN ps : ps[i] \in Noted
                                            /\ (b.data \o StillDown(c)) \o ToSend(c) = Frames(ps)
  <1>1. PICK ps \in Seq(Bodies) : /\ \A i \in DOMAIN ps : ps[i] \in Noted
                                  /\ (cr[c].data \o down[c]) \o ToSend(c) = Frames(ps)
    BY DEF Answers, ToCome, Rounds
  <1>2. PICK b, d, v, t : b = Read(c) /\ d = b.data /\ v = StillDown(c) /\ t = ToSend(c)
    OBVIOUS
  <1>3. SoundBuf(b) /\ d \in Bytes /\ v \in Bytes /\ t \in Bytes /\ d \o v = cr[c].data \o down[c]
    BY <1>2, ReadFacts DEF HostState, Views
  <1>4. (d \o v) \o t = Frames(ps)
    BY <1>1, <1>2, <1>3
  <1>5. PICK e \in Bytes : e = v \o t
    BY <1>3, BytesJoin
  <1>6. \A a \in Bytes : (a \o v) \o t = a \o e
    BY <1>3, <1>5, BytesAssociate
  <1>7. d \o e = Frames(ps)
    BY <1>3, <1>4, <1>6
  <1>8. ASSUME HasPack(b)
        PROVE  /\ Body(b) \in Noted
               /\ \E qs \in Seq(Bodies) : /\ \A i \in DOMAIN qs : qs[i] \in Noted
                                          /\ (Rest(b).data \o v) \o t = Frames(qs)
    <2>1. /\ ps # <<>> /\ Body(b) = Head(ps) /\ Rest(b).data \in Bytes
          /\ Rest(b).data \o e = Frames(Tail(ps))
      BY <1>2, <1>3, <1>5, <1>7, <1>8, TakeFirst
    <2>2. /\ Head(ps) = ps[1] /\ 1 \in DOMAIN ps /\ Tail(ps) \in Seq(Bodies)
          /\ \A i \in DOMAIN Tail(ps) : i + 1 \in DOMAIN ps /\ Tail(ps)[i] = ps[i + 1]
      BY <2>1, RestOfSeq
    <2>3. (Rest(b).data \o v) \o t = Frames(Tail(ps))
      BY <1>6, <2>1
    <2>4. QED
      BY <1>1, <2>1, <2>2, <2>3
  <1>9. QED
    BY <1>1, <1>2, <1>4, <1>8

LEMMA ClientRoundAnswers ==
    ASSUME HostState, Views, Answers, NEW c \in Conn, NEW n, Rounds(c, n)
    PROVE  Answers' /\ got' \in [Conn -> Seq(Bytes)]
  <1>1. /\ KeepsTables /\ UNCHANGED <<asked, noted>>
        /\ down' = [down EXCEPT ![c] = StillDown(c)] /\ peer[c] # "exited"
        /\ \A d \in Conn : peer'[d] # "exited" => peer[d] # "exited"
    BY DEF Rounds, HostState, ProgramType
  <1>2. PICK b : /\ cr' = [cr EXCEPT ![c] = b]
                 /\ \/ b = Read(c) /\ got' = got
                    \/ /\ HasPack(Read(c)) /\ b = Rest(Read(c))
                       /\ got' = [got EXCEPT ![c] = Append(@, Body(Read(c)))]
    BY DEF Rounds
  <1>3. Noted' = Noted /\ Noted \subseteq Bytes
    BY <1>1, NotedBodies, BodyBytes DEF Noted, HostState
  <1>4. \A d \in Conn : EndStays(d)
    BY <1>1, TablesKeepEnds
  <1>5. /\ cr \in [Conn -> Buffers] /\ down \in [Conn -> Bytes] /\ got \in [Conn -> Seq(Bytes)]
    BY DEF HostState, ProgramType
  <1>6. ASSUME NEW d \in Conn, d # c, peer'[d] # "exited" PROVE ToCome(d)'
    <2>1. cr'[d] = cr[d] /\ down'[d] = down[d]
      BY <1>1, <1>2, <1>5, <1>6
    <2>2. SameToCome(d) /\ ToCome(d)
      BY <1>1, <1>4, <1>6, <2>1 DEF Answers, SameToCome, EndStays
    <2>3. QED
      BY <1>3, <2>2, ToComeStays
  <1>7. ToCome(c)'
    <2>1. PICK ps \in Seq(Bodies) : /\ \A i \in DOMAIN ps : ps[i] \in Noted
                                    /\ (b.data \o StillDown(c)) \o ToSend(c) = Frames(ps)
      BY <1>2, RoundTakes
    <2>2. cr'[c].data = b.data /\ down'[c] = StillDown(c) /\ ToSend(c)' = ToSend(c)
      BY <1>1, <1>2, <1>4, <1>5 DEF EndStays
    <2>3. (cr'[c].data \o down'[c]) \o ToSend(c)' = Frames(ps)
      BY <2>1, <2>2
    <2>4. QED
      BY <1>3, <2>1, <2>3 DEF ToCome
  <1>8. got' \in [Conn -> Seq(Bytes)] /\ \A d \in Conn : \A i \in DOMAIN got'[d] : got'[d][i] \in Noted
    <2>1. \A d \in Conn : \A i \in DOMAIN got[d] : got[d][i] \in Noted
      BY DEF Answers
    <2>2. CASE got' = got
      BY <1>5, <2>1, <2>2
    <2>3. CASE HasPack(Read(c)) /\ got' = [got EXCEPT ![c] = Append(@, Body(Read(c)))]
      <3>1. PICK body : body = Body(Read(c)) /\ body \in Noted /\ body \in Bytes
        BY <1>3, <2>3, RoundTakes
      <3>2. PICK s \in Seq(Bytes) : s = got[c]
        BY <1>5
      <3>3. /\ Append(s, body) \in Seq(Bytes)
            /\ \A i \in DOMAIN Append(s, body) : (i \in DOMAIN s /\ Append(s, body)[i] = s[i])
                                                 \/ Append(s, body)[i] = body
        BY <3>1, AppendFacts
      <3>4. \A i \in DOMAIN Append(s, body) : Append(s, body)[i] \in Noted
        BY <2>1, <3>1, <3>2, <3>3
      <3>5. got' = [got EXCEPT ![c] = Append(s, body)]
        BY <2>3, <3>1, <3>2
      <3>6. QED
        BY <1>5, <2>1, <3>3, <3>4, <3>5
    <2>4. QED
      BY <1>2, <2>2, <2>3
  <1>9. QED
    BY <1>3, <1>6, <1>7, <1>8 DEF Answers

\* Which packet of its program an event on the queue is.
LEMMA EventNumber ==
    ASSUME HostState, Numbered, NEW i \in DOMAIN queue, queue[i].event = "data"
    PROVE  /\ queue[i].of \in Conn
           /\ noted[queue[i].of] + 1 - Cardinality(PacketsFrom(queue[i].of, i))
                 \in 1 .. noted[queue[i].of]
  <1>1. PICK c, q, n : c = queue[i].of /\ q = queue /\ n = noted[c]
    OBVIOUS
  <1>2. q \in Seq(Note \cup DataEvent) /\ i \in 1 .. Len(q) /\ i \in Nat /\ 1 <= i
    BY <1>1 DEF HostState, HostType
  <1>3. c \in Conn /\ n \in Nat
    <2>1. q[i] \in Note \cup DataEvent
      BY <1>2
    <2>2. c \in Conn
      BY <1>1, <2>1 DEF Note, DataEvent
    <2>3. QED
      BY <1>1, <2>2 DEF HostState, ProgramType
  <1>4. PICK S, T : S = PacketsFrom(c, i) /\ T = PacketsFrom(c, 1)
    OBVIOUS
  <1>5. i \in S /\ S \subseteq T /\ T \subseteq 1 .. Len(q)
    BY <1>1, <1>2, <1>4 DEF PacketsFrom
  <1>6. IsFiniteSet(T) /\ IsFiniteSet(S)
    <2>1. IsFiniteSet(1 .. Len(q))
      BY <1>2, FS_Interval
    <2>2. QED
      BY <1>5, <2>1, FS_Subset
  <1>7. PICK j \in Nat, k \in Nat : j = Cardinality(S) /\ k = Cardinality(T) /\ j <= k /\ k <= n
    BY <1>1, <1>3, <1>4, <1>5, <1>6, FS_Subset, FS_CardinalityType DEF Numbered
  <1>8. j # 0
    BY <1>5, <1>6, <1>7, FS_EmptySet
  <1>9. n + 1 - j \in 1 .. n
    BY <1>3, <1>7, <1>8
  <1>10. QED
    BY <1>1, <1>3, <1>4, <1>7, <1>9

\* A packet on the queue is one that became an event.
LEMMA QueueNoted ==
    ASSUME HostState, Numbered, NEW i \in DOMAIN queue, queue[i].event = "data"
    PROVE  queue[i].data \in Noted
  <1>1. PICK c, k : c = queue[i].of /\ k = noted[c] + 1 - Cardinality(PacketsFrom(c, i))
    OBVIOUS
  <1>2. c \in Conn /\ k \in 1 .. noted[c]
    BY <1>1, EventNumber
  <1>3. queue[i].data = asked[c][k]
    BY <1>1 DEF Numbered
  <1>4. QED
    BY <1>2, <1>3 DEF Noted

LEMMA HandedAnswers ==
    ASSUME HostState, Views, Views', Answers, Numbered, Handed
    PROVE  Answers'
  <1>1. UNCHANGED <<cr, down, asked, noted, peer, got, sock, count, fpos, fdCnt>>
    BY DEF Handed
  <1>2. Noted' = Noted
    BY <1>1 DEF Noted
  <1>3. CASE clients' = clients
    <2>1. KeepsTables
      BY <1>1, <1>3 DEF KeepsTables
    <2>2. ASSUME NEW d \in Conn, peer'[d] # "exited" PROVE ToCome(d)'
      <3>1. SameToCome(d) /\ ToCome(d)
        BY <1>1, <2>1, <2>2, TablesKeepEnds DEF Answers, SameToCome, EndStays
      <3>2. QED
        BY <1>2, <3>1, ToComeStays
    <2>3. QED
      BY <1>1, <1>2, <2>2 DEF Answers
  <1>4. ASSUME NEW p, NEW x, NEW body, Serves(p, x, body)
        PROVE  Answers'
    <2>1. Renewed(p, x) /\ p \in Busy /\ x.wbuf = appendPack(clients[p].wbuf, body)
      BY <1>4, RenewsTables DEF Serves, Renews
    <2>2. PICK o : o = sock[clients[p].sock] /\ o \in Conn
      BY <2>1, SockOf
    <2>3. /\ \A d \in Conn : d # o => EndStays(d)
          /\ ToSend(o)' = x.wbuf.data
      BY <1>1, <2>1, <2>2, RenewedEnds
    <2>4. body \in Noted /\ body \in Bodies /\ body \in Bytes
      <3>1. queue # <<>> /\ Head(queue).event = "data" /\ body = Head(queue).data
        BY <1>4 DEF Serves
      <3>2. Head(queue) = queue[1] /\ 1 \in DOMAIN queue
        BY <3>1, RestOfSeq DEF HostState, HostType
      <3>3. QED
        BY <3>1, <3>2, QueueNoted, NotedBodies, BodyBytes DEF HostState
    <2>5. ASSUME NEW d \in Conn, d # o, peer'[d] # "exited" PROVE ToCome(d)'
      <3>1. SameToCome(d) /\ ToCome(d)
        BY <1>1, <2>3, <2>5 DEF Answers, SameToCome, EndStays
      <3>2. QED
        BY <1>2, <3>1, ToComeStays
    <2>6. ASSUME peer'[o] # "exited" PROVE ToCome(o)'
      <3>1. PICK ps \in Seq(Bodies) : /\ \A i \in DOMAIN ps : ps[i] \in Noted
                                      /\ (cr[o].data \o down[o]) \o ToSend(o) = Frames(ps)
        BY <1>1, <2>2, <2>6 DEF Answers, ToCome
      <3>2. PICK b, r : b = clients[p].wbuf /\ r = cr[o].data \o down[o]
        OBVIOUS
      <3>3. SoundBuf(b) /\ b.data = ToSend(o) /\ b.data \in Bytes /\ r \in Bytes
        <4>1. cr[o].data \in Bytes /\ down[o] \in Bytes
          BY <2>2, SizeIs DEF HostState, ProgramType
        <4>2. QED
          BY <2>1, <2>2, <3>2, <4>1, ClientFacts, BytesJoin DEF Views, HostState
      <3>4. CASE ~Fits(b, body)
        <4>1. x.wbuf.data = b.data
          BY <2>1, <2>4, <3>2, <3>3, <3>4, PackFacts
        <4>2. SameToCome(o)
          BY <1>1, <2>3, <3>3, <4>1 DEF SameToCome
        <4>3. QED
          BY <1>1, <1>2, <2>2, <2>6, <4>2, ToComeStays DEF Answers
      <3>5. CASE Fits(b, body)
        <4>1. PICK fr \in Bytes : fr = Frame(body)
          BY <2>4, FrameFacts
        <4>2. x.wbuf.data = b.data \o fr
          BY <2>1, <2>4, <3>2, <3>3, <3>5, <4>1, PackFacts
        <4>3. PICK d \in Bytes : d = b.data
          BY <3>3
        <4>4. (r \o d) \o fr = r \o (d \o fr)
          BY <3>3, BytesAssociate
        <4>5. PICK qs \in Seq(Bodies) : qs = Append(ps, body)
          BY <2>4, AppendFacts
        <4>6. Frames(qs) = Frames(ps) \o fr
          BY <2>4, <4>1, <4>5, FramesEnd
        <4>7. \A i \in DOMAIN qs : qs[i] \in Noted'
          <5>1. \A i \in DOMAIN qs : (i \in DOMAIN ps /\ qs[i] = ps[i]) \/ qs[i] = body
            BY <4>5, AppendFacts
          <5>2. QED
            BY <1>2, <2>4, <3>1, <5>1
        <4>8. (cr'[o].data \o down'[o]) \o ToSend(o)' = r \o (d \o fr)
          BY <1>1, <2>3, <3>2, <4>2, <4>3
        <4>9. r \o d = Frames(ps)
          BY <3>1, <3>2, <3>3, <4>3
        <4>10. (cr'[o].data \o down'[o]) \o ToSend(o)' = Frames(qs)
          BY <4>4, <4>6, <4>8, <4>9
        <4>11. QED
          BY <4>7, <4>10 DEF ToCome
      <3>6. QED
        BY <3>4, <3>5
    <2>7. QED
      BY <1>1, <1>2, <2>5, <2>6 DEF Answers
  <1>5. QED
    BY <1>3, <1>4 DEF Handed

------------------------------------------------------------------------------
\* The order of the events.  Who holds position q stays the same.
SameHolder(q) ==
    /\ clients'[q] = NULL <=> clients[q] = NULL
    /\ clients[q] # NULL => sock'[clients'[q].sock] = sock[clients[q].sock]

EventsAre == queue \in Seq(Note \cup DataEvent)

LEMMA QueuedFacts ==
    ASSUME EventsAre, NEW i \in DOMAIN queue
    PROVE  i \in Nat /\ 1 <= i /\ i <= Len(queue) /\ Len(queue) \in Nat /\ queue[i].hid \in Pos
  <1>1. queue[i] \in Note \cup DataEvent /\ DOMAIN queue = 1 .. Len(queue) /\ Len(queue) \in Nat
    <2>1. queue \in Seq(Note \cup DataEvent)
      BY DEF EventsAre
    <2>2. QED
      BY <2>1
  <1>2. queue[i].hid \in Pos
    BY <1>1 DEF Note, DataEvent
  <1>3. PICK n \in Nat : n = Len(queue)
    BY <1>1
  <1>4. i \in 1 .. n
    BY <1>1, <1>3
  <1>5. i \in Nat /\ 1 <= i /\ i <= n
    BY <1>4
  <1>6. QED
    BY <1>2, <1>3, <1>5

LEMMA OrderStays ==
    ASSUME EventsAre, EventsInOrder, queue' = queue, \A q \in Pos : SameHolder(q)
    PROVE  EventsInOrder'
  <1>1. \A i, j \in DOMAIN queue' : Adjacent(i, j)' =>
           IF queue'[j].event = "new" THEN queue'[i].event = "leave"
           ELSE queue'[i].event # "leave" /\ queue'[i].of = queue'[j].of
    BY DEF EventsInOrder, Adjacent
  <1>2. ASSUME NEW i \in DOMAIN queue', LastOfHid(i)'
        PROVE  IF queue'[i].event = "leave" THEN clients'[queue'[i].hid] = NULL
               ELSE clients'[queue'[i].hid] # NULL
                    /\ sock'[clients'[queue'[i].hid].sock] = queue'[i].of
    <2>1. LastOfHid(i) /\ i \in DOMAIN queue
      BY <1>2 DEF LastOfHid
    <2>2. IF queue[i].event = "leave" THEN clients[queue[i].hid] = NULL
          ELSE clients[queue[i].hid] # NULL
               /\ sock[clients[queue[i].hid].sock] = queue[i].of
      BY <2>1 DEF EventsInOrder
    <2>3. PICK h \in Pos : h = queue[i].hid
      BY <2>1, QueuedFacts
    <2>4. SameHolder(h)
      OBVIOUS
    <2>5. QED
      BY <2>2, <2>3, <2>4 DEF SameHolder
  <1>3. QED
    BY <1>1, <1>2 DEF EventsInOrder

\* Event e, for whoever is at its host id before and after the step.
Tells(e) ==
    /\ queue' = Append(queue, e) /\ e.hid \in Pos
    /\ IF e.event = "new" THEN clients[e.hid] = NULL
       ELSE clients[e.hid] # NULL /\ sock[clients[e.hid].sock] = e.of
    /\ IF e.event = "leave" THEN clients'[e.hid] = NULL
       ELSE clients'[e.hid] # NULL /\ sock'[clients'[e.hid].sock] = e.of
    /\ \A q \in Pos : q # e.hid => SameHolder(q)

LEMMA OrderAppend ==
    ASSUME EventsAre, EventsInOrder, NEW e, Tells(e)
    PROVE  EventsInOrder'
  <1>0. PICK n \in Nat : n = Len(queue)
    BY DEF EventsAre
  <1>1. PICK q : q = queue /\ n = Len(q) /\ q \in Seq(Note \cup DataEvent) /\ DOMAIN q = 1 .. n
    <2>1. queue \in Seq(Note \cup DataEvent)
      BY DEF EventsAre
    <2>2. DOMAIN queue = 1 .. n
      BY <2>1, <1>0
    <2>3. QED
      BY <2>1, <2>2, <1>0
  <1>2. PICK r : /\ r = queue' /\ DOMAIN r = 1 .. n + 1 /\ Len(r) = n + 1 /\ r[n + 1] = e
                 /\ \A i \in 1 .. n : r[i] = q[i]
    <2>1. queue' = Append(q, e)
      BY <1>1 DEF Tells
    <2>2. /\ DOMAIN Append(q, e) = 1 .. n + 1 /\ Len(Append(q, e)) = n + 1 /\ Append(q, e)[n + 1] = e
          /\ \A i \in 1 .. n : Append(q, e)[i] = q[i]
      BY <1>1
    <2>3. QED
      BY <2>1, <2>2
  <1>3. ASSUME NEW i \in 1 .. n, \A k \in i + 1 .. n : q[k].hid # q[i].hid
        PROVE  /\ q[i].hid \in Pos
               /\ IF q[i].event = "leave" THEN clients[q[i].hid] = NULL
                  ELSE clients[q[i].hid] # NULL /\ sock[clients[q[i].hid].sock] = q[i].of
    <2>1. LastOfHid(i) /\ i \in DOMAIN queue
      BY <1>1, <1>3 DEF LastOfHid
    <2>2. QED
      <3>1. q[i].hid \in Pos
        BY <1>1, <2>1, QueuedFacts
      <3>2. QED
        BY <1>1, <2>1, <3>1 DEF EventsInOrder
  <1>4. ASSUME NEW i \in DOMAIN queue', NEW j \in DOMAIN queue', Adjacent(i, j)'
        PROVE  IF queue'[j].event = "new" THEN queue'[i].event = "leave"
               ELSE queue'[i].event # "leave" /\ queue'[i].of = queue'[j].of
    <2>1. /\ i < j /\ r[i].hid = r[j].hid /\ \A k \in i + 1 .. j - 1 : r[k].hid # r[i].hid
      BY <1>2, <1>4 DEF Adjacent
    <2>2. i \in 1 .. n /\ r[i] = q[i]
      BY <1>2, <2>1
    <2>3. CASE j \in 1 .. n
      <3>1. r[j] = q[j] /\ \A k \in i + 1 .. j - 1 : k \in 1 .. n /\ r[k] = q[k]
        BY <1>2, <2>2, <2>3
      <3>2. Adjacent(i, j)
        BY <1>1, <2>1, <2>2, <3>1 DEF Adjacent
      <3>3. QED
        BY <1>1, <1>2, <2>2, <2>3, <3>1, <3>2 DEF EventsInOrder
    <2>4. CASE j = n + 1
      <3>1. r[j] = e /\ q[i].hid = e.hid
        BY <1>2, <2>1, <2>2, <2>4
      <3>2. \A k \in i + 1 .. n : q[k].hid # q[i].hid
        <4>1. \A k \in i + 1 .. n : k \in i + 1 .. j - 1 /\ k \in 1 .. n
          BY <2>2, <2>4
        <4>2. QED
          BY <1>2, <2>1, <2>2, <4>1
      <3>3. IF q[i].event = "leave" THEN clients[e.hid] = NULL
            ELSE clients[e.hid] # NULL /\ sock[clients[e.hid].sock] = q[i].of
        BY <1>3, <2>2, <3>1, <3>2
      <3>4. QED
        BY <1>2, <2>2, <3>1, <3>3 DEF Tells
    <2>5. QED
      BY <1>2, <2>3, <2>4
  <1>5. ASSUME NEW i \in DOMAIN queue', LastOfHid(i)'
        PROVE  IF queue'[i].event = "leave" THEN clients'[queue'[i].hid] = NULL
               ELSE clients'[queue'[i].hid] # NULL
                    /\ sock'[clients'[queue'[i].hid].sock] = queue'[i].of
    <2>1. \A k \in i + 1 .. n + 1 : r[k].hid # r[i].hid
      BY <1>2, <1>5 DEF LastOfHid
    <2>2. CASE i = n + 1
      BY <1>2, <2>2 DEF Tells
    <2>3. CASE i \in 1 .. n
      <3>1. r[i] = q[i] /\ e.hid # q[i].hid
        <4>1. n + 1 \in i + 1 .. n + 1
          BY <2>3
        <4>2. QED
          BY <1>2, <2>1, <2>3, <4>1
      <3>2. \A k \in i + 1 .. n : q[k].hid # q[i].hid
        <4>1. \A k \in i + 1 .. n : k \in i + 1 .. n + 1 /\ k \in 1 .. n
          BY <2>3
        <4>2. QED
          BY <1>2, <2>1, <3>1, <4>1
      <3>3. /\ q[i].hid \in Pos
            /\ IF q[i].event = "leave" THEN clients[q[i].hid] = NULL
               ELSE clients[q[i].hid] # NULL /\ sock[clients[q[i].hid].sock] = q[i].of
        BY <1>3, <2>3, <3>2
      <3>4. SameHolder(q[i].hid)
        BY <3>1, <3>3 DEF Tells
      <3>5. QED
        BY <1>2, <3>1, <3>3, <3>4 DEF SameHolder
    <2>4. QED
      BY <1>2, <2>2, <2>3
  <1>6. QED
    BY <1>4, <1>5 DEF EventsInOrder

\* An event is taken from the front.
LEMMA OrderTail ==
    ASSUME EventsAre, EventsInOrder, queue # <<>>, queue' = Tail(queue),
           \A q \in Pos : SameHolder(q)
    PROVE  EventsInOrder'
  <1>0. PICK n \in Nat : n + 1 = Len(queue)
    <2>1. PICK l \in Nat \ {0} : l = Len(queue)
      BY RestOfSeq DEF EventsAre
    <2>2. l - 1 \in Nat /\ (l - 1) + 1 = l
      BY <2>1
    <2>3. QED
      BY <2>1, <2>2
  <1>1. PICK q : q = queue /\ n + 1 = Len(q) /\ DOMAIN q = 1 .. n + 1
    BY <1>0, RestOfSeq DEF EventsAre
  <1>2. PICK r : r = queue' /\ DOMAIN r = 1 .. n /\ Len(r) = n /\ \A i \in 1 .. n : r[i] = q[i + 1]
    <2>1. PICK s : s = Tail(queue)
      OBVIOUS
    <2>2. /\ Len(s) = (n + 1) - 1 /\ DOMAIN s = 1 .. (n + 1) - 1
          /\ \A i \in DOMAIN s : s[i] = q[i + 1]
      BY <1>0, <1>1, <2>1, RestOfSeq DEF EventsAre
    <2>3. (n + 1) - 1 = n
      OBVIOUS
    <2>4. QED
      BY <2>1, <2>2, <2>3
  <1>3. ASSUME NEW i \in DOMAIN queue', NEW j \in DOMAIN queue', Adjacent(i, j)'
        PROVE  IF queue'[j].event = "new" THEN queue'[i].event = "leave"
               ELSE queue'[i].event # "leave" /\ queue'[i].of = queue'[j].of
    <2>1. i \in 1 .. n /\ j \in 1 .. n /\ r[i] = q[i + 1] /\ r[j] = q[j + 1]
      BY <1>2
    <2>2. i < j /\ r[i].hid = r[j].hid /\ \A k \in i + 1 .. j - 1 : r[k].hid # r[i].hid
      BY <1>2, <1>3 DEF Adjacent
    <2>3. i + 1 \in 1 .. n + 1 /\ j + 1 \in 1 .. n + 1 /\ i + 1 < j + 1
      BY <2>1, <2>2
    <2>4. ASSUME NEW k \in (i + 1) + 1 .. (j + 1) - 1
          PROVE  q[k].hid # q[i + 1].hid
      <3>1. PICK m \in Int : m = k - 1
        OBVIOUS
      <3>2. m \in i + 1 .. j - 1 /\ m \in 1 .. n /\ m + 1 = k
        BY <2>1, <3>1
      <3>3. r[m] = q[m + 1] /\ r[m].hid # r[i].hid
        BY <1>2, <2>2, <3>2
      <3>4. QED
        BY <2>1, <3>2, <3>3
    <2>5. Adjacent(i + 1, j + 1)
      BY <1>1, <2>1, <2>2, <2>3, <2>4 DEF Adjacent
    <2>6. IF q[j + 1].event = "new" THEN q[i + 1].event = "leave"
          ELSE q[i + 1].event # "leave" /\ q[i + 1].of = q[j + 1].of
      BY <1>1, <2>3, <2>5 DEF EventsInOrder
    <2>7. QED
      BY <1>2, <2>1, <2>6
  <1>4. ASSUME NEW i \in DOMAIN queue', LastOfHid(i)'
        PROVE  IF queue'[i].event = "leave" THEN clients'[queue'[i].hid] = NULL
               ELSE clients'[queue'[i].hid] # NULL
                    /\ sock'[clients'[queue'[i].hid].sock] = queue'[i].of
    <2>1. i \in 1 .. n /\ r[i] = q[i + 1] /\ i + 1 \in 1 .. n + 1
      BY <1>2
    <2>2. \A k \in i + 1 .. n : r[k].hid # r[i].hid
      BY <1>2, <1>4 DEF LastOfHid
    <2>3. ASSUME NEW k \in (i + 1) + 1 .. n + 1
          PROVE  q[k].hid # q[i + 1].hid
      <3>1. PICK m \in Int : m = k - 1
        OBVIOUS
      <3>2. m \in i + 1 .. n /\ m \in 1 .. n /\ m + 1 = k
        BY <2>1, <3>1
      <3>3. r[m] = q[m + 1] /\ r[m].hid # r[i].hid
        BY <1>2, <2>2, <3>2
      <3>4. QED
        BY <2>1, <3>2, <3>3
    <2>4. LastOfHid(i + 1)
      BY <1>1, <2>3 DEF LastOfHid
    <2>5. PICK h, e : e = q[i + 1] /\ h = e.hid /\ h \in Pos
      BY <1>1, <2>1, QueuedFacts
    <2>6. IF e.event = "leave" THEN clients[h] = NULL
          ELSE clients[h] # NULL /\ sock[clients[h].sock] = e.of
      BY <1>1, <2>1, <2>4, <2>5 DEF EventsInOrder
    <2>7. SameHolder(h)
      BY <2>5
    <2>8. QED
      BY <1>2, <2>1, <2>5, <2>6, <2>7 DEF SameHolder
  <1>5. QED
    BY <1>3, <1>4 DEF EventsInOrder

\* Who holds a position, where the tables change.
LEMMA HoldersStay ==
    ASSUME KeepsTables
    PROVE  \A q \in Pos : SameHolder(q)
  BY DEF KeepsTables, SameHolder

LEMMA HoldersRenewed ==
    ASSUME NEW p, NEW x, Renewed(p, x), sock' = sock
    PROVE  \A q \in Pos : SameHolder(q)
  <1>1. /\ Busy' = Busy /\ \A q \in Busy : clients'[q].sock = clients[q].sock
    BY DEF Renewed
  <1>2. \A q \in Pos : clients'[q] = NULL <=> clients[q] = NULL
    BY <1>1 DEF Busy
  <1>3. QED
    BY <1>1, <1>2 DEF SameHolder, Busy

LEMMA HoldersPlaced ==
    ASSUME HostState, NEW pos, NEW f, NEW c, Placed(pos, f, c)
    PROVE  \A q \in Pos : q # pos => SameHolder(q)
  <1>1. /\ Busy' = Busy \cup {pos} /\ \A q \in Busy : clients'[q] = clients[q]
        /\ \A g \in Used : sock'[g] = sock[g]
    BY DEF Placed
  <1>2. SUFFICES ASSUME NEW q \in Pos, q # pos PROVE SameHolder(q)
    OBVIOUS
  <1>3. clients'[q] = NULL <=> clients[q] = NULL
    BY <1>1, <1>2 DEF Busy
  <1>4. ASSUME clients[q] # NULL PROVE sock'[clients'[q].sock] = sock[clients[q].sock]
    <2>1. q \in Busy
      BY <1>4 DEF Busy
    <2>2. QED
      BY <1>1, <2>1, SockOf
  <1>5. QED
    BY <1>3, <1>4 DEF SameHolder

LEMMA HoldersVacated ==
    ASSUME NEW p, NEW f, NEW c, Vacated(p, f, c)
    PROVE  \A q \in Pos : q # p => SameHolder(q)
  <1>1. /\ Busy' = Busy \ {p} /\ \A q \in Busy' : clients'[q] = clients[q] /\ clients[q].sock \in Used'
        /\ \A g \in Used' : sock'[g] = sock[g]
    BY DEF Vacated
  <1>2. SUFFICES ASSUME NEW q \in Pos, q # p PROVE SameHolder(q)
    OBVIOUS
  <1>3. clients'[q] = NULL <=> clients[q] = NULL
    BY <1>1, <1>2 DEF Busy
  <1>4. ASSUME clients[q] # NULL PROVE sock'[clients'[q].sock] = sock[clients[q].sock]
    <2>1. q \in Busy'
      BY <1>1, <1>2, <1>4 DEF Busy
    <2>2. QED
      BY <1>1, <2>1
  <1>5. QED
    BY <1>3, <1>4 DEF SameHolder

\* The steps that tell an event, or take one.
LEMMA AdmitsOrder ==
    ASSUME HostState, EventsInOrder, NEW pos, NEW f, NEW c \in Conn, Admits(pos, f, c)
    PROVE  EventsInOrder'
  <1>1. Placed(pos, f, c) /\ EventsAre
    BY AdmitsTables DEF HostState, HostType, EventsAre
  <1>2. PICK e : e = [event |-> "new", hid |-> pos, of |-> c] /\ queue' = Append(queue, e)
    BY DEF Admits
  <1>3. e.event = "new" /\ e.hid = pos /\ e.of = c
    BY <1>2
  <1>4. pos \in Pos /\ pos \notin Busy /\ clients'[pos] = NewClient(f, pos) /\ sock'[f] = c
    BY <1>1 DEF Placed
  <1>5. PICK x : x = NewClient(f, pos) /\ x # NULL /\ x.sock = f
    BY <1>1, NewClientIs DEF Placed
  <1>6. Tells(e)
    BY <1>1, <1>2, <1>3, <1>4, <1>5, HoldersPlaced DEF Tells, Busy
  <1>7. QED
    BY <1>1, <1>6, OrderAppend

LEMMA ReceivesOrder ==
    ASSUME HostState, EventsInOrder, NEW p, NEW c, NEW x, NEW body,
           Receives(p, c, x, body)
    PROVE  EventsInOrder'
  <1>1. Renewed(p, x) /\ EventsAre /\ sock' = sock
    BY RenewsTables DEF Receives, Renews, HostState, HostType, EventsAre
  <1>2. PICK e : /\ e = [event |-> "data", hid |-> p, of |-> c, data |-> body]
                 /\ queue' = Append(queue, e)
    BY DEF Receives
  <1>3. e.event = "data" /\ e.hid = p /\ e.of = c
    BY <1>2
  <1>4. p \in Pos /\ clients[p] # NULL /\ sock[clients[p].sock] = c
    BY DEF Receives, Busy
  <1>5. \A q \in Pos : SameHolder(q)
    BY <1>1, HoldersRenewed
  <1>6. clients'[p] # NULL /\ sock'[clients'[p].sock] = c
    BY <1>4, <1>5 DEF SameHolder
  <1>7. Tells(e)
    BY <1>2, <1>3, <1>4, <1>5, <1>6 DEF Tells
  <1>8. QED
    BY <1>1, <1>7, OrderAppend

LEMMA LeavesOrder ==
    ASSUME HostState, EventsInOrder, NEW p, NEW f, NEW c, Leaves(p, f, c)
    PROVE  EventsInOrder'
  <1>1. Vacated(p, f, c) /\ EventsAre
    BY LeavesTables DEF HostState, HostType, EventsAre
  <1>2. PICK e : e = [event |-> "leave", hid |-> p, of |-> c] /\ queue' = Append(queue, e)
    BY DEF Leaves
  <1>3. e.event = "leave" /\ e.hid = p /\ e.of = c
    BY <1>2
  <1>4. /\ p \in Pos /\ clients[p] # NULL /\ sock[clients[p].sock] = c /\ clients'[p] = NULL
    BY <1>1 DEF Vacated, Busy
  <1>5. Tells(e)
    BY <1>1, <1>2, <1>3, <1>4, HoldersVacated DEF Tells
  <1>6. QED
    BY <1>1, <1>5, OrderAppend

LEMMA HandedOrder ==
    ASSUME HostState, EventsInOrder, Handed
    PROVE  EventsInOrder'
  <1>1. EventsAre /\ UNCHANGED <<count, fpos, fdCnt, sock>>
    BY DEF Handed, HostState, HostType, EventsAre
  <1>2. \A q \in Pos : SameHolder(q)
    <2>1. CASE clients' = clients
      BY <1>1, <2>1, HoldersStay DEF KeepsTables
    <2>2. ASSUME NEW p, NEW x, NEW body, Serves(p, x, body)
          PROVE  \A q \in Pos : SameHolder(q)
      BY <1>1, <2>2, RenewsTables, HoldersRenewed DEF Serves
    <2>3. QED
      BY <2>1, <2>2 DEF Handed
  <1>3. CASE queue' = queue
    BY <1>1, <1>2, <1>3, OrderStays
  <1>4. CASE queue # <<>> /\ queue' = Tail(queue)
    BY <1>1, <1>2, <1>4, OrderTail
  <1>5. QED
    BY <1>3, <1>4 DEF Handed

------------------------------------------------------------------------------
\* The numbers of the events.  Nothing happens to the queue.
LEMMA NumberedStays ==
    ASSUME HostState, Numbered, queue' = queue, noted' = noted,
           \A d \in Conn : \A k \in 1 .. noted[d] : asked'[d][k] = asked[d][k]
    PROVE  Numbered'
  <1>1. \A c, i : PacketsFrom(c, i)' = PacketsFrom(c, i)
    BY DEF PacketsFrom
  <1>2. ASSUME NEW i \in DOMAIN queue, queue[i].event = "data", NEW c, c = queue[i].of
        PROVE  queue[i].data = asked'[c][noted[c] + 1 - Cardinality(PacketsFrom(c, i))]
    <2>1. PICK k : k = noted[c] + 1 - Cardinality(PacketsFrom(c, i))
      OBVIOUS
    <2>2. c \in Conn /\ k \in 1 .. noted[c]
      BY <1>2, <2>1, EventNumber
    <2>3. queue[i].data = asked[c][k]
      BY <1>2, <2>1 DEF Numbered
    <2>4. QED
      BY <2>1, <2>2, <2>3
  <1>3. QED
    BY <1>1, <1>2 DEF Numbered

\* Packets at the positions of the queue from one on.
LEMMA PacketsFinite ==
    ASSUME EventsAre, NEW c, NEW i \in Nat, 1 <= i
    PROVE  /\ IsFiniteSet(PacketsFrom(c, i)) /\ Cardinality(PacketsFrom(c, i)) \in Nat
           /\ PacketsFrom(c, i) \subseteq i .. Len(queue)
           /\ PacketsFrom(c, i) \subseteq PacketsFrom(c, 1)
           /\ Cardinality(PacketsFrom(c, i)) <= Cardinality(PacketsFrom(c, 1))
  <1>1. PICK n \in Nat : n = Len(queue)
    BY DEF EventsAre
  <1>2. PICK S, T : S = PacketsFrom(c, i) /\ T = PacketsFrom(c, 1)
    OBVIOUS
  <1>3. S \subseteq i .. n /\ T \subseteq 1 .. n /\ S \subseteq T
    BY <1>1, <1>2 DEF PacketsFrom
  <1>4. IsFiniteSet(T)
    <2>1. IsFiniteSet(1 .. n)
      BY FS_Interval
    <2>2. QED
      BY <1>3, <2>1, FS_Subset
  <1>5. IsFiniteSet(S) /\ Cardinality(S) <= Cardinality(T) /\ Cardinality(S) \in Nat
    BY <1>3, <1>4, FS_Subset, FS_CardinalityType
  <1>6. QED
    BY <1>1, <1>2, <1>3, <1>5

\* The queue gets longer by e: what is on it from one position on.
Longer(e) == queue' = Append(queue, e)

LEMMA LongerPackets ==
    ASSUME EventsAre, NEW e, Longer(e), NEW n \in Nat, n = Len(queue)
    PROVE  /\ Len(queue)' = n + 1 /\ DOMAIN queue' = 1 .. n + 1 /\ DOMAIN queue = 1 .. n
           /\ queue'[n + 1] = e /\ \A i \in 1 .. n : queue'[i] = queue[i]
           /\ \A c : \A i \in 1 .. n + 1 :
                 PacketsFrom(c, i)' = PacketsFrom(c, i)
                    \cup (IF e.event = "data" /\ e.of = c THEN {n + 1} ELSE {})
           /\ \A c : PacketsFrom(c, n + 1) = {}
           /\ \A c, i : n + 1 \notin PacketsFrom(c, i)
  <1>1. PICK r, q : r = queue' /\ q = queue
    OBVIOUS
  <1>2. /\ Len(r) = n + 1 /\ DOMAIN r = 1 .. n + 1 /\ DOMAIN q = 1 .. n
        /\ r[n + 1] = e /\ \A i \in 1 .. n : r[i] = q[i]
    <2>1. r = Append(q, e) /\ q \in Seq(Note \cup DataEvent) /\ Len(q) = n
      BY <1>1 DEF Longer, EventsAre
    <2>2. QED
      BY <2>1
  <1>3. ASSUME NEW c, NEW i \in 1 .. n + 1
        PROVE  PacketsFrom(c, i)' = PacketsFrom(c, i)
                  \cup (IF e.event = "data" /\ e.of = c THEN {n + 1} ELSE {})
    <2>1. PICK S : S = {j \in i .. n : q[j].event = "data" /\ q[j].of = c}
      OBVIOUS
    <2>2. PICK T : T = {j \in i .. n + 1 : r[j].event = "data" /\ r[j].of = c}
      OBVIOUS
    <2>3. S = PacketsFrom(c, i) /\ T = PacketsFrom(c, i)'
      BY <1>1, <1>2, <2>1, <2>2 DEF PacketsFrom
    <2>4. i .. n + 1 = (i .. n) \cup {n + 1} /\ \A j \in i .. n : j \in 1 .. n
      OBVIOUS
    <2>5. T = S \cup (IF e.event = "data" /\ e.of = c THEN {n + 1} ELSE {})
      BY <1>2, <2>1, <2>2, <2>4
    <2>6. QED
      BY <2>3, <2>5
  <1>4. (n + 1) .. n = {} /\ \A i : n + 1 \notin i .. n
    <2>1. (n + 1) .. n = {}
      OBVIOUS
    <2>2. \A i : n + 1 \notin i .. n
      OBVIOUS
    <2>3. QED
      BY <2>1, <2>2
  <1>5. \A c : PacketsFrom(c, n + 1) = {} /\ \A i : n + 1 \notin PacketsFrom(c, i)
    BY <1>4 DEF PacketsFrom
  <1>6. QED
    BY <1>1, <1>2, <1>3, <1>5

\* An event that is no packet.
LEMMA NumberedNote ==
    ASSUME HostState, Numbered, NEW e, e.event # "data", Longer(e),
           noted' = noted, asked' = asked
    PROVE  Numbered'
  <1>1. EventsAre
    BY DEF HostState, HostType, EventsAre
  <1>2. PICK n \in Nat : n = Len(queue)
    BY <1>1 DEF EventsAre
  <1>3. /\ DOMAIN queue' = 1 .. n + 1 /\ DOMAIN queue = 1 .. n
        /\ queue'[n + 1] = e /\ \A i \in 1 .. n : queue'[i] = queue[i]
        /\ \A c : \A i \in 1 .. n + 1 : PacketsFrom(c, i)' = PacketsFrom(c, i)
    <2>1. /\ DOMAIN queue' = 1 .. n + 1 /\ DOMAIN queue = 1 .. n
          /\ queue'[n + 1] = e /\ \A i \in 1 .. n : queue'[i] = queue[i]
      BY <1>1, <1>2, LongerPackets
    <2>2. ASSUME NEW c, NEW i \in 1 .. n + 1
          PROVE  PacketsFrom(c, i)' = PacketsFrom(c, i)
      <3>1. PICK S, T : S = PacketsFrom(c, i) /\ T = PacketsFrom(c, i)'
        OBVIOUS
      <3>2. T = S \cup (IF e.event = "data" /\ e.of = c THEN {n + 1} ELSE {})
        BY <1>1, <1>2, <3>1, LongerPackets
      <3>3. T = S
        BY <3>2
      <3>4. QED
        BY <3>1, <3>3
    <2>3. QED
      BY <2>1, <2>2
  <1>4. ASSUME NEW i \in DOMAIN queue', queue'[i].event = "data", NEW c, c = queue'[i].of
        PROVE  queue'[i].data = asked[c][noted[c] + 1 - Cardinality(PacketsFrom(c, i)')]
    <2>1. i \in 1 .. n /\ queue'[i] = queue[i]
      BY <1>3, <1>4
    <2>2. PacketsFrom(c, i)' = PacketsFrom(c, i)
      BY <1>3, <1>4
    <2>3. QED
      BY <1>3, <1>4, <2>1, <2>2 DEF Numbered
  <1>5. \A c \in Conn : Cardinality(PacketsFrom(c, 1)') <= noted[c]
    BY <1>3 DEF Numbered
  <1>6. QED
    BY <1>4, <1>5 DEF Numbered

\* The next packet of a program is an event.
LEMMA NumberedPacket ==
    ASSUME HostState, Numbered, NEW e, e.event = "data", Longer(e),
           NEW c \in Conn, c = e.of, noted' = [noted EXCEPT ![c] = noted[c] + 1],
           e.data = asked[c][noted[c] + 1], asked' = asked
    PROVE  Numbered'
  <1>1. EventsAre
    BY DEF HostState, HostType, EventsAre
  <1>2. PICK n \in Nat : n = Len(queue)
    BY <1>1 DEF EventsAre
  <1>3. PICK m \in Nat : m = noted[c]
    BY DEF HostState, ProgramType
  <1>4. noted'[c] = m + 1 /\ \A d \in Conn : d # c => noted'[d] = noted[d]
    BY <1>3 DEF HostState, ProgramType
  <1>5. /\ DOMAIN queue' = 1 .. n + 1 /\ DOMAIN queue = 1 .. n
        /\ queue'[n + 1] = e /\ \A i \in 1 .. n : queue'[i] = queue[i]
        /\ \A d : d # c => \A i \in 1 .. n + 1 : PacketsFrom(d, i)' = PacketsFrom(d, i)
        /\ \A i \in 1 .. n + 1 : PacketsFrom(c, i)' = PacketsFrom(c, i) \cup {n + 1}
        /\ PacketsFrom(c, n + 1) = {}
        /\ \A i : n + 1 \notin PacketsFrom(c, i)
    <2>1. /\ DOMAIN queue' = 1 .. n + 1 /\ DOMAIN queue = 1 .. n
          /\ queue'[n + 1] = e /\ \A i \in 1 .. n : queue'[i] = queue[i]
          /\ PacketsFrom(c, n + 1) = {}
          /\ \A i : n + 1 \notin PacketsFrom(c, i)
      BY <1>1, <1>2, LongerPackets
    <2>2. ASSUME NEW d, d # c, NEW i \in 1 .. n + 1
          PROVE  PacketsFrom(d, i)' = PacketsFrom(d, i)
      <3>1. PICK S, T : S = PacketsFrom(d, i) /\ T = PacketsFrom(d, i)'
        OBVIOUS
      <3>2. T = S \cup (IF e.event = "data" /\ e.of = d THEN {n + 1} ELSE {})
        BY <1>1, <1>2, <3>1, LongerPackets
      <3>3. T = S
        BY <2>2, <3>2
      <3>4. QED
        BY <3>1, <3>3
    <2>3. ASSUME NEW i \in 1 .. n + 1
          PROVE  PacketsFrom(c, i)' = PacketsFrom(c, i) \cup {n + 1}
      <3>1. PICK S, T : S = PacketsFrom(c, i) /\ T = PacketsFrom(c, i)'
        OBVIOUS
      <3>2. T = S \cup (IF e.event = "data" /\ e.of = c THEN {n + 1} ELSE {})
        BY <1>1, <1>2, <3>1, LongerPackets
      <3>3. T = S \cup {n + 1}
        BY <3>2
      <3>4. QED
        BY <3>1, <3>3
    <2>4. QED
      BY <2>1, <2>2, <2>3
  <1>6. ASSUME NEW i \in 1 .. n + 1
        PROVE  \E k \in Nat : /\ k = Cardinality(PacketsFrom(c, i))
                              /\ Cardinality(PacketsFrom(c, i)') = k + 1
    <2>1. PICK S : S = PacketsFrom(c, i)
      OBVIOUS
    <2>2. IsFiniteSet(S) /\ Cardinality(S) \in Nat
      <3>1. i \in Nat /\ 1 <= i
        OBVIOUS
      <3>2. QED
        BY <1>1, <2>1, <3>1, PacketsFinite
    <2>3. n + 1 \notin S /\ PacketsFrom(c, i)' = S \cup {n + 1}
      BY <1>5, <2>1
    <2>4. Cardinality(S \cup {n + 1}) = Cardinality(S) + 1
      BY <2>2, <2>3, FS_AddElement
    <2>5. QED
      BY <2>1, <2>2, <2>3, <2>4
  <1>7. ASSUME NEW i \in DOMAIN queue', queue'[i].event = "data", NEW d, d = queue'[i].of
        PROVE  queue'[i].data = asked[d][noted'[d] + 1 - Cardinality(PacketsFrom(d, i)')]
    <2>1. CASE i = n + 1
      <3>1. queue'[i] = e /\ d = c
        BY <1>5, <1>7, <2>1
      <3>2. Cardinality(PacketsFrom(c, i)') = 1
        <4>1. PICK k \in Nat : /\ k = Cardinality(PacketsFrom(c, i))
                               /\ Cardinality(PacketsFrom(c, i)') = k + 1
          BY <1>5, <1>6, <2>1
        <4>2. k = 0
          BY <1>5, <2>1, <4>1, FS_EmptySet
        <4>3. QED
          BY <4>1, <4>2
      <3>3. noted'[c] + 1 - 1 = m + 1
        BY <1>4
      <3>4. QED
        BY <1>3, <3>1, <3>2, <3>3
    <2>2. CASE i \in 1 .. n
      <3>1. queue'[i] = queue[i] /\ i \in DOMAIN queue
        BY <1>5, <2>2
      <3>2. queue[i].data = asked[d][noted[d] + 1 - Cardinality(PacketsFrom(d, i))] /\ d \in Conn
        BY <1>7, <3>1, EventNumber DEF Numbered
      <3>3. noted'[d] + 1 - Cardinality(PacketsFrom(d, i)')
              = noted[d] + 1 - Cardinality(PacketsFrom(d, i))
        <4>1. CASE d # c
          <5>1. i \in 1 .. n + 1
            BY <2>2
          <5>2. PacketsFrom(d, i)' = PacketsFrom(d, i) /\ noted'[d] = noted[d]
            BY <1>4, <1>5, <3>2, <4>1, <5>1
          <5>3. QED
            BY <5>2
        <4>2. CASE d = c
          <5>1. i \in 1 .. n + 1
            BY <2>2
          <5>2. PICK k \in Nat : /\ k = Cardinality(PacketsFrom(c, i))
                                 /\ Cardinality(PacketsFrom(c, i)') = k + 1
            BY <1>6, <5>1
          <5>3. (m + 1) + 1 - (k + 1) = m + 1 - k
            OBVIOUS
          <5>4. QED
            BY <1>3, <1>4, <4>2, <5>2, <5>3
        <4>3. QED
          BY <4>1, <4>2
      <3>4. QED
        BY <3>1, <3>2, <3>3
    <2>3. QED
      BY <1>5, <1>7, <2>1, <2>2
  <1>8. ASSUME NEW d \in Conn PROVE Cardinality(PacketsFrom(d, 1)') <= noted'[d]
    <2>1. 1 \in 1 .. n + 1 /\ Cardinality(PacketsFrom(d, 1)) <= noted[d]
      BY DEF Numbered
    <2>2. CASE d # c
      <3>1. PacketsFrom(d, 1)' = PacketsFrom(d, 1) /\ noted'[d] = noted[d]
        BY <1>4, <1>5, <2>1, <2>2
      <3>2. QED
        BY <2>1, <3>1
    <2>3. CASE d = c
      <3>1. PICK k \in Nat : /\ k = Cardinality(PacketsFrom(c, 1))
                             /\ Cardinality(PacketsFrom(c, 1)') = k + 1
        BY <1>6, <2>1
      <3>2. k <= m
        BY <1>3, <2>1, <2>3, <3>1
      <3>3. k + 1 <= m + 1
        BY <3>2
      <3>4. QED
        BY <1>4, <2>3, <3>1, <3>3
    <2>4. QED
      BY <2>2, <2>3
  <1>9. QED
    BY <1>7, <1>8 DEF Numbered

\* The first event is taken: what follows moves up by one.
LEMMA TailPackets ==
    ASSUME EventsAre, queue # <<>>, queue' = Tail(queue), NEW c, NEW i \in Nat, 1 <= i
    PROVE  Cardinality(PacketsFrom(c, i)') = Cardinality(PacketsFrom(c, i + 1))
  <1>0. PICK n \in Nat : n + 1 = Len(queue)
    <2>1. PICK l \in Nat \ {0} : l = Len(queue)
      BY RestOfSeq DEF EventsAre
    <2>2. l - 1 \in Nat /\ (l - 1) + 1 = l
      BY <2>1
    <2>3. QED
      BY <2>1, <2>2
  <1>1. PICK q : q = queue /\ n + 1 = Len(q)
    BY <1>0
  <1>2. PICK r : r = queue' /\ Len(r) = n /\ \A j \in 1 .. n : r[j] = q[j + 1]
    <2>1. PICK s : s = Tail(queue)
      OBVIOUS
    <2>2. /\ Len(s) = (n + 1) - 1 /\ DOMAIN s = 1 .. (n + 1) - 1
          /\ \A j \in DOMAIN s : s[j] = q[j + 1]
      BY <1>0, <1>1, <2>1, RestOfSeq DEF EventsAre
    <2>3. (n + 1) - 1 = n
      OBVIOUS
    <2>4. QED
      BY <2>1, <2>2, <2>3
  <1>3. PICK S : S = {j \in i .. n : r[j].event = "data" /\ r[j].of = c}
    OBVIOUS
  <1>4. PICK T : T = {j \in i + 1 .. n + 1 : q[j].event = "data" /\ q[j].of = c}
    OBVIOUS
  <1>5. S = PacketsFrom(c, i)' /\ T = PacketsFrom(c, i + 1)
    BY <1>1, <1>2, <1>3, <1>4 DEF PacketsFrom
  <1>6. \A j \in S : j \in Nat /\ j \in 1 .. n /\ j + 1 \in T
    BY <1>2, <1>3, <1>4
  <1>7. ASSUME NEW k \in T PROVE \E j \in S : j + 1 = k
    <2>1. PICK j \in Int : j = k - 1
      BY <1>4
    <2>2. j \in i .. n /\ j \in 1 .. n /\ j + 1 = k
      BY <1>4, <2>1
    <2>3. j \in S
      BY <1>2, <1>3, <1>4, <2>2
    <2>4. QED
      BY <2>2, <2>3
  <1>8. PICK g : g = [j \in S |-> j + 1]
    OBVIOUS
  <1>9. g \in Bijection(S, T)
    <2>1. g \in [S -> T]
      BY <1>6, <1>8
    <2>2. \A a, b \in S : g[a] = g[b] => a = b
      BY <1>6, <1>8
    <2>3. \A k \in T : \E j \in S : g[j] = k
      BY <1>7, <1>8
    <2>4. QED
      BY <2>1, <2>2, <2>3 DEF Bijection, Injection, IsInjective, Surjection
  <1>10. IsFiniteSet(S)
    <2>1. S \subseteq 1 .. n
      BY <1>6
    <2>2. IsFiniteSet(1 .. n)
      BY FS_Interval
    <2>3. QED
      BY <2>1, <2>2, FS_Subset
  <1>11. Cardinality(T) = Cardinality(S)
    BY <1>9, <1>10, FS_Bijection DEF ExistsBijection
  <1>12. QED
    BY <1>5, <1>11

LEMMA NumberedTail ==
    ASSUME HostState, Numbered, queue # <<>>, queue' = Tail(queue),
           noted' = noted, asked' = asked
    PROVE  Numbered'
  <1>1. EventsAre
    BY DEF HostState, HostType, EventsAre
  <1>2. ASSUME NEW i \in DOMAIN queue', queue'[i].event = "data", NEW c, c = queue'[i].of
        PROVE  queue'[i].data = asked[c][noted[c] + 1 - Cardinality(PacketsFrom(c, i)')]
    <2>1. i \in Nat /\ 1 <= i /\ i + 1 \in DOMAIN queue /\ queue'[i] = queue[i + 1]
      <3>1. PICK q : q = queue /\ q \in Seq(Note \cup DataEvent) /\ q # <<>>
        BY <1>1 DEF EventsAre
      <3>2. i \in DOMAIN Tail(q)
        BY <1>2, <3>1
      <3>3. PICK n \in Nat \ {0} : n = Len(q) /\ DOMAIN Tail(q) = 1 .. n - 1
        BY <3>1, RestOfSeq
      <3>4. i \in Nat /\ 1 <= i
        BY <3>2, <3>3
      <3>5. i + 1 \in DOMAIN q /\ Tail(q)[i] = q[i + 1]
        BY <3>1, <3>2, RestOfSeq
      <3>6. QED
        BY <3>1, <3>4, <3>5
    <2>2. queue[i + 1].data = asked[c][noted[c] + 1 - Cardinality(PacketsFrom(c, i + 1))]
      BY <1>2, <2>1 DEF Numbered
    <2>3. Cardinality(PacketsFrom(c, i)') = Cardinality(PacketsFrom(c, i + 1))
      BY <1>1, <2>1, TailPackets
    <2>4. QED
      BY <2>1, <2>2, <2>3
  <1>3. ASSUME NEW c \in Conn PROVE Cardinality(PacketsFrom(c, 1)') <= noted[c]
    <2>1. Cardinality(PacketsFrom(c, 1)') = Cardinality(PacketsFrom(c, 1 + 1))
      BY <1>1, TailPackets
    <2>2. PICK a \in Nat, b \in Nat : /\ a = Cardinality(PacketsFrom(c, 1 + 1))
                                      /\ b = Cardinality(PacketsFrom(c, 1)) /\ a <= b
      <3>1. 1 + 1 \in Nat /\ 1 <= 1 + 1 /\ 1 \in Nat /\ 1 <= 1
        OBVIOUS
      <3>2. QED
        BY <1>1, <3>1, PacketsFinite
    <2>3. PICK m \in Nat : m = noted[c]
      BY DEF HostState, ProgramType
    <2>4. b <= m
      BY <2>2, <2>3 DEF Numbered
    <2>5. QED
      BY <2>1, <2>2, <2>3, <2>4
  <1>4. QED
    BY <1>2, <1>3 DEF Numbered

------------------------------------------------------------------------------
\* Every step of the server and its programs keeps the invariant.
LEMMA IdleState ==
    ASSUME HostState, UNCHANGED vars
    PROVE  HostState'
  <1>1. /\ KeepsTables /\ UNCHANGED <<pc, cur>>
        /\ UNCHANGED <<queue, events, edge, backlog, up, down, link, shut, peer, cw, cr, asked, noted, got>>
    BY DEF vars, serverVars, roundVars, kernelVars, peerVars, KeepsTables
  <1>2. Busy' = Busy /\ Used' = Used /\ HostCounts'
    BY <1>1, SameTables DEF HostState
  <1>3. HostType'
    BY <1>1, <1>2 DEF HostState, HostType, KeepsTables
  <1>4. ProgramType'
    BY <1>1 DEF HostState, ProgramType
  <1>5. HostTables'
    BY <1>1, <1>2 DEF HostState, HostTables, KeepsTables
  <1>6. Places' /\ Links'
    BY <1>1, <1>2 DEF HostState, Places, Links, KeepsTables
  <1>7. QED
    BY <1>2, <1>3, <1>4, <1>5, <1>6 DEF HostState

\* The queue, the tables and the packets stay as they are.
LEMMA SameOrder ==
    ASSUME HostInv, KeepsTables, UNCHANGED <<queue, noted>>,
           \A d \in Conn : \A k \in 1 .. noted[d] : asked'[d][k] = asked[d][k]
    PROVE  EventsInOrder' /\ Numbered'
  <1>1. EventsAre /\ EventsInOrder /\ HostState /\ Numbered
    BY DEF HostInv, HostState, HostType, EventsAre
  <1>2. EventsInOrder'
    BY <1>1, HoldersStay, OrderStays
  <1>3. Numbered'
    BY <1>1, NumberedStays
  <1>4. QED
    BY <1>2, <1>3

LEMMA QuietHost ==
    ASSUME HostInv,
           \/ \E c \in Conn : doConnect(c) \/ tryConnect(c) \/ ResetArrives(c)
           \/ doDispatch \/ Stays \/ UNCHANGED vars
    PROVE  HostInv'
  <1> USE DEF serverVars, roundVars, kernelVars, peerVars
  <1>1. HostState /\ Requests /\ Answers
    BY DEF HostInv
  <1>2. HostState'
    BY <1>1, doConnectState, tryConnectState, ResetArrivesState, doDispatchState, StaysState, IdleState
  <1>3. Requests' /\ Answers'
    BY <1>1, QuietSteps, QuietKeeps
  <1>4. KeepsTables /\ UNCHANGED <<queue, noted, asked>>
    BY DEF doConnect, tryConnect, ResetArrives, doDispatch, Stays, vars,
           KeepsTables
  <1>5. EventsInOrder' /\ Numbered'
    BY <1>4, SameOrder
  <1>6. QED
    BY <1>2, <1>3, <1>5 DEF HostInv

LEMMA ScriptSendsHost ==
    ASSUME HostInv, NEW c \in Conn, NEW len \in Lens, ScriptSends(c, len)
    PROVE  HostInv'
  <1>1. HostState /\ Requests /\ Answers /\ Views
    BY ViewsHold DEF HostInv
  <1>2. PICK body : Asks(c, body)
    BY <1>1, ScriptSendsIs
  <1>3. HostState' /\ Requests' /\ Answers'
    BY <1>1, <1>2, ScriptSendsState, ScriptSendsRequests, ScriptSendsAnswers
  <1>4. EventsInOrder' /\ Numbered'
    <2>1. \A d \in Conn : \A k \in 1 .. noted[d] : asked'[d][k] = asked[d][k]
      BY <1>1, <1>2, ScriptSendsNoted
    <2>2. KeepsTables /\ UNCHANGED <<queue, noted>>
      BY <1>2 DEF Asks
    <2>3. QED
      BY <2>1, <2>2, SameOrder
  <1>5. QED
    BY <1>3, <1>4 DEF HostInv

LEMMA ClientRoundHost ==
    ASSUME HostInv, NEW c \in Conn, NEW n \in 0 .. BufLen, ClientRound(c, n)
    PROVE  HostInv'
  <1>1. HostState /\ Requests /\ Answers /\ Views
    BY ViewsHold DEF HostInv
  <1>2. Rounds(c, n)
    BY <1>1, ClientRoundIs
  <1>3. Requests' /\ Answers' /\ got' \in [Conn -> Seq(Bytes)]
    BY <1>1, <1>2, ClientRoundRequests, ClientRoundAnswers
  <1>4. HostState'
    BY <1>1, <1>2, <1>3, ClientRoundState
  <1>5. EventsInOrder' /\ Numbered'
    BY <1>2, SameOrder DEF Rounds
  <1>6. QED
    BY <1>3, <1>4, <1>5 DEF HostInv

LEMMA ExitsHost ==
    ASSUME HostInv, NEW c \in Conn, Exits(c)
    PROVE  HostInv'
  <1>1. HostState /\ Requests /\ Answers /\ Views
    BY ViewsHold DEF HostInv
  <1>2. HostState' /\ Requests' /\ Answers'
    BY <1>1, ExitsState, ExitsRequests, ExitsAnswers
  <1>3. KeepsTables /\ UNCHANGED <<queue, noted, asked>>
    BY DEF Exits, KeepsTables, serverVars, roundVars
  <1>4. EventsInOrder' /\ Numbered'
    BY <1>3, SameOrder
  <1>5. QED
    BY <1>2, <1>4 DEF HostInv

LEMMA HandleListenHost ==
    ASSUME HostInv, HandleListen
    PROVE  HostInv'
  <1>1. HostState /\ Requests /\ Answers /\ Numbered /\ EventsInOrder /\ Views
    BY ViewsHold DEF HostInv
  <1>2. Accepts
    BY <1>1, HandleListenIs
  <1>3. HostState'
    BY <1>1, <1>2, HandleListenState
  <1>4. Views'
    BY <1>3, ViewsStay
  <1>5. Requests' /\ Answers'
    BY <1>1, <1>2, <1>4, AcceptsQuiet, QuietKeeps
  <1>6. EventsInOrder' /\ Numbered'
    <2>1. UNCHANGED <<asked, noted>>
      BY <1>2 DEF Accepts
    <2>2. CASE KeepsTables /\ queue' = queue
      BY <2>1, <2>2, SameOrder
    <2>3. ASSUME NEW pos, NEW f, NEW c, backlog # <<>>, backlog' = Tail(backlog), Admits(pos, f, c)
          PROVE  EventsInOrder' /\ Numbered'
      <3>1. c \in Conn
        BY <1>1, <2>3, BacklogTail DEF Admits
      <3>2. PICK e : e = [event |-> "new", hid |-> pos, of |-> c] /\ queue' = Append(queue, e)
        BY <2>3 DEF Admits
      <3>3. e.event # "data" /\ Longer(e)
        BY <3>2 DEF Longer
      <3>4. QED
        BY <1>1, <2>1, <2>3, <3>1, <3>3, AdmitsOrder, NumberedNote
    <2>4. QED
      BY <1>2, <2>2, <2>3 DEF Accepts, Refuses
  <1>7. QED
    BY <1>3, <1>5, <1>6 DEF HostInv

LEMMA HandleConnHost ==
    ASSUME HostInv, NEW f \in Fd, NEW n \in 0 .. BufLen, HandleConn(f, n)
    PROVE  HostInv'
  <1>1. HostState /\ Requests /\ Answers /\ Numbered /\ EventsInOrder /\ Views
    BY ViewsHold DEF HostInv
  <1>2. PICK p, c, x : Handles(p, c, n, x)
    BY <1>1, HandleConnIs
  <1>3. HostState'
    BY <1>1, <1>2, HandleConnState
  <1>4. Views'
    BY <1>3, ViewsStay
  <1>5. Requests' /\ Answers'
    BY <1>1, <1>2, <1>4, HandleConnRequests, HandleConnAnswers
  <1>6. Renewed(p, x) /\ UNCHANGED <<sock, queue, noted, asked>>
    BY <1>1, <1>2, RenewsTables DEF Handles, Renews
  <1>7. EventsInOrder'
    BY <1>1, <1>6, HoldersRenewed, OrderStays DEF HostState, HostType, EventsAre
  <1>8. Numbered'
    BY <1>1, <1>6, NumberedStays
  <1>9. QED
    BY <1>3, <1>5, <1>7, <1>8 DEF HostInv

LEMMA doRecvHost ==
    ASSUME HostInv, doRecv
    PROVE  HostInv'
  <1>1. HostState /\ Requests /\ Answers /\ Numbered /\ EventsInOrder /\ Views
    BY ViewsHold DEF HostInv
  <1>2. PICK p, c, x, body : Receives(p, c, x, body)
    BY <1>1, doRecvIs
  <1>3. body \in Bytes /\ body = asked[c][noted[c] + 1] /\ noted[c] + 1 <= Len(asked[c])
    BY <1>1, <1>2, FirstToCome, BodyBytes
  <1>4. HostState'
    BY <1>1, <1>2, <1>3, doRecvState
  <1>5. Views'
    BY <1>4, ViewsStay
  <1>6. Requests' /\ Answers'
    BY <1>1, <1>2, <1>5, doRecvRequests, doRecvAnswers
  <1>7. EventsInOrder'
    BY <1>1, <1>2, ReceivesOrder
  <1>8. Numbered'
    <2>1. PICK e : /\ e = [event |-> "data", hid |-> p, of |-> c, data |-> body]
                   /\ queue' = Append(queue, e)
      BY <1>2 DEF Receives
    <2>2. e.event = "data" /\ e.of = c /\ e.data = body /\ Longer(e)
      BY <2>1 DEF Longer
    <2>3. c \in Conn /\ noted' = [noted EXCEPT ![c] = noted[c] + 1] /\ asked' = asked
      BY <1>2 DEF Receives
    <2>4. QED
      BY <1>1, <1>3, <2>2, <2>3, NumberedPacket
  <1>9. QED
    BY <1>4, <1>6, <1>7, <1>8 DEF HostInv

LEMMA ConnDoneHost ==
    ASSUME HostInv, ConnDone
    PROVE  HostInv'
  <1>1. HostState /\ Requests /\ Answers /\ Numbered /\ EventsInOrder /\ Views
    BY ViewsHold DEF HostInv
  <1>2. CASE Stays
    BY <1>2, QuietHost
  <1>3. ASSUME NEW p, NEW f, NEW c, Leaves(p, f, c)
        PROVE  HostInv'
    <2>1. HostState'
      BY <1>1, <1>3, LeavesState
    <2>2. Views'
      BY <2>1, ViewsStay
    <2>3. Requests' /\ Answers'
      BY <1>1, <1>3, <2>2, LeavesQuiet, QuietKeeps
    <2>4. EventsInOrder'
      BY <1>1, <1>3, LeavesOrder
    <2>5. Numbered'
      <3>1. PICK e : e = [event |-> "leave", hid |-> p, of |-> c] /\ queue' = Append(queue, e)
        BY <1>3 DEF Leaves
      <3>2. e.event # "data" /\ Longer(e)
        BY <3>1 DEF Longer
      <3>3. noted' = noted /\ asked' = asked
        BY <1>3 DEF Leaves
      <3>4. QED
        BY <1>1, <3>2, <3>3, NumberedNote
    <2>6. QED
      BY <2>1, <2>3, <2>4, <2>5 DEF HostInv
  <1>4. QED
    BY <1>1, <1>2, <1>3, ConnDoneIs

LEMMA doReadHost ==
    ASSUME HostInv, doRead
    PROVE  HostInv'
  <1>1. HostState /\ Requests /\ Answers /\ Numbered /\ EventsInOrder /\ Views
    BY ViewsHold DEF HostInv
  <1>2. Handed
    BY <1>1, doReadIs
  <1>3. HostState'
    BY <1>1, <1>2, HandedState
  <1>4. Views'
    BY <1>3, ViewsStay
  <1>5. Requests' /\ Answers' /\ EventsInOrder'
    BY <1>1, <1>2, <1>4, HandedRequests, HandedAnswers, HandedOrder
  <1>6. Numbered'
    <2>1. noted' = noted /\ asked' = asked
      BY <1>2 DEF Handed
    <2>2. CASE queue' = queue
      BY <1>1, <2>1, <2>2, NumberedStays
    <2>3. CASE queue # <<>> /\ queue' = Tail(queue)
      BY <1>1, <2>1, <2>3, NumberedTail
    <2>4. QED
      BY <1>2, <2>2, <2>3 DEF Handed
  <1>7. QED
    BY <1>3, <1>5, <1>6 DEF HostInv

LEMMA HostNext == HostInv /\ [Next]_vars => HostInv'
  <1> SUFFICES ASSUME HostInv, [Next]_vars PROVE HostInv'
    OBVIOUS
  <1>1. CASE UNCHANGED vars
    BY <1>1, QuietHost
  <1>2. CASE ServerStep
    <2>1. CASE doDispatch
      BY <2>1, QuietHost
    <2>2. CASE HandleListen
      BY <2>2, HandleListenHost
    <2>3. ASSUME NEW f \in Fd, NEW n \in 0 .. BufLen, HandleConn(f, n)
          PROVE  HostInv'
      BY <2>3, HandleConnHost
    <2>4. CASE doRecv
      BY <2>4, doRecvHost
    <2>5. CASE ConnDone
      BY <2>5, ConnDoneHost
    <2>6. CASE doRead
      BY <2>6, doReadHost
    <2>7. QED
      BY <1>2, <2>1, <2>2, <2>3, <2>4, <2>5, <2>6 DEF ServerStep
  <1>3. ASSUME NEW c \in Conn, doConnect(c) \/ tryConnect(c) \/ ResetArrives(c)
        PROVE  HostInv'
    BY <1>3, QuietHost
  <1>4. ASSUME NEW c \in Conn, Exits(c)
        PROVE  HostInv'
    BY <1>4, ExitsHost
  <1>5. ASSUME NEW c \in Conn, NEW len \in Lens, ScriptSends(c, len)
        PROVE  HostInv'
    BY <1>5, ScriptSendsHost
  <1>6. ASSUME NEW c \in Conn, NEW n \in 0 .. BufLen, ClientRound(c, n)
        PROVE  HostInv'
    BY <1>6, ClientRoundHost
  <1>7. QED
    BY <1>1, <1>2, <1>3, <1>4, <1>5, <1>6 DEF Next

------------------------------------------------------------------------------
\* What the invariant says of the server.
LEMMA InvTables ==
    ASSUME HostInv
    PROVE  TablesAgree
  <1>1. HostState /\ HostType /\ ProgramType /\ HostTables /\ HostCounts
    BY DEF HostInv, HostState
  <1>2. Pos \ Free = Busy /\ DOMAIN fpos = Used
    BY <1>1 DEF Free, Busy, HostTables
  <1>3. TypeOK
    <2>1. pc \in {"wait", "events", "packs", "killed"} /\ cur \in Pos \cup {NULL}
      BY <1>1 DEF HostType
    <2>2. ASSUME NEW b, SoundBuf(b) PROVE Sound(b) /\ NumSeq(b.data)
      <3>1. PICK d : d = b.data /\ d \in Seq(Nat)
        BY <2>2 DEF SoundBuf, Buffers
      <3>2. \A i \in DOMAIN d : d[i] \in Nat
        BY <3>1
      <3>3. QED
        BY <2>2, <3>1, <3>2 DEF SoundBuf, NumSeq
    <2>3. ASSUME NEW p \in Pos, clients[p] # NULL
          PROVE  /\ clients[p].sock \in Fd /\ clients[p].state \in {0, 2}
                 /\ clients[p].hid \in Pos
                 /\ Sound(clients[p].rbuf) /\ Sound(clients[p].wbuf)
                 /\ NumSeq(clients[p].rbuf.data) /\ NumSeq(clients[p].wbuf.data)
      <3>1. p \in Busy
        BY <2>3 DEF Busy
      <3>2. QED
        BY <1>1, <2>2, <3>1, ClientFacts
    <2>4. count \in 0 .. MaxClients /\ fdCnt \in Nat
      <3>1. PICK k \in Nat : k = count /\ k = Cardinality(Busy)
        BY <1>1 DEF HostType, HostCounts
      <3>2. PICK m \in Nat : m = MaxClients /\ m = Cardinality(Pos) /\ IsFiniteSet(Pos)
        BY PlacesFinite
      <3>3. k <= m
        BY <3>1, <3>2, FS_Subset DEF Busy
      <3>4. QED
        BY <1>1, <3>1, <3>2, <3>3 DEF HostType
    <2>5. DOMAIN fpos \subseteq Fd /\ \A f \in DOMAIN fpos : fpos[f] \in Pos
      BY <1>1, <1>2 DEF HostTables, Used
    <2>6. ASSUME NEW i \in DOMAIN queue PROVE EventOK(queue[i])
      <3>1. PICK e : e = queue[i] /\ e \in Note \cup DataEvent
        BY <1>1 DEF HostType
      <3>2. e.event \in {"new", "data", "leave"} /\ e.hid \in Pos /\ e.of \in Conn
        BY <3>1 DEF Note, DataEvent
      <3>3. ASSUME e.event = "data" PROVE NumSeq(e.data)
        <4>1. e \in DataEvent
          BY <3>1, <3>3 DEF Note
        <4>2. PICK d : d = e.data /\ d \in Seq(Nat)
          BY <4>1 DEF DataEvent, Bytes
        <4>3. \A j \in DOMAIN d : d[j] \in Nat
          BY <4>2
        <4>4. QED
          BY <4>2, <4>3 DEF NumSeq
      <3>4. QED
        BY <3>1, <3>2, <3>3 DEF EventOK
    <2>7. /\ events \subseteq Fd \cup {Listen} /\ edge \subseteq Fd \cup {Listen}
          /\ sock \in [Fd -> Conn \cup {NULL}]
      BY <1>1 DEF HostType
    <2>8. /\ peer \in [Conn -> {"none", "1", "2", "0", "exited"}]
          /\ link \in [Conn -> {"open", "fin", "bounced", "dead", "rst"}]
          /\ noted \in [Conn -> Nat]
          /\ \A c \in Conn : Sound(cw[c]) /\ Sound(cr[c])
      BY <1>1, <2>2 DEF ProgramType
    <2>9. QED
      BY <2>1, <2>3, <2>4, <2>5, <2>6, <2>7, <2>8 DEF TypeOK
  <1>4. count = Cardinality(Pos \ Free) /\ fdCnt = count + 1
    BY <1>1, <1>2 DEF HostCounts
  <1>5. /\ \A f \in DOMAIN fpos : clients[fpos[f]] # NULL /\ clients[fpos[f]].sock = f
        /\ \A p \in Busy : clients[p].hid = p /\ clients[p].sock \in DOMAIN fpos
                                              /\ fpos[clients[p].sock] = p
        /\ (events \cup edge) \ {Listen} \subseteq DOMAIN fpos
    BY <1>1, <1>2 DEF HostTables, Busy
  <1>6. DOMAIN fpos = {f \in Fd : sock[f] # NULL}
    BY <1>2 DEF Used
  <1>7. QED
    BY <1>2, <1>3, <1>4, <1>5, <1>6 DEF TablesAgree

LEMMA PrefixIs ==
    ASSUME NEW s \in Bytes, NEW rest \in Bytes, NEW t, s \o rest = t
    PROVE  IsPrefix(s, t)
  <1>1. PICK m \in Nat, n \in Nat : m = Len(s) /\ n = Len(rest) /\ Len(t) = m + n
    BY DEF Bytes
  <1>2. t \in Bytes /\ \A i \in 1 .. m : t[i] = s[i]
    <2>1. \A i \in 1 .. m : i \in 1 .. m + n /\ i <= m
      BY <1>1
    <2>2. t \in Bytes
      BY BytesJoin
    <2>3. \A i \in 1 .. m + n : t[i] = IF i <= m THEN s[i] ELSE rest[i - m]
      BY <1>1, BytesAt
    <2>4. QED
      BY <2>1, <2>2, <2>3
  <1>3. SubSeq(s, 1, m) = s
    BY <1>1, SubSeqFull DEF Bytes
  <1>4. SubSeq(t, 1, m) = s
    <2>1. PICK u : u = SubSeq(t, 1, m)
      OBVIOUS
    <2>2. u \in Seq(Nat) /\ Len(u) = m /\ \A i \in 1 .. m : u[i] = t[i]
      <3>1. 1 \in 1 .. m + n + 1 /\ m \in 1 - 1 .. m + n
        BY <1>1
      <3>2. QED
        BY <1>1, <1>2, <2>1, <3>1, SubSeqProperties DEF Bytes
    <2>3. QED
      BY <1>1, <1>2, <2>1, <2>2, SeqEqual DEF Bytes
  <1>5. m <= m + n
    OBVIOUS
  <1>6. QED
    BY <1>1, <1>3, <1>4, <1>5 DEF IsPrefix

LEMMA InvPackets ==
    ASSUME HostInv
    PROVE  PacketsWhole
  <1>1. HostState /\ Requests /\ Answers /\ Numbered /\ Views
    BY ViewsHold DEF HostInv
  <1>2. \A i \in DOMAIN queue : queue[i].event = "data" =>
          LET c == queue[i].of
          IN  queue[i].data = asked[c][noted[c] + 1 - Cardinality(PacketsFrom(c, i))]
    BY <1>1 DEF Numbered
  <1>3. ASSUME NEW c \in Conn \ shut
        PROVE  IF peer[c] = "exited" THEN IsPrefix(InTransit(c), Outstanding(c))
               ELSE InTransit(c) = Outstanding(c)
    <2>1. PICK rest \in Bytes :
             /\ InTransit(c) \o rest = Outstanding(c)
             /\ peer[c] # "exited" => rest = <<>>
      BY <1>1 DEF Requests, OnItsWay
    <2>2. PICK s : s = InTransit(c) /\ s \in Bytes
      <3>1. Unread(c) \in Bytes /\ up[c] \in Bytes /\ cw[c].data \in Bytes
        BY <1>1, WayIs
      <3>2. QED
        BY <3>1, BytesJoin DEF InTransit
    <2>3. CASE peer[c] = "exited"
      BY <2>1, <2>2, <2>3, PrefixIs
    <2>4. CASE peer[c] # "exited"
      <3>1. s \o <<>> = s
        BY <2>2, ConcatSimplifications DEF Bytes
      <3>2. QED
        BY <2>1, <2>2, <2>4, <3>1
    <2>5. QED
      BY <2>3, <2>4
  <1>4. RequestsFramed
    BY <1>2, <1>3 DEF RequestsFramed
  <1>5. ASSUME NEW c \in Conn, NEW i \in DOMAIN got[c]
        PROVE  \E d \in Conn : \E k \in 1 .. noted[d] : got[c][i] = asked[d][k]
    BY <1>1 DEF Answers, Noted
  <1>6. AnswersWhole
    BY <1>5 DEF AnswersWhole
  <1>7. QED
    BY <1>4, <1>6 DEF PacketsWhole

\* The induction, for any number of programs, positions and packets.
THEOREM HostInvariant == Spec => []HostInv
  <1>1. Init => HostInv
    BY HostInit
  <1>2. HostInv /\ [Next]_vars => HostInv'
    BY HostNext
  <1>3. QED
    BY <1>1, <1>2, PTL DEF Spec

(* _clients, _count, _fpos and _fdCnt of the server tell the same whatever *)
(* comes and goes in a round of epoll, and no event is left for a socket   *)
(* that was closed.                                                        *)
THEOREM TablesAlwaysAgree == Spec => []TablesAgree
  <1>1. HostInv => TablesAgree
    BY InvTables
  <1>2. QED
    BY <1>1, HostInvariant, PTL

(* For each host id the queue has NEW, packets, LEAVE and again, and what  *)
(* is at the position now is what its last event tells.                    *)
THEOREM EventsStayInOrder == Spec => []EventsInOrder
  <1>1. HostInv => EventsInOrder
    BY DEF HostInv
  <1>2. QED
    BY <1>1, HostInvariant, PTL

(* Packets become events once, whole and in the order they were sent, and  *)
(* what a program takes out of its buffer are such packets, wherever recv  *)
(* and send cut the streams and however the buffers grow.                  *)
THEOREM PacketsArriveWhole == Spec => []PacketsWhole
  <1>1. HostInv => PacketsWhole
    BY InvPackets
  <1>2. QED
    BY <1>1, HostInvariant, PTL
================================================================================
