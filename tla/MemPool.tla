------------------------------- MODULE MemPool --------------------------------
(* src/mempool/memorypool.cpp: a list of blocks of cells of one size.  The     *)
(* free cells of a block are chained through the cells themselves, by their    *)
(* numbers; the number in the last one was never written (Garbage), and so is  *)
(* what a program leaves in its cells.  The cells of a block are numbered from *)
(* 0, and a pointer is a block and a number.                                   *)
(*                                                                             *)
(* Sizes are 16 bits wide.  The model is of pools whose blocks are smaller     *)
(* (those of class Node are: 8192 cells of 4 bytes), and of programs that free *)
(* what they have, once.                                                       *)
EXTENDS Integers, Sequences

CONSTANTS Block,     \* the places the heap has for blocks (a bound)
          InitSize, GrowSize, UnitSize,
          UShort,    \* 2^16
          Garbage    \* numbers found where nothing was written

ASSUME PoolAssumption ==
  /\ InitSize \in Nat \ {0} /\ GrowSize \in Nat /\ UnitSize \in Nat \ {0}
  /\ InitSize * UnitSize < UShort /\ GrowSize * UnitSize < UShort /\ UShort \in Nat
  /\ Garbage \subseteq Nat /\ Garbage # {}

VARIABLES chain,  \* the blocks from _pBlock along _pNext
          blocks, \* what is in the memory of each
          lost,   \* blocks that nothing points to any more, and nobody deletes
          live,   \* the cells the program has
          ret     \* the cell the last call returned
vars == <<chain, blocks, lost, live, ret>>

InChain == {chain[i] : i \in DOMAIN chain}
Size(cnt) == (cnt * UnitSize) % UShort

(* The constructor of MemBlock gives the first cell away.                      *)
MemBlock(cnt, junk) ==
  [cnt |-> cnt, free |-> cnt - 1, first |-> 1,
   next |-> [i \in 0..(cnt - 1) |-> IF i < cnt - 1 THEN i + 1 ELSE junk]]

Init == chain = <<>> /\ lost = {} /\ live = {} /\ ret = <<>>
        /\ \E junk \in Garbage : blocks = [b \in Block |-> MemBlock(InitSize, junk)]  \* not in use

-------------------------------------------------------------------------------
Returns(c) == ret' = c /\ live' = live \union {c}

(* The block is new at the front, its first cell the caller's. *)
NewBlock(cnt) ==
  \E b \in Block \ (InChain \union lost), junk \in Garbage :
    /\ blocks' = [blocks EXCEPT ![b] = MemBlock(cnt, junk)]
    /\ chain' = <<b>> \o chain
    /\ Returns(<<b, 0>>)
    /\ UNCHANGED lost

(* Mutant: the block keeps its count.                                          *)
TakeFrom_NoCount(b) ==
  /\ Returns(<<b, blocks[b].first>>)
  /\ blocks' = [blocks EXCEPT ![b].first = blocks[b].next[blocks[b].first]]
  /\ UNCHANGED <<chain, lost>>

Taken(b) == [blocks[b] EXCEPT !.first = blocks[b].next[blocks[b].first], !.free = @ - 1]
TakeFrom(b) ==
  /\ Returns(<<b, blocks[b].first>>)
  /\ blocks' = [blocks EXCEPT ![b] = Taken(b)]
  /\ UNCHANGED <<chain, lost>>

(* The first block with a free cell. *)
FirstFree(i) == /\ i \in DOMAIN chain /\ blocks[chain[i]].free # 0
                /\ \A j \in 1..(i - 1) : blocks[chain[j]].free = 0

allocMem ==
  \/ chain = <<>> /\ NewBlock(InitSize)
  \/ \E i \in DOMAIN chain : FirstFree(i) /\ TakeFrom(chain[i])
  \/ /\ chain # <<>> /\ GrowSize # 0
     /\ \A i \in DOMAIN chain : blocks[chain[i]].free = 0
     /\ NewBlock(GrowSize)

-------------------------------------------------------------------------------
Given(b, i) == [blocks[b] EXCEPT !.free = @ + 1, !.next[i] = blocks[b].first, !.first = i]
(* Mutant: a block is deleted as soon as a cell of it is free.                 *)
Whole_Soon(b) == blocks[b].free >= 0

Whole(b) == (blocks[b].free + 1) * UnitSize = Size(blocks[b].cnt)
Without(k) == [j \in 1..(Len(chain) - 1) |-> IF j < k THEN chain[j] ELSE chain[j + 1]]

(* The block goes to the front, with the successor of the front block as its   *)
(* own: the old front block drops out of the list.  (When the block stood      *)
(* second, that successor is already its own.)                                 *)
ToFront(k) == /\ chain' = [Without(k) EXCEPT ![1] = chain[k]]
              /\ lost' = lost \union {chain[1]}

(* The block that holds the cell; a cell of a lost block is not found.         *)
freeMem(b, i) ==
  /\ <<b, i>> \in live
  /\ live' = live \ {<<b, i>>} /\ ret' = <<>>
  /\ \/ b \notin InChain /\ UNCHANGED <<chain, blocks, lost>>
     \/ \E k \in DOMAIN chain :
          /\ chain[k] = b
          /\ blocks' = [blocks EXCEPT ![b] = Given(b, i)]
          /\ \/ k = 1 /\ UNCHANGED <<chain, lost>>
             \/ k # 1 /\ Whole(b) /\ chain' = Without(k) /\ UNCHANGED lost
             \/ k # 1 /\ ~Whole(b) /\ ToFront(k)

Next == allocMem \/ \E c \in live : freeMem(c[1], c[2])
Spec == Init /\ [][Next]_vars

-------------------------------------------------------------------------------
InUse == InChain \union lost
CellNumbers(b) == 0..(blocks[b].cnt - 1)
FreeCells(b) == {i \in CellNumbers(b) : <<b, i>> \notin live}

Memory(cnt) == [cnt : {cnt}, free : Nat, first : Nat, next : [0..(cnt - 1) -> Nat]]
TypeOK == /\ chain \in Seq(Block) /\ lost \subseteq Block /\ live \subseteq Block \X Nat
          /\ blocks \in [Block -> UNION {Memory(n) : n \in {InitSize, GrowSize} \ {0}}]

(* The list of blocks has none twice and none that is lost (freeMem moves      *)
(* blocks and deletes them).                                                   *)
ChainSound == /\ \A i, j \in DOMAIN chain : chain[i] = chain[j] => i = j
              /\ InChain \cap lost = {}

(* Every cell the program has lies in a block that is not deleted.             *)
LiveInside == \A c \in live : c[1] \in InUse /\ c[2] \in CellNumbers(c[1])

(* s is the way along the chain of the free cells of a block, F. *)
IsWay(m, F, s) ==
  /\ s \in [1..m.free -> F]
  /\ \A i, j \in 1..m.free : s[i] = s[j] => i = j
  /\ \A n \in F : \E i \in 1..m.free : s[i] = n
  /\ m.free > 0 => s[1] = m.first
  /\ \A i \in 1..(m.free - 1) : m.next[s[i]] = s[i + 1]

(* The chain in the cells of a block of the list goes through the cells that   *)
(* are free, each once, and its count is their number.                         *)
FreeChains == \A b \in InChain : \E s \in [1..blocks[b].free -> FreeCells(b)] :
                                    IsWay(blocks[b], FreeCells(b), s)

(* What allocMem and freeMem keep: no block is in the list twice or both in it *)
(* and lost, no block is deleted or written anew while the program has a cell  *)
(* of it, and the numbers in the cells lead through the free cells only: what  *)
(* was never written is never followed.                                        *)
PoolSound == TypeOK /\ ChainSound /\ LiveInside /\ FreeChains

(* The pool keeps the promise of an allocator: a cell given by allocMem is one *)
(* that nobody has, until freeMem takes it back.                               *)
Abstract == INSTANCE Allocator WITH Cell <- Block \X (0..(InitSize + GrowSize))
ImplementsAllocator == Abstract!Spec
===============================================================================
