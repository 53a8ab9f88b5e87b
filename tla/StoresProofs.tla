---------------------------- MODULE StoresProofs -----------------------------
(* The stores of the library that several users reach at once: the collector *)
(* and the arrays it hands out; the tree of the call profiler, which is the  *)
(* log of the calls.  Proved for any items, names, alignments and bounds.    *)
EXTENDS Collector, CallProfiler, SequenceTheorems, FiniteSetTheorems, TLAPS

-----------------------------------------------------------------------------
(* The collector. *)

Cells == Values \cup {Junk}

\* Blocks are as long as they may be and none is at the null pointer.
Blocks == /\ DOMAIN memory \subseteq Addresses
          /\ \A a \in DOMAIN memory : memory[a] \in Seq(Cells) /\ Len(memory[a]) \in 0 .. MaxItems

CollectorInv == unit \in Nat \ {0} /\ CollectorTypeOK /\ NoneDangles /\ Blocks

\* The two action properties, for one step.
Transferred ==
    begin' # begin =>
        /\ \A i \in 1..size : i <= size' => memory'[begin'][i] = memory[begin][i]
        /\ \A x \in arrays : Items(x)' = Items(x)
HandedOut ==
    \A x \in arrays' \ arrays :
        Items(x)' = (IF size = 0 THEN <<>> ELSE SubSeq(memory[begin], 1, size))

\* A block is what a function over its places is.
LEMMA BlockOf ==
    ASSUME NEW n \in 0 .. MaxItems, NEW f \in [1 .. n -> Cells]
    PROVE  f \in Seq(Cells) /\ Len(f) = n
<1>1. n \in Nat
  BY CollectorBounds
<1> QED
  BY <1>1

\* What a block holds stays in it when one item is written.
LEMMA BlockWritten ==
    ASSUME NEW s \in Seq(Cells), NEW i \in 1 .. Len(s), NEW v \in Cells
    PROVE  [s EXCEPT ![i] = v] \in Seq(Cells) /\ Len([s EXCEPT ![i] = v]) = Len(s)
  BY ExceptSeq

\* Who owns a block after a step.
LEMMA OwnedNext ==
    \A a : a \in Owned' <=> a # 0 /\ (a = holder' \/ a \in concrete' \/ \E x \in arrays' : a = x.at)
  BY DEF Owned

\* The items move to a fresh block of the collector's own.
Moved(a, cap, items) ==
    /\ Fresh(a) /\ cap \in 1 .. MaxItems
    /\ unit' = unit /\ arrays' = arrays
    /\ holder' = a /\ concrete' = {} /\ begin' = a /\ endCap' = cap
    /\ size' \in 0 .. cap
    /\ items \in [1 .. cap -> Cells]
    /\ \A i \in 1 .. size : i <= size' => items[i] = memory[begin][i]
    /\ Release(Put(memory, a, items))

\* The parts of the invariant.
LEMMA CollectorParts ==
    ASSUME CollectorInv
    PROVE  /\ holder \in Addresses \cup {0} /\ begin \in Addresses \cup {0}
           /\ size \in Nat /\ endCap \in Nat /\ size \in 0 .. MaxItems /\ endCap \in 0 .. MaxItems
           /\ MaxItems \in Nat /\ 0 \notin Addresses /\ Junk \in Cells /\ Values \subseteq Cells
           /\ \A x \in arrays : x \in [at : Addresses \cup {0}, len : 0 .. MaxItems]
           /\ begin # 0 => begin \in DOMAIN memory /\ endCap <= Len(memory[begin]) /\ size <= endCap
           /\ begin = 0 => size = 0
           /\ \A x \in arrays : x.len > 0 => /\ x.at \in DOMAIN memory \ {holder}
                                             /\ x.len <= Len(memory[x.at])
           /\ DOMAIN memory \subseteq Addresses
           /\ \A a \in DOMAIN memory : /\ memory[a] \in Seq(Cells) /\ Len(memory[a]) \in 0 .. MaxItems
                                       /\ Len(memory[a]) \in Nat
                                       /\ memory[a] \in [1 .. Len(memory[a]) -> Cells]
<1>1. MaxItems \in Nat /\ 0 \notin Addresses /\ Junk \in Cells /\ Values \subseteq Cells
  BY CollectorBounds DEF Cells
<1>2. /\ holder \in Addresses \cup {0} /\ begin \in Addresses \cup {0}
      /\ size \in 0 .. MaxItems /\ endCap \in 0 .. MaxItems
      /\ \A x \in arrays : x \in [at : Addresses \cup {0}, len : 0 .. MaxItems]
  BY DEF CollectorInv, CollectorTypeOK
<1>3. size \in Nat /\ endCap \in Nat
  BY <1>1, <1>2
<1>4. /\ begin # 0 => begin \in DOMAIN memory /\ endCap <= Len(memory[begin]) /\ size <= endCap
      /\ begin = 0 => size = 0
      /\ \A x \in arrays : x.len > 0 => /\ x.at \in DOMAIN memory \ {holder}
                                        /\ x.len <= Len(memory[x.at])
  BY <1>3 DEF CollectorInv, NoneDangles, Capacity
<1>5. /\ DOMAIN memory \subseteq Addresses
      /\ \A a \in DOMAIN memory : memory[a] \in Seq(Cells) /\ Len(memory[a]) \in 0 .. MaxItems
  BY DEF CollectorInv, Blocks
<1>6. \A a \in DOMAIN memory : Len(memory[a]) \in Nat /\ memory[a] \in [1 .. Len(memory[a]) -> Cells]
  BY <1>5, LenProperties, ElementOfSeq
<1> QED
  BY <1>1, <1>2, <1>3, <1>4, <1>5, <1>6

\* What is left of the memory when the blocks go to their owners.
LEMMA Released ==
    ASSUME NEW mem, Release(mem)
    PROVE  /\ DOMAIN memory' = DOMAIN mem \cap Owned'
           /\ \A b \in DOMAIN mem \cap Owned' : memory'[b] = mem[b]
  BY DEF Release

\* The invariant after a step, from its parts.
LEMMA CollectorAgain ==
    ASSUME unit' \in Nat \ {0}, holder' \in Addresses \cup {0}, begin' \in Addresses \cup {0},
           size' \in 0 .. MaxItems, endCap' \in 0 .. MaxItems,
           \A x \in arrays' : x \in [at : Addresses \cup {0}, len : 0 .. MaxItems],
           DOMAIN memory' \subseteq Addresses,
           \A a \in DOMAIN memory' : memory'[a] \in Seq(Cells) /\ Len(memory'[a]) \in 0 .. MaxItems,
           IF begin' = 0 THEN size' <= 0 ELSE size' <= endCap',
           begin' # 0 => begin' \in DOMAIN memory' /\ endCap' <= Len(memory'[begin']),
           IF concrete' # {} THEN holder' = 0 /\ concrete' = {begin'} ELSE begin' = holder',
           \A x \in arrays' : x.len > 0 => /\ x.at \in DOMAIN memory' \ {holder'}
                                           /\ x.len <= Len(memory'[x.at])
    PROVE  CollectorInv'
<1>1. CollectorTypeOK'
  BY DEF CollectorTypeOK, Cells
<1>2. NoneDangles'
  BY DEF NoneDangles, Capacity, Shared
<1>3. Blocks'
  BY DEF Blocks
<1> QED
  BY <1>1, <1>2, <1>3 DEF CollectorInv

\* The step that moves the items keeps them.
LEMMA MovedKeeps ==
    ASSUME CollectorInv, NEW a, NEW cap, NEW items, Moved(a, cap, items)
    PROVE  CollectorInv' /\ Transferred /\ HandedOut
<1> DEFINE mem == Put(memory, a, items)
<1>1. /\ a \in Addresses /\ a \notin DOMAIN memory /\ a # 0
      /\ cap \in 1 .. MaxItems /\ cap \in 0 .. MaxItems /\ cap \in Nat /\ MaxItems \in Nat
      /\ unit' = unit /\ arrays' = arrays
      /\ holder' = a /\ concrete' = {} /\ begin' = a /\ endCap' = cap
      /\ size' \in 0 .. cap /\ items \in [1 .. cap -> Cells]
      /\ \A i \in 1 .. size : i <= size' => items[i] = memory[begin][i]
      /\ Release(mem)
  <2>1. a \in Addresses /\ a \notin DOMAIN memory /\ a # 0
    BY CollectorBounds DEF Moved, Fresh
  <2>2. cap \in 1 .. MaxItems /\ MaxItems \in Nat
    BY CollectorBounds DEF Moved
  <2>3. cap \in 0 .. MaxItems /\ cap \in Nat
    BY <2>2
  <2>4. /\ unit' = unit /\ arrays' = arrays
        /\ holder' = a /\ concrete' = {} /\ begin' = a /\ endCap' = cap
        /\ size' \in 0 .. cap /\ items \in [1 .. cap -> Cells]
        /\ \A i \in 1 .. size : i <= size' => items[i] = memory[begin][i]
    BY DEF Moved
  <2>5. Release(mem)
    BY DEF Moved
  <2> QED
    BY <2>1, <2>2, <2>3, <2>4, <2>5
<1>2. items \in Seq(Cells) /\ Len(items) = cap
  BY <1>1, BlockOf
<1>3. /\ DOMAIN mem = DOMAIN memory \cup {a}
      /\ mem[a] = items
      /\ \A b \in DOMAIN memory : b # a => mem[b] = memory[b]
  BY DEF Put
<1>4. /\ DOMAIN memory' = DOMAIN mem \cap Owned'
      /\ \A b \in DOMAIN mem \cap Owned' : memory'[b] = mem[b]
  BY <1>1, Released
<1> HIDE DEF mem
<1>5. a \in DOMAIN memory' /\ memory'[a] = items
  BY <1>1, <1>3, <1>4, OwnedNext
<1>6. \A x \in arrays : x.len > 0 => /\ x.at \in DOMAIN memory' /\ memory'[x.at] = memory[x.at]
                                     /\ x.at # a /\ x.len <= Len(memory[x.at])
  <2> TAKE x \in arrays
  <2> HAVE x.len > 0
  <2>1. x.at \in DOMAIN memory /\ x.at \in Addresses /\ x.at # 0 /\ x.len <= Len(memory[x.at])
    BY CollectorParts
  <2>2. x.at \in Owned'
    BY <1>1, <2>1, OwnedNext
  <2> QED
    BY <1>1, <1>3, <1>4, <2>1, <2>2
<1>7. CollectorInv'
  <2>1. unit' \in Nat \ {0} /\ size' \in 0 .. MaxItems /\ size' <= cap
    BY <1>1 DEF CollectorInv
  <2>2. \A x \in arrays' : x \in [at : Addresses \cup {0}, len : 0 .. MaxItems]
    BY <1>1, CollectorParts
  <2>3. /\ DOMAIN memory' \subseteq Addresses
        /\ \A b \in DOMAIN memory' : memory'[b] \in Seq(Cells) /\ Len(memory'[b]) \in 0 .. MaxItems
    <3>1. \A b \in DOMAIN memory : b \in Addresses /\ memory[b] \in Seq(Cells) /\ Len(memory[b]) \in 0 .. MaxItems
      BY CollectorParts
    <3> QED
      BY <1>1, <1>2, <1>3, <1>4, <3>1
  <2>4. \A x \in arrays' : x.len > 0 => /\ x.at \in DOMAIN memory' \ {holder'}
                                        /\ x.len <= Len(memory'[x.at])
    BY <1>1, <1>6
  <2> QED
    BY <1>1, <1>2, <1>5, <2>1, <2>2, <2>3, <2>4, CollectorAgain
<1>8. Transferred
  <2>1. \A x \in arrays : Items(x)' = Items(x)
    BY <1>6, CollectorParts DEF Items
  <2> QED
    BY <1>1, <1>5, <2>1 DEF Transferred
<1>9. HandedOut
  BY <1>1 DEF HandedOut
<1> QED
  BY <1>7, <1>8, <1>9

\* Copying to a larger block gives the items, and what a fresh block holds.
LEMMA CopyKeeps ==
    ASSUME CollectorInv, NEW n \in Nat, size <= n
    PROVE  /\ Copied(n) \in [1 .. n -> Cells]
           /\ \A i \in 1 .. size : Copied(n)[i] = memory[begin][i]
<1>1. ASSUME NEW i \in 1 .. n, i <= size PROVE memory[begin][i] \in Cells
  <2>1. begin # 0 /\ begin \in DOMAIN memory /\ size <= endCap /\ endCap <= Len(memory[begin])
        /\ size \in Nat /\ endCap \in Nat
    BY <1>1, CollectorParts
  <2>2. memory[begin] \in [1 .. Len(memory[begin]) -> Cells] /\ Len(memory[begin]) \in Nat
    BY <2>1, CollectorParts
  <2>3. i \in 1 .. Len(memory[begin])
    BY <1>1, <2>1, <2>2
  <2> QED
    BY <2>2, <2>3
<1>2. Junk \in Cells /\ size \in Nat
  BY CollectorParts
<1> QED
  BY <1>1, <1>2 DEF Copied

\* Growing moves the items.
LEMMA GrowKeeps ==
    ASSUME CollectorInv, NEW a, NEW n, Grow(a, n), n \in 0 .. MaxItems
    PROVE  CollectorInv' /\ Transferred /\ HandedOut
<1>1. size \in Nat /\ Capacity \in Nat /\ size <= Capacity /\ MaxItems \in Nat
  BY CollectorParts DEF Capacity, CollectorInv, NoneDangles
<1>2. n > Capacity /\ n \in Nat /\ n \in 1 .. MaxItems /\ size <= n
  BY <1>1 DEF Grow
<1>3. Moved(a, n, Copied(n))
  <2>1. /\ Copied(n) \in [1 .. n -> Cells]
        /\ \A i \in 1 .. size : Copied(n)[i] = memory[begin][i]
    BY <1>2, CopyKeeps
  <2>2. size \in 0 .. n
    BY <1>1, <1>2
  <2> QED
    BY <1>2, <2>1, <2>2 DEF Moved, Grow, Move, LetGo
<1> QED
  BY <1>3, MovedKeeps

\* A step that leaves the memory and the arrays alone.
LEMMA ResizedKeeps ==
    ASSUME CollectorInv, size' \in Nat, size' <= Capacity,
           UNCHANGED <<unit, holder, concrete, begin, endCap, arrays, memory>>
    PROVE  CollectorInv' /\ Transferred /\ HandedOut
<1>1. Capacity' = Capacity /\ Shared' = Shared
  BY DEF Capacity, Shared
<1>2. NoneDangles'
  BY <1>1 DEF CollectorInv, NoneDangles
<1>3. size' \in 0 .. MaxItems
  BY CollectorParts DEF Capacity
<1>4. CollectorTypeOK' /\ Blocks'
  BY <1>3 DEF CollectorInv, CollectorTypeOK, Blocks
<1>5. CollectorInv'
  BY <1>2, <1>4 DEF CollectorInv
<1> QED
  BY <1>5 DEF Transferred, HandedOut

\* Setting the size moves the items only when there is no room.
LEMMA ExpandKeeps ==
    ASSUME CollectorInv, NEW a, NEW n, Expand(a, n), n \in 0 .. MaxItems
    PROVE  CollectorInv' /\ Transferred /\ HandedOut
<1>1. size \in Nat /\ Capacity \in Nat /\ size <= Capacity /\ MaxItems \in Nat
  BY CollectorParts DEF Capacity, CollectorInv, NoneDangles
<1>2. n \in Nat /\ size' = n
  BY DEF Expand
<1>3. CASE n > Capacity
  <2>1. n \in 1 .. MaxItems /\ size <= n /\ n \in 0 .. n
    BY <1>1, <1>2, <1>3
  <2>2. /\ Copied(n) \in [1 .. n -> Cells]
        /\ \A i \in 1 .. size : Copied(n)[i] = memory[begin][i]
    BY <1>2, <2>1, CopyKeeps
  <2>3. Moved(a, n, Copied(n))
    BY <1>3, <2>1, <2>2 DEF Moved, Expand, Move, LetGo
  <2> QED
    BY <2>3, MovedKeeps
<1>4. CASE ~(n > Capacity)
  BY <1>1, <1>2, <1>4, ResizedKeeps DEF Expand
<1> QED
  BY <1>3, <1>4

\* One item is written in place.
Written(b, i, v) ==
    /\ b \in DOMAIN memory /\ i \in 1 .. Len(memory[b]) /\ v \in Cells
    /\ memory' = [memory EXCEPT ![b][i] = v]
    /\ size' \in Nat /\ size' <= Capacity
    /\ UNCHANGED <<unit, holder, concrete, begin, endCap, arrays>>

\* Writing an item moves nothing.
LEMMA WrittenKeeps ==
    ASSUME CollectorInv, NEW b, NEW i, NEW v, Written(b, i, v)
    PROVE  CollectorInv' /\ Transferred /\ HandedOut
<1>1. /\ \A c \in DOMAIN memory : memory[c] \in Seq(Cells) /\ Len(memory[c]) \in 0 .. MaxItems
      /\ DOMAIN memory \subseteq Addresses
  BY CollectorParts
<1>2. [memory[b] EXCEPT ![i] = v] \in Seq(Cells) /\ Len([memory[b] EXCEPT ![i] = v]) = Len(memory[b])
  BY <1>1, BlockWritten DEF Written
<1>3. /\ DOMAIN memory' = DOMAIN memory
      /\ \A c \in DOMAIN memory : memory'[c] = IF c = b THEN [memory[b] EXCEPT ![i] = v] ELSE memory[c]
  BY DEF Written
<1>4. \A c \in DOMAIN memory : memory'[c] \in Seq(Cells) /\ Len(memory'[c]) = Len(memory[c])
  BY <1>1, <1>2, <1>3
<1>5. Blocks'
  BY <1>1, <1>3, <1>4 DEF Blocks
<1>6. Capacity' = Capacity /\ Shared' = Shared
  BY DEF Capacity, Shared, Written
<1>7. NoneDangles'
  BY <1>3, <1>4, <1>6 DEF CollectorInv, NoneDangles, Written
<1>8. size' \in 0 .. MaxItems
  BY CollectorParts DEF Capacity, Written
<1>9. CollectorTypeOK'
  BY <1>3, <1>4, <1>8 DEF CollectorInv, CollectorTypeOK, Written, Cells
<1>10. CollectorInv'
  BY <1>5, <1>7, <1>9 DEF CollectorInv, Written
<1> QED
  BY <1>10 DEF Transferred, HandedOut, Written

\* Pushing an item doubles a full block and writes into any other.
LEMMA PushKeeps ==
    ASSUME CollectorInv, NEW a, NEW v \in Values, PushBack(a, v)
    PROVE  CollectorInv' /\ Transferred /\ HandedOut
<1>1. size \in Nat /\ Capacity \in Nat /\ size <= Capacity /\ MaxItems \in Nat /\ v \in Cells
  BY CollectorParts DEF Capacity, CollectorInv, NoneDangles
<1>2. size' = size + 1
  BY DEF PushBack
<1>3. CASE Full
  <2> DEFINE n == Doubled
             items == [Copied(n) EXCEPT ![size + 1] = v]
  <2>1. n \in Nat /\ size + 1 <= n
    BY <1>1, <1>3 DEF Full, Doubled
  <2>2. /\ unit' = unit /\ arrays' = arrays /\ Move(a, n)
        /\ Release(Put(memory, a, items))
    BY <1>3 DEF PushBack
  <2> HIDE DEF n
  <2>3. /\ Copied(n) \in [1 .. n -> Cells]
        /\ \A i \in 1 .. size : Copied(n)[i] = memory[begin][i]
    BY <1>1, <2>1, CopyKeeps
  <2>4. size + 1 \in 1 .. n /\ size' \in 0 .. n
    BY <1>1, <1>2, <2>1
  <2>5. /\ items \in [1 .. n -> Cells]
        /\ \A i \in 1 .. size : items[i] = memory[begin][i]
    BY <1>1, <2>3, <2>4
  <2> HIDE DEF items
  <2>6. n \in 1 .. MaxItems
    BY <1>1, <2>1, <2>2 DEF Move
  <2>7. Moved(a, n, items)
    BY <2>2, <2>4, <2>5, <2>6 DEF Moved, Move, LetGo
  <2> QED
    BY <2>7, MovedKeeps
<1>4. CASE ~Full
  <2>1. begin # 0 /\ Capacity = endCap /\ size + 1 <= Capacity
    <3>1. Capacity # 0 /\ size # Capacity
      BY <1>4 DEF Full
    <3>2. begin # 0 /\ Capacity = endCap
      BY <3>1 DEF Capacity
    <3> QED
      BY <1>1, <3>1, <3>2
  <2>2. begin \in DOMAIN memory /\ endCap <= Len(memory[begin]) /\ Len(memory[begin]) \in Nat
    BY <2>1, CollectorParts
  <2>3. size + 1 \in 1 .. Len(memory[begin])
    BY <1>1, <2>1, <2>2
  <2>4. Written(begin, size + 1, v)
    BY <1>1, <1>2, <1>4, <2>1, <2>2, <2>3 DEF PushBack, Written
  <2> QED
    BY <2>4, WrittenKeeps
<1> QED
  BY <1>3, <1>4

\* Taking an item off the end, or all of them.
LEMMA ShrinkKeeps ==
    ASSUME CollectorInv, PopBack \/ Clear
    PROVE  CollectorInv' /\ Transferred /\ HandedOut
<1>1. size \in Nat /\ Capacity \in Nat /\ size <= Capacity
  BY CollectorParts DEF Capacity, CollectorInv, NoneDangles
<1>2. size' \in Nat /\ size' <= Capacity
  BY <1>1 DEF PopBack, Clear, Poppable
<1>3. UNCHANGED <<unit, holder, concrete, begin, endCap, arrays, memory>>
  BY DEF PopBack, Clear
<1> QED
  BY <1>2, <1>3, ResizedKeeps

\* Writing an item of the collector.
LEMMA SetKeeps ==
    ASSUME CollectorInv, NEW i \in 1 .. MaxItems, NEW v \in Values, Set(i, v)
    PROVE  CollectorInv' /\ Transferred /\ HandedOut
<1>1. /\ size \in Nat /\ Capacity \in Nat /\ size <= Capacity /\ MaxItems \in Nat /\ v \in Cells
      /\ i \in Nat /\ i <= size /\ i >= 1 /\ endCap \in Nat
  BY CollectorParts DEF Capacity, CollectorInv, NoneDangles, Set
<1>2. begin # 0 /\ begin \in DOMAIN memory /\ endCap <= Len(memory[begin]) /\ size <= endCap
  BY <1>1, CollectorParts
<1>3. Len(memory[begin]) \in Nat
  BY <1>2, CollectorParts
<1>4. i \in 1 .. Len(memory[begin])
  BY <1>1, <1>2, <1>3
<1>5. Written(begin, i, v)
  BY <1>1, <1>2, <1>4 DEF Set, Written
<1> QED
  BY <1>5, WrittenKeeps

\* Writing an item through an array, shared with the collector or not.
LEMMA WriteArrayKeeps ==
    ASSUME CollectorInv, NEW x \in arrays, NEW i \in 1 .. MaxItems, NEW v \in Values, WriteArray(x, i, v)
    PROVE  CollectorInv' /\ Transferred /\ HandedOut
<1>1. /\ size \in Nat /\ size <= Capacity /\ MaxItems \in Nat /\ v \in Cells
      /\ x.len \in 0 .. MaxItems
  BY CollectorParts DEF CollectorInv, NoneDangles
<1>2. i \in Nat /\ i >= 1 /\ x.len \in Nat /\ i <= x.len
  BY <1>1 DEF WriteArray
<1>3. x.len > 0
  BY <1>2
<1>4. x.at \in DOMAIN memory /\ x.len <= Len(memory[x.at])
  BY <1>3, CollectorParts
<1>5. Len(memory[x.at]) \in Nat
  BY <1>4, CollectorParts
<1>6. i \in 1 .. Len(memory[x.at])
  BY <1>2, <1>4, <1>5
<1>7. Written(x.at, i, v)
  BY <1>1, <1>4, <1>6 DEF WriteArray, Written
<1> QED
  BY <1>7, WrittenKeeps

\* Dropping an array frees its block only when nobody else owns it.
LEMMA DropKeeps ==
    ASSUME CollectorInv, NEW x \in arrays, DropArray(x)
    PROVE  CollectorInv' /\ Transferred /\ HandedOut
<1>1. /\ unit' = unit /\ holder' = holder /\ concrete' = concrete /\ begin' = begin
      /\ size' = size /\ endCap' = endCap /\ arrays' = arrays \ {x} /\ Release(memory)
  BY DEF DropArray
<1>2. /\ DOMAIN memory' = DOMAIN memory \cap Owned'
      /\ \A b \in DOMAIN memory \cap Owned' : memory'[b] = memory[b]
  BY <1>1, Released
<1>3. begin # 0 => begin \in DOMAIN memory' /\ endCap' <= Len(memory'[begin])
  <2> HAVE begin # 0
  <2>1. begin \in DOMAIN memory /\ endCap <= Len(memory[begin])
    BY CollectorParts
  <2>2. begin = holder' \/ begin \in concrete'
    BY <1>1 DEF CollectorInv, NoneDangles, Shared
  <2>3. begin \in Owned'
    BY <2>2, OwnedNext
  <2> QED
    BY <1>1, <1>2, <2>1, <2>3
<1>4. \A y \in arrays' : y.len > 0 => /\ y.at \in DOMAIN memory' \ {holder'}
                                      /\ y.len <= Len(memory'[y.at])
  <2> TAKE y \in arrays'
  <2> HAVE y.len > 0
  <2>1. y \in arrays
    BY <1>1
  <2>2. y.at \in DOMAIN memory \ {holder} /\ y.len <= Len(memory[y.at])
    BY <2>1, CollectorParts
  <2>3. y.at # 0
    BY <2>2, CollectorParts
  <2>4. y.at \in Owned'
    BY <2>3, OwnedNext
  <2> QED
    BY <1>1, <1>2, <2>2, <2>4
<1>5. CollectorInv'
  <2>1. /\ unit' \in Nat \ {0} /\ holder' \in Addresses \cup {0} /\ begin' \in Addresses \cup {0}
        /\ size' \in 0 .. MaxItems /\ endCap' \in 0 .. MaxItems
    BY <1>1, CollectorParts DEF CollectorInv
  <2>2. \A y \in arrays' : y \in [at : Addresses \cup {0}, len : 0 .. MaxItems]
    BY <1>1, CollectorParts
  <2>3. /\ DOMAIN memory' \subseteq Addresses
        /\ \A b \in DOMAIN memory' : memory'[b] \in Seq(Cells) /\ Len(memory'[b]) \in 0 .. MaxItems
    <3>1. \A b \in DOMAIN memory : b \in Addresses /\ memory[b] \in Seq(Cells) /\ Len(memory[b]) \in 0 .. MaxItems
      BY CollectorParts
    <3> QED
      BY <1>2, <3>1
  <2>4. IF begin' = 0 THEN size' <= 0 ELSE size' <= endCap'
    BY <1>1 DEF CollectorInv, NoneDangles, Capacity
  <2>5. IF concrete' # {} THEN holder' = 0 /\ concrete' = {begin'} ELSE begin' = holder'
    BY <1>1 DEF CollectorInv, NoneDangles, Shared
  <2>6. begin' # 0 => begin' \in DOMAIN memory' /\ endCap' <= Len(memory'[begin'])
    BY <1>1, <1>3
  <2> QED
    BY <1>4, <2>1, <2>2, <2>3, <2>4, <2>5, <2>6, CollectorAgain
<1>6. Transferred /\ HandedOut
  BY <1>1 DEF Transferred, HandedOut
<1> QED
  BY <1>5, <1>6

\* Lists that agree as far as n begin alike.
LEMMA SamePrefix ==
    ASSUME NEW S, NEW n \in Nat, NEW s \in Seq(S), NEW t \in Seq(S), n <= Len(s), n <= Len(t),
           \A i \in 1 .. n : s[i] = t[i]
    PROVE  SubSeq(s, 1, n) = SubSeq(t, 1, n)
<1>1. Len(s) \in Nat /\ Len(t) \in Nat
  BY LenProperties
<1>2. /\ SubSeq(s, 1, n) \in Seq(S) /\ Len(SubSeq(s, 1, n)) = n
      /\ \A i \in 1 .. n : SubSeq(s, 1, n)[i] = s[i]
  BY <1>1, SubSeqProperties
<1>3. /\ SubSeq(t, 1, n) \in Seq(S) /\ Len(SubSeq(t, 1, n)) = n
      /\ \A i \in 1 .. n : SubSeq(t, 1, n)[i] = t[i]
  BY <1>1, SubSeqProperties
<1>4. \A i \in 1 .. Len(SubSeq(s, 1, n)) : SubSeq(s, 1, n)[i] = SubSeq(t, 1, n)[i]
  BY <1>2, <1>3
<1> QED
  BY <1>2, <1>3, <1>4, SeqEqual

\* Handing out an array of the buffer the collector already shares.
LEMMA ShareKeeps ==
    ASSUME CollectorInv, NEW a, AsArray(a), Shared
    PROVE  CollectorInv' /\ Transferred /\ HandedOut
<1>1. /\ unit' = unit /\ size' = size /\ holder' = holder /\ concrete' = concrete /\ begin' = begin
      /\ memory' = memory /\ endCap' = (IF begin = 0 THEN 0 ELSE Len(memory[begin]))
      /\ arrays' = arrays \cup {Array(begin)}
  BY DEF AsArray
<1>2. /\ Array(begin).at = begin /\ Array(begin).len = size
      /\ Array(begin) \in [at : Addresses \cup {0}, len : 0 .. MaxItems]
  BY CollectorParts DEF Array
<1>3. holder = 0 /\ concrete = {begin} /\ concrete # {}
  BY DEF CollectorInv, NoneDangles, Shared
<1>4. begin # 0 => /\ begin \in DOMAIN memory /\ size <= Len(memory[begin])
                   /\ Len(memory[begin]) \in 0 .. MaxItems
  <2> HAVE begin # 0
  <2>1. /\ begin \in DOMAIN memory /\ endCap <= Len(memory[begin]) /\ size <= endCap
        /\ size \in Nat /\ endCap \in Nat
    BY CollectorParts
  <2>2. Len(memory[begin]) \in 0 .. MaxItems /\ Len(memory[begin]) \in Nat
    BY <2>1, CollectorParts
  <2> QED
    BY <2>1, <2>2
<1>5. CollectorInv'
  <2>1. /\ unit' \in Nat \ {0} /\ holder' \in Addresses \cup {0} /\ begin' \in Addresses \cup {0}
        /\ size' \in 0 .. MaxItems
    BY <1>1, CollectorParts DEF CollectorInv
  <2>2. endCap' \in 0 .. MaxItems
    BY <1>1, <1>4, CollectorParts
  <2>3. \A x \in arrays' : x \in [at : Addresses \cup {0}, len : 0 .. MaxItems]
    BY <1>1, <1>2, CollectorParts
  <2>4. /\ DOMAIN memory' \subseteq Addresses
        /\ \A b \in DOMAIN memory' : memory'[b] \in Seq(Cells) /\ Len(memory'[b]) \in 0 .. MaxItems
    BY <1>1, CollectorParts
  <2>5. IF begin' = 0 THEN size' <= 0 ELSE size' <= endCap'
    BY <1>1, <1>4, CollectorParts
  <2>6. begin' # 0 => begin' \in DOMAIN memory' /\ endCap' <= Len(memory'[begin'])
    BY <1>1, <1>4
  <2>7. \A x \in arrays' : x.len > 0 => /\ x.at \in DOMAIN memory' \ {holder'}
                                        /\ x.len <= Len(memory'[x.at])
    <3>1. ASSUME size > 0 PROVE begin # 0
      BY <3>1, CollectorParts
    <3> QED
      BY <1>1, <1>2, <1>3, <1>4, <3>1, CollectorParts
  <2> QED
    BY <1>1, <1>3, <2>1, <2>2, <2>3, <2>4, <2>5, <2>6, <2>7, CollectorAgain
<1>6. Transferred
  BY <1>1 DEF Transferred
<1>7. HandedOut
  BY <1>1, <1>2 DEF HandedOut, Items
<1> QED
  BY <1>5, <1>6, <1>7

\* Handing out an array of a buffer the items are copied to.
LEMMA CopyOutKeeps ==
    ASSUME CollectorInv, NEW a, AsArray(a), ~Shared, size > 0
    PROVE  CollectorInv' /\ Transferred /\ HandedOut
<1> DEFINE items == Copied(size)
           mem == Put(memory, a, items)
<1>1. size \in Nat /\ size \in 0 .. MaxItems /\ size # 0
  BY CollectorParts
<1>2. /\ unit' = unit /\ size' = size /\ a \in Addresses /\ a \notin DOMAIN memory /\ a # 0
      /\ holder' = 0 /\ concrete' = {a} /\ begin' = a /\ endCap' = size
      /\ arrays' = arrays \cup {Array(a)} /\ Release(mem)
  BY <1>1, CollectorBounds DEF AsArray, Fresh
<1>3. items \in [1 .. size -> Cells] /\ \A i \in 1 .. size : items[i] = memory[begin][i]
  BY <1>1, CopyKeeps
<1> HIDE DEF items
<1>4. items \in Seq(Cells) /\ Len(items) = size
  BY <1>1, <1>3, BlockOf
<1>5. /\ DOMAIN mem = DOMAIN memory \cup {a}
      /\ mem[a] = items
      /\ \A b \in DOMAIN memory : b # a => mem[b] = memory[b]
  BY DEF Put
<1> HIDE DEF mem
<1>6. /\ DOMAIN memory' = DOMAIN mem \cap Owned'
      /\ \A b \in DOMAIN mem \cap Owned' : memory'[b] = mem[b]
  BY <1>2, Released
<1>7. a \in DOMAIN memory' /\ memory'[a] = items
  BY <1>2, <1>5, <1>6, OwnedNext
<1>8. /\ Array(a).at = a /\ Array(a).len = size
      /\ Array(a) \in [at : Addresses \cup {0}, len : 0 .. MaxItems]
  BY <1>1, <1>2 DEF Array
<1>9. \A x \in arrays : x.len > 0 => /\ x.at \in DOMAIN memory' /\ memory'[x.at] = memory[x.at]
                                     /\ x.at # 0 /\ x.len <= Len(memory[x.at])
  <2> TAKE x \in arrays
  <2> HAVE x.len > 0
  <2>1. x.at \in DOMAIN memory /\ x.at \in Addresses /\ x.at # 0 /\ x.len <= Len(memory[x.at])
    BY CollectorParts
  <2>2. x.at \in Owned'
    BY <1>2, <2>1, OwnedNext
  <2> QED
    BY <1>2, <1>5, <1>6, <2>1, <2>2
<1>10. CollectorInv'
  <2>1. /\ unit' \in Nat \ {0} /\ holder' \in Addresses \cup {0} /\ begin' \in Addresses \cup {0}
        /\ size' \in 0 .. MaxItems /\ endCap' \in 0 .. MaxItems
    BY <1>1, <1>2 DEF CollectorInv
  <2>2. \A x \in arrays' : x \in [at : Addresses \cup {0}, len : 0 .. MaxItems]
    BY <1>2, <1>8, CollectorParts
  <2>3. /\ DOMAIN memory' \subseteq Addresses
        /\ \A b \in DOMAIN memory' : memory'[b] \in Seq(Cells) /\ Len(memory'[b]) \in 0 .. MaxItems
    <3>1. \A b \in DOMAIN memory : b \in Addresses /\ memory[b] \in Seq(Cells) /\ Len(memory[b]) \in 0 .. MaxItems
      BY CollectorParts
    <3> QED
      BY <1>1, <1>2, <1>4, <1>5, <1>6, <3>1
  <2>4. \A x \in arrays' : x.len > 0 => /\ x.at \in DOMAIN memory' \ {holder'}
                                        /\ x.len <= Len(memory'[x.at])
    BY <1>1, <1>2, <1>4, <1>7, <1>8, <1>9
  <2>5. /\ IF begin' = 0 THEN size' <= 0 ELSE size' <= endCap'
        /\ begin' # 0 => begin' \in DOMAIN memory' /\ endCap' <= Len(memory'[begin'])
        /\ IF concrete' # {} THEN holder' = 0 /\ concrete' = {begin'} ELSE begin' = holder'
    BY <1>1, <1>2, <1>4, <1>7
  <2> QED
    BY <2>1, <2>2, <2>3, <2>4, <2>5, CollectorAgain
<1>11. Transferred
  <2>1. \A x \in arrays : Items(x)' = Items(x)
    BY <1>9, CollectorParts DEF Items
  <2> QED
    BY <1>2, <1>3, <1>7, <2>1 DEF Transferred
<1>12. HandedOut
  <2>1. begin # 0 /\ begin \in DOMAIN memory /\ endCap <= Len(memory[begin]) /\ size <= endCap /\ endCap \in Nat
    BY <1>1, CollectorParts
  <2>2. memory[begin] \in Seq(Cells) /\ Len(memory[begin]) \in Nat
    BY <2>1, CollectorParts
  <2>3. SubSeq(items, 1, size) = SubSeq(memory[begin], 1, size)
    BY <1>1, <1>3, <1>4, <2>1, <2>2, SamePrefix
  <2>4. \A x \in arrays' \ arrays : x = Array(a)
    BY <1>2
  <2>5. \A x : x = Array(a) => Items(x)' = SubSeq(items, 1, size)
    BY <1>1, <1>7, <1>8 DEF Items
  <2> QED
    BY <1>1, <2>3, <2>4, <2>5 DEF HandedOut
<1> QED
  BY <1>10, <1>11, <1>12

\* Handing out the empty array of an empty collector.
LEMMA EmptyOutKeeps ==
    ASSUME CollectorInv, NEW a, AsArray(a), ~Shared, size = 0
    PROVE  CollectorInv' /\ Transferred /\ HandedOut
<1>1. /\ unit' = unit /\ size' = 0 /\ a = 0
      /\ holder' = 0 /\ concrete' = {0} /\ begin' = 0 /\ endCap' = 0
      /\ arrays' = arrays \cup {Array(0)} /\ Release(memory)
  BY DEF AsArray
<1>2. /\ DOMAIN memory' = DOMAIN memory \cap Owned'
      /\ \A b \in DOMAIN memory \cap Owned' : memory'[b] = memory[b]
  BY <1>1, Released
<1>3. Array(0).at = 0 /\ Array(0).len = 0 /\ Array(0) \in [at : Addresses \cup {0}, len : 0 .. MaxItems]
  BY CollectorParts DEF Array
<1>4. \A x \in arrays : x.len > 0 => /\ x.at \in DOMAIN memory' /\ memory'[x.at] = memory[x.at]
                                     /\ x.at # 0 /\ x.len <= Len(memory[x.at])
  <2> TAKE x \in arrays
  <2> HAVE x.len > 0
  <2>1. x.at \in DOMAIN memory /\ x.at # 0 /\ x.len <= Len(memory[x.at])
    BY CollectorParts
  <2>2. x.at \in Owned'
    BY <1>1, <2>1, OwnedNext
  <2> QED
    BY <1>2, <2>1, <2>2
<1>5. CollectorInv'
  <2>1. /\ unit' \in Nat \ {0} /\ holder' \in Addresses \cup {0} /\ begin' \in Addresses \cup {0}
        /\ size' \in 0 .. MaxItems /\ endCap' \in 0 .. MaxItems
    BY <1>1, CollectorParts DEF CollectorInv
  <2>2. \A x \in arrays' : x \in [at : Addresses \cup {0}, len : 0 .. MaxItems]
    BY <1>1, <1>3, CollectorParts
  <2>3. /\ DOMAIN memory' \subseteq Addresses
        /\ \A b \in DOMAIN memory' : memory'[b] \in Seq(Cells) /\ Len(memory'[b]) \in 0 .. MaxItems
    <3>1. \A b \in DOMAIN memory : b \in Addresses /\ memory[b] \in Seq(Cells) /\ Len(memory[b]) \in 0 .. MaxItems
      BY CollectorParts
    <3> QED
      BY <1>2, <3>1
  <2>4. \A x \in arrays' : x.len > 0 => /\ x.at \in DOMAIN memory' \ {holder'}
                                        /\ x.len <= Len(memory'[x.at])
    BY <1>1, <1>3, <1>4
  <2> QED
    BY <1>1, <2>1, <2>2, <2>3, <2>4, CollectorAgain
<1>6. Transferred
  <2>1. \A x \in arrays : Items(x)' = Items(x)
    BY <1>4, CollectorParts DEF Items
  <2> QED
    BY <1>1, <2>1 DEF Transferred
<1>7. HandedOut
  BY <1>1, <1>3 DEF HandedOut, Items
<1> QED
  BY <1>5, <1>6, <1>7

\* Every step keeps the invariant, and the items when it moves them.
LEMMA CollectorStep ==
    ASSUME CollectorInv, [CollectorNext]_collectorVars
    PROVE  CollectorInv' /\ Transferred /\ HandedOut
<1>1. CASE \E a \in Addresses, n \in 0 .. MaxItems : Grow(a, n) \/ Expand(a, n)
  BY <1>1, GrowKeeps, ExpandKeeps
<1>2. CASE PopBack \/ Clear
  BY <1>2, ShrinkKeeps
<1>3. CASE \E a \in Addresses, v \in Values : PushBack(a, v)
  BY <1>3, PushKeeps
<1>4. CASE \E i \in 1 .. MaxItems, v \in Values : Set(i, v)
  BY <1>4, SetKeeps
<1>5. CASE \E a \in Addresses \cup {0} : AsArray(a)
  <2>1. PICK a \in Addresses \cup {0} : AsArray(a)
    BY <1>5
  <2>2. size = 0 \/ size > 0
    BY CollectorParts
  <2> QED
    BY <2>1, <2>2, ShareKeeps, CopyOutKeeps, EmptyOutKeeps
<1>6. CASE \E x \in arrays : \E i \in 1 .. MaxItems, v \in Values : WriteArray(x, i, v)
  BY <1>6, WriteArrayKeeps
<1>7. CASE \E x \in arrays : DropArray(x)
  BY <1>7, DropKeeps
<1>8. CASE UNCHANGED collectorVars
  <2>1. UNCHANGED <<unit, holder, concrete, begin, size, endCap, arrays, memory>>
    BY <1>8 DEF collectorVars
  <2>2. size \in Nat /\ size <= Capacity
    BY CollectorParts DEF CollectorInv, NoneDangles
  <2> QED
    BY <2>1, <2>2, ResizedKeeps
<1> QED
  BY <1>1, <1>2, <1>3, <1>4, <1>5, <1>6, <1>7, <1>8 DEF CollectorNext

\* A collector is made in step.
LEMMA CollectorStarts == CollectorInit => CollectorInv
<1> SUFFICES ASSUME CollectorInit PROVE CollectorInv
  OBVIOUS
<1>1. /\ MaxItems \in Nat /\ Units \subseteq Nat \ {0} /\ 0 \notin Addresses
      /\ unit \in Nat \ {0} /\ holder = 0 /\ endCap = size
  BY CollectorBounds DEF CollectorInit
<1>2. CASE concrete = {} /\ begin = 0 /\ size = 0 /\ arrays = {} /\ memory = <<>>
  <2>1. DOMAIN memory = {}
    BY <1>2
  <2>2. CollectorTypeOK
    BY <1>1, <1>2, <2>1 DEF CollectorTypeOK
  <2>3. NoneDangles
    BY <1>1, <1>2 DEF NoneDangles, Capacity, Shared
  <2>4. Blocks
    BY <2>1 DEF Blocks
  <2> QED
    BY <1>1, <2>2, <2>3, <2>4 DEF CollectorInv
<1>3. ASSUME NEW a \in Addresses, NEW n \in 1 .. MaxItems,
             concrete = {a}, begin = a, size = n, arrays = {[at |-> a, len |-> n]},
             memory = [b \in {a} |-> [i \in 1 .. n |-> Junk]]
      PROVE CollectorInv
  <2>1. n \in 0 .. MaxItems /\ n \in Nat /\ a # 0 /\ Junk \in Cells
    BY <1>1 DEF Cells
  <2>2. [i \in 1 .. n |-> Junk] \in [1 .. n -> Cells]
    BY <2>1
  <2>3. DOMAIN memory = {a} /\ memory[a] = [i \in 1 .. n |-> Junk]
    BY <1>3
  <2>4. memory[a] \in Seq(Cells) /\ Len(memory[a]) = n
    BY <2>1, <2>2, <2>3, BlockOf
  <2>5. CollectorTypeOK
    BY <1>1, <1>3, <2>1, <2>3, <2>4 DEF CollectorTypeOK, Cells
  <2>6. NoneDangles
    BY <1>1, <1>3, <2>1, <2>3, <2>4 DEF NoneDangles, Capacity, Shared
  <2>7. Blocks
    BY <2>1, <2>3, <2>4 DEF Blocks
  <2> QED
    BY <1>1, <2>5, <2>6, <2>7 DEF CollectorInv
<1> QED
  BY <1>2, <1>3 DEF CollectorInit

\* The memory behind the collector and behind every array it handed out is
\* alive and long enough whatever grows, shrinks, is shared or dropped, and
\* moving or handing out the items loses and invents none (BufferExpander.cpp:11, 54).
THEOREM CollectorKeepsItems == CollectorSpec => ItemsKept
<1>1. CollectorInit => CollectorInv
  BY CollectorStarts
<1>2. CollectorInv /\ [CollectorNext]_collectorVars => CollectorInv' /\ Transferred /\ HandedOut
  BY CollectorStep
<1>3. CollectorInv => CollectorTypeOK /\ NoneDangles
  BY DEF CollectorInv
<1>4. CollectorSpec => [](CollectorTypeOK /\ NoneDangles)
  BY <1>1, <1>2, <1>3, PTL DEF CollectorSpec
<1>5. CollectorSpec => [][Transferred]_collectorVars
  BY <1>1, <1>2, PTL DEF CollectorSpec
<1>6. CollectorSpec => [][HandedOut]_collectorVars
  BY <1>1, <1>2, PTL DEF CollectorSpec
<1>7. CollectorSpec => MovesKeepItems
  BY <1>5, PTL DEF MovesKeepItems, Transferred
<1>8. CollectorSpec => HandsOutItems
  BY <1>6, PTL DEF HandsOutItems, HandedOut
<1> QED
  BY <1>4, <1>7, <1>8, PTL DEF ItemsKept

-----------------------------------------------------------------------------
(* The profiler. *)

Keys == 0 .. MaxEntries
Scopes == [name : Names, frame : Seq(Keys), timed : BOOLEAN, cancel : BOOLEAN]

\* Every variable has its type, and a call has its callers' nodes above it.
TreeInv ==
    /\ nextId \in Keys /\ stableNext \in 0 .. nextId
    /\ current \in Seq(Keys) /\ (current = Root \/ current \in DOMAIN nodes)
    /\ callbacks \in Seq(0 .. MaxOpen)
    /\ scopes \in Seq(Scopes) /\ Len(scopes) <= MaxOpen
    /\ \A p \in DOMAIN nodes : p \in Seq(Keys) /\ p # Root /\ nodes[p] \in Node
    /\ \A p \in DOMAIN nodes : \A k \in 1 .. Len(p) : SubSeq(p, 1, k) \in DOMAIN nodes

\* A name has one key and a key one name; the snapshot's map is part of the map.
IdsInv ==
    /\ DOMAIN ids \subseteq Names /\ DOMAIN stableIds \subseteq DOMAIN ids
    /\ \A n \in DOMAIN ids : ids[n] \in Nat /\ ids[n] < nextId
    /\ \A m, n \in DOMAIN ids : ids[m] = ids[n] => m = n
    /\ \A n \in DOMAIN stableIds : stableIds[n] = ids[n] /\ ids[n] < stableNext

\* A node is found by the key of its name, and shows no more than it counted.
CountsInv ==
    /\ \A p \in DOMAIN nodes : /\ nodes[p].name \in DOMAIN ids /\ ids[nodes[p].name] = p[Len(p)]
                               /\ nodes[p].stable <= nodes[p].calls
                               /\ nodes[p].stable > 0 => nodes[p].name \in DOMAIN stableIds
    /\ PendingIsTheLag

\* A scope that is not void is at its own depth of the call stack, the ones
\* that began later are deeper, and no depth is without a scope.
Depth(i) == Len(scopes[i].frame)
DepthInv ==
    /\ Len(callbacks) = Len(current)
    /\ \A i \in NotVoid : /\ Depth(i) \in 1 .. Len(current)
                          /\ scopes[i].frame = SubSeq(current, 1, Depth(i))
                          /\ callbacks[Depth(i)] = IF scopes[i].timed THEN 0 ELSE i
                          /\ scopes[i].name = nodes[scopes[i].frame].name
    /\ \A i, j \in NotVoid : i < j => Depth(i) < Depth(j)
    /\ \A k \in 1 .. Len(current) : \E i \in NotVoid : Depth(i) = k

ProfilerInv == TreeInv /\ IdsInv /\ CountsInv /\ DepthInv

\* The bounds are numbers.
LEMMA Bounded == MaxOpen \in Nat /\ MaxEntries \in Nat
  BY ProfilerBounds

\* A list without its last element.
LEMMA FrontIs ==
    ASSUME NEW S, NEW s \in Seq(S), Len(s) > 0
    PROVE  /\ Front(s) \in Seq(S) /\ Len(Front(s)) = Len(s) - 1
           /\ \A k \in 1 .. Len(s) - 1 : Front(s)[k] = s[k]
           /\ \A k \in 1 .. Len(s) - 1 : SubSeq(Front(s), 1, k) = SubSeq(s, 1, k)
           /\ Front(s) = SubSeq(s, 1, Len(s) - 1)
<1>1. Len(s) \in Nat /\ Len(s) - 1 \in Nat /\ Len(s) - 1 <= Len(s)
  BY LenProperties
<1>2. Front(s) = SubSeq(s, 1, Len(s) - 1)
  BY DEF Front
<1>3. /\ SubSeq(s, 1, Len(s) - 1) \in Seq(S) /\ Len(SubSeq(s, 1, Len(s) - 1)) = Len(s) - 1
      /\ \A k \in 1 .. Len(s) - 1 : SubSeq(s, 1, Len(s) - 1)[k] = s[k]
  <2>1. PICK n \in Nat : n = Len(s) - 1
    BY <1>1
  <2>2. n <= Len(s) /\ n \in 0 .. Len(s) /\ 1 \in 1 .. Len(s) + 1
    BY <1>1, <2>1
  <2>3. /\ SubSeq(s, 1, n) \in Seq(S) /\ Len(SubSeq(s, 1, n)) = n
        /\ \A k \in 1 .. n : SubSeq(s, 1, n)[k] = s[k]
    BY <1>1, <2>2, SubSeqProperties
  <2> QED
    BY <2>1, <2>3
<1> DEFINE f == Front(s)
<1>4. f \in Seq(S) /\ Len(f) = Len(s) - 1 /\ \A k \in 1 .. Len(s) - 1 : f[k] = s[k]
  BY <1>2, <1>3
<1> HIDE DEF f
<1>5. ASSUME NEW k \in 1 .. Len(s) - 1 PROVE SubSeq(f, 1, k) = SubSeq(s, 1, k)
  <2>1. k \in Nat /\ k <= Len(s) /\ k <= Len(f) /\ \A i \in 1 .. k : f[i] = s[i]
    BY <1>1, <1>4
  <2> QED
    BY <1>4, <2>1, SamePrefix
<1> QED
  BY <1>2, <1>4, <1>5 DEF f

\* A list with one element more.
LEMMA LongerIs ==
    ASSUME NEW S, NEW s \in Seq(S), NEW e \in S
    PROVE  /\ Append(s, e) \in Seq(S) /\ Len(Append(s, e)) = Len(s) + 1
           /\ \A k \in 1 .. Len(s) : Append(s, e)[k] = s[k]
           /\ Append(s, e)[Len(s) + 1] = e
           /\ \A k \in 1 .. Len(s) : SubSeq(Append(s, e), 1, k) = SubSeq(s, 1, k)
           /\ SubSeq(Append(s, e), 1, Len(s) + 1) = Append(s, e)
           /\ Front(Append(s, e)) = s
<1>1. Len(s) \in Nat
  BY LenProperties
<1> DEFINE t == Append(s, e)
<1>2. /\ t \in Seq(S) /\ Len(t) = Len(s) + 1
      /\ \A k \in 1 .. Len(s) : t[k] = s[k]
      /\ t[Len(s) + 1] = e
  BY <1>1, AppendProperties
<1> HIDE DEF t
<1>3. ASSUME NEW k \in 1 .. Len(s) PROVE SubSeq(t, 1, k) = SubSeq(s, 1, k)
  <2>1. k \in Nat /\ k <= Len(s) /\ k <= Len(t) /\ \A i \in 1 .. k : t[i] = s[i]
    BY <1>1, <1>2
  <2> QED
    BY <1>2, <2>1, SamePrefix
<1>4. SubSeq(t, 1, Len(s) + 1) = t
  BY <1>2, SubSeqFull
<1>5. Front(t) = s
  <2>1. Len(t) > 0 /\ Len(t) - 1 = Len(s)
    BY <1>1, <1>2
  <2>2. Front(t) \in Seq(S) /\ Len(Front(t)) = Len(s) /\ \A k \in 1 .. Len(s) : Front(t)[k] = t[k]
    BY <1>2, <2>1, FrontIs
  <2> QED
    BY <1>2, <2>2, SeqEqual
<1> QED
  BY <1>2, <1>3, <1>4, <1>5 DEF t

\* A call enters the node of its name, known by the name's key or made new.
Entered(key, name, timed) ==
    /\ key \in Keys /\ key < nextId' /\ nextId' \in Keys /\ nextId' = nextId + 1
    /\ current' = Append(current, key)
    /\ callbacks' = Append(callbacks, IF timed THEN 0 ELSE Len(scopes) + 1)
    /\ scopes' = Append(scopes, Scope(name, current', timed))
    /\ Len(scopes) + 1 <= MaxOpen
    /\ DOMAIN ids' = DOMAIN ids \cup {name} /\ ids'[name] = key
    /\ \A n \in DOMAIN ids : ids'[n] = ids[n] /\ (ids[n] = key => n = name)
    /\ DOMAIN nodes' = DOMAIN nodes \cup {current'}
    /\ \A p \in DOMAIN nodes : nodes'[p] = nodes[p]
    /\ current' \notin DOMAIN nodes => nodes'[current'] = [name |-> name, calls |-> 0, stable |-> 0]
    /\ nodes'[current'].name = name
    /\ UNCHANGED <<stableIds, stableNext, pending>>

\* Beginning a scope enters its call.
LEMMA BeginEnters ==
    ASSUME ProfilerInv, NEW name \in Names, NEW timed \in BOOLEAN, Begin(name, timed)
    PROVE  \E key \in Keys : Entered(key, name, timed)
<1> DEFINE key == IF name \in DOMAIN ids THEN ids[name] ELSE nextId
           node == Append(current, key)
<1>1. /\ nextId \in Nat /\ nextId + 1 \in Keys /\ nextId \in Keys /\ current \in Seq(Keys)
      /\ Len(scopes) \in Nat /\ Len(scopes) + 1 <= MaxOpen
  <2>1. nextId \in Keys /\ current \in Seq(Keys) /\ scopes \in Seq(Scopes)
    BY DEF ProfilerInv, TreeInv
  <2>2. nextId < MaxEntries /\ Len(scopes) < MaxOpen
    BY DEF Begin
  <2> QED
    BY <2>1, <2>2, Bounded DEF Keys
<1>2. /\ current' = node /\ nextId' = nextId + 1
      /\ ids' = [n \in DOMAIN ids \cup {name} |-> IF n = name THEN key ELSE ids[n]]
      /\ nodes' = [p \in DOMAIN nodes \cup {node} |->
                        IF p \in DOMAIN nodes THEN nodes[p]
                        ELSE [name |-> name, calls |-> 0, stable |-> 0]]
      /\ callbacks' = Append(callbacks, IF timed THEN 0 ELSE Len(scopes) + 1)
      /\ scopes' = Append(scopes, Scope(name, current', timed))
      /\ UNCHANGED <<stableIds, stableNext, pending>>
  BY DEF Begin, StartCaller, Entry, NextId
<1>3. /\ \A n \in DOMAIN ids : ids[n] \in Nat /\ ids[n] < nextId
      /\ \A m, n \in DOMAIN ids : ids[m] = ids[n] => m = n
  BY DEF ProfilerInv, IdsInv
<1>4. /\ key \in Nat /\ key < nextId + 1 /\ (name \in DOMAIN ids => ids[name] = key)
      /\ \A n \in DOMAIN ids : ids[n] = key => n = name
  BY <1>1, <1>3
<1>5. key \in Keys
  BY <1>1, <1>4, Bounded DEF Keys
<1> HIDE DEF key
<1>6. node[Len(node)] = key
  BY <1>1, <1>5, LongerIs
<1> HIDE DEF node
<1>7. nodes'[node].name = name
  <2>1. CASE node \in DOMAIN nodes
    <3>1. nodes[node].name \in DOMAIN ids /\ ids[nodes[node].name] = key
      BY <1>6, <2>1 DEF ProfilerInv, CountsInv
    <3> QED
      BY <1>2, <1>4, <2>1, <3>1
  <2>2. CASE node \notin DOMAIN nodes
    BY <1>2, <2>2
  <2> QED
    BY <2>1, <2>2
<1>8. /\ DOMAIN ids' = DOMAIN ids \cup {name} /\ ids'[name] = key
      /\ \A n \in DOMAIN ids : ids'[n] = ids[n]
  BY <1>2, <1>4
<1>9. /\ DOMAIN nodes' = DOMAIN nodes \cup {node}
      /\ \A p \in DOMAIN nodes : nodes'[p] = nodes[p]
      /\ node \notin DOMAIN nodes => nodes'[node] = [name |-> name, calls |-> 0, stable |-> 0]
  BY <1>2
<1>10. current' = Append(current, key)
  BY <1>2 DEF node
<1> QED
  BY <1>1, <1>2, <1>4, <1>5, <1>7, <1>8, <1>9, <1>10 DEF Entered

\* The cursor's callers have nodes, and so has the frame of a live scope.
LEMMA FramesAreNodes ==
    ASSUME TreeInv, DepthInv
    PROVE  /\ \A k \in 1 .. Len(current) : SubSeq(current, 1, k) \in DOMAIN nodes
           /\ \A i \in NotVoid : scopes[i].frame \in DOMAIN nodes
<1>1. current \in Seq(Keys) /\ Len(current) \in Nat
  BY LenProperties DEF TreeInv
<1>2. \A k \in 1 .. Len(current) : SubSeq(current, 1, k) \in DOMAIN nodes
  <2> TAKE k \in 1 .. Len(current)
  <2>1. current # Root
    BY <1>1 DEF Root
  <2> QED
    BY <2>1 DEF TreeInv
<1> QED
  BY <1>2 DEF DepthInv

\* The scopes as a list.
LEMMA ScopesAre ==
    ASSUME TreeInv
    PROVE  /\ Len(scopes) \in Nat /\ DOMAIN scopes = 1 .. Len(scopes)
           /\ \A i \in 1 .. Len(scopes) : scopes[i] \in Scopes
           /\ NotVoid \subseteq 1 .. Len(scopes)
           /\ Len(current) \in Nat /\ Len(callbacks) \in Nat
<1>1. scopes \in Seq(Scopes) /\ current \in Seq(Keys) /\ callbacks \in Seq(0 .. MaxOpen)
  BY DEF TreeInv
<1>2. Len(scopes) \in Nat /\ DOMAIN scopes = 1 .. Len(scopes)
  BY <1>1, LenProperties
<1>3. \A i \in 1 .. Len(scopes) : scopes[i] \in Scopes
  BY <1>1, ElementOfSeq
<1>4. NotVoid \subseteq 1 .. Len(scopes)
  BY <1>2 DEF NotVoid
<1>5. Len(current) \in Nat /\ Len(callbacks) \in Nat
  BY <1>1, LenProperties
<1> QED
  BY <1>2, <1>3, <1>4, <1>5

\* A call that is entered keeps the tree.
LEMMA EnteredTree ==
    ASSUME ProfilerInv, NEW key, NEW name \in Names, NEW timed \in BOOLEAN, Entered(key, name, timed)
    PROVE  TreeInv' /\ IdsInv' /\ CountsInv'
<1>a. PICK node : node = current'
  OBVIOUS
<1>1. TreeInv /\ IdsInv /\ CountsInv /\ DepthInv
  BY DEF ProfilerInv
<1>2. /\ current \in Seq(Keys) /\ key \in Keys /\ scopes \in Seq(Scopes) /\ callbacks \in Seq(0 .. MaxOpen)
      /\ node = Append(current, key) /\ Len(current) \in Nat /\ Len(scopes) \in Nat
  BY <1>a, <1>1, LenProperties DEF TreeInv, Entered
<1>3. /\ node \in Seq(Keys) /\ Len(node) = Len(current) + 1 /\ node[Len(current) + 1] = key
      /\ \A k \in 1 .. Len(current) : SubSeq(node, 1, k) = SubSeq(current, 1, k)
      /\ SubSeq(node, 1, Len(current) + 1) = node /\ node # Root
  <2>1. /\ node \in Seq(Keys) /\ Len(node) = Len(current) + 1 /\ node[Len(current) + 1] = key
        /\ \A k \in 1 .. Len(current) : SubSeq(node, 1, k) = SubSeq(current, 1, k)
        /\ SubSeq(node, 1, Len(current) + 1) = node
    BY <1>2, LongerIs
  <2>2. node # Root
    BY <1>2, <2>1 DEF Root
  <2> QED
    BY <2>1, <2>2
<1>4. /\ DOMAIN nodes' = DOMAIN nodes \cup {node}
      /\ \A p \in DOMAIN nodes : nodes'[p] = nodes[p]
      /\ node \notin DOMAIN nodes => nodes'[node] = [name |-> name, calls |-> 0, stable |-> 0]
      /\ nodes'[node].name = name
  BY <1>a DEF Entered
<1>5. \A p \in DOMAIN nodes' : p \in Seq(Keys) /\ p # Root /\ nodes'[p] \in Node
  <2>1. [name |-> name, calls |-> 0, stable |-> 0] \in Node
    BY DEF Node
  <2>2. \A p \in DOMAIN nodes : p \in Seq(Keys) /\ p # Root /\ nodes[p] \in Node
    BY <1>1 DEF TreeInv
  <2> QED
    BY <1>3, <1>4, <2>1, <2>2
<1>6. \A p \in DOMAIN nodes' : \A k \in 1 .. Len(p) : SubSeq(p, 1, k) \in DOMAIN nodes'
  <2>1. ASSUME NEW k \in 1 .. Len(node) PROVE SubSeq(node, 1, k) \in DOMAIN nodes'
    <3>1. k = Len(current) + 1 \/ k \in 1 .. Len(current)
      BY <1>2, <1>3
    <3> QED
      BY <1>1, <1>3, <1>4, <3>1, FramesAreNodes
  <2>2. \A p \in DOMAIN nodes : \A k \in 1 .. Len(p) : SubSeq(p, 1, k) \in DOMAIN nodes
    BY <1>1 DEF TreeInv
  <2> QED
    BY <1>4, <2>1, <2>2
<1>7. callbacks' \in Seq(0 .. MaxOpen) /\ scopes' \in Seq(Scopes) /\ Len(scopes') <= MaxOpen
  <2>1. (IF timed THEN 0 ELSE Len(scopes) + 1) \in 0 .. MaxOpen
    BY <1>2, Bounded DEF Entered
  <2>2. Scope(name, current', timed) \in Scopes
    BY <1>a, <1>3 DEF Scope, Scopes
  <2>3. callbacks' \in Seq(0 .. MaxOpen)
    BY <1>2, <2>1, LongerIs DEF Entered
  <2>4. scopes' \in Seq(Scopes) /\ Len(scopes') = Len(scopes) + 1
    BY <1>2, <2>2, LongerIs DEF Entered
  <2> QED
    BY <2>3, <2>4 DEF Entered
<1>8. nextId' \in Keys /\ stableNext' \in 0 .. nextId'
  BY <1>1, Bounded DEF TreeInv, Entered, Keys
<1>9. TreeInv'
  BY <1>a, <1>3, <1>4, <1>5, <1>6, <1>7, <1>8 DEF TreeInv
<1>10. IdsInv'
  <2>1. /\ DOMAIN ids \subseteq Names /\ DOMAIN stableIds \subseteq DOMAIN ids
        /\ \A n \in DOMAIN ids : ids[n] \in Nat /\ ids[n] < nextId
        /\ \A m, n \in DOMAIN ids : ids[m] = ids[n] => m = n
        /\ \A n \in DOMAIN stableIds : stableIds[n] = ids[n] /\ ids[n] < stableNext
    BY <1>1 DEF IdsInv
  <2>2. /\ DOMAIN ids' = DOMAIN ids \cup {name} /\ ids'[name] = key
        /\ \A n \in DOMAIN ids : ids'[n] = ids[n] /\ (ids[n] = key => n = name)
        /\ key < nextId' /\ key \in Nat /\ nextId' = nextId + 1 /\ stableIds' = stableIds /\ stableNext' = stableNext
        /\ nextId \in Nat
    BY <1>1, Bounded DEF Entered, Keys, TreeInv
  <2>3. /\ DOMAIN ids' \subseteq Names /\ DOMAIN stableIds' \subseteq DOMAIN ids'
        /\ \A n \in DOMAIN ids' : ids'[n] \in Nat /\ ids'[n] < nextId'
    BY <2>1, <2>2
  <2>4. \A m, n \in DOMAIN ids' : ids'[m] = ids'[n] => m = n
    BY <2>1, <2>2
  <2>5. \A n \in DOMAIN stableIds' : stableIds'[n] = ids'[n] /\ ids'[n] < stableNext'
    BY <2>1, <2>2
  <2> QED
    BY <2>3, <2>4, <2>5 DEF IdsInv
<1>11. CountsInv'
  <2>1. \A p \in DOMAIN nodes : /\ nodes[p].name \in DOMAIN ids /\ ids[nodes[p].name] = p[Len(p)]
                                /\ nodes[p].stable <= nodes[p].calls
                                /\ nodes[p].stable > 0 => nodes[p].name \in DOMAIN stableIds
    BY <1>1 DEF CountsInv
  <2>2. /\ DOMAIN ids' = DOMAIN ids \cup {name} /\ ids'[name] = key
        /\ \A n \in DOMAIN ids : ids'[n] = ids[n]
        /\ stableIds' = stableIds /\ pending' = pending
    BY DEF Entered
  <2>3. node[Len(node)] = key
    BY <1>3
  <2>4. \A p \in DOMAIN nodes' : /\ nodes'[p].name \in DOMAIN ids' /\ ids'[nodes'[p].name] = p[Len(p)]
                                 /\ nodes'[p].stable <= nodes'[p].calls
                                 /\ nodes'[p].stable > 0 => nodes'[p].name \in DOMAIN stableIds'
    BY <1>4, <2>1, <2>2, <2>3
  <2>5. PendingIsTheLag'
    <3>1. pending = {p \in DOMAIN nodes : nodes[p].calls # nodes[p].stable}
      BY <1>1 DEF CountsInv, PendingIsTheLag
    <3>2. \A p \in DOMAIN nodes' : p \notin DOMAIN nodes => nodes'[p].calls = nodes'[p].stable
      BY <1>4
    <3>3. \A p : p \in pending' <=> p \in DOMAIN nodes' /\ nodes'[p].calls # nodes'[p].stable
      BY <1>4, <2>2, <3>1, <3>2
    <3> QED
      BY <3>3 DEF PendingIsTheLag
  <2> QED
    BY <2>4, <2>5 DEF CountsInv
<1> QED
  BY <1>9, <1>10, <1>11

\* A call that is entered is the deepest.
LEMMA EnteredDepth ==
    ASSUME ProfilerInv, NEW key, NEW name \in Names, NEW timed \in BOOLEAN, Entered(key, name, timed)
    PROVE  /\ DepthInv'
           /\ NotVoid' = NotVoid \cup {Len(scopes) + 1}
           /\ \A i \in NotVoid : scopes'[i] = scopes[i]
           /\ scopes'[Len(scopes) + 1] = Scope(name, current', timed)
<1>a. PICK node : node = current'
  OBVIOUS
<1>b. PICK m : m = Len(scopes) + 1
  OBVIOUS
<1>c. PICK d : d = Len(current)
  OBVIOUS
<1>1. TreeInv /\ DepthInv
  BY DEF ProfilerInv
<1>2. /\ current \in Seq(Keys) /\ key \in Keys /\ scopes \in Seq(Scopes) /\ callbacks \in Seq(0 .. MaxOpen)
      /\ node = Append(current, key) /\ d \in Nat /\ m \in Nat /\ m \in 0 .. MaxOpen /\ 0 \in 0 .. MaxOpen
  <2>1. Len(scopes) + 1 <= MaxOpen /\ key \in Keys /\ node = Append(current, key)
    BY <1>a DEF Entered
  <2> QED
    BY <1>1, <1>b, <1>c, <2>1, ScopesAre, Bounded DEF TreeInv
<1>3. /\ node \in Seq(Keys) /\ Len(node) = d + 1
      /\ \A k \in 1 .. d : SubSeq(node, 1, k) = SubSeq(current, 1, k)
      /\ SubSeq(node, 1, d + 1) = node
  BY <1>2, <1>c, LongerIs
<1> DEFINE scope == Scope(name, node, timed)
           cb == IF timed THEN 0 ELSE m
<1>4. scope \in Scopes /\ cb \in 0 .. MaxOpen
  BY <1>2, <1>3 DEF Scope, Scopes
<1>5. scope.frame = node /\ scope.name = name /\ scope.timed = timed /\ scope.cancel = FALSE
  BY DEF Scope
<1> HIDE DEF scope
<1>6. /\ Len(scopes') = m /\ scopes'[m] = scope
      /\ \A i \in 1 .. Len(scopes) : scopes'[i] = scopes[i]
      /\ DOMAIN scopes' = 1 .. m
  <2>1. scopes' = Append(scopes, scope)
    BY <1>a DEF Entered, scope
  <2>2. Append(scopes, scope) \in Seq(Scopes) /\ Len(Append(scopes, scope)) = m
    BY <1>2, <1>4, <1>b, LongerIs
  <2>3. DOMAIN Append(scopes, scope) = 1 .. m
    BY <2>2, LenProperties
  <2> QED
    BY <1>2, <1>4, <1>b, <2>1, <2>2, <2>3, LongerIs
<1>7. /\ Len(callbacks') = d + 1 /\ callbacks'[d + 1] = cb
      /\ \A k \in 1 .. d : callbacks'[k] = callbacks[k]
  <2>1. callbacks' = Append(callbacks, cb)
    BY <1>b DEF Entered
  <2>2. Len(callbacks) = d
    BY <1>1, <1>c DEF DepthInv
  <2> HIDE DEF cb
  <2> QED
    BY <1>2, <1>4, <2>1, <2>2, LongerIs
<1>8. NotVoid' = NotVoid \cup {m} /\ NotVoid \subseteq 1 .. Len(scopes) /\ \A i \in NotVoid : scopes'[i] = scopes[i] /\ i < m
  <2>1. NotVoid \subseteq 1 .. Len(scopes) /\ Len(scopes) \in Nat /\ DOMAIN scopes = 1 .. Len(scopes)
    BY <1>1, ScopesAre
  <2>2. \A i \in NotVoid : scopes'[i] = scopes[i] /\ i < m
    BY <1>6, <1>b, <2>1
  <2>3. \A i : i \in NotVoid' <=> i \in NotVoid \cup {m}
    BY <1>5, <1>6, <1>b, <2>1 DEF NotVoid
  <2> QED
    BY <2>1, <2>2, <2>3
<1>9. /\ \A i \in NotVoid : /\ Depth(i) \in 1 .. d
                            /\ scopes[i].frame = SubSeq(current, 1, Depth(i))
                            /\ callbacks[Depth(i)] = IF scopes[i].timed THEN 0 ELSE i
                            /\ scopes[i].name = nodes[scopes[i].frame].name
      /\ \A i, j \in NotVoid : i < j => Depth(i) < Depth(j)
      /\ \A k \in 1 .. d : \E i \in NotVoid : Depth(i) = k
  BY <1>1, <1>c DEF DepthInv
<1>10. Depth(m)' = d + 1 /\ \A i \in NotVoid : Depth(i)' = Depth(i)
  BY <1>3, <1>5, <1>6, <1>8 DEF Depth
<1>11. \A i \in NotVoid' : /\ Depth(i)' \in 1 .. Len(current')
                           /\ scopes'[i].frame = SubSeq(current', 1, Depth(i)')
                           /\ callbacks'[Depth(i)'] = IF scopes'[i].timed THEN 0 ELSE i
                           /\ scopes'[i].name = nodes'[scopes'[i].frame].name
  <2>1. ASSUME NEW i \in NotVoid
        PROVE  /\ Depth(i)' \in 1 .. Len(current')
               /\ scopes'[i].frame = SubSeq(current', 1, Depth(i)')
               /\ callbacks'[Depth(i)'] = IF scopes'[i].timed THEN 0 ELSE i
               /\ scopes'[i].name = nodes'[scopes'[i].frame].name
    <3>1. scopes'[i] = scopes[i] /\ Depth(i)' = Depth(i) /\ Depth(i) \in 1 .. d /\ Depth(i) \in 1 .. d + 1
      BY <1>2, <1>8, <1>9, <1>10
    <3>2. SubSeq(node, 1, Depth(i)) = scopes[i].frame
      BY <1>3, <1>9, <3>1
    <3>3. scopes[i].frame \in DOMAIN nodes
      BY <1>1, FramesAreNodes
    <3>4. nodes'[scopes[i].frame].name = scopes[i].name
      BY <1>9, <3>3 DEF Entered
    <3>5. callbacks'[Depth(i)] = IF scopes[i].timed THEN 0 ELSE i
      BY <1>7, <1>9, <3>1
    <3> QED
      BY <1>a, <1>3, <3>1, <3>2, <3>4, <3>5
  <2>2. /\ Depth(m)' \in 1 .. Len(current')
        /\ scopes'[m].frame = SubSeq(current', 1, Depth(m)')
        /\ callbacks'[Depth(m)'] = IF scopes'[m].timed THEN 0 ELSE m
        /\ scopes'[m].name = nodes'[scopes'[m].frame].name
    <3>1. nodes'[node].name = name
      BY <1>a DEF Entered
    <3>2. d + 1 \in 1 .. d + 1
      BY <1>2
    <3> QED
      BY <1>a, <1>3, <1>5, <1>6, <1>7, <1>10, <3>1, <3>2
  <2> QED
    BY <1>8, <2>1, <2>2
<1>12. \A i, j \in NotVoid' : i < j => Depth(i)' < Depth(j)'
  <2>1. NotVoid \subseteq Nat
    BY <1>1, <1>8, ScopesAre
  <2> QED
    BY <1>2, <1>8, <1>9, <1>10, <2>1
<1>13. \A k \in 1 .. Len(current') : \E i \in NotVoid' : Depth(i)' = k
  <2> TAKE k \in 1 .. Len(current')
  <2>1. k \in 1 .. d \/ k = d + 1
    BY <1>a, <1>2, <1>3
  <2>2. CASE k \in 1 .. d
    BY <1>8, <1>9, <1>10, <2>2
  <2>3. CASE k = d + 1
    BY <1>8, <1>10, <2>3
  <2> QED
    BY <2>1, <2>2, <2>3
<1>14. DepthInv'
  <2>1. Len(callbacks') = Len(current')
    BY <1>a, <1>3, <1>7
  <2> QED
    BY <1>11, <1>12, <1>13, <2>1 DEF DepthInv
<1> QED
  BY <1>a, <1>b, <1>6, <1>8, <1>14 DEF scope

\* When the deepest call is popped, the cursor and the callbacks go with it.
LEMMA PoppedDepth ==
    ASSUME TreeInv, DepthInv, NEW i \in NotVoid, Depth(i) = Len(current), PopCaller,
           NotVoid' = NotVoid \ {i}, \A j \in NotVoid \ {i} : scopes'[j] = scopes[j],
           DOMAIN nodes' = DOMAIN nodes, \A p \in DOMAIN nodes : nodes'[p].name = nodes[p].name
    PROVE  /\ DepthInv'
           /\ current' \in Seq(Keys) /\ (current' = Root \/ current' \in DOMAIN nodes)
           /\ current' = Front(current) /\ current # Root /\ Len(current) > 0
           /\ callbacks' \in Seq(0 .. MaxOpen)
<1>d. PICK d : d = Len(current)
  OBVIOUS
<1>1. /\ current \in Seq(Keys) /\ callbacks \in Seq(0 .. MaxOpen) /\ d \in Nat
      /\ NotVoid \subseteq Nat
  BY <1>d, ScopesAre DEF TreeInv
<1>2. /\ Len(callbacks) = d
      /\ \A j \in NotVoid : /\ Depth(j) \in 1 .. d
                            /\ scopes[j].frame = SubSeq(current, 1, Depth(j))
                            /\ callbacks[Depth(j)] = IF scopes[j].timed THEN 0 ELSE j
                            /\ scopes[j].name = nodes[scopes[j].frame].name
      /\ \A j, k \in NotVoid : j < k => Depth(j) < Depth(k)
      /\ \A k \in 1 .. d : \E j \in NotVoid : Depth(j) = k
  BY <1>d DEF DepthInv
<1>3. d > 0 /\ current # Root
  BY <1>1, <1>2, <1>d DEF Root
<1>4. current' = Front(current) /\ callbacks' = Front(callbacks)
  BY <1>3 DEF PopCaller, Parent
<1>5. /\ current' \in Seq(Keys) /\ Len(current') = d - 1
      /\ \A k \in 1 .. d - 1 : SubSeq(current', 1, k) = SubSeq(current, 1, k)
      /\ current' = SubSeq(current, 1, d - 1)
  <2>1. Len(current) > 0
    BY <1>3, <1>d
  <2> QED
    BY <1>1, <1>4, <1>d, <2>1, FrontIs
<1>6. /\ callbacks' \in Seq(0 .. MaxOpen) /\ Len(callbacks') = d - 1
      /\ \A k \in 1 .. d - 1 : callbacks'[k] = callbacks[k]
  <2>1. Len(callbacks) > 0
    BY <1>2, <1>3
  <2> QED
    BY <1>1, <1>2, <1>4, <2>1, FrontIs
<1>7. current' = Root \/ current' \in DOMAIN nodes
  <2>1. CASE d = 1
    <3>1. Len(current') = 0
      BY <1>5, <2>1
    <3> QED
      BY <1>5, <3>1, EmptySeq DEF Root
  <2>2. CASE d # 1
    <3>1. d - 1 \in 1 .. Len(current)
      BY <1>1, <1>3, <1>d, <2>2
    <3> QED
      BY <1>5, <3>1, FramesAreNodes
  <2> QED
    BY <2>1, <2>2
<1>8. \A j \in NotVoid' : /\ j \in NotVoid /\ scopes'[j] = scopes[j] /\ Depth(j)' = Depth(j)
                          /\ Depth(j) \in 1 .. d - 1
  <2> TAKE j \in NotVoid'
  <2>1. j \in NotVoid /\ j # i /\ scopes'[j] = scopes[j]
    OBVIOUS
  <2>2. Depth(j)' = Depth(j)
    BY <2>1 DEF Depth
  <2>3. Depth(j) # d
    <3>1. j < i \/ i < j
      BY <1>1, <2>1
    <3>2. Depth(i) = d /\ Depth(j) \in 1 .. d
      BY <1>2, <1>d, <2>1
    <3>3. (j < i => Depth(j) < Depth(i)) /\ (i < j => Depth(i) < Depth(j))
      BY <1>2, <2>1
    <3> QED
      BY <1>1, <3>1, <3>2, <3>3
  <2>4. Depth(j) \in 1 .. d - 1
    BY <1>1, <1>2, <2>1, <2>3
  <2> QED
    BY <2>1, <2>2, <2>4
<1>9. \A j \in NotVoid' : /\ Depth(j)' \in 1 .. Len(current')
                          /\ scopes'[j].frame = SubSeq(current', 1, Depth(j)')
                          /\ callbacks'[Depth(j)'] = IF scopes'[j].timed THEN 0 ELSE j
                          /\ scopes'[j].name = nodes'[scopes'[j].frame].name
  <2> TAKE j \in NotVoid'
  <2>1. scopes[j].frame \in DOMAIN nodes
    BY <1>8, FramesAreNodes
  <2>2. PICK e : e = Depth(j)
    OBVIOUS
  <2>3. j \in NotVoid /\ scopes'[j] = scopes[j] /\ Depth(j)' = e /\ e \in 1 .. d - 1
    BY <1>8, <2>2
  <2>4. scopes[j].frame = SubSeq(current', 1, e)
    BY <1>2, <1>5, <2>2, <2>3
  <2>5. callbacks'[e] = IF scopes[j].timed THEN 0 ELSE j
    BY <1>2, <1>6, <2>2, <2>3
  <2>6. scopes[j].name = nodes'[scopes[j].frame].name
    BY <1>2, <2>1, <2>3
  <2> QED
    BY <1>5, <2>3, <2>4, <2>5, <2>6
<1>10. \A j, k \in NotVoid' : j < k => Depth(j)' < Depth(k)'
  BY <1>2, <1>8
<1>11. \A k \in 1 .. Len(current') : \E j \in NotVoid' : Depth(j)' = k
  <2> TAKE k \in 1 .. Len(current')
  <2>1. k \in 1 .. d /\ k # d
    BY <1>1, <1>5
  <2>2. PICK j \in NotVoid : Depth(j) = k
    BY <1>2, <2>1
  <2>3. j # i
    BY <1>d, <2>1, <2>2
  <2> QED
    BY <1>8, <2>2, <2>3
<1>12. DepthInv'
  BY <1>5, <1>6, <1>9, <1>10, <1>11 DEF DepthInv
<1>13. Len(current) > 0
  BY <1>3, <1>d
<1> QED
  BY <1>3, <1>4, <1>5, <1>6, <1>7, <1>12, <1>13

\* The scope that ends is the one that began last.
LEMMA LastScope ==
    ASSUME TreeInv, scopes # <<>>, scopes' = Front(scopes)
    PROVE  /\ scopes' \in Seq(Scopes) /\ Len(scopes') <= MaxOpen
           /\ Len(scopes) \in DOMAIN scopes
           /\ NotVoid' = NotVoid \ {Len(scopes)}
           /\ \A j \in NotVoid \ {Len(scopes)} : scopes'[j] = scopes[j]
<1>m. PICK m : m = Len(scopes)
  OBVIOUS
<1>1. scopes \in Seq(Scopes) /\ m \in Nat /\ m <= MaxOpen /\ DOMAIN scopes = 1 .. m
      /\ NotVoid \subseteq 1 .. m
  BY <1>m, ScopesAre DEF TreeInv
<1>2. m > 0
  BY <1>1, <1>m, EmptySeq
<1>3. /\ scopes' \in Seq(Scopes) /\ Len(scopes') = m - 1
      /\ \A k \in 1 .. m - 1 : scopes'[k] = scopes[k]
  <2>1. Len(scopes) > 0
    BY <1>2, <1>m
  <2> QED
    BY <1>1, <1>m, <2>1, FrontIs
<1>4. DOMAIN scopes' = 1 .. m - 1
  BY <1>3, LenProperties
<1>5. \A j : j \in NotVoid' <=> j \in NotVoid \ {m}
  <2>1. \A j : j \in NotVoid' <=> j \in 1 .. m - 1 /\ ~ scopes[j].cancel
    BY <1>3, <1>4 DEF NotVoid
  <2>2. \A j : j \in NotVoid <=> j \in 1 .. m /\ ~ scopes[j].cancel
    BY <1>1 DEF NotVoid
  <2>3. \A j : j \in 1 .. m - 1 <=> j \in 1 .. m /\ j # m
    BY <1>1
  <2> QED
    BY <2>1, <2>2, <2>3
<1>6. \A j \in NotVoid \ {m} : scopes'[j] = scopes[j]
  BY <1>1, <1>3
<1>7. Len(scopes') <= MaxOpen /\ m \in 1 .. m
  BY <1>1, <1>2, <1>3, Bounded
<1> QED
  BY <1>1, <1>m, <1>3, <1>5, <1>6, <1>7

\* A call that returned is counted, and its return publishes all counts when
\* it was the outermost.
Returned ==
    /\ current \in DOMAIN nodes /\ DOMAIN nodes' = DOMAIN nodes
    /\ \A p \in DOMAIN nodes :
        /\ nodes'[p] \in Node /\ nodes'[p].name = nodes[p].name
        /\ nodes'[p].calls = nodes[p].calls + (IF p = current THEN 1 ELSE 0)
        /\ nodes'[p].stable = IF current' = Root THEN nodes'[p].calls ELSE nodes[p].stable

\* A scope that is not void and ends counts its call.
LEMMA EndReturns ==
    ASSUME ProfilerInv, EndCaller, current \in DOMAIN nodes
    PROVE  Returned /\ IdsInv' /\ CountsInv'
<1>1. /\ \A p \in DOMAIN nodes : nodes[p] \in Node
      /\ \A p \in DOMAIN nodes : /\ nodes[p].name \in DOMAIN ids /\ ids[nodes[p].name] = p[Len(p)]
                                 /\ nodes[p].stable <= nodes[p].calls
                                 /\ nodes[p].stable > 0 => nodes[p].name \in DOMAIN stableIds
      /\ \A p : p \in pending <=> p \in DOMAIN nodes /\ nodes[p].calls # nodes[p].stable
      /\ nextId \in Nat
  <2>1. pending = {p \in DOMAIN nodes : nodes[p].calls # nodes[p].stable}
    BY DEF ProfilerInv, CountsInv, PendingIsTheLag
  <2>2. nextId \in Nat
    BY Bounded DEF ProfilerInv, TreeInv, Keys
  <2> QED
    BY <2>1, <2>2 DEF ProfilerInv, TreeInv, CountsInv
<1>2. \A p \in DOMAIN nodes : nodes[p].calls \in Nat /\ nodes[p].stable \in Nat
  BY <1>1 DEF Node
<1> DEFINE C == Counted
<1>3. /\ DOMAIN C = DOMAIN nodes
      /\ \A p \in DOMAIN nodes : /\ C[p] \in Node /\ C[p].name = nodes[p].name /\ C[p].stable = nodes[p].stable
                                 /\ C[p].calls = nodes[p].calls + (IF p = current THEN 1 ELSE 0)
  <2>1. DOMAIN C = DOMAIN nodes
    BY DEF Counted
  <2>2. \A p \in DOMAIN nodes : C[p] = IF p = current THEN [nodes[p] EXCEPT !.calls = @ + 1] ELSE nodes[p]
    BY DEF Counted
  <2>3. ASSUME NEW p \in DOMAIN nodes
        PROVE  /\ [nodes[p] EXCEPT !.calls = @ + 1] \in Node
               /\ [nodes[p] EXCEPT !.calls = @ + 1].name = nodes[p].name
               /\ [nodes[p] EXCEPT !.calls = @ + 1].stable = nodes[p].stable
               /\ [nodes[p] EXCEPT !.calls = @ + 1].calls = nodes[p].calls + 1
    <3>1. nodes[p] \in Node
      BY <1>1
    <3> QED
      BY <3>1 DEF Node
  <2> HIDE DEF C
  <2>4. ASSUME NEW p \in DOMAIN nodes
        PROVE  /\ C[p] \in Node /\ C[p].name = nodes[p].name /\ C[p].stable = nodes[p].stable
               /\ C[p].calls = nodes[p].calls + (IF p = current THEN 1 ELSE 0)
    <3>1. CASE p = current
      BY <2>2, <2>3, <3>1
    <3>2. CASE p # current
      <4>1. C[p] = nodes[p]
        BY <2>2, <3>2
      <4> QED
        BY <1>1, <1>2, <3>2, <4>1
    <3> QED
      BY <3>1, <3>2
  <2> QED
    BY <2>1, <2>4
<1> HIDE DEF C
<1>4. CASE current' = Root
  <2>1. /\ nodes' = Published(C, pending \cup {current}) /\ pending' = {}
        /\ stableIds' = ids /\ stableNext' = nextId /\ ids' = ids /\ nextId' = nextId
    BY <1>4 DEF EndCaller, Outermost, C, StillPending
  <2>2. /\ DOMAIN nodes' = DOMAIN nodes
        /\ \A p \in DOMAIN nodes : nodes'[p] = IF p \in pending \cup {current}
                                               THEN [C[p] EXCEPT !.stable = C[p].calls] ELSE C[p]
    BY <1>3, <2>1 DEF Published
  <2>3. ASSUME NEW p \in DOMAIN nodes
        PROVE  /\ nodes'[p] \in Node /\ nodes'[p].name = nodes[p].name
               /\ nodes'[p].calls = nodes[p].calls + (IF p = current THEN 1 ELSE 0)
               /\ nodes'[p].stable = nodes'[p].calls
    <3>1. C[p] \in Node
      BY <1>3
    <3>2. CASE p \in pending \cup {current}
      <4>1. nodes'[p] = [C[p] EXCEPT !.stable = C[p].calls]
        BY <2>2, <3>2
      <4>2. nodes'[p] \in Node /\ nodes'[p].name = C[p].name /\ nodes'[p].calls = C[p].calls /\ nodes'[p].stable = C[p].calls
        BY <3>1, <4>1 DEF Node
      <4> QED
        BY <1>3, <4>2
    <3>3. CASE p \notin pending \cup {current}
      BY <1>1, <1>2, <1>3, <2>2, <3>1, <3>3
    <3> QED
      BY <3>2, <3>3
  <2>4. Returned
    BY <1>4, <2>2, <2>3 DEF Returned
  <2>5. IdsInv'
    BY <2>1 DEF ProfilerInv, IdsInv
  <2>6. PendingIsTheLag'
    BY <2>1, <2>2, <2>3 DEF PendingIsTheLag
  <2>7. CountsInv'
    <3>1. \A p \in DOMAIN nodes' : /\ nodes'[p].name \in DOMAIN ids' /\ ids'[nodes'[p].name] = p[Len(p)]
                                   /\ nodes'[p].stable <= nodes'[p].calls
                                   /\ nodes'[p].stable > 0 => nodes'[p].name \in DOMAIN stableIds'
      <4> TAKE p \in DOMAIN nodes'
      <4>1. p \in DOMAIN nodes /\ nodes'[p] \in Node /\ nodes'[p].name = nodes[p].name
            /\ nodes'[p].stable = nodes'[p].calls
        BY <2>2, <2>3
      <4>2. nodes'[p].calls \in Nat
        BY <4>1 DEF Node
      <4>3. nodes[p].name \in DOMAIN ids /\ ids[nodes[p].name] = p[Len(p)]
        BY <1>1, <4>1
      <4> QED
        BY <2>1, <4>1, <4>2, <4>3
    <3> QED
      BY <2>6, <3>1 DEF CountsInv
  <2> QED
    BY <2>4, <2>5, <2>7
<1>5. CASE current' # Root
  <2>1. /\ nodes' = C /\ pending' = pending \cup {current}
        /\ stableIds' = stableIds /\ stableNext' = stableNext /\ ids' = ids /\ nextId' = nextId
    BY <1>5 DEF EndCaller, Outermost, C, StillPending
  <2>2. Returned
    BY <1>3, <1>5, <2>1 DEF Returned
  <2>3. IdsInv'
    BY <2>1 DEF ProfilerInv, IdsInv
  <2>4. PendingIsTheLag'
    <3>1. \A p : p \in pending' <=> p \in DOMAIN nodes' /\ nodes'[p].calls # nodes'[p].stable
      <4> TAKE p
      <4>1. CASE p \in DOMAIN nodes
        BY <1>1, <1>2, <1>3, <2>1, <4>1
      <4>2. CASE p \notin DOMAIN nodes
        BY <1>1, <1>3, <2>1, <4>2
      <4> QED
        BY <4>1, <4>2
    <3> QED
      BY <3>1 DEF PendingIsTheLag
  <2>5. CountsInv'
    <3>1. \A p \in DOMAIN nodes' : /\ nodes'[p].name \in DOMAIN ids' /\ ids'[nodes'[p].name] = p[Len(p)]
                                   /\ nodes'[p].stable <= nodes'[p].calls
                                   /\ nodes'[p].stable > 0 => nodes'[p].name \in DOMAIN stableIds'
      BY <1>1, <1>2, <1>3, <2>1
    <3> QED
      BY <2>4, <3>1 DEF CountsInv
  <2> QED
    BY <2>2, <2>3, <2>5
<1> QED
  BY <1>4, <1>5

\* The live scope that began last is the innermost call.
LEMMA Innermost ==
    ASSUME TreeInv, DepthInv, NEW m \in NotVoid, \A j \in NotVoid : j <= m
    PROVE  Depth(m) = Len(current) /\ current \in DOMAIN nodes
<1>1. /\ NotVoid \subseteq Nat /\ Len(current) \in Nat
      /\ \A i \in NotVoid : Depth(i) \in 1 .. Len(current)
      /\ \A i, j \in NotVoid : i < j => Depth(i) < Depth(j)
      /\ \A k \in 1 .. Len(current) : \E i \in NotVoid : Depth(i) = k
  <2>1. NotVoid \subseteq Nat /\ Len(current) \in Nat
    BY ScopesAre
  <2> QED
    BY <2>1 DEF DepthInv
<1>2. Len(current) \in 1 .. Len(current)
  BY <1>1
<1>3. PICK j \in NotVoid : Depth(j) = Len(current)
  BY <1>1, <1>2
<1>4. j = m \/ j < m
  BY <1>1
<1>5. Depth(m) = Len(current)
  <2>1. j < m => Depth(j) < Depth(m)
    BY <1>1
  <2>2. Depth(m) \in 1 .. Len(current)
    BY <1>1
  <2> QED
    BY <1>1, <1>3, <1>4, <2>1, <2>2
<1>6. current # Root
  BY <1>2 DEF Root
<1> QED
  BY <1>5, <1>6 DEF TreeInv

\* Ending a scope: its call returns, unless the call is void.
LEMMA EndKeeps ==
    ASSUME ProfilerInv, End
    PROVE  /\ ProfilerInv'
           /\ \/ /\ NotVoid' = NotVoid /\ \A j \in NotVoid : scopes'[j] = scopes[j]
                 /\ UNCHANGED <<nodes, current>>
              \/ /\ Returned /\ Len(scopes) \in NotVoid /\ \A j \in NotVoid : j <= Len(scopes)
                 /\ NotVoid' = NotVoid \ {Len(scopes)}
                 /\ \A j \in NotVoid' : scopes'[j] = scopes[j]
                 /\ current' = Front(current) /\ Len(current) > 0
<1>m. PICK m : m = Len(scopes)
  OBVIOUS
<1>1. TreeInv /\ IdsInv /\ CountsInv /\ DepthInv
  BY DEF ProfilerInv
<1>2. /\ scopes' \in Seq(Scopes) /\ Len(scopes') <= MaxOpen
      /\ m \in DOMAIN scopes
      /\ NotVoid' = NotVoid \ {m}
      /\ \A j \in NotVoid \ {m} : scopes'[j] = scopes[j]
      /\ Last(scopes) = scopes[m]
  BY <1>1, <1>m, LastScope DEF End, Last
<1>3. CASE scopes[m].cancel
  <2>1. UNCHANGED <<nodes, current, ids, nextId, stableIds, stableNext, callbacks, pending>>
    BY <1>2, <1>3 DEF End, treeVars
  <2>2. m \notin NotVoid
    BY <1>3 DEF NotVoid
  <2>3. NotVoid' = NotVoid /\ \A j \in NotVoid : scopes'[j] = scopes[j]
    BY <1>2, <2>2
  <2>4. TreeInv' /\ IdsInv' /\ CountsInv'
    BY <1>1, <1>2, <2>1 DEF TreeInv, IdsInv, CountsInv, PendingIsTheLag
  <2>5. DepthInv'
    BY <1>1, <2>1, <2>3 DEF DepthInv, Depth
  <2> QED
    BY <2>1, <2>3, <2>4, <2>5 DEF ProfilerInv
<1>4. CASE ~ scopes[m].cancel
  <2>1. EndCaller
    BY <1>2, <1>4 DEF End
  <2>2. m \in NotVoid
    BY <1>2, <1>4 DEF NotVoid
  <2>3. \A j \in NotVoid : j <= m
    BY <1>1, <1>m, ScopesAre
  <2>4. Depth(m) = Len(current) /\ current \in DOMAIN nodes
    BY <1>1, <2>2, <2>3, Innermost
  <2>5. Returned /\ IdsInv' /\ CountsInv'
    BY <2>1, <2>4, EndReturns
  <2>6. /\ DepthInv'
        /\ current' \in Seq(Keys) /\ (current' = Root \/ current' \in DOMAIN nodes)
        /\ current' = Front(current) /\ Len(current) > 0
        /\ callbacks' \in Seq(0 .. MaxOpen)
    <3>1. DOMAIN nodes' = DOMAIN nodes /\ \A p \in DOMAIN nodes : nodes'[p].name = nodes[p].name
      BY <2>5 DEF Returned
    <3>2. PopCaller
      BY <2>1 DEF EndCaller
    <3> QED
      BY <1>1, <1>2, <2>2, <2>4, <3>1, <3>2, PoppedDepth
  <2>7. TreeInv'
    <3>1. /\ DOMAIN nodes' = DOMAIN nodes /\ \A p \in DOMAIN nodes : nodes'[p] \in Node
      BY <2>5 DEF Returned
    <3>2. nextId' = nextId /\ (stableNext' = nextId \/ stableNext' = stableNext)
      BY <2>1 DEF EndCaller
    <3>3. nextId' \in Keys /\ stableNext' \in 0 .. nextId'
      BY <1>1, <3>2, Bounded DEF TreeInv, Keys
    <3> QED
      BY <1>1, <1>2, <2>6, <3>1, <3>3 DEF TreeInv
  <2>8. ProfilerInv'
    BY <2>5, <2>6, <2>7 DEF ProfilerInv
  <2>9. \A j \in NotVoid' : scopes'[j] = scopes[j]
    BY <1>2
  <2> QED
    BY <1>2, <1>m, <2>2, <2>3, <2>5, <2>6, <2>8, <2>9
<1> QED
  BY <1>3, <1>4

\* Withdrawing the innermost call.
LEMMA CancelKeeps ==
    ASSUME ProfilerInv, NEW i, Cancel(i)
    PROVE  /\ ProfilerInv'
           /\ i \in NotVoid /\ NotVoid' = NotVoid \ {i} /\ \A j \in NotVoid : j <= i
           /\ \A j \in NotVoid' : scopes'[j] = scopes[j]
           /\ current' = Front(current) /\ Len(current) > 0 /\ nodes' = nodes
<1>1. TreeInv /\ IdsInv /\ CountsInv /\ DepthInv
  BY DEF ProfilerInv
<1>2. /\ i \in DOMAIN scopes /\ ~ scopes[i].cancel /\ scopes[i].frame = current /\ PopCaller
      /\ scopes' = [scopes EXCEPT ![i].cancel = TRUE]
      /\ UNCHANGED <<nodes, ids, nextId, stableIds, stableNext, pending>>
  BY DEF Cancel
<1>3. i \in NotVoid /\ Depth(i) = Len(current)
  BY <1>2 DEF NotVoid, Depth
<1>4. /\ Len(scopes) \in Nat /\ DOMAIN scopes = 1 .. Len(scopes) /\ scopes \in Seq(Scopes)
      /\ \A j \in 1 .. Len(scopes) : scopes[j] \in Scopes
      /\ NotVoid \subseteq Nat
  BY <1>1, ScopesAre DEF TreeInv
<1>5. [scopes[i] EXCEPT !.cancel = TRUE] \in Scopes /\ [scopes[i] EXCEPT !.cancel = TRUE].cancel = TRUE
  <2>1. scopes[i] \in Scopes
    BY <1>2, <1>4
  <2> QED
    BY <2>1 DEF Scopes
<1>6. /\ scopes' \in Seq(Scopes) /\ Len(scopes') = Len(scopes) /\ DOMAIN scopes' = DOMAIN scopes
      /\ \A j \in DOMAIN scopes : scopes'[j] = IF j = i THEN [scopes[i] EXCEPT !.cancel = TRUE] ELSE scopes[j]
  <2>1. scopes' = [scopes EXCEPT ![i] = [scopes[i] EXCEPT !.cancel = TRUE]]
    BY <1>2
  <2> QED
    BY <1>2, <1>4, <1>5, <2>1, ExceptSeq
<1>7. NotVoid' = NotVoid \ {i} /\ \A j \in NotVoid \ {i} : scopes'[j] = scopes[j]
  <2>1. \A j : j \in NotVoid' <=> j \in NotVoid \ {i}
    BY <1>2, <1>5, <1>6 DEF NotVoid
  <2>2. \A j \in NotVoid \ {i} : scopes'[j] = scopes[j]
    BY <1>6 DEF NotVoid
  <2> QED
    BY <2>1, <2>2
<1>8. /\ DepthInv'
      /\ current' \in Seq(Keys) /\ (current' = Root \/ current' \in DOMAIN nodes)
      /\ current' = Front(current) /\ Len(current) > 0
      /\ callbacks' \in Seq(0 .. MaxOpen)
  <2>1. DOMAIN nodes' = DOMAIN nodes /\ \A p \in DOMAIN nodes : nodes'[p].name = nodes[p].name
    BY <1>2
  <2> QED
    BY <1>1, <1>2, <1>3, <1>7, <2>1, PoppedDepth
<1>9. TreeInv' /\ IdsInv' /\ CountsInv'
  BY <1>1, <1>2, <1>6, <1>8 DEF TreeInv, IdsInv, CountsInv, PendingIsTheLag
<1>10. \A j \in NotVoid : j <= i
  <2> TAKE j \in NotVoid
  <2>1. Depth(j) \in 1 .. Len(current) /\ (i < j => Depth(i) < Depth(j)) /\ Len(current) \in Nat
    BY <1>1, <1>3, ScopesAre DEF DepthInv
  <2> QED
    BY <1>3, <1>4, <2>1
<1> QED
  BY <1>2, <1>3, <1>7, <1>8, <1>9, <1>10 DEF ProfilerInv

\* Starting afresh tells every live scope that its call is void.
LEMMA ResetKeeps ==
    ASSUME ProfilerInv, Reset
    PROVE  ProfilerInv' /\ NotVoid' = {} /\ DOMAIN nodes' = {} /\ current' = Root
<1>1. TreeInv /\ DepthInv
  BY DEF ProfilerInv
<1>2. /\ NoneTimed
      /\ nodes' = <<>> /\ current' = Root /\ ids' = <<>> /\ nextId' = 0
      /\ stableIds' = <<>> /\ stableNext' = 0 /\ callbacks' = <<>> /\ pending' = {}
      /\ scopes' = [i \in DOMAIN scopes |-> [scopes[i] EXCEPT !.cancel = @ \/ i \in Range(callbacks)]]
  BY DEF Reset, Dropped
<1>3. DOMAIN nodes' = {} /\ DOMAIN ids' = {} /\ DOMAIN stableIds' = {}
  BY <1>2
<1>4. /\ Len(scopes) \in Nat /\ DOMAIN scopes = 1 .. Len(scopes) /\ Len(scopes) <= MaxOpen
      /\ \A j \in 1 .. Len(scopes) : scopes[j] \in Scopes
      /\ callbacks \in Seq(0 .. MaxOpen) /\ DOMAIN callbacks = 1 .. Len(callbacks)
  <2>1. callbacks \in Seq(0 .. MaxOpen) /\ Len(scopes) <= MaxOpen
    BY <1>1 DEF TreeInv
  <2> QED
    BY <1>1, <2>1, ScopesAre, LenProperties
<1>5. \A j \in NotVoid : j \in Range(callbacks)
  <2> TAKE j \in NotVoid
  <2>1. j \in DOMAIN scopes /\ ~ scopes[j].timed
    BY <1>2 DEF NotVoid, NoneTimed
  <2>2. Depth(j) \in 1 .. Len(callbacks) /\ callbacks[Depth(j)] = j
    BY <1>1, <2>1 DEF DepthInv
  <2> QED
    BY <1>4, <2>2 DEF Range
<1>6. \A j \in 1 .. Len(scopes) : [scopes[j] EXCEPT !.cancel = @ \/ j \in Range(callbacks)] \in Scopes
  <2> TAKE j \in 1 .. Len(scopes)
  <2>1. scopes[j] \in Scopes
    BY <1>4
  <2>2. (scopes[j].cancel \/ j \in Range(callbacks)) \in BOOLEAN
    OBVIOUS
  <2> QED
    BY <2>1, <2>2 DEF Scopes
<1>7. scopes' \in Seq(Scopes) /\ Len(scopes') = Len(scopes) /\ DOMAIN scopes' = DOMAIN scopes
  <2>1. DOMAIN scopes' = 1 .. Len(scopes) /\ scopes' \in [1 .. Len(scopes) -> Scopes]
    BY <1>2, <1>4, <1>6
  <2>2. scopes' \in Seq(Scopes)
    BY <1>4, <2>1
  <2> QED
    BY <1>4, <2>1, <2>2, LenProperties
<1>8. NotVoid' = {}
  <2>1. ASSUME NEW j \in DOMAIN scopes PROVE scopes'[j].cancel
    <3>1. scopes[j] \in Scopes
      BY <1>4
    <3>2. scopes'[j].cancel = (scopes[j].cancel \/ j \in Range(callbacks))
      BY <1>2, <3>1 DEF Scopes
    <3>3. scopes[j].cancel \/ j \in Range(callbacks)
      BY <1>5 DEF NotVoid
    <3> QED
      BY <3>2, <3>3
  <2> QED
    BY <1>7, <2>1 DEF NotVoid
<1>9. TreeInv'
  <2>1. current' \in Seq(Keys) /\ callbacks' \in Seq(0 .. MaxOpen)
    BY <1>2, EmptySeq DEF Root
  <2>2. nextId' \in Keys /\ stableNext' \in 0 .. nextId'
    BY <1>2, Bounded DEF Keys
  <2> QED
    BY <1>2, <1>3, <1>4, <1>7, <2>1, <2>2 DEF TreeInv
<1>10. IdsInv' /\ CountsInv'
  BY <1>2, <1>3 DEF IdsInv, CountsInv, PendingIsTheLag
<1>11. DepthInv'
  <2>1. Len(current') = 0 /\ Len(callbacks') = 0
    BY <1>2, EmptySeq DEF Root
  <2>2. \A k \in 1 .. Len(current') : \E i \in NotVoid' : Depth(i)' = k
    BY <2>1
  <2> QED
    BY <1>8, <2>1, <2>2 DEF DepthInv
<1> QED
  BY <1>2, <1>3, <1>8, <1>9, <1>10, <1>11 DEF ProfilerInv

\* As many live scopes are no deeper than a depth as the depth says.
LEMMA DepthCounts ==
    ASSUME TreeInv, DepthInv, NEW n \in 0 .. Len(current)
    PROVE  Cardinality({j \in NotVoid : Depth(j) <= n}) = n
<1> DEFINE S == {j \in NotVoid : Depth(j) <= n}
           f == [k \in 1 .. n |-> CHOOSE j \in NotVoid : Depth(j) = k]
<1>0. NotVoid \subseteq Nat /\ Len(current) \in Nat
  BY ScopesAre
<1>1. /\ n \in Nat /\ n <= Len(current)
      /\ \A i \in NotVoid : Depth(i) \in 1 .. Len(current)
      /\ \A k \in 1 .. Len(current) : \E i \in NotVoid : Depth(i) = k
  BY <1>0 DEF DepthInv
<1>2. \A i, j \in NotVoid : Depth(i) = Depth(j) => i = j
  <2> TAKE i, j \in NotVoid
  <2>1. (i < j => Depth(i) < Depth(j)) /\ (j < i => Depth(j) < Depth(i))
    BY DEF DepthInv
  <2>2. Depth(i) \in Nat /\ Depth(j) \in Nat
    BY <1>0, <1>1
  <2> QED
    BY <1>0, <2>1, <2>2
<1>3. \A k \in 1 .. n : f[k] \in NotVoid /\ Depth(f[k]) = k
  <2> TAKE k \in 1 .. n
  <2>1. k \in 1 .. Len(current)
    BY <1>0, <1>1
  <2>2. \E i \in NotVoid : Depth(i) = k
    BY <1>1, <2>1
  <2> QED
    BY <2>2
<1> HIDE DEF f
<1>4. f \in [1 .. n -> S]
  <2>1. f = [k \in 1 .. n |-> f[k]]
    BY DEF f
  <2>2. \A k \in 1 .. n : f[k] \in S
    BY <1>1, <1>3
  <2> QED
    BY <2>1, <2>2
<1>5. \A a, b \in 1 .. n : f[a] = f[b] => a = b
  BY <1>3
<1>6. \A j \in S : \E k \in 1 .. n : f[k] = j
  <2> TAKE j \in S
  <2>1. Depth(j) \in 1 .. n
    BY <1>0, <1>1
  <2> QED
    BY <1>2, <1>3, <2>1
<1>7. f \in Bijection(1 .. n, S)
  BY <1>4, <1>5, <1>6 DEF Bijection, Injection, Surjection, IsInjective
<1>8. ExistsBijection(1 .. n, S)
  BY <1>7 DEF ExistsBijection
<1> QED
  BY <1>1, <1>8, FS_CountingElements

\* The live scopes, in the order they began, are one at each depth.
LEMMA LiveIs ==
    TreeInv /\ DepthInv =>
        /\ Len(current) \in Nat /\ DOMAIN current = 1 .. Len(current)
        /\ DOMAIN Live = 1 .. Len(current) /\ Len(Live) = Len(current)
        /\ \A k \in 1 .. Len(current) : Live[k] \in NotVoid /\ Depth(Live[k]) = k
<1> SUFFICES ASSUME TreeInv, DepthInv
             PROVE  /\ Len(current) \in Nat /\ DOMAIN current = 1 .. Len(current)
                    /\ DOMAIN Live = 1 .. Len(current) /\ Len(Live) = Len(current)
                    /\ \A k \in 1 .. Len(current) : Live[k] \in NotVoid /\ Depth(Live[k]) = k
  OBVIOUS
<1>1. /\ NotVoid \subseteq Nat /\ Len(current) \in Nat
      /\ current \in Seq(Keys) /\ DOMAIN current = 1 .. Len(current)
  BY ScopesAre, LenProperties DEF TreeInv
<1>2. /\ \A i \in NotVoid : Depth(i) \in 1 .. Len(current)
      /\ \A k \in 1 .. Len(current) : \E i \in NotVoid : Depth(i) = k
      /\ \A i, j \in NotVoid : i < j => Depth(i) < Depth(j)
  BY DEF DepthInv
<1>3. Cardinality(NotVoid) = Len(current)
  <2>1. NotVoid = {j \in NotVoid : Depth(j) <= Len(current)}
    <3>1. \A j \in NotVoid : Depth(j) <= Len(current)
      BY <1>1, <1>2
    <3> QED
      BY <3>1
  <2>2. Len(current) \in 0 .. Len(current)
    BY <1>1
  <2> QED
    BY <2>1, <2>2, DepthCounts
<1>4. \A i \in NotVoid : Cardinality(UpTo(i)) = Depth(i)
  <2> TAKE i \in NotVoid
  <2>1. Depth(i) \in 0 .. Len(current)
    BY <1>1, <1>2
  <2>2. \A j \in NotVoid : j <= i <=> Depth(j) <= Depth(i)
    <3> TAKE j \in NotVoid
    <3>1. (i < j => Depth(i) < Depth(j)) /\ (j < i => Depth(j) < Depth(i))
      BY <1>2
    <3>2. Depth(i) \in Nat /\ Depth(j) \in Nat /\ i \in Nat /\ j \in Nat
      BY <1>1, <1>2
    <3>3. i = j => Depth(i) = Depth(j)
      OBVIOUS
    <3> QED
      BY <3>1, <3>2, <3>3
  <2>3. UpTo(i) = {j \in NotVoid : Depth(j) <= Depth(i)}
    BY <2>2 DEF UpTo
  <2> QED
    BY <2>1, <2>3, DepthCounts
<1>5. Live = [k \in 1 .. Len(current) |-> CHOOSE i \in NotVoid : Cardinality(UpTo(i)) = k]
  BY <1>3 DEF Live
<1>6. \A k \in 1 .. Len(current) : Live[k] \in NotVoid /\ Depth(Live[k]) = k
  <2> TAKE k \in 1 .. Len(current)
  <2>1. PICK i \in NotVoid : Cardinality(UpTo(i)) = k
    BY <1>2, <1>4
  <2>2. Live[k] = CHOOSE j \in NotVoid : Cardinality(UpTo(j)) = k
    BY <1>5
  <2>3. Live[k] \in NotVoid /\ Cardinality(UpTo(Live[k])) = k
    BY <2>1, <2>2
  <2> QED
    BY <1>4, <2>3
<1>7. DOMAIN Live = 1 .. Len(current)
  BY <1>5
<1>8. Len(Live) = Len(current)
  <2>1. Live \in [1 .. Len(current) -> NotVoid]
    BY <1>5, <1>6
  <2>2. Live \in Seq(NotVoid)
    BY <1>1, <2>1
  <2> QED
    BY <1>1, <1>7, <2>2, LenProperties
<1> QED
  BY <1>1, <1>6, <1>7, <1>8

\* What the run checks of a state follows from the invariant.
LEMMA InvInStep == ProfilerInv => ProfilerInStep
<1> SUFFICES ASSUME ProfilerInv PROVE ProfilerInStep
  OBVIOUS
<1>1. TreeInv /\ IdsInv /\ CountsInv /\ DepthInv
  BY DEF ProfilerInv
<1>2. ProfilerTypeOK
  BY <1>1 DEF ProfilerTypeOK, TreeInv, IdsInv, Keys
<1>3. StackAgrees
  <2>1. /\ DOMAIN Live = 1 .. Len(current) /\ Len(Live) = Len(current)
        /\ \A k \in 1 .. Len(current) : Live[k] \in NotVoid /\ Depth(Live[k]) = k
    BY <1>1, LiveIs
  <2>2. \A k \in DOMAIN Live : /\ callbacks[k] = IF scopes[Live[k]].timed THEN 0 ELSE Live[k]
                               /\ scopes[Live[k]].frame = SubSeq(current, 1, k)
    <3> TAKE k \in DOMAIN Live
    <3>1. Live[k] \in NotVoid /\ Depth(Live[k]) = k
      BY <2>1
    <3> QED
      BY ZenonT(60), <1>1, <3>1 DEF DepthInv
  <2> QED
    BY <1>1, <2>1, <2>2 DEF StackAgrees, DepthInv
<1>4. PendingIsTheLag
  BY <1>1 DEF CountsInv
<1>5. KeysNameCallers
  BY <1>1 DEF KeysNameCallers, IdsInv, CountsInv, Last
<1> QED
  BY <1>2, <1>3, <1>4, <1>5 DEF ProfilerInStep

\* An empty profiler is in step.
LEMMA ProfilerStarts == ProfilerInit => ProfilerInv /\ DOMAIN nodes = {} /\ current = Root
<1> SUFFICES ASSUME ProfilerInit PROVE ProfilerInv /\ DOMAIN nodes = {} /\ current = Root
  OBVIOUS
<1>1. /\ nodes = <<>> /\ current = <<>> /\ ids = <<>> /\ nextId = 0
      /\ stableIds = <<>> /\ stableNext = 0 /\ callbacks = <<>> /\ pending = {} /\ scopes = <<>>
  BY DEF ProfilerInit, Root
<1>2. DOMAIN nodes = {} /\ DOMAIN ids = {} /\ DOMAIN stableIds = {} /\ DOMAIN scopes = {}
  BY <1>1
<1>3. TreeInv
  BY <1>1, <1>2, EmptySeq, Bounded DEF TreeInv, Keys, Root
<1>4. IdsInv /\ CountsInv
  BY <1>1, <1>2 DEF IdsInv, CountsInv, PendingIsTheLag
<1>5. DepthInv
  <2>1. NotVoid = {}
    BY <1>2 DEF NotVoid
  <2>2. Len(current) = 0 /\ Len(callbacks) = 0
    BY <1>1, EmptySeq
  <2>3. \A k \in 1 .. Len(current) : \E i \in NotVoid : Depth(i) = k
    BY <2>2
  <2> QED
    BY <2>1, <2>2, <2>3 DEF DepthInv
<1> QED
  BY <1>1, <1>2, <1>3, <1>4, <1>5 DEF ProfilerInv, Root

\* Nothing moves.
LEMMA ProfilerRests ==
    ASSUME ProfilerInv, UNCHANGED profilerVars
    PROVE  ProfilerInv'
  BY DEF ProfilerInv, TreeInv, IdsInv, CountsInv, PendingIsTheLag, DepthInv, NotVoid, Depth, profilerVars, treeVars

\* Every step keeps the four accounts together.
LEMMA ProfilerStep == ProfilerInv /\ [ProfilerNext]_profilerVars => ProfilerInv'
<1> SUFFICES ASSUME ProfilerInv, [ProfilerNext]_profilerVars PROVE ProfilerInv'
  OBVIOUS
<1>1. ASSUME NEW name \in Names, NEW timed \in BOOLEAN, Begin(name, timed) PROVE ProfilerInv'
  <2>1. PICK key \in Keys : Entered(key, name, timed)
    BY <1>1, BeginEnters
  <2> QED
    BY <2>1, EnteredTree, EnteredDepth DEF ProfilerInv
<1>2. CASE End
  BY <1>2, EndKeeps
<1>3. ASSUME NEW i \in 1 .. MaxOpen, Cancel(i) PROVE ProfilerInv'
  BY <1>3, CancelKeeps
<1>4. CASE Reset
  BY <1>4, ResetKeeps
<1>5. CASE UNCHANGED profilerVars
  BY <1>5, ProfilerRests
<1> QED
  BY <1>1, <1>2, <1>3, <1>4, <1>5 DEF ProfilerNext

\* After calls that begin, return, are withdrawn or voided in any order, the
\* scopes, the tree, the id map and the list of nodes to publish agree (RadixTree.cpp:13-75).
THEOREM ProfilerAgrees == ProfilerSpec => []ProfilerInStep
<1>1. ProfilerSpec => []ProfilerInv
  BY ProfilerStarts, ProfilerStep, PTL DEF ProfilerSpec
<1> QED
  BY <1>1, InvInStep, PTL

-----------------------------------------------------------------------------
(* The profiler is the call log. *)

\* The names and the counts of a tree of callers, as the mapping takes them.
NamesIn(N, p) == [i \in DOMAIN p |-> N[SubSeq(p, 1, i)].name]
TallyIn(N, c) ==
    LET counted == {p \in DOMAIN N : c[p] > 0}
    IN [q \in {NamesIn(N, p) : p \in counted} |-> c[CHOOSE p \in counted : NamesIn(N, p) = q]]

OpenNow == [k \in DOMAIN Live |-> scopes[Live[k]].name]
Calls(N) == [p \in DOMAIN N |-> N[p].calls]
Shows(N) == [p \in DOMAIN N |-> N[p].stable]

\* In a tree the names on the way tell the nodes apart.
NamesTell(N) == \A p, q \in DOMAIN N : NamesIn(N, p) = NamesIn(N, q) => p = q

\* A name has one key, so the path of names gives the path of keys.
LEMMA TreeTells == ProfilerInv => NamesTell(nodes)
<1> SUFFICES ASSUME ProfilerInv, NEW p \in DOMAIN nodes, NEW q \in DOMAIN nodes,
                    NamesIn(nodes, p) = NamesIn(nodes, q)
             PROVE  p = q
  BY DEF NamesTell
<1>1. /\ p \in Seq(Keys) /\ q \in Seq(Keys)
      /\ \A k \in 1 .. Len(p) : SubSeq(p, 1, k) \in DOMAIN nodes
      /\ \A k \in 1 .. Len(q) : SubSeq(q, 1, k) \in DOMAIN nodes
      /\ \A r \in DOMAIN nodes : ids[nodes[r].name] = r[Len(r)]
  BY DEF ProfilerInv, TreeInv, CountsInv
<1>2. Len(p) \in Nat /\ Len(q) \in Nat /\ DOMAIN p = 1 .. Len(p) /\ DOMAIN q = 1 .. Len(q)
  BY <1>1, LenProperties
<1>3. Len(p) = Len(q)
  <2>1. DOMAIN NamesIn(nodes, p) = 1 .. Len(p) /\ DOMAIN NamesIn(nodes, q) = 1 .. Len(q)
    BY <1>2 DEF NamesIn
  <2>2. \A k \in Nat : k \in 1 .. Len(p) <=> k \in 1 .. Len(q)
    BY <2>1
  <2>3. PICK a \in Nat, b \in Nat : a = Len(p) /\ b = Len(q)
    BY <1>2
  <2>4. (a \in 1 .. a <=> a \in 1 .. b) /\ (b \in 1 .. a <=> b \in 1 .. b)
    BY <2>2, <2>3
  <2>5. a = b
    BY <2>4
  <2> QED
    BY <2>3, <2>5
<1>4. ASSUME NEW s \in Seq(Keys), NEW k \in 1 .. Len(s), SubSeq(s, 1, k) \in DOMAIN nodes
      PROVE ids[nodes[SubSeq(s, 1, k)].name] = s[k]
  <2>1. Len(s) \in Nat
    BY LenProperties
  <2>2. Len(SubSeq(s, 1, k)) = k /\ SubSeq(s, 1, k)[k] = s[k]
    BY <2>1, SubSeqProperties
  <2> QED
    BY <1>1, <1>4, <2>2
<1>5. \A k \in 1 .. Len(p) : p[k] = q[k]
  <2> TAKE k \in 1 .. Len(p)
  <2>1. NamesIn(nodes, p)[k] = nodes[SubSeq(p, 1, k)].name /\ NamesIn(nodes, q)[k] = nodes[SubSeq(q, 1, k)].name
    BY <1>2, <1>3 DEF NamesIn
  <2>2. ids[nodes[SubSeq(p, 1, k)].name] = p[k]
    BY <1>1, <1>4
  <2>3. ids[nodes[SubSeq(q, 1, k)].name] = q[k]
    BY <1>1, <1>3, <1>4
  <2> QED
    BY <2>1, <2>2, <2>3
<1> QED
  BY <1>1, <1>3, <1>5, SeqEqual

\* A tally is over the paths of names that were counted, with their counts.
LEMMA TallyIs ==
    ASSUME NEW N, NamesTell(N), NEW c
    PROVE  /\ TallyIn(N, c) = [q \in {NamesIn(N, p) : p \in {p \in DOMAIN N : c[p] > 0}} |-> TallyIn(N, c)[q]]
           /\ \A p \in DOMAIN N : c[p] > 0 => TallyIn(N, c)[NamesIn(N, p)] = c[p]
<1> DEFINE S == {p \in DOMAIN N : c[p] > 0}
           D == {NamesIn(N, p) : p \in S}
<1>1. TallyIn(N, c) = [q \in D |-> c[CHOOSE p \in S : NamesIn(N, p) = q]]
  BY DEF TallyIn
<1>2. ASSUME NEW p \in S PROVE (CHOOSE r \in S : NamesIn(N, r) = NamesIn(N, p)) = p
  BY <1>2 DEF NamesTell
<1>3. ASSUME NEW p \in S PROVE TallyIn(N, c)[NamesIn(N, p)] = c[p]
  BY <1>1, <1>2
<1>4. TallyIn(N, c) = [q \in D |-> TallyIn(N, c)[q]]
  BY <1>1
<1> QED
  BY <1>3, <1>4

\* Trees that counted the same on the same paths have the same tally.
LEMMA SameTally ==
    ASSUME NEW N, NEW M, NamesTell(N), NamesTell(M), NEW c, NEW e,
           \A p : p \in DOMAIN N /\ c[p] > 0 <=> p \in DOMAIN M /\ e[p] > 0,
           \A p \in DOMAIN N : c[p] > 0 => e[p] = c[p] /\ NamesIn(M, p) = NamesIn(N, p)
    PROVE  TallyIn(M, e) = TallyIn(N, c)
<1> DEFINE S == {p \in DOMAIN N : c[p] > 0}
           T == {p \in DOMAIN M : e[p] > 0}
           D == {NamesIn(N, p) : p \in S}
<1>1. S = T
  OBVIOUS
<1>2. D = {NamesIn(M, p) : p \in T}
  BY <1>1
<1>3. /\ TallyIn(N, c) = [q \in D |-> TallyIn(N, c)[q]]
      /\ TallyIn(M, e) = [q \in D |-> TallyIn(M, e)[q]]
  <2>1. TallyIn(N, c) = [q \in D |-> TallyIn(N, c)[q]]
    BY TallyIs
  <2>2. TallyIn(M, e) = [q \in {NamesIn(M, p) : p \in T} |-> TallyIn(M, e)[q]]
    BY TallyIs
  <2> QED
    BY <1>2, <2>1, <2>2
<1>4. \A q \in D : TallyIn(N, c)[q] = TallyIn(M, e)[q]
  <2> TAKE q \in D
  <2>1. PICK p \in S : q = NamesIn(N, p)
    OBVIOUS
  <2>2. TallyIn(N, c)[NamesIn(N, p)] = c[p]
    BY <2>1, TallyIs
  <2>3. TallyIn(M, e)[NamesIn(M, p)] = e[p]
    BY ZenonT(60), <1>1, <2>1, TallyIs
  <2> QED
    BY <2>1, <2>2, <2>3
<1> QED
  BY <1>3, <1>4

\* One call more is counted at its own path.
LEMMA OneMore ==
    ASSUME NEW N, NEW M, NamesTell(N), NamesTell(M), NEW c, NEW e, NEW x \in DOMAIN N,
           DOMAIN M = DOMAIN N, \A p \in DOMAIN N : NamesIn(M, p) = NamesIn(N, p),
           \A p \in DOMAIN N : c[p] \in Nat /\ e[p] = c[p] + (IF p = x THEN 1 ELSE 0)
    PROVE  TallyIn(M, e) = Log!Counted(TallyIn(N, c), NamesIn(N, x))
<1> DEFINE S == {p \in DOMAIN N : c[p] > 0}
           T == {p \in DOMAIN M : e[p] > 0}
           D == {NamesIn(N, p) : p \in S}
           E == {NamesIn(M, p) : p \in T}
           o == NamesIn(N, x)
<1>1. T = S \cup {x} /\ \A p \in S \ {x} : e[p] = c[p]
  OBVIOUS
<1>2. E = D \cup {o}
  BY <1>1
<1>3. TallyIn(N, c) = [q \in D |-> TallyIn(N, c)[q]]
  BY TallyIs
<1>4. TallyIn(M, e) = [q \in E |-> TallyIn(M, e)[q]]
  BY TallyIs
<1>5. /\ \A p \in S : TallyIn(N, c)[NamesIn(N, p)] = c[p]
      /\ \A p \in T : TallyIn(M, e)[NamesIn(M, p)] = e[p]
  BY TallyIs
<1> DEFINE t == TallyIn(N, c)
           C == Log!Counted(t, o)
<1>6. DOMAIN t = D
  BY <1>3
<1>7. C = [q \in D \cup {o} |-> (IF q \in D THEN t[q] ELSE 0) + (IF q = o THEN 1 ELSE 0)]
  BY <1>6 DEF Log!Counted
<1>8. \A q \in E : TallyIn(M, e)[q] = (IF q \in D THEN t[q] ELSE 0) + (IF q = o THEN 1 ELSE 0)
  <2> TAKE q \in E
  <2>1. PICK p \in T : q = NamesIn(N, p) /\ q = NamesIn(M, p)
    OBVIOUS
  <2>2. TallyIn(M, e)[q] = e[p]
    BY <1>5, <2>1
  <2>3. p \in DOMAIN N /\ c[p] \in Nat
    BY <2>1
  <2>4. \A r \in DOMAIN N : NamesIn(N, r) = q => r = p
    BY <2>1, <2>3 DEF NamesTell
  <2>5. q = o <=> p = x
    BY <2>1, <2>4
  <2>6. q \in D <=> p \in S
    BY <2>1, <2>4
  <2>7. p \in S => t[q] = c[p]
    BY <1>5, <2>1
  <2>8. p \notin S => c[p] = 0
    BY <2>3
  <2> HIDE DEF S, D, T, E, o, t
  <2>9. e[p] = c[p] + (IF p = x THEN 1 ELSE 0)
    BY <2>3
  <2> QED
    BY <2>2, <2>3, <2>5, <2>6, <2>7, <2>8, <2>9
<1> HIDE DEF S, D, T, E, o, t
<1> QED
  BY <1>2, <1>4, <1>7, <1>8 DEF C, t, o

\* The paths of names are lists of names.
LEMMA NamesAre ==
    ProfilerInv =>
        \A p \in DOMAIN nodes \cup {Root} :
            /\ NamesIn(nodes, p) \in Seq(Names) /\ Len(NamesIn(nodes, p)) = Len(p) /\ Len(p) \in Nat
            /\ \A k \in 1 .. Len(p) : NamesIn(nodes, p)[k] = nodes[SubSeq(p, 1, k)].name
<1> SUFFICES ASSUME ProfilerInv, NEW p \in DOMAIN nodes \cup {Root}
             PROVE  /\ NamesIn(nodes, p) \in Seq(Names) /\ Len(NamesIn(nodes, p)) = Len(p) /\ Len(p) \in Nat
                    /\ \A k \in 1 .. Len(p) : NamesIn(nodes, p)[k] = nodes[SubSeq(p, 1, k)].name
  OBVIOUS
<1>1. p \in Seq(Keys)
  BY EmptySeq DEF ProfilerInv, TreeInv, Root
<1>2. Len(p) \in Nat /\ DOMAIN p = 1 .. Len(p)
  BY <1>1, LenProperties
<1>3. \A k \in 1 .. Len(p) : nodes[SubSeq(p, 1, k)].name \in Names
  <2> TAKE k \in 1 .. Len(p)
  <2>1. p # Root
    BY <1>2, EmptySeq DEF Root
  <2>2. nodes[SubSeq(p, 1, k)] \in Node
    BY <2>1 DEF ProfilerInv, TreeInv
  <2> QED
    BY <2>2 DEF Node
<1>4. NamesIn(nodes, p) = [k \in 1 .. Len(p) |-> nodes[SubSeq(p, 1, k)].name]
  BY <1>2 DEF NamesIn
<1>5. NamesIn(nodes, p) \in [1 .. Len(p) -> Names]
  BY <1>3, <1>4
<1>6. NamesIn(nodes, p) \in Seq(Names)
  BY <1>2, <1>5
<1>7. Len(NamesIn(nodes, p)) = Len(p)
  BY <1>2, <1>5, <1>6, LenProperties
<1> QED
  BY <1>2, <1>4, <1>6, <1>7

\* Nodes that keep their names keep the paths.
LEMMA NamesKept ==
    ASSUME ProfilerInv, \A p \in DOMAIN nodes : nodes'[p].name = nodes[p].name,
           NEW q \in DOMAIN nodes \cup {Root}
    PROVE  NamesIn(nodes', q) = NamesIn(nodes, q)
<1>1. q \in Seq(Keys)
  BY EmptySeq DEF ProfilerInv, TreeInv, Root
<1>2. Len(q) \in Nat /\ DOMAIN q = 1 .. Len(q)
  BY <1>1, LenProperties
<1>3. \A k \in 1 .. Len(q) : SubSeq(q, 1, k) \in DOMAIN nodes
  <2> TAKE k \in 1 .. Len(q)
  <2>1. q # Root
    BY <1>2, EmptySeq DEF Root
  <2> QED
    BY <2>1 DEF ProfilerInv, TreeInv
<1> QED
  BY <1>2, <1>3 DEF NamesIn

\* The callers running are those on the way to the cursor.
LEMMA OpenIs ==
    ProfilerInv => /\ OpenNow = NamesIn(nodes, current) /\ current \in DOMAIN nodes \cup {Root}
                   /\ current \in Seq(Keys)
<1> SUFFICES ASSUME ProfilerInv PROVE OpenNow = NamesIn(nodes, current)
  BY DEF ProfilerInv, TreeInv
<1>1. TreeInv /\ DepthInv
  BY DEF ProfilerInv
<1>2. /\ DOMAIN current = 1 .. Len(current) /\ DOMAIN Live = 1 .. Len(current)
      /\ \A k \in 1 .. Len(current) : Live[k] \in NotVoid /\ Depth(Live[k]) = k
  BY <1>1, LiveIs
<1>3. \A k \in 1 .. Len(current) : scopes[Live[k]].name = nodes[SubSeq(current, 1, k)].name
  <2> TAKE k \in 1 .. Len(current)
  <2>1. PICK i \in NotVoid : i = Live[k] /\ Depth(i) = k
    BY <1>2
  <2>2. scopes[i].frame = SubSeq(current, 1, k) /\ scopes[i].name = nodes[scopes[i].frame].name
    BY <1>1, <2>1 DEF DepthInv
  <2> QED
    BY <2>1, <2>2
<1> QED
  BY <1>2, <1>3 DEF OpenNow, NamesIn

\* What the call log sees of the profiler.
TotalNow == TallyIn(nodes, Calls(nodes))
ShownNow == TallyIn(nodes, Shows(nodes))

\* The mapping gives the log these three.
LEMMA MapIs ==
    /\ Tally([p \in DOMAIN nodes |-> nodes[p].calls]) = TotalNow
    /\ Tally([p \in DOMAIN nodes |-> nodes[p].stable]) = ShownNow
    /\ [k \in DOMAIN Live |-> scopes[Live[k]].name] = OpenNow
<1>1. \A c : Tally(c) = TallyIn(nodes, c)
  BY DEF Tally, TallyIn, NamesOf, NamesIn
<1>2. Tally([p \in DOMAIN nodes |-> nodes[p].calls]) = TotalNow
  BY <1>1 DEF TotalNow, Calls
<1>3. Tally([p \in DOMAIN nodes |-> nodes[p].stable]) = ShownNow
  BY <1>1 DEF ShownNow, Shows
<1> QED
  BY <1>2, <1>3 DEF OpenNow

\* And after a step.
LEMMA MapIsNext ==
    /\ Tally([p \in DOMAIN nodes |-> nodes[p].calls])' = TotalNow'
    /\ Tally([p \in DOMAIN nodes |-> nodes[p].stable])' = ShownNow'
    /\ [k \in DOMAIN Live |-> scopes[Live[k]].name]' = OpenNow'
<1>1. Tally([p \in DOMAIN nodes |-> nodes[p].calls])' = TotalNow'
  BY DEF Tally, TallyIn, NamesOf, NamesIn, TotalNow, Calls
<1>2. Tally([p \in DOMAIN nodes |-> nodes[p].stable])' = ShownNow'
  BY DEF Tally, TallyIn, NamesOf, NamesIn, ShownNow, Shows
<1>3. [k \in DOMAIN Live |-> scopes[Live[k]].name]' = OpenNow'
  BY DEF OpenNow
<1> QED
  BY <1>1, <1>2, <1>3

\* A step of the log, in these terms.
CallOf(n) == OpenNow' = Append(OpenNow, n) /\ TotalNow' = TotalNow /\ ShownNow' = ShownNow
ReturnOf ==
    /\ OpenNow # <<>> /\ OpenNow' = Front(OpenNow)
    /\ TotalNow' = Log!Counted(TotalNow, OpenNow)
    /\ ShownNow' = IF Len(OpenNow) = 1 THEN TotalNow' ELSE ShownNow
WithdrawOf == OpenNow # <<>> /\ OpenNow' = Front(OpenNow) /\ TotalNow' = TotalNow /\ ShownNow' = ShownNow
ForgetOf == OpenNow' = <<>> /\ TotalNow' = <<>> /\ ShownNow' = <<>>
RestOf == OpenNow' = OpenNow /\ TotalNow' = TotalNow /\ ShownNow' = ShownNow

\* These are the steps of the log.
LEMMA StepsOfLog ==
    ASSUME (\E n \in Names : CallOf(n)) \/ ReturnOf \/ WithdrawOf \/ ForgetOf \/ RestOf
    PROVE  [Log!LogNext]_(Log!logVars)
<1>1. /\ Tally([p \in DOMAIN nodes |-> nodes[p].calls]) = TotalNow
      /\ Tally([p \in DOMAIN nodes |-> nodes[p].stable]) = ShownNow
      /\ [k \in DOMAIN Live |-> scopes[Live[k]].name] = OpenNow
  BY MapIs
<1>2. /\ Tally([p \in DOMAIN nodes |-> nodes[p].calls])' = TotalNow'
      /\ Tally([p \in DOMAIN nodes |-> nodes[p].stable])' = ShownNow'
      /\ [k \in DOMAIN Live |-> scopes[Live[k]].name]' = OpenNow'
  BY MapIsNext
<1>3. ASSUME NEW n \in Names, CallOf(n) PROVE Log!Call(n)
  BY <1>1, <1>2, <1>3 DEF CallOf, Log!Call
<1>4. ASSUME ReturnOf PROVE Log!Return
  BY <1>1, <1>2, <1>4 DEF ReturnOf, Log!Return, Log!Front, Front
<1>5. ASSUME WithdrawOf PROVE Log!Withdraw
  BY <1>1, <1>2, <1>5 DEF WithdrawOf, Log!Withdraw, Log!Front, Front
<1>6. ASSUME ForgetOf PROVE Log!Forget
  BY <1>1, <1>2, <1>6 DEF ForgetOf, Log!Forget
<1>7. ASSUME RestOf PROVE UNCHANGED Log!logVars
  BY <1>1, <1>2, <1>7 DEF RestOf, Log!logVars
<1> QED
  BY <1>3, <1>4, <1>5, <1>6, <1>7 DEF Log!LogNext

\* The counts of nodes that keep them.
LEMMA TotalsKept ==
    ASSUME NamesTell(nodes), NamesTell(nodes'), DOMAIN nodes \subseteq DOMAIN nodes',
           \A p \in DOMAIN nodes : NamesIn(nodes', p) = NamesIn(nodes, p),
           \A p \in DOMAIN nodes' \ DOMAIN nodes : nodes'[p].calls = 0 /\ nodes'[p].stable = 0
    PROVE  /\ (\A p \in DOMAIN nodes : nodes'[p].calls = nodes[p].calls) => TotalNow' = TotalNow
           /\ (\A p \in DOMAIN nodes : nodes'[p].stable = nodes[p].stable) => ShownNow' = ShownNow
<1>1. ASSUME \A p \in DOMAIN nodes : nodes'[p].calls = nodes[p].calls PROVE TotalNow' = TotalNow
  <2> DEFINE c == Calls(nodes)
             e == Calls(nodes')
  <2>1. \A p \in DOMAIN nodes : e[p] = c[p]
    BY <1>1 DEF Calls
  <2>2. \A p \in DOMAIN nodes' \ DOMAIN nodes : e[p] = 0
    BY DEF Calls
  <2> HIDE DEF c, e
  <2>3. \A p : p \in DOMAIN nodes /\ c[p] > 0 <=> p \in DOMAIN nodes' /\ e[p] > 0
    BY <2>1, <2>2
  <2>4. TallyIn(nodes', e) = TallyIn(nodes, c)
    BY <2>1, <2>3, SameTally
  <2> QED
    BY <2>4 DEF TotalNow, c, e
<1>2. ASSUME \A p \in DOMAIN nodes : nodes'[p].stable = nodes[p].stable PROVE ShownNow' = ShownNow
  <2> DEFINE c == Shows(nodes)
             e == Shows(nodes')
  <2>1. \A p \in DOMAIN nodes : e[p] = c[p]
    BY <1>2 DEF Shows
  <2>2. \A p \in DOMAIN nodes' \ DOMAIN nodes : e[p] = 0
    BY DEF Shows
  <2> HIDE DEF c, e
  <2>3. \A p : p \in DOMAIN nodes /\ c[p] > 0 <=> p \in DOMAIN nodes' /\ e[p] > 0
    BY <2>1, <2>2
  <2>4. TallyIn(nodes', e) = TallyIn(nodes, c)
    BY <2>1, <2>3, SameTally
  <2> QED
    BY <2>4 DEF ShownNow, c, e
<1> QED
  BY <1>1, <1>2

\* The callers running, the path to the cursor, are a list of names, and the
\* nodes' names tell them apart.
Listed ==
    /\ OpenNow \in Seq(Names) /\ Len(OpenNow) = Len(current) /\ Len(current) \in Nat
    /\ \A k \in 1 .. Len(current) : OpenNow[k] = nodes[SubSeq(current, 1, k)].name
    /\ current \in Seq(Keys)
    /\ NamesTell(nodes)

\* They are in every state.
LEMMA OpenList == ProfilerInv => Listed
<1> SUFFICES ASSUME ProfilerInv PROVE Listed
  OBVIOUS
<1>1. OpenNow = NamesIn(nodes, current) /\ current \in DOMAIN nodes \cup {Root} /\ current \in Seq(Keys)
  BY OpenIs
<1>2. /\ NamesIn(nodes, current) \in Seq(Names) /\ Len(NamesIn(nodes, current)) = Len(current) /\ Len(current) \in Nat
      /\ \A k \in 1 .. Len(current) : NamesIn(nodes, current)[k] = nodes[SubSeq(current, 1, k)].name
  BY <1>1, NamesAre
<1> QED
  BY <1>1, <1>2, TreeTells DEF Listed

\* And after a step.
LEMMA OpenListNext == ProfilerInv' => Listed'
  BY OpenList, PTL

\* A scope that begins is a call.
LEMMA BeginCalls ==
    ASSUME ProfilerInv, ProfilerInv', NEW key, NEW name \in Names, NEW timed \in BOOLEAN, Entered(key, name, timed)
    PROVE  CallOf(name)
<1>1. /\ OpenNow \in Seq(Names) /\ Len(OpenNow) = Len(current) /\ Len(current) \in Nat
      /\ \A k \in 1 .. Len(current) : OpenNow[k] = nodes[SubSeq(current, 1, k)].name
      /\ current \in Seq(Keys)
  BY OpenList DEF Listed
<1>2. /\ OpenNow' \in Seq(Names) /\ Len(OpenNow') = Len(current')
      /\ \A k \in 1 .. Len(current') : OpenNow'[k] = nodes'[SubSeq(current', 1, k)].name
  BY OpenListNext DEF Listed
<1>3. /\ current' = Append(current, key) /\ key \in Keys
      /\ DOMAIN nodes' = DOMAIN nodes \cup {current'}
      /\ \A p \in DOMAIN nodes : nodes'[p] = nodes[p]
      /\ current' \notin DOMAIN nodes => nodes'[current'] = [name |-> name, calls |-> 0, stable |-> 0]
      /\ nodes'[current'].name = name
  BY DEF Entered
<1>4. /\ Len(current') = Len(current) + 1
      /\ \A k \in 1 .. Len(current) : SubSeq(current', 1, k) = SubSeq(current, 1, k)
      /\ SubSeq(current', 1, Len(current) + 1) = current'
  BY <1>1, <1>3, LongerIs
<1>5. OpenNow' = Append(OpenNow, name)
  <2>1. PICK d \in Nat : d = Len(current)
    BY <1>1
  <2>2. /\ Append(OpenNow, name) \in Seq(Names) /\ Len(Append(OpenNow, name)) = d + 1
        /\ \A k \in 1 .. d : Append(OpenNow, name)[k] = OpenNow[k]
        /\ Append(OpenNow, name)[d + 1] = name
    BY <1>1, <2>1, LongerIs
  <2>3. \A k \in 1 .. d + 1 : OpenNow'[k] = Append(OpenNow, name)[k]
    <3> TAKE k \in 1 .. d + 1
    <3>1. CASE k = d + 1
      BY ZenonT(60), <1>2, <1>3, <1>4, <2>1, <2>2, <3>1
    <3>2. CASE k # d + 1
      <4>1. k \in 1 .. d
        BY <3>2
      <4>2. SubSeq(current, 1, k) \in DOMAIN nodes
        BY <2>1, <4>1, FramesAreNodes DEF ProfilerInv
      <4>3. OpenNow'[k] = nodes'[SubSeq(current, 1, k)].name
        BY <1>2, <1>4, <2>1, <4>1
      <4> QED
        BY <1>1, <1>3, <2>1, <2>2, <4>1, <4>2, <4>3
    <3> QED
      BY <3>1, <3>2
  <2> QED
    BY <1>2, <1>4, <2>1, <2>2, <2>3, SeqEqual
<1>6. TotalNow' = TotalNow /\ ShownNow' = ShownNow
  <2>1. NamesTell(nodes) /\ NamesTell(nodes')
    BY OpenList, OpenListNext DEF Listed
  <2>2. \A p \in DOMAIN nodes : NamesIn(nodes', p) = NamesIn(nodes, p)
    BY <1>3, NamesKept
  <2>3. \A p \in DOMAIN nodes' \ DOMAIN nodes : nodes'[p].calls = 0 /\ nodes'[p].stable = 0
    <3> TAKE p \in DOMAIN nodes' \ DOMAIN nodes
    <3>1. nodes'[p] = [name |-> name, calls |-> 0, stable |-> 0]
      BY <1>3
    <3> QED
      BY <3>1
  <2> QED
    BY <1>3, <2>1, <2>2, <2>3, TotalsKept
<1> QED
  BY <1>5, <1>6 DEF CallOf

\* The callers running when the innermost is gone.
LEMMA OpenShorter ==
    ASSUME ProfilerInv, ProfilerInv', current' = Front(current), Len(current) > 0,
           \A p \in DOMAIN nodes : nodes'[p].name = nodes[p].name
    PROVE  OpenNow # <<>> /\ OpenNow' = Front(OpenNow) /\ (current' = Root <=> Len(OpenNow) = 1)
<1>1. /\ OpenNow \in Seq(Names) /\ Len(OpenNow) = Len(current) /\ Len(current) \in Nat
      /\ \A k \in 1 .. Len(current) : OpenNow[k] = nodes[SubSeq(current, 1, k)].name
      /\ current \in Seq(Keys)
  BY OpenList DEF Listed
<1>2. /\ OpenNow' \in Seq(Names) /\ Len(OpenNow') = Len(current') /\ current' \in Seq(Keys)
      /\ \A k \in 1 .. Len(current') : OpenNow'[k] = nodes'[SubSeq(current', 1, k)].name
  BY OpenListNext DEF Listed
<1>3. PICK d \in Nat : d = Len(current) - 1
  BY <1>1
<1>4. /\ Len(current') = d
      /\ \A k \in 1 .. d : SubSeq(current', 1, k) = SubSeq(current, 1, k)
  BY <1>1, <1>3, FrontIs
<1>5. /\ Front(OpenNow) \in Seq(Names) /\ Len(Front(OpenNow)) = d
      /\ \A k \in 1 .. d : Front(OpenNow)[k] = OpenNow[k]
  BY <1>1, <1>3, FrontIs
<1>6. \A k \in 1 .. d : OpenNow'[k] = Front(OpenNow)[k]
  <2> TAKE k \in 1 .. d
  <2>1. k \in 1 .. Len(current)
    BY <1>1, <1>3
  <2>2. SubSeq(current, 1, k) \in DOMAIN nodes
    BY <2>1, FramesAreNodes DEF ProfilerInv
  <2>3. OpenNow'[k] = nodes'[SubSeq(current, 1, k)].name
    BY <1>2, <1>4
  <2> QED
    BY <1>1, <1>5, <2>1, <2>2, <2>3
<1>7. OpenNow' = Front(OpenNow)
  BY <1>2, <1>4, <1>5, <1>6, SeqEqual
<1>8. OpenNow # <<>>
  BY <1>1
<1>9. current' = Root <=> Len(OpenNow) = 1
  <2>1. current' = Root <=> d = 0
    BY <1>2, <1>4, EmptySeq DEF Root
  <2> QED
    BY <1>1, <1>3, <2>1
<1> QED
  BY <1>7, <1>8, <1>9

\* A step that leaves the tree and the cursor is none of the log's.
LEMMA QuietRests ==
    ASSUME ProfilerInv, ProfilerInv', UNCHANGED <<nodes, current>>
    PROVE  RestOf
<1>1. OpenNow = NamesIn(nodes, current)
  BY OpenIs
<1>2. /\ OpenNow \in Seq(Names) /\ Len(OpenNow) = Len(current)
      /\ \A k \in 1 .. Len(current) : OpenNow[k] = nodes[SubSeq(current, 1, k)].name
  BY OpenList DEF Listed
<1>3. /\ OpenNow' \in Seq(Names) /\ Len(OpenNow') = Len(current')
      /\ \A k \in 1 .. Len(current') : OpenNow'[k] = nodes'[SubSeq(current', 1, k)].name
  BY OpenListNext DEF Listed
<1>4. OpenNow' = OpenNow
  BY <1>2, <1>3, SeqEqual
<1>5. TotalNow' = TotalNow /\ ShownNow' = ShownNow
  BY DEF TotalNow, ShownNow
<1> QED
  BY <1>4, <1>5 DEF RestOf

\* A call that returned is a return.
LEMMA ReturnedReturns ==
    ASSUME ProfilerInv, ProfilerInv', Returned, current' = Front(current), Len(current) > 0
    PROVE  ReturnOf
<1>1. /\ current \in DOMAIN nodes /\ DOMAIN nodes' = DOMAIN nodes
      /\ \A p \in DOMAIN nodes :
          /\ nodes'[p].name = nodes[p].name
          /\ nodes'[p].calls = nodes[p].calls + (IF p = current THEN 1 ELSE 0)
          /\ nodes'[p].stable = IF current' = Root THEN nodes'[p].calls ELSE nodes[p].stable
  BY DEF Returned
<1>2. OpenNow # <<>> /\ OpenNow' = Front(OpenNow) /\ (current' = Root <=> Len(OpenNow) = 1)
  BY <1>1, OpenShorter
<1>3. NamesTell(nodes) /\ NamesTell(nodes')
  BY OpenList, OpenListNext DEF Listed
<1>4. \A p \in DOMAIN nodes : NamesIn(nodes', p) = NamesIn(nodes, p)
  BY <1>1, NamesKept
<1>5. TotalNow' = Log!Counted(TotalNow, OpenNow)
  <2> DEFINE c == Calls(nodes)
             e == Calls(nodes')
  <2>1. \A p \in DOMAIN nodes : c[p] \in Nat /\ e[p] = c[p] + (IF p = current THEN 1 ELSE 0)
    <3> TAKE p \in DOMAIN nodes
    <3>1. nodes[p] \in Node
      BY DEF ProfilerInv, TreeInv
    <3>2. c[p] = nodes[p].calls /\ e[p] = nodes'[p].calls /\ nodes[p].calls \in Nat
      BY <1>1, <3>1 DEF Calls, Node
    <3> QED
      BY <1>1, <3>2
  <2> HIDE DEF c, e
  <2>2. TallyIn(nodes', e) = Log!Counted(TallyIn(nodes, c), NamesIn(nodes, current))
    BY <1>1, <1>3, <1>4, <2>1, OneMore
  <2>3. OpenNow = NamesIn(nodes, current)
    BY OpenIs
  <2> QED
    BY <2>2, <2>3 DEF TotalNow, c, e
<1>6. ShownNow' = IF Len(OpenNow) = 1 THEN TotalNow' ELSE ShownNow
  <2>1. CASE current' = Root
    <3>1. Shows(nodes') = Calls(nodes')
      BY <1>1, <2>1 DEF Shows, Calls
    <3> QED
      BY <1>2, <2>1, <3>1 DEF ShownNow, TotalNow
  <2>2. CASE current' # Root
    <3>1. \A p \in DOMAIN nodes : nodes'[p].stable = nodes[p].stable
      BY <1>1, <2>2
    <3>2. ShownNow' = ShownNow
      BY <1>1, <1>3, <1>4, <3>1, TotalsKept
    <3> QED
      BY <1>2, <2>2, <3>2
  <2> QED
    BY <2>1, <2>2
<1> QED
  BY <1>2, <1>5, <1>6 DEF ReturnOf

\* A call that is withdrawn counts nowhere.
LEMMA CancelWithdraws ==
    ASSUME ProfilerInv, ProfilerInv', nodes' = nodes, current' = Front(current), Len(current) > 0
    PROVE  WithdrawOf
<1>1. OpenNow # <<>> /\ OpenNow' = Front(OpenNow)
  BY OpenShorter
<1>2. TotalNow' = TotalNow /\ ShownNow' = ShownNow
  BY DEF TotalNow, ShownNow
<1> QED
  BY <1>1, <1>2 DEF WithdrawOf

\* A tree without nodes has no open calls and no counts.
Blank == OpenNow = <<>> /\ TotalNow = <<>> /\ ShownNow = <<>>

\* Such is an empty profiler.
LEMMA EmptyIsBlank == ProfilerInv /\ DOMAIN nodes = {} /\ current = Root => Blank
<1> SUFFICES ASSUME ProfilerInv, DOMAIN nodes = {}, current = Root PROVE Blank
  OBVIOUS
<1>1. OpenNow = <<>>
  <2>1. OpenNow \in Seq(Names) /\ Len(OpenNow) = Len(current)
    BY OpenList DEF Listed
  <2>2. Len(OpenNow) = 0
    BY <2>1, EmptySeq DEF Root
  <2> QED
    BY <2>1, <2>2, EmptySeq
<1>2. \A c : TallyIn(nodes, c) = <<>>
  BY DEF TallyIn
<1> QED
  BY <1>1, <1>2 DEF Blank, TotalNow, ShownNow

\* And after a step.
LEMMA EmptyIsBlankNext == ProfilerInv' /\ DOMAIN nodes' = {} /\ current' = Root => Blank'
<1> DEFINE E == DOMAIN nodes = {} /\ current = Root
<1>1. ProfilerInv /\ E => Blank
  BY EmptyIsBlank
<1>2. ProfilerInv' /\ E' => Blank'
  BY <1>1, PTL
<1> QED
  BY <1>2

\* Every step of the profiler is one of the log, or none.
LEMMA ProfilerLogs == ProfilerInv /\ ProfilerInv' /\ [ProfilerNext]_profilerVars => [Log!LogNext]_(Log!logVars)
<1> SUFFICES ASSUME ProfilerInv, ProfilerInv', [ProfilerNext]_profilerVars
             PROVE  (\E n \in Names : CallOf(n)) \/ ReturnOf \/ WithdrawOf \/ ForgetOf \/ RestOf
  BY StepsOfLog
<1>1. ASSUME NEW name \in Names, NEW timed \in BOOLEAN, Begin(name, timed) PROVE CallOf(name)
  BY <1>1, BeginEnters, BeginCalls
<1>2. CASE End
  <2>1. \/ UNCHANGED <<nodes, current>>
        \/ Returned /\ current' = Front(current) /\ Len(current) > 0
    BY <1>2, EndKeeps
  <2> QED
    BY <2>1, QuietRests, ReturnedReturns
<1>3. ASSUME NEW i \in 1 .. MaxOpen, Cancel(i) PROVE WithdrawOf
  <2>1. nodes' = nodes /\ current' = Front(current) /\ Len(current) > 0
    BY <1>3, CancelKeeps
  <2> QED
    BY <2>1, CancelWithdraws
<1>4. CASE Reset
  <2>1. DOMAIN nodes' = {} /\ current' = Root
    BY <1>4, ResetKeeps
  <2> QED
    BY <2>1, EmptyIsBlankNext DEF Blank, ForgetOf
<1>5. CASE UNCHANGED profilerVars
  <2>1. UNCHANGED <<nodes, current>>
    BY <1>5 DEF profilerVars, treeVars
  <2> QED
    BY <2>1, QuietRests
<1> QED
  BY <1>1, <1>2, <1>3, <1>4, <1>5 DEF ProfilerNext

\* The profiler implements the call log: paths of callers have the number of
\* calls that returned, and an outermost return publishes them (RadixTree.cpp:48).
THEOREM ProfilerIsTheLog == ProfilerSpec => KeepsTheLog
<1>1. ProfilerSpec => []ProfilerInv
  BY ProfilerStarts, ProfilerStep, PTL DEF ProfilerSpec
<1>2. ProfilerInit => Log!LogInit
  <2> SUFFICES ASSUME ProfilerInit PROVE Log!LogInit
    OBVIOUS
  <2>1. Blank
    BY ProfilerStarts, EmptyIsBlank
  <2> QED
    BY <2>1, MapIs DEF Blank, Log!LogInit
<1>3. ProfilerInv /\ ProfilerInv' /\ [ProfilerNext]_profilerVars => [Log!LogNext]_(Log!logVars)
  BY ProfilerLogs
<1>4. ProfilerSpec => Log!LogSpec
  BY <1>1, <1>2, <1>3, PTL DEF ProfilerSpec, Log!LogSpec
<1> QED
  BY <1>4 DEF KeepsTheLog
==============================================================================
