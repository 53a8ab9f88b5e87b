------------------------------ MODULE Collector ------------------------------
(***************************************************************************)
(* A growing collector and the arrays it hands out: SimpleCollector.hpp    *)
(* over BufferExpander.hpp/.cpp and ConcreteBuffer.hpp.                    *)
(*                                                                         *)
(* Sizes count items; Unit is the alignment in items (1 for none).  A      *)
(* block of memory is freed when its last owner lets go, and its address   *)
(* is then free to be used again.  Address 0 is the null pointer.          *)
(***************************************************************************)
EXTENDS Integers, Sequences, FiniteSets

CONSTANTS
    Values,     \* the items
    Units,      \* the alignments a collector may be made with
    MaxItems,   \* bound: items in a block
    MaxArrays,  \* bound: arrays alive at once
    Addresses,  \* addresses the allocator may use
    Junk        \* what a fresh block holds

ASSUME CollectorBounds ==
    MaxItems \in Nat /\ Units \subseteq Nat \ {0} /\ Junk \notin Values /\ 0 \notin Addresses

VARIABLES
    unit,       \* m_alignment
    holder,     \* m_data_holder, 0 when it holds nothing
    concrete,   \* m_concrete_buffer: the address its data is at, {} for no buffer
    begin,      \* m_begin
    size,       \* m_end - m_begin
    endCap,     \* m_end_cap - m_begin
    arrays,     \* the arrays handed out: where their items are and how many
    memory      \* the blocks alive: address -> items

collectorVars == <<unit, holder, concrete, begin, size, endCap, arrays, memory>>

Capacity == IF begin = 0 THEN 0 ELSE endCap
Shared == concrete # {}

\* A collector is made empty, or over the buffer of an array it then shares.
CollectorInit ==
    /\ unit \in Units
    /\ holder = 0
    /\ \/ /\ concrete = {} /\ begin = 0 /\ size = 0
          /\ arrays = {} /\ memory = <<>>
       \/ \E a \in Addresses, n \in 1..MaxItems :
            /\ concrete = {a} /\ begin = a /\ size = n
            /\ arrays = {[at |-> a, len |-> n]}
            /\ memory = [b \in {a} |-> [i \in 1..n |-> Junk]]
    /\ endCap = size

-----------------------------------------------------------------------------
\* Allocation, and the owners that keep a block alive.

Aligned(n) == n % unit = 0
Fresh(a) == a \in Addresses \ DOMAIN memory
Owned == ({holder} \cup concrete \cup {x.at : x \in arrays}) \ {0}

\* The memory after a step that leaves the given blocks to their owners.
Release(mem) == memory' = [a \in DOMAIN mem \cap Owned' |-> mem[a]]

Put(mem, a, items) == [b \in DOMAIN mem \cup {a} |-> IF b = a THEN items ELSE mem[b]]

\* Mutant: the old block is let go before its items are copied.
CopiedLate(n) ==
    [i \in 1..n |-> IF begin # 0 /\ i <= size /\ begin \in Owned' THEN memory[begin][i] ELSE Junk]
Copied(n) == [i \in 1..n |-> IF i <= size THEN memory[begin][i] ELSE Junk]

\* Mutant: the shared buffer is kept as the owner of the items that moved.
LetGoNot == UNCHANGED concrete
LetGo == concrete' = {}

\* reserve() to more than the capacity: the items move to a block of the
\* collector's own and the buffer shared with the arrays is let go.
Move(a, cap) ==
    /\ Fresh(a) /\ cap <= MaxItems
    /\ Aligned(cap)
    /\ holder' = a /\ LetGo
    /\ begin' = a /\ endCap' = cap

-----------------------------------------------------------------------------
\* The operations.  One that throws leaves the collector as it is.

Grow(a, cap) ==
    /\ cap > Capacity
    /\ Move(a, cap)
    /\ UNCHANGED <<unit, size, arrays>>
    /\ Release(Put(memory, a, Copied(cap)))

\* expand(): grow when it must, then set the size, down as well as up.
Expand(a, length) ==
    /\ size' = length
    /\ UNCHANGED <<unit, arrays>>
    /\ IF length > Capacity
       THEN Move(a, length) /\ Release(Put(memory, a, Copied(length)))
       ELSE UNCHANGED <<holder, concrete, begin, endCap, memory>>

Poppable == size > 0

PopBack ==
    /\ Poppable
    /\ size' = size - 1
    /\ UNCHANGED <<unit, holder, concrete, begin, endCap, arrays, memory>>

Clear ==
    /\ size' = 0
    /\ UNCHANGED <<unit, holder, concrete, begin, endCap, arrays, memory>>

Full == Capacity = 0 \/ size = Capacity

Doubled == IF Capacity = 0 THEN 1 ELSE 2 * size

PushBack(a, v) ==
    /\ size' = size + 1
    /\ UNCHANGED <<unit, arrays>>
    /\ IF Full
       THEN /\ Move(a, Doubled)
            /\ Release(Put(memory, a, [Copied(Doubled) EXCEPT ![size + 1] = v]))
       ELSE /\ memory' = [memory EXCEPT ![begin][size + 1] = v]
            /\ UNCHANGED <<holder, concrete, begin, endCap>>

Set(i, v) ==
    /\ i <= size
    /\ memory' = [memory EXCEPT ![begin][i] = v]
    /\ UNCHANGED <<unit, holder, concrete, begin, size, endCap, arrays>>

Array(at) == [at |-> at, len |-> size]

\* as_array(): the first call copies the items into a buffer of just their
\* size, which the collector then shares with every array it hands out.
AsArray(a) ==
    /\ Cardinality(arrays) < MaxArrays
    /\ UNCHANGED <<unit, size>>
    /\ IF Shared
       THEN /\ endCap' = (IF begin = 0 THEN 0 ELSE Len(memory[begin]))
            /\ arrays' = arrays \cup {Array(begin)}
            /\ UNCHANGED <<holder, concrete, begin, memory>>
       ELSE /\ Aligned(size)
            /\ (IF size = 0 THEN a = 0 ELSE Fresh(a))
            /\ holder' = 0 /\ concrete' = {a} /\ begin' = a /\ endCap' = size
            /\ arrays' = arrays \cup {Array(a)}
            /\ Release(IF a = 0 THEN memory ELSE Put(memory, a, Copied(size)))

WriteArray(x, i, v) ==
    /\ i <= x.len
    /\ memory' = [memory EXCEPT ![x.at][i] = v]
    /\ UNCHANGED <<unit, holder, concrete, begin, size, endCap, arrays>>

DropArray(x) ==
    /\ arrays' = arrays \ {x}
    /\ UNCHANGED <<unit, holder, concrete, begin, size, endCap>>
    /\ Release(memory)

CollectorNext ==
    \/ \E a \in Addresses, n \in 0..MaxItems : Grow(a, n) \/ Expand(a, n)
    \/ PopBack \/ Clear
    \/ \E a \in Addresses, v \in Values : PushBack(a, v)
    \/ \E i \in 1..MaxItems, v \in Values : Set(i, v)
    \/ \E a \in Addresses \cup {0} : AsArray(a)
    \/ \E x \in arrays : \/ \E i \in 1..MaxItems, v \in Values : WriteArray(x, i, v)
                         \/ DropArray(x)

CollectorSpec == CollectorInit /\ [][CollectorNext]_collectorVars

-----------------------------------------------------------------------------
\* Every variable has its type.
CollectorTypeOK ==
    /\ holder \in Addresses \cup {0} /\ begin \in Addresses \cup {0}
    /\ size \in 0..MaxItems /\ endCap \in 0..MaxItems
    /\ \A x \in arrays : x \in [at : Addresses \cup {0}, len : 0..MaxItems]
    /\ \A a \in DOMAIN memory : memory[a] \in Seq(Values \cup {Junk})

\* The collector and every array only reach memory that is alive and long
\* enough, and the collector has one owner of its items: after any series of
\* growing, shrinking, sharing and dropping (BufferExpander.cpp:11, :44).
NoneDangles ==
    /\ size <= Capacity
    /\ begin # 0 => begin \in DOMAIN memory /\ endCap <= Len(memory[begin])
    /\ IF Shared THEN holder = 0 /\ concrete = {begin} ELSE begin = holder
    /\ \A x \in arrays : x.len > 0 => /\ x.at \in DOMAIN memory \ {holder}
                                      /\ x.len <= Len(memory[x.at])

Items(x) == IF x.len = 0 THEN <<>> ELSE SubSeq(memory[x.at], 1, x.len)

\* When the items move, to grow or to be shared, those the collector holds
\* keep their values, and so do those of every array handed out before:
\* from then on the two no longer share (BufferExpander.cpp:18-26, :50-59).
MovesKeepItems ==
    [][begin' # begin =>
        /\ \A i \in 1..size : i <= size' => memory'[begin'][i] = memory[begin][i]
        /\ \A x \in arrays : Items(x)' = Items(x)]_collectorVars

\* An array handed out shows just the items the collector holds at that
\* moment, also when the buffer they share has room for more since the
\* collector shrank (SimpleCollector.hpp:119).
HandsOutItems ==
    [][\A x \in arrays' \ arrays :
        Items(x)' = (IF size = 0 THEN <<>> ELSE SubSeq(memory[begin], 1, size))]_collectorVars

\* The memory behind a collector and behind the arrays it handed out is there
\* as long as they are, and no item is lost or invented on the way from one to
\* the other (BufferExpander.cpp:11, 54).
ItemsKept == [](CollectorTypeOK /\ NoneDangles) /\ MovesKeepItems /\ HandsOutItems
=============================================================================
