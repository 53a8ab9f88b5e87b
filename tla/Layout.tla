------------------------------- MODULE Layout -------------------------------
(***************************************************************************)
(* How an array of some shape lies in memory.  A shape and a stride are    *)
(* sequences of one integer per axis, an index too: indices start at 0,    *)
(* those of axis 0 of an array with ghosts at -nghost.  A stride counts    *)
(* items and may be negative.  IndexRange and MappedOffsetCursor walk an   *)
(* array, the last axis fastest; SimpleArrayCopier pairs the items of two  *)
(* layouts of a shape.                                                     *)
(***************************************************************************)
EXTENDS Integers, Sequences, SequencesExt, FiniteSetsExt

CONSTANT Tile        \* the side of a block that SimpleArrayCopier copies
ASSUME TileAssumption == Tile \in Nat \ {0}

Axes(shape) == DOMAIN shape
Volume(shape) == FoldLeft(LAMBDA n, extent : n * extent, 1, shape)
Hollow(shape) == \E i \in Axes(shape) : shape[i] = 0

\* The strides of a dense array, the last or the first axis fastest.
CStride(shape) == [i \in Axes(shape) |-> Volume(SubSeq(shape, i + 1, Len(shape)))]
FStride(shape) == [i \in Axes(shape) |-> Volume(SubSeq(shape, 1, i - 1))]

\* is_c_contiguous() and is_f_contiguous(): the stride of a single item is free.
Packed(shape, stride, dense) ==
    Hollow(shape) \/ \A i \in Axes(shape) : shape[i] > 1 => stride[i] = dense[i]
IsC(shape, stride) == Packed(shape, stride, CStride(shape))
IsF(shape, stride) == Packed(shape, stride, FStride(shape))

BufferOffset(stride, idx) ==
    MapThenSumSet(LAMBDA i : stride[i] * idx[i], DOMAIN stride)

\* The offsets of the first and the last item in memory, from the origin.
Low(shape, stride) ==
    MapThenSumSet(LAMBDA i : Min({0, (shape[i] - 1) * stride[i]}), Axes(shape))
High(shape, stride) ==
    MapThenSumSet(LAMBDA i : Max({0, (shape[i] - 1) * stride[i]}), Axes(shape))
Span(shape, stride) ==
    IF Hollow(shape) THEN [origin |-> 0, items |-> 0]
    ELSE [origin |-> -Low(shape, stride),
          items |-> High(shape, stride) - Low(shape, stride) + 1]

\* validate_layout(): an array without an item may start anywhere in its buffer.
Fits(shape, stride, len, at) ==
    /\ at <= len
    /\ \/ Hollow(shape)
       \/ at + Low(shape, stride) >= 0 /\ at + High(shape, stride) < len

-----------------------------------------------------------------------------
(* The index after idx: the last axis with room moves on, those after it   *)
(* start again.  The one after the last index is the first.                *)

Room(idx, upper) == Max({0} \cup {i \in DOMAIN idx : idx[i] + 1 < upper[i]})
Advanced(idx, lower, upper) ==
    LET axis == Room(idx, upper)
    IN  [i \in DOMAIN idx |-> IF i < axis THEN idx[i]
                              ELSE IF i = axis THEN idx[i] + 1 ELSE lower[i]]

\* The indices of an IndexRange, of as many steps as it has items.
Walk(lower, upper) ==
    LET walk[k \in 1 .. Volume([i \in DOMAIN lower |-> upper[i] - lower[i]])] ==
            IF k = 1 THEN lower ELSE Advanced(walk[k - 1], lower, upper)
    IN  SubSeq(walk, 1, Volume([i \in DOMAIN lower |-> upper[i] - lower[i]]))

RangeOf(shape, nghost) ==
    LET lower == [i \in Axes(shape) |-> IF i = 1 THEN -nghost ELSE 0]
    IN  Walk(lower, [i \in Axes(shape) |-> lower[i] + shape[i]])
Indices(shape) == RangeOf(shape, 0)

\* MappedOffsetCursor: the offsets along the walk, each from the one before.
Cursor(shape, stride) ==
    LET walk == Indices(shape)
        Back(axis) == MapThenSumSet(LAMBDA i : stride[i] * (shape[i] - 1),
                                    axis + 1 .. Len(shape))
        offset[k \in 1 .. Len(walk)] ==
            IF k = 1 THEN 0
            ELSE LET axis == Room(walk[k - 1], shape)
                 IN  offset[k - 1] + stride[axis] - Back(axis)
    IN  SubSeq(offset, 1, Len(walk))

\* for_each_index(): the first axis fastest.
FirstFastest(shape) ==
    LET back == Indices(Reverse(shape))
    IN  [k \in DOMAIN back |-> Reverse(back[k])]

\* normalize_index(): -1 is the last item of an axis; <<>> is a throw.
Normalized(idx, shape, nghost) ==
    LET shifted == [i \in DOMAIN idx |-> idx[i] + (IF i = 1 THEN nghost ELSE 0)]
    IN  IF \/ idx = <<>> \/ Len(idx) # Len(shape)
           \/ \E i \in DOMAIN idx : shifted[i] \notin -shape[i] .. shape[i] - 1
        THEN <<>>
        ELSE [i \in DOMAIN idx |-> shifted[i] + (IF shifted[i] < 0 THEN shape[i] ELSE 0)]

-----------------------------------------------------------------------------
(* SimpleArrayCopier: which item of the destination gets which one of the  *)
(* source, as offsets from their origins.                                  *)

Memcpy(shape) == {<<k, k>> : k \in 0 .. Volume(shape) - 1}

Blocked(n) ==
    UNION {i0 .. Min({i0 + Tile, n}) - 1 : i0 \in {i \in 0 .. n - 1 : i % Tile = 0}}
TiledInner(n, to, from) ==
    {<<to[1] * i + to[2] * j, from[1] * i + from[2] * j>> : i \in Blocked(n[1]), j \in Blocked(n[2])}

TiledNd(shape, to, from) ==
    LET a == Len(shape) - 1
        Inner(s) == SubSeq(s, a, a + 1)
        Slab(outer) ==
            {<<BufferOffset(SubSeq(to, 1, a - 1), outer) + p[1],
               BufferOffset(SubSeq(from, 1, a - 1), outer) + p[2]>> :
             p \in TiledInner(Inner(shape), Inner(to), Inner(from))}
    IN  IF Len(shape) = 1 THEN {<<to[1] * i, from[1] * i>> : i \in 0 .. shape[1] - 1}
        ELSE UNION {Slab(outer) : outer \in ToSet(Indices(SubSeq(shape, 1, a - 1)))}

\* copy_logical_into() for a source with items.
Copied(shape, to, from) ==
    IF to = from /\ (IsC(shape, from) \/ IsF(shape, from)) THEN Memcpy(shape)
    ELSE IF Len(shape) = 2 THEN TiledInner(shape, to, from)
    ELSE TiledNd(shape, to, from)
=============================================================================
