----------------------------- MODULE SimpleArray ----------------------------
(***************************************************************************)
(* SimpleArray: a view of a block of memory, and the calls that make views *)
(* and copies of it, write through it and read it.  Two arrays are at      *)
(* hand, x and y: y is what a call returns, or the other operand; at the   *)
(* start it may be another numpy array over the memory of x.               *)
(*                                                                         *)
(* A value is an integer, or the largest one, NaN.  The logical origin of  *)
(* an array is an offset into its buffer, so is its body, the origin past  *)
(* the ghosts.                                                             *)
(***************************************************************************)
EXTENDS Layout

CONSTANTS
    NaN,
    Width,       \* bits of an item, where the code lets its arithmetic wrap
    Starts,      \* cells of a memory, and the layouts that numpy gives x and y in it
    Keys,        \* what an array may be indexed with
    Shapes,      \* what it may be reshaped to
    MaxCalls

VARIABLES
    memory,      \* the cells of each block of memory, from 0
    arrays,      \* x and y
    call         \* the last call: its name, its argument, whether it threw
simpleArrayVars == <<memory, arrays, call>>

None == [mem |-> 0]
Present(a) == a.mem # 0
Both == {"x", "y"}

Array(mem, base, len, at, shape, stride, nghost) ==
    [mem |-> mem, base |-> base, len |-> len, at |-> at, shape |-> shape,
     stride |-> stride, nghost |-> nghost,
     body |-> at + (IF shape = <<>> THEN 0 ELSE nghost * stride[1])]

\* make_array_from_numpy(): the buffer is what the layout spans.
FromNumpy(mem, origin, shape, stride) ==
    LET span == Span(shape, stride)
    IN  Array(mem, origin - span.origin, span.items, span.origin, shape, stride, 0)

Size(a) == Volume(a.shape)
SameBuffer(a, b) == a.mem = b.mem /\ a.base = b.base /\ a.len = b.len
Dense(a) == IsC(a.shape, a.stride) \/ IsF(a.shape, a.stride)

Item(a, offset) == memory[a.mem][a.base + offset]
CellOf(a, idx) == a.base + a.at + BufferOffset(a.stride, idx)

\* copy_logical_into(): the cells of a new block with the items of a.
CopyOf(a, stride) ==
    LET pairs == Copied(a.shape, stride, a.stride)
    IN  [k \in 0 .. Size(a) - 1 |->
            IF \E p \in pairs : p[1] = k
            THEN Item(a, a.at + (CHOOSE p \in pairs : p[1] = k)[2]) ELSE NaN]
NewBlock == Len(memory) + 1
Fresh(a, shape, stride) == Array(NewBlock, 0, Size(a), 0, shape, stride, 0)

Done(op, arg) == call' = [op |-> op, arg |-> arg, ok |-> TRUE, count |-> call.count + 1]
Throws(op, arg) ==
    /\ call' = [op |-> op, arg |-> arg, ok |-> FALSE, count |-> call.count + 1]
    /\ UNCHANGED <<memory, arrays>>

Returns(op, arg, a, cells) ==
    /\ memory' = IF cells = <<>> THEN memory ELSE memory \o cells
    /\ arrays' = [arrays EXCEPT !.y = a]
    /\ Done(op, arg)

-----------------------------------------------------------------------------
(* Indexing from Python.  A key is a sequence of integers, slices and at   *)
(* most one ellipsis.  An integer and a bound count from the ghosts on     *)
(* axis 0, and from the end when they are negative; a bound is <<b>>, or   *)
(* <<>> for None.                                                          *)

\* shift_slice_bound()
Shifted(bound, ghosts) == [i \in DOMAIN bound |-> bound[i] + ghosts]

\* slice.indices() of Python.
PySlice(start, stop, step, length) ==
    LET low == IF step > 0 THEN 0 ELSE -1
        high == IF step > 0 THEN length ELSE length - 1
        Clipped(b) == IF b < 0 THEN Max({b + length, low}) ELSE Min({b, high})
        from == IF start # <<>> THEN Clipped(start[1]) ELSE IF step > 0 THEN low ELSE high
        to == IF stop # <<>> THEN Clipped(stop[1]) ELSE IF step > 0 THEN high ELSE low
    IN  [start |-> from, step |-> step,
         length |-> IF step > 0 THEN Max({0, (to - from + step - 1) \div step})
                    ELSE Max({0, (from - to - step - 1) \div (-step)})]

\* copy_key(): what a key takes of an axis, with a step of 0 for an integer.
TakenOf(a, axis, key) ==
    LET ghosts == IF axis = 1 THEN a.nghost ELSE 0
    IN  IF key.kind = "slice"
        THEN PySlice(Shifted(key.start, ghosts), Shifted(key.stop, ghosts), key.step, a.shape[axis])
        ELSE LET index == key.at + ghosts
             IN  [start |-> IF index < 0 THEN index + a.shape[axis] ELSE index,
                  step |-> 0, length |-> 1]

Ellipses(key) == {i \in DOMAIN key : key[i].kind = "ellipsis"}
Leading(key) == Min(Ellipses(key) \cup {Len(key) + 1}) - 1
\* The position in the key of the one for an axis, 0 when there is none: keys
\* before the ellipsis are for the first axes, those after it for the last.
Position(a, key, axis) ==
    LET back == axis - Len(a.shape) + Len(key)
    IN  IF Ellipses(key) # {} /\ back > Leading(key) + 1 THEN back
        ELSE IF axis <= Leading(key) THEN axis ELSE 0

\* slice_syntax_check(), and the range that copy_key() wants of an integer.
Legal(a, key) ==
    /\ Cardinality(Ellipses(key)) <= 1
    /\ Len(key) - Cardinality(Ellipses(key)) <= Len(a.shape)
    /\ \A axis \in Axes(a.shape) :
           LET i == Position(a, key, axis)
           IN  i # 0 /\ key[i].kind = "index" =>
                   key[i].at + (IF axis = 1 THEN a.nghost ELSE 0) \in -a.shape[axis] .. a.shape[axis] - 1

\* parse_slices()
Slices(a, key) ==
    [axis \in Axes(a.shape) |->
        LET i == Position(a, key, axis)
        IN  IF i = 0 THEN [start |-> 0, step |-> 1, length |-> a.shape[axis]]
            ELSE TakenOf(a, axis, key[i])]
KeptAxes(slices) == SelectSeq([i \in DOMAIN slices |-> i], LAMBDA i : slices[i].step # 0)

\* getitem(): a view of the same buffer.  The origin of one without an item
\* stays, since the start of an empty slice may be outside.
ViewOf(a, slices) ==
    LET kept == KeptAxes(slices)
        shape == [i \in DOMAIN kept |-> slices[kept[i]].length]
        stride == [i \in DOMAIN kept |-> a.stride[kept[i]] * slices[kept[i]].step]
        starts == [i \in DOMAIN slices |-> slices[i].start]
    IN  Array(a.mem, a.base, a.len,
              a.at + (IF Hollow(shape) THEN 0 ELSE BufferOffset(a.stride, starts)),
              shape, stride, 0)
Valid(a) == Fits(a.shape, a.stride, a.len, a.at)

GetItem(key) ==
    LET view == ViewOf(arrays.x, Slices(arrays.x, key))
    IN  IF Legal(arrays.x, key) /\ Valid(view)
        THEN Returns("getitem", key, view, <<>>)
        ELSE Throws("getitem", key)

\* TypeBroadcast: input and output overlap when their addresses do, those of
\* the output being its whole buffer.
MayOverlap(out, in) ==
    /\ out.len > 0 /\ Size(in) > 0 /\ out.mem = in.mem
    /\ in.base + in.at + Low(in.shape, in.stride) < out.base + out.len
    /\ out.base <= in.base + in.at + High(in.shape, in.stride)

\* The cells after the items of in are assigned to out one after the other.
Assigned(cells, out, in) ==
    FoldLeft(LAMBDA c, idx : [c EXCEPT ![CellOf(out, idx)] =
                                  IF out.mem = in.mem THEN c[CellOf(in, idx)]
                                  ELSE memory[in.mem][CellOf(in, idx)]],
             cells, FirstFastest(out.shape))
\* The same from a copy of in.
Staged(cells, out, in) ==
    LET walk == FirstFastest(out.shape)
        staged == [k \in DOMAIN walk |-> memory[in.mem][CellOf(in, walk[k])]]
    IN  FoldLeft(LAMBDA c, k : [c EXCEPT ![CellOf(out, walk[k])] = staged[k]],
                 cells, [k \in DOMAIN walk |-> k])

BroadcastAtOnce(out, in) ==
    memory' = [memory EXCEPT ![out.mem] = Assigned(@, out, in)]

Broadcast(out, in) ==
    memory' = [memory EXCEPT ![out.mem] =
                  IF Size(in) = 0 THEN @
                  ELSE IF MayOverlap(out, in) THEN Staged(@, out, in)
                  ELSE Assigned(@, out, in)]

\* x[key] = y, with y seen as a numpy array.
SetItem(key) ==
    LET view == ViewOf(arrays.x, Slices(arrays.x, key))
    IN  IF Legal(arrays.x, key) /\ Valid(view) /\ view.shape = arrays.y.shape
        THEN Broadcast(view, arrays.y) /\ Done("setitem", key) /\ UNCHANGED arrays
        ELSE Throws("setitem", key)

\* x[idx] = v, of a scalar: at().
SetScalar(idx, v) ==
    LET a == arrays.x
        place == Normalized(idx, a.shape, a.nghost)
    IN  IF place = <<>> THEN Throws("at", idx)
        ELSE /\ memory' = [memory EXCEPT ![a.mem][CellOf(a, place)] = v]
             /\ Done("at", idx) /\ UNCHANGED arrays

-----------------------------------------------------------------------------
(* Copies.                                                                 *)

CloneOfAtStart(a) == Array(NewBlock, 0, a.len, 0, a.shape, a.stride, a.nghost)

\* The copy constructor: the whole block, with the origin and the ghosts.
CloneOf(a) == Array(NewBlock, 0, a.len, a.at, a.shape, a.stride, a.nghost)

CloneCells(a) == [k \in 0 .. a.len - 1 |-> Item(a, k)]
Clone == Returns("clone", <<>>, CloneOf(arrays.x), <<CloneCells(arrays.x)>>)

\* x = y: the block of y goes into that of x, which other views may share.
Assign ==
    LET x == arrays.x  y == arrays.y
    IN  IF SameBuffer(x, y)
        THEN /\ arrays' = [arrays EXCEPT !.x = y]
             /\ Done("assign", <<>>) /\ UNCHANGED memory
        ELSE IF x.len # y.len THEN Throws("assign", <<>>)
        ELSE /\ memory' = [memory EXCEPT ![x.mem] =
                              [c \in DOMAIN @ |-> IF c - x.base \in 0 .. x.len - 1
                                                  THEN Item(y, c - x.base) ELSE @[c]]]
             /\ arrays' = [arrays EXCEPT !.x =
                              Array(x.mem, x.base, x.len, y.at, y.shape, y.stride, y.nghost)]
             /\ Done("assign", <<>>)

\* reshape(): a view when the items are dense in C order up to the end of the
\* buffer.  The constructor wants the items of the shape to be all it is given,
\* and counts none for a shape without axes.
ExactBuffer(a) == a.len - a.at = Size(a)
Storage(shape) == IF shape = <<>> THEN 0 ELSE Head(shape) * Head(CStride(shape))
Reshape(shape) ==
    LET a == arrays.x
        view == IsC(a.shape, a.stride) /\ ExactBuffer(a)
    IN  IF \/ a.nghost # 0 \/ Volume(shape) # Size(a)
           \/ Storage(shape) # (IF view THEN a.len - a.at ELSE Size(a))
        THEN Throws("reshape", shape)
        ELSE IF view
        THEN Returns("reshape", shape,
                     Array(a.mem, a.base, a.len, a.at, shape, CStride(shape), 0), <<>>)
        ELSE Returns("reshape", shape, Fresh(a, shape, CStride(shape)),
                     <<CopyOf(a, CStride(a.shape))>>)

\* to_row_major() and to_column_major(): a clone of what is packed already.
RowMajor(a) ==
    IF IsC(a.shape, a.stride) THEN [array |-> CloneOf(a), cells |-> CloneCells(a)]
    ELSE [array |-> Fresh(a, a.shape, CStride(a.shape)), cells |-> CopyOf(a, CStride(a.shape))]
ColumnMajor(a) ==
    IF IsF(a.shape, a.stride) THEN [array |-> CloneOf(a), cells |-> CloneCells(a)]
    ELSE [array |-> Fresh(a, a.shape, FStride(a.shape)), cells |-> CopyOf(a, FStride(a.shape))]
Turn(a) == [a EXCEPT !.shape = Reverse(@), !.stride = Reverse(@)]
\* transpose_copy(): the columns of a are the rows of what it returns.
TransposedCopy(a) ==
    IF Len(a.shape) <= 1 THEN [array |-> CloneOf(a), cells |-> CloneCells(a)]
    ELSE [ColumnMajor(a) EXCEPT !.array = Turn(@)]

ToRowMajor ==
    Returns("to_row_major", <<>>, RowMajor(arrays.x).array, <<RowMajor(arrays.x).cells>>)
ToColumnMajor ==
    Returns("to_column_major", <<>>, ColumnMajor(arrays.x).array, <<ColumnMajor(arrays.x).cells>>)
TransposeCopy ==
    Returns("transpose_copy", <<>>, TransposedCopy(arrays.x).array, <<TransposedCopy(arrays.x).cells>>)

\* conjugate() of real values and hermitian(), which turns the copy.
Conjugate ==
    LET a == arrays.x
    IN  Returns("conjugate", <<>>, Fresh(a, a.shape, CStride(a.shape)), <<CopyOf(a, CStride(a.shape))>>)
Hermitian ==
    LET a == arrays.x
    IN  IF Len(a.shape) # 2 THEN Throws("hermitian", <<>>)
        ELSE Returns("hermitian", <<>>, Turn(Fresh(a, a.shape, CStride(a.shape))),
                     <<CopyOf(a, CStride(a.shape))>>)

-----------------------------------------------------------------------------
(* Calls on the array itself.  To transpose a view leaves its ghosts and   *)
(* its body as they are.                                                   *)

Transpose ==
    /\ arrays' = [arrays EXCEPT !.x = Turn(@)]
    /\ Done("transpose", <<>>) /\ UNCHANGED memory
TransposeInto ==
    /\ arrays' = [arrays EXCEPT !.x = TransposedCopy(@).array]
    /\ memory' = Append(memory, TransposedCopy(arrays.x).cells)
    /\ Done("transpose", <<>>)

Swap ==
    /\ arrays' = [x |-> arrays.y, y |-> arrays.x]
    /\ Done("swap", <<>>) /\ UNCHANGED memory

Permuted(s, axis) == [i \in DOMAIN axis |-> s[axis[i]]]
IsPermutation(axis, n) == Len(axis) = n /\ ToSet(axis) = 1 .. n
TransposeAxes(axis, copy) ==
    LET a == arrays.x
        view == [a EXCEPT !.shape = Permuted(@, axis), !.stride = Permuted(@, axis)]
    IN  IF ~IsPermutation(axis, Len(a.shape)) THEN Throws("axes", axis)
        ELSE /\ Done("axes", axis)
             /\ IF copy
                THEN /\ arrays' = [arrays EXCEPT !.x = Fresh(view, view.shape, CStride(view.shape))]
                     /\ memory' = Append(memory, CopyOf(view, CStride(view.shape)))
                ELSE arrays' = [arrays EXCEPT !.x = view] /\ UNCHANGED memory

SetNghost(n) ==
    LET a == arrays.x
    IN  IF n < 0 \/ (n > 0 /\ (a.shape = <<>> \/ n > Head(a.shape)))
        THEN Throws("set_nghost", n)
        ELSE /\ arrays' = [arrays EXCEPT !.x =
                              IF a.len = 0 THEN [a EXCEPT !.nghost = n]
                              ELSE Array(a.mem, a.base, a.len, a.at, a.shape, a.stride, n)]
             /\ Done("set_nghost", n) /\ UNCHANGED memory

\* fill(): one run from the origin when the items are dense.
FilledCells(a) ==
    {a.base + a.at + offset : offset \in
        IF Dense(a) THEN 0 .. Size(a) - 1 ELSE ToSet(Cursor(a.shape, a.stride))}
Fill(v) ==
    LET a == arrays.x
    IN  /\ memory' = [memory EXCEPT ![a.mem] =
                         [c \in DOMAIN @ |-> IF c \in FilledCells(a) THEN v ELSE @[c]]]
        /\ Done("fill", v) /\ UNCHANGED arrays

\* x += y and its kind, from begin() to end() of both whatever their strides.
Result(op, v, w) ==
    IF NaN \in {v, w} THEN NaN
    ELSE CASE op = "add" -> v + w [] op = "sub" -> v - w [] op = "mul" -> v * w
InPlace(op) ==
    LET x == arrays.x  y == arrays.y
        Other(c, k) == IF x.mem = y.mem THEN c[y.base + k] ELSE memory[y.mem][y.base + k]
        Into(c, k) == [c EXCEPT ![x.base + k] = Result(op, @, Other(c, k))]
    IN  IF x.shape # y.shape THEN Throws("inplace", op)
        ELSE /\ memory' = [memory EXCEPT ![x.mem] =
                              FoldLeft(Into, @, [k \in 1 .. Size(x) |-> k - 1])]
             /\ Done("inplace", op) /\ UNCHANGED arrays
InPlaceScalar(op, v) ==
    LET x == arrays.x
    IN  /\ memory' = [memory EXCEPT ![x.mem] =
                         [c \in DOMAIN @ |-> IF c - x.base \in 0 .. Size(x) - 1
                                             THEN Result(op, @[c], v) ELSE @[c]]]
        /\ Done("scalar", op) /\ UNCHANGED arrays

\* x + y: a clone of x, to which y is added in place; add_simd() makes a dense
\* array of the items from begin() to end().
Binary(op) ==
    LET x == arrays.x  y == arrays.y
        cells == [k \in 0 .. x.len - 1 |->
                     IF k < Size(x) THEN Result(op, Item(x, k), Item(y, k)) ELSE Item(x, k)]
    IN  IF x.shape # y.shape THEN Throws("binary", op)
        ELSE Returns("binary", op, CloneOf(x), <<cells>>)
BinarySimd(op) ==
    LET x == arrays.x  y == arrays.y
    IN  IF x.shape # y.shape THEN Throws("simd", op)
        ELSE Returns("simd", op, Fresh(x, x.shape, CStride(x.shape)),
                     <<[k \in 0 .. Size(x) - 1 |-> Result(op, Item(x, k), Item(y, k))]>>)

\* abs(): a clone, item by item through at(), which wants an index.
Absolute(v) == IF v < 0 THEN -v ELSE v
Abs ==
    LET x == arrays.x
        mine == {CellOf(x, Normalized(idx, x.shape, x.nghost)) - x.base :
                    idx \in ToSet(RangeOf(x.shape, x.nghost))}
    IN  IF Size(x) = 0 \/ x.shape = <<>> THEN Throws("abs", <<>>)
        ELSE Returns("abs", <<>>, CloneOf(x),
                     <<[k \in 0 .. x.len - 1 |->
                           IF k \in mine THEN Absolute(Item(x, k)) ELSE Item(x, k)]>>)

Raw(a) == [k \in 1 .. Size(a) |-> Item(a, k - 1)]      \* from begin() to end()
Less(v, w) == v # NaN /\ w # NaN /\ v < w
NanAwareLess(v, w) == v # NaN /\ (w = NaN \/ v < w)
\* sort(): the numbers in order, then the NaNs.
SortedNumbers(s) ==
    SortSeq(SelectSeq(s, LAMBDA v : v # NaN), Less) \o SelectSeq(s, LAMBDA v : v = NaN)
Sort ==
    LET a == arrays.x
        sorted == SortedNumbers(Raw(a))
    IN  IF Len(a.shape) # 1 THEN Throws("sort", <<>>)
        ELSE /\ memory' = [memory EXCEPT ![a.mem] =
                              [c \in DOMAIN @ |-> IF c - a.base \in 0 .. Size(a) - 1
                                                  THEN sorted[c - a.base + 1] ELSE @[c]]]
             /\ Done("sort", <<>>) /\ UNCHANGED arrays

SimpleArrayInit ==
    /\ \E s \in Starts :
          /\ memory = <<s.cells>>
          /\ arrays = [x |-> FromNumpy(1, s.x.origin, s.x.shape, s.x.stride),
                       y |-> IF s.y = <<>> THEN None
                             ELSE FromNumpy(1, s.y[1].origin, s.y[1].shape, s.y[1].stride)]
    /\ call = [op |-> "none", arg |-> <<>>, ok |-> TRUE, count |-> 0]

Operations == {"add", "sub", "mul"}
CopyCalls ==
    Clone \/ ToRowMajor \/ ToColumnMajor \/ TransposeCopy \/ Conjugate \/ Hermitian \/ Abs
PairCalls ==
    /\ Present(arrays.y)
    /\ \/ Assign \/ Swap
       \/ \E op \in Operations : InPlace(op) \/ Binary(op) \/ BinarySimd(op)
       \/ \E key \in Keys : SetItem(key)
AxesOrders == {<<1, 2>>, <<2, 1>>, <<2, 3, 1>>, <<1, 1>>}
SimpleArrayNext ==
    /\ call.count < MaxCalls
    /\ \/ \E key \in Keys : GetItem(key)
       \/ \E shape \in Shapes : Reshape(shape)
       \/ CopyCalls \/ PairCalls
       \/ Transpose \/ TransposeInto \/ Sort
       \/ \E axis \in AxesOrders, copy \in BOOLEAN : TransposeAxes(axis, copy)
       \/ \E n \in -1 .. 2 : SetNghost(n)
       \/ Fill(0) \/ InPlaceScalar("add", 3)
       \/ \E i \in {-1, 1, 3} : SetScalar(<<i>>, 0) \/ SetScalar(<<i, 0>>, 0)
=============================================================================
