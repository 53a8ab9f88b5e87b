----------------------------- MODULE ArrayReads -----------------------------
(***************************************************************************)
(* What SimpleArray computes from its items.  Some calls go from begin()   *)
(* to end(), the first items of the buffer, some from the logical origin   *)
(* by the strides, and some from the body.                                 *)
(***************************************************************************)
EXTENDS SimpleArray

Summed(s) == FoldLeft(+, 0, s)
ItemAt(a, idx) == Item(a, a.at + BufferOffset(a.stride, Normalized(idx, a.shape, a.nghost)))
Range1(a) == RangeOf(a.shape, a.nghost)
Along(a) == [k \in 1 .. Size(a) |-> ItemAt(a, Range1(a)[k])]

\* as_mdspan(): the mapping counts from the first item in memory.
MdspanAt(a, idx) ==
    LET span == Span(a.shape, a.stride)
    IN  Item(a, (a.at - span.origin) + (span.origin + BufferOffset(a.stride, idx)))

\* sum(): from begin() when the items are dense, by rows from the origin if not.
Sum(a) ==
    LET front == SubSeq(a.shape, 1, Len(a.shape) - 1)
        Row(prefix) ==
            Summed([j \in 1 .. Last(a.shape) |->
                Item(a, a.at + BufferOffset(SubSeq(a.stride, 1, Len(front)), prefix)
                             + (j - 1) * Last(a.stride))])
    IN  IF Dense(a) THEN Summed(Raw(a))
        ELSE FoldLeft(LAMBDA t, prefix : t + Row(prefix), 0, Indices(front))

\* min() and max() go over data(), NaNs lose; argmin() and argmax() go in C
\* order, and a NaN wins.  The walk of dense items starts at the second.
Beats(end, v, w) == IF end = "min" THEN Less(v, w) ELSE Less(w, v)
Extreme(a, end, worst) ==
    FoldLeft(LAMBDA best, v : IF Beats(end, v, best) THEN v ELSE best, worst, Raw(a))
Best(s, first, end) ==
    LET nans == {k \in first .. Len(s) : s[k] = NaN}
    IN  IF nans # {} THEN Min(nans) - 1
        ELSE FoldLeft(LAMBDA best, k : IF Beats(end, s[k], s[best + 1]) THEN k - 1 ELSE best,
                      0, [k \in DOMAIN s |-> k])
\* unchecked_logical_offset(): an index of the walk, with its ghosts taken off.
Unchecked(a, idx) ==
    BufferOffset(a.stride, [i \in DOMAIN idx |-> idx[i] + (IF i = 1 THEN a.nghost ELSE 0)])
ArgBest(a, end) ==
    IF IsC(a.shape, a.stride)
    THEN Best([k \in 1 .. Size(a) |-> Item(a, a.at + k - 1)], 2, end)
    ELSE Best([k \in 1 .. Size(a) |-> Item(a, a.at + Unchecked(a, Range1(a)[k]))], 1, end)

\* An index of all axes: that of the result, or of the axes reduced.
Lower(a, i) == IF i = 1 THEN -a.nghost ELSE 0
Others(a, axes) == SelectSeq([i \in Axes(a.shape) |-> i], LAMBDA i : i \notin axes)
Joined(a, axes, outer, inner) ==
    [i \in Axes(a.shape) |->
        IF i \in axes THEN inner[Cardinality({j \in axes : j <= i})]
        ELSE Lower(a, i) + outer[Cardinality({j \in Axes(a.shape) \ axes : j <= i})]]

\* argmin(axis): one position for each index of the other axes.
ArgBestAlong(a, axis, end) ==
    LET outer == Indices(Permuted(a.shape, Others(a, {axis})))
        First(k) == a.at + Unchecked(a, Joined(a, {axis}, outer[k], <<Lower(a, axis)>>))
    IN  [k \in DOMAIN outer |->
            Best([i \in 1 .. a.shape[axis] |-> Item(a, First(k) + (i - 1) * a.stride[axis])], 2, end)]

\* reduce(): what goes to the reduction for each index of the other axes.
ReducedSlices(a, axes) ==
    LET of == SetToSortSeq(axes, <)
        outer == Indices(Permuted(a.shape, Others(a, axes)))
        inner == Walk([i \in DOMAIN of |-> Lower(a, of[i])],
                      [i \in DOMAIN of |-> Lower(a, of[i]) + a.shape[of[i]]])
    IN  [k \in DOMAIN outer |->
            [j \in DOMAIN inner |-> ItemAt(a, Joined(a, axes, outer[k], inner[j]))]]

\* argwhere(): where the items that are not 0 lie, by their place in the buffer.
ArgWhere(a) ==
    LET found == SelectSeq([k \in 1 .. Size(a) |-> k - 1], LAMBDA k : Item(a, k) # 0)
        Place(k) ==
            LET rest[i \in Nat] == IF i = 0 THEN k ELSE rest[i - 1] % a.stride[i]
            IN  [i \in Axes(a.shape) |-> rest[i - 1] \div a.stride[i]]
    IN  [n \in DOMAIN found |-> Place(found[n])]

\* where(): x where the condition holds, y elsewhere.
Where(c, x, y) ==
    [k \in 1 .. Size(c) |->
        IF ItemAt(c, Range1(c)[k]) # 0 THEN ItemAt(x, Range1(c)[k]) ELSE ItemAt(y, Range1(c)[k])]

\* wrapping_op(): the value of so many bits that is v modulo their number.
Wrap(v) == ((v + 2 ^ (Width - 1)) % 2 ^ Width) - 2 ^ (Width - 1)
Diff(a) ==
    [i \in 1 .. Max({a.shape[1] - 1, 0}) |->
        Wrap(Item(a, a.at + i * a.stride[1]) - Item(a, a.at + (i - 1) * a.stride[1]))]
CumSum(s) ==
    LET acc[i \in 0 .. Len(s)] == IF i = 0 THEN 0 ELSE Wrap(acc[i - 1] + s[i])
    IN  [i \in DOMAIN s |-> acc[i]]

\* eq() and its kind, from begin() to end() of both; y may be a scalar.
Holds(cmp, v, w) ==
    CASE cmp = "eq" -> v = w /\ v # NaN
      [] cmp = "lt" -> Less(v, w)
      [] cmp = "ge" -> Less(w, v) \/ (v = w /\ v # NaN)
Compared(cmp, x, y) == [k \in 1 .. Size(x) |-> Holds(cmp, Raw(x)[k], Raw(y)[k])]

\* operator(): from the body, with no look at the range.
FromBody(a, i, j) == Item(a, a.body + i * a.stride[1] + j * a.stride[2])
Trace(a) == Summed([i \in 1 .. a.shape[1] |-> FromBody(a, i - 1, i - 1)])
\* symmetrize(): twice the half that it stores; the copy is as the array is.
Symmetrized(a) ==
    [i, j \in 0 .. a.shape[1] - 1 |-> FromBody(a, i, j) + FromBody(a, j, i)]

\* average() and var() over all, as the numerator over the denominator.
Average(x, weight) ==
    <<Summed([k \in 1 .. Size(x) |-> ItemAt(x, Range1(x)[k]) * ItemAt(weight, Range1(x)[k])]),
      Summed([k \in 1 .. Size(x) |-> ItemAt(weight, Range1(x)[k])])>>
Variance(a, ddof) ==
    LET squares == Summed([k \in 1 .. Size(a) |-> Along(a)[k] * Along(a)[k]])
    IN  <<Size(a) * squares - Sum(a) * Sum(a), Size(a) * (Size(a) - ddof)>>
\* var_op(): the mean first, and the squares of what is off it.
VarianceOf(s, ddof) ==
    <<Summed([k \in DOMAIN s |-> (Len(s) * s[k] - Summed(s)) * (Len(s) * s[k] - Summed(s))]),
      Len(s) * Len(s) * (Len(s) - ddof)>>

-----------------------------------------------------------------------------
(* small_vector::select_kth(): quick select over a part of s, counted from *)
(* 1, with the median of three as the pivot.                               *)

Swapped(s, i, j) == [s EXCEPT ![i] = s[j], ![j] = s[i]]
Ordered2(s, i, j) == IF s[j] < s[i] THEN Swapped(s, i, j) ELSE s
ChoosePivot(s, first, last) ==
    LET mid == first + (last - first) \div 2
    IN  [s |-> Ordered2(Ordered2(Ordered2(s, first, mid), first, last - 1), mid, last - 1),
         at |-> mid]

\* partition(): the pivot's place is a gap that the others move through.
Partition(s, left, right, pivot) ==
    LET t == Swapped(s, left, pivot)
        value == t[left]
        Move(st, it) ==
            LET dst == left + st.less
                moved == [st.s EXCEPT ![st.gap] = st.s[dst]]
            IN  [s |-> [moved EXCEPT ![dst] = moved[it]], gap |-> it,
                 less |-> st.less + (IF st.s[it] < value THEN 1 ELSE 0)]
        end == FoldLeft(Move, [s |-> t, gap |-> left, less |-> 0],
                        [k \in 1 .. right - left - 1 |-> left + k])
        dst == left + end.less
    IN  [s |-> [[end.s EXCEPT ![end.gap] = end.s[dst]] EXCEPT ![dst] = value], at |-> dst]

\* quick_select(): the sequence in the end, with the k-th of s, from 0, in place.
QuickSelect(s, k) ==
    LET Step(st) ==
            LET chosen == ChoosePivot(st.s, st.first, st.last)
                split == Partition(chosen.s, st.first, st.last, chosen.at)
                rank == split.at - st.first
            IN  CASE rank = st.k -> [st EXCEPT !.s = split.s, !.found = split.at]
                  [] rank > st.k -> [st EXCEPT !.s = split.s, !.last = split.at]
                  [] OTHER -> [st EXCEPT !.s = split.s, !.first = split.at + 1,
                                         !.k = st.k - rank - 1]
        state[n \in 0 .. Len(s)] ==
            IF n = 0 THEN [s |-> s, first |-> 1, last |-> Len(s) + 1, k |-> k, found |-> 0]
            ELSE LET st == state[n - 1] IN IF st.found # 0 THEN st ELSE Step(st)
    IN  state[Len(s)]

\* median_op(): the two in the middle, which are one when there are odd many.
MedianOf(s) ==
    LET half == Len(s) \div 2
        end == QuickSelect(s, half)
        upper == end.s[end.found]
    IN  IF Len(s) % 2 # 0 THEN <<upper, upper>>
        ELSE <<Max({end.s[i] : i \in 1 .. half}), upper>>
\* median_freq() of small integers: how many there are of each.
MedianFreq(s, values) ==
    LET UpTo(v) == Cardinality({i \in DOMAIN s : s[i] <= v})
        Bin(k) == Min({v \in values : UpTo(v) > k})
    IN  <<Bin((Len(s) - 1) \div 2), Bin(Len(s) \div 2)>>

-----------------------------------------------------------------------------
(* Search in a sorted array, from begin().                                 *)

ArgSort(a) ==
    LET s == Raw(a)
        Before(i, j) == NanAwareLess(s[i + 1], s[j + 1])
                        \/ (~NanAwareLess(s[j + 1], s[i + 1]) /\ i < j)
    IN  SortSeq([k \in DOMAIN s |-> k - 1], Before)
TakeAlongAxis(a, indices) ==
    IF \E k \in DOMAIN indices : indices[k] \notin 0 .. a.shape[1] - 1 THEN <<>>
    ELSE [k \in DOMAIN indices |-> Item(a, indices[k])]

\* lower_bound() and upper_bound() of the items from lo on, counted from lo.
BeforeBound(side, probe, v) ==
    IF side = "left" THEN NanAwareLess(probe, v) ELSE ~NanAwareLess(v, probe)
SearchBound(s, v, side) == Cardinality({k \in DOMAIN s : BeforeBound(side, s[k], v)})

\* gallop_bound(): steps that double until one is past the bound.
GallopBound(s, v, side, from) ==
    LET probe[n \in 0 .. Len(s) + 1] ==
            IF n = 0 THEN [lo |-> from, hi |-> from, step |-> 1]
            ELSE LET p == probe[n - 1]
                 IN  IF p.hi < Len(s) /\ BeforeBound(side, s[p.hi + 1], v)
                     THEN [lo |-> p.hi + 1, hi |-> p.hi + p.step, step |-> 2 * p.step]
                     ELSE p
        end == probe[Len(s) + 1]
    IN  end.lo + SearchBound(SubSeq(s, end.lo + 1, Min({end.hi, Len(s)})), v, side)

\* searchsorted(): a gallop along the values that rise, then one search each.
SearchSorted(s, values, side) ==
    LET drop == Min({k \in 2 .. Len(values) : NanAwareLess(values[k], values[k - 1])}
                    \cup {Len(values) + 1})
        found[k \in 0 .. Len(values)] ==
            IF k = 0 THEN 0
            ELSE IF k < drop THEN GallopBound(s, values[k], side, found[k - 1])
            ELSE SearchBound(s, values[k], side)
    IN  [k \in DOMAIN values |-> found[k]]

-----------------------------------------------------------------------------
(* What the calls promise, by the items of an array in C order.            *)

Unraveled(shape, k) == [i \in Axes(shape) |-> (k \div CStride(shape)[i]) % shape[i]]
AllIndices(shape) == {Unraveled(shape, k) : k \in 0 .. Volume(shape) - 1}
Elements(m, a) ==
    LET walk == [k \in 1 .. Size(a) |-> m[a.mem][CellOf(a, Unraveled(a.shape, k - 1))]]
    IN  SubSeq(walk, 1, Size(a))
CellsOf(a) == {CellOf(a, idx) : idx \in AllIndices(a.shape)}
Plain(s) == \A k \in DOMAIN s : s[k] # NaN
KthOf(s, k) ==
    CHOOSE v \in ToSet(s) : /\ Cardinality({i \in DOMAIN s : s[i] < v}) <= k
                            /\ Cardinality({i \in DOMAIN s : s[i] <= v}) > k
Middle(s) == <<KthOf(s, (Len(s) - 1) \div 2), KthOf(s, Len(s) \div 2)>>
Extremum(s, end) ==
    LET nans == {k \in DOMAIN s : s[k] = NaN}
        best == {k \in DOMAIN s : \A j \in DOMAIN s : ~Beats(end, s[j], s[k])}
    IN  Min(IF nans # {} THEN nans ELSE best) - 1

\* An array lies in its buffer, and one without ghosts has its body at its
\* origin.
InBuffer(a) ==
    /\ Valid(a)
    /\ a.base >= 0 /\ a.base + a.len <= Cardinality(DOMAIN memory[a.mem])
    /\ a.nghost = 0 => a.body = a.at

\* All indices, by at(), by an mdspan and by the cursor of fill(), are of the
\* same items; copies and cursors of a layout lead to every one of them once.
WalksAgree(a) ==
    LET want == Elements(memory, a)
        span == Span(a.shape, a.stride)
    IN  /\ a.shape # <<>> => Along(a) = want
        /\ \A k \in DOMAIN want :
              LET idx == Unraveled(a.shape, k - 1)
              IN  /\ MdspanAt(a, idx) = want[k]
                  /\ span.origin + BufferOffset(a.stride, idx) \in 0 .. span.items - 1
        /\ FilledCells(a) = CellsOf(a)
        /\ \A to \in {CStride(a.shape), FStride(a.shape)} :
              /\ a.shape # <<>> /\ Size(a) > 0
              => Copied(a.shape, to, a.stride) =
                     {<<BufferOffset(to, idx), BufferOffset(a.stride, idx)>> : idx \in AllIndices(a.shape)}

\* What sum(), min() and argwhere() and the in-place sort read, they read from
\* begin() on: they are right for the layouts named here and for no other.
FromBegin(a) == {c - a.base : c \in CellsOf(a)} = 0 .. Size(a) - 1
InOrder(a) == a.at = 0 /\ IsC(a.shape, a.stride)
ScansAgree(a) ==
    LET want == Elements(memory, a)
    IN  /\ (a.at = 0 \/ ~Dense(a)) /\ Plain(want) => Sum(a) = Summed(want)
        /\ FromBegin(a) /\ Plain(want) /\ want # <<>> =>
              /\ Extreme(a, "min", NaN - 1) = KthOf(want, 0)
              /\ Extreme(a, "max", -NaN) = KthOf(want, Len(want) - 1)
        /\ a.at = 0 /\ a.stride = CStride(a.shape) =>
              ArgWhere(a) = [n \in 1 .. Len(ArgWhere(a)) |->
                  Unraveled(a.shape, SelectSeq([k \in DOMAIN want |-> k - 1],
                                               LAMBDA k : want[k + 1] # 0)[n])]
        /\ \/ want = <<>> \/ want[1] = NaN
           \/ ArgBest(a, "min") = Extremum(want, "min") /\ ArgBest(a, "max") = Extremum(want, "max")
        /\ a.nghost = 0 /\ Len(a.shape) = 2 /\ Plain(want) =>
              /\ \A i \in 0 .. a.shape[1] - 1, j \in 0 .. a.shape[2] - 1 :
                     FromBody(a, i, j) = want[1 + i * a.shape[2] + j]
              /\ a.shape[1] = a.shape[2] =>
                     /\ Trace(a) = Summed([i \in 1 .. a.shape[1] |-> Symmetrized(a)[i - 1, i - 1]]) \div 2
                     /\ \A i, j \in 0 .. a.shape[1] - 1 : Symmetrized(a)[i, j] = Symmetrized(a)[j, i]

\* The slices along some axes, what is found along one, and the median.
SlicesAgree(a) ==
    LET want == Elements(memory, a)
        Slice(axes, outer) ==
            LET mine == SelectSeq([k \in DOMAIN want |-> k],
                    LAMBDA k : Permuted(Unraveled(a.shape, k - 1), Others(a, axes)) = outer)
            IN  FoldLeft(LAMBDA t, k : Append(t, want[k]), <<>>, mine)
        Outer(axes) == Indices(Permuted(a.shape, Others(a, axes)))
    IN  Len(a.shape) > 1 /\ Size(a) > 0 =>
            /\ \A axes \in SUBSET Axes(a.shape) \ {{}, Axes(a.shape)} :
                  \A k \in DOMAIN Outer(axes) :
                      ReducedSlices(a, axes)[k] = Slice(axes, Outer(axes)[k])
            /\ \A axis \in Axes(a.shape) : \A k \in DOMAIN Outer({axis}) :
                  LET s == Slice({axis}, Outer({axis})[k])
                  IN  s[1] # NaN =>
                          /\ ArgBestAlong(a, axis, "min")[k] = Extremum(s, "min")
                          /\ ArgBestAlong(a, axis, "max")[k] = Extremum(s, "max")

\* Statistics and searches, of the items in any order that they lie in; those
\* from begin() on, where the items are the first of the buffer.
ValuesAgree(a) ==
    LET want == Elements(memory, a)
        sorted == SortedNumbers(want)
    IN  /\ Plain(want) /\ want # <<>> /\ a.shape # <<>> =>
              /\ MedianOf(Along(a)) = Middle(want)
              /\ MedianFreq(Along(a), ToSet(want)) = Middle(want)
              /\ a.at = 0 \/ ~Dense(a) => Size(a) * Variance(a, 0)[1] = VarianceOf(want, 0)[1]
        /\ Len(a.shape) = 1 /\ FromBegin(a) =>
              /\ a.stride = <<1>> \/ Size(a) < 2 => TakeAlongAxis(a, ArgSort(a)) = sorted
              /\ \A side \in {"left", "right"} :
                    SearchSorted(sorted, want, side) =
                        [k \in DOMAIN want |-> SearchBound(sorted, want[k], side)]
        /\ Len(a.shape) = 1 /\ Plain(want) =>
              CumSum(Diff(a)) = [k \in 1 .. Len(Diff(a)) |-> Wrap(want[k + 1] - want[1])]

\* The calls on two arrays of one shape; comparisons go from begin().
PairsAgree(x, y) ==
    LET p == Elements(memory, x)
        q == Elements(memory, y)
    IN  x.shape = y.shape /\ x.shape # <<>> =>
            /\ x.nghost = y.nghost =>
                  Where(x, x, y) = [k \in DOMAIN p |-> IF p[k] # 0 THEN p[k] ELSE q[k]]
            /\ Plain(p) /\ Plain(q) /\ x.nghost = y.nghost =>
                  Average(x, y) = <<Summed([k \in DOMAIN p |-> p[k] * q[k]]), Summed(q)>>
            /\ InOrder(x) /\ InOrder(y) =>
                  \A cmp \in {"eq", "lt", "ge"} :
                      Compared(cmp, x, y) = [k \in DOMAIN p |-> Holds(cmp, p[k], q[k])]

\* The reads of the arrays at hand, of each and of the two together.
ItemReadsAgree ==
    \A n \in {n \in Both : Present(arrays[n])} :
        /\ InBuffer(arrays[n]) /\ WalksAgree(arrays[n]) /\ ScansAgree(arrays[n])
        /\ SlicesAgree(arrays[n]) /\ ValuesAgree(arrays[n])

PairReadsAgree == Present(arrays.y) => PairsAgree(arrays.x, arrays.y)

\* The index of x that an index of a view by slices is: the integers put back.
Source(slices, idx) ==
    [i \in DOMAIN slices |->
        IF slices[i].step = 0 THEN slices[i].start
        ELSE slices[i].start
             + slices[i].step * idx[Cardinality({j \in 1 .. i : slices[j].step # 0})]]

\* An integer and the start of a slice name the index that at() does.
Named(a, key) ==
    \A axis \in Axes(a.shape) :
        LET i == Position(a, key, axis)
            Name(at) == Normalized([j \in Axes(a.shape) |-> IF j = axis THEN at ELSE Lower(a, j)], a.shape, a.nghost)
        IN  \A at \in IF i = 0 THEN {}
                      ELSE IF key[i].kind = "index" THEN {key[i].at}
                      ELSE ToSet(key[i].start) :
                Name(at) # <<>> => Name(at)[axis] = Slices(a, key)[axis].start

Sharing(b, a, Of(_)) ==
    SameBuffer(a, b) /\ \A idx \in AllIndices(b.shape) : CellOf(b, idx) = CellOf(a, Of(idx))
\* b is a copy of a with other axes, and shares nothing with what there was.
CopyAgrees(b, a, Of(_)) ==
    /\ b.mem \notin {arrays[n].mem : n \in Both}
    /\ \A idx \in AllIndices(b.shape) : memory'[b.mem][CellOf(b, idx)] = memory[a.mem][CellOf(a, Of(idx))]
Untouched(cells, mem) ==
    \A m \in DOMAIN memory : \A c \in DOMAIN memory[m] :
        (m = mem /\ c \in cells) \/ memory'[m][c] = memory[m][c]

CallAgrees ==
    LET x == arrays.x
        new == arrays'.x
        y == arrays'.y
        arg == call'.arg
        Same(idx) == idx
        written == IF call'.op = "setitem" THEN ViewOf(x, Slices(x, arg)) ELSE x
        Permute(idx) == [i \in DOMAIN arg |-> idx[CHOOSE k \in DOMAIN arg : arg[k] = i]]
        Legitimate ==
            CASE call'.op = "getitem" -> Legal(x, arg)
              [] call'.op = "setitem" -> Legal(x, arg) /\ written.shape = arrays.y.shape
              [] call'.op = "reshape" -> x.nghost = 0 /\ Volume(arg) = Size(x) /\ arg # <<>>
              [] OTHER -> FALSE
    IN  CASE ~call'.ok -> UNCHANGED <<memory, arrays>> /\ ~Legitimate
          [] call'.op = "getitem" ->
                LET slices == Slices(x, arg)
                    Of(idx) == Source(slices, idx)
                IN  Sharing(y, x, Of) /\ Named(x, arg) /\ UNCHANGED memory
          [] call'.op \in {"clone", "to_row_major", "to_column_major", "conjugate"} ->
                /\ y.shape = x.shape /\ CopyAgrees(y, x, Same)
                /\ call'.op = "to_column_major" => IsF(y.shape, y.stride)
                /\ call'.op \in {"to_row_major", "conjugate"} => IsC(y.shape, y.stride)
          [] call'.op \in {"transpose_copy", "hermitian"} ->
                /\ y.shape = Reverse(x.shape) /\ CopyAgrees(y, x, Reverse)
                /\ call'.op = "transpose_copy" /\ Len(x.shape) > 1 => IsC(y.shape, y.stride)
          [] call'.op = "reshape" -> Elements(memory', y) = Elements(memory, x)
          [] call'.op = "transpose" ->
                /\ new.shape = Reverse(x.shape)
                /\ Sharing(new, x, Reverse) \/ CopyAgrees(new, x, Reverse)
          [] call'.op = "axes" ->
                /\ new.shape = Permuted(x.shape, arg)
                /\ Sharing(new, x, Permute) \/ CopyAgrees(new, x, Permute)
          [] call'.op = "setitem" -> Elements(memory', written) = Elements(memory, arrays.y)
          [] call'.op = "assign" ->
                SameBuffer(x, new) /\ Elements(memory', new) = Elements(memory, arrays.y)
          [] call'.op \in {"inplace", "binary", "simd"} ->
                LET p == Elements(memory, x)
                    q == Elements(memory, arrays.y)
                    out == IF call'.op = "inplace" THEN new ELSE y
                IN  /\ FromBegin(x) /\ FromBegin(arrays.y) /\ x.stride = arrays.y.stride
                    /\ call'.op = "simd" => InOrder(x)
                    /\ call'.op = "inplace" =>
                           CellsOf(x) = CellsOf(arrays.y) \/ x.mem # arrays.y.mem
                               \/ CellsOf(x) \cap CellsOf(arrays.y) = {}
                    => Elements(memory', out) = [k \in DOMAIN p |-> Result(arg, p[k], q[k])]
          [] call'.op = "abs" ->
                Elements(memory', y) = [k \in 1 .. Size(x) |-> Absolute(Elements(memory, x)[k])]
          [] call'.op = "fill" -> \A k \in 1 .. Size(x) : Elements(memory', x)[k] = arg
          [] OTHER -> TRUE

\* What a call may write to: its destination, or the buffer of it.
WritesAgree ==
    LET x == arrays.x
        block == x.base .. x.base + x.len - 1
    IN  CASE call'.op = "setitem" /\ call'.ok -> Untouched(CellsOf(ViewOf(x, Slices(x, call'.arg))), x.mem)
          [] call'.op \in {"fill", "at"} -> Untouched(CellsOf(x), x.mem)
          [] call'.op = "assign" -> Untouched(block, x.mem)
          [] call'.op \in {"inplace", "scalar", "sort"} -> Untouched(block, x.mem)
          [] OTHER -> Untouched({}, 0)

\* In every layout (dense, turned over, with gaps, with ghosts, empty): the walks
\* by indices, mdspan, cursor and copying kernels read the same items; a view
\* shares the items of its key and a copy shares none; an assignment within one
\* memory is as if its source had been copied first; and a write stays in its
\* items, or in the buffer of its array where it goes through the buffer.
\* Sums, extremes, searches, sorting, statistics, comparisons and arithmetic
\* agree with the items in C order, those that go from begin() only in the
\* layouts that ScansAgree, ValuesAgree, PairsAgree and CallAgrees name: in the
\* others the code reads or writes other items, and nothing is said of them.
ArraysAgree == [](ItemReadsAgree /\ PairReadsAgree) /\ [][CallAgrees /\ WritesAgree]_simpleArrayVars
=============================================================================
