----------------------------- MODULE MeshProofs -----------------------------
(***************************************************************************)
(* What holds of the meshes, of the polygons and of the widget that shows  *)
(* a mesh, for every grid, outline and domain: the lemmas about folds and  *)
(* ascending lists first, then the widget, the pad, and the mesh.          *)
(***************************************************************************)
EXTENDS DomainWidget, StaticMesh, PolygonPad, SequenceTheorems, FiniteSetTheorems,
        WellFoundedInduction, TLAPS

\* A set has 0 and with a number the next one, up to len.
Inductive(Has, len) ==
    len \in Nat /\ 0 \in Has /\ \A k \in 1 .. len : k - 1 \in Has => k \in Has

\* Such a set has all numbers up to len.
LEMMA Induction ==
    ASSUME NEW Has, NEW len, Inductive(Has, len)
    PROVE  0 .. len \subseteq Has /\ len \in Has
<1>0. len \in Nat /\ 0 \in Has /\ \A k \in 1 .. len : k - 1 \in Has => k \in Has
  BY DEF Inductive
<1> SUFFICES 0 .. len \subseteq Has
  BY <1>0
<1> DEFINE Bad == {k \in 0 .. len : k \notin Has}
<1> SUFFICES ASSUME Bad # {}
             PROVE  FALSE
  OBVIOUS
<1>1. Bad \subseteq Nat
  OBVIOUS
<1>2. \E k \in Bad : \A i \in Bad : ~ (<<i, k>> \in OpToRel(<, Nat))
  <2> HIDE DEF Bad
  <2> QED
    BY <1>1, NatLessThanWellFounded, WFMin
<1>3. PICK k \in Bad : \A i \in Bad : ~ (i < k)
  BY <1>1, <1>2 DEF OpToRel
<1>4. k \in 1 .. len /\ k - 1 \in 0 .. len /\ k - 1 < k
  BY <1>0, <1>3
<1>5. k - 1 \in Has
  BY <1>3, <1>4
<1> QED
  BY <1>0, <1>3, <1>4, <1>5

\* Step has for each number up to len what it makes of a value in Val.
Steps(Val, start, len, Step) ==
    start \in Val /\ len \in Nat /\ Step \in [1 .. len -> [Val -> Val]]
Iterates(g, Val, start, len, Step) ==
    /\ g \in [0 .. len -> Val] /\ g[0] = start
    /\ \A k \in 1 .. len : g[k] = Step[k][g[k - 1]]

\* Such steps can be taken one after the other.
LEMMA Recursion ==
    ASSUME NEW Val, NEW start, NEW len, NEW Step, Steps(Val, start, len, Step)
    PROVE  \E g : Iterates(g, Val, start, len, Step)
<1>0. start \in Val /\ len \in Nat /\ Step \in [1 .. len -> [Val -> Val]]
  BY DEF Steps
<1> DEFINE Runs(m, g) == /\ g \in [0 .. m -> Val] /\ g[0] = start
                         /\ \A k \in 1 .. m : g[k] = Step[k][g[k - 1]]
           P == {m \in 0 .. len : \E g : Runs(m, g)}
<1>1. 0 \in P
  <2>1. Runs(0, [k \in 0 .. 0 |-> start])
    BY <1>0
  <2> HIDE DEF Runs
  <2> QED
    BY <1>0, <2>1
<1>2. ASSUME NEW m \in 1 .. len, m - 1 \in P
      PROVE  m \in P
  <2>1. PICK g : Runs(m - 1, g)
    BY <1>2
  <2>2. m - 1 \in 0 .. m - 1 /\ g[m - 1] \in Val
    BY <2>1
  <2>3. Step[m][g[m - 1]] \in Val
    BY <1>0, <2>2
  <2> DEFINE h == [k \in 0 .. m |-> IF k = m THEN Step[m][g[m - 1]] ELSE g[k]]
  <2>4. \A k \in 0 .. m : h[k] \in Val
    BY <2>1, <2>3
  <2>5. h \in [0 .. m -> Val] /\ h[0] = start
    BY <2>1, <2>4
  <2>6. ASSUME NEW k \in 1 .. m
        PROVE  h[k] = Step[k][h[k - 1]]
    <3>1. h[k - 1] = g[k - 1]
      OBVIOUS
    <3>2. CASE k = m
      <4>1. h[k] = Step[m][g[m - 1]]
        BY <3>2
      <4>2. h[k - 1] = g[m - 1]
        BY <3>1, <3>2
      <4> HIDE DEF h
      <4> QED
        BY <3>2, <4>1, <4>2
    <3>3. CASE k # m
      <4>1. k \in 1 .. m - 1 /\ h[k] = g[k]
        BY <3>3
      <4> QED
        BY <2>1, <3>1, <4>1
    <3> QED
      BY <3>2, <3>3
  <2>7. Runs(m, h)
    BY <2>5, <2>6
  <2>8. \E x : Runs(m, x)
    <3> HIDE DEF Runs, h
    <3> QED
      BY <2>7
  <2> QED
    BY <2>8
<1> HIDE DEF Runs
<1>4. len \in P
  <2>1. Inductive(P, len)
    <3> HIDE DEF P
    <3> QED
      BY <1>0, <1>1, <1>2 DEF Inductive
  <2> HIDE DEF P
  <2> QED
    BY <2>1, Induction
<1>5. PICK g : Runs(len, g)
  BY <1>4
<1> QED
  BY <1>5 DEF Runs, Iterates

\* Two functions are the same at 0, and next where they are the same.
InStep(one, two, len) ==
    /\ len \in Nat /\ one[0] = two[0]
    /\ \A k \in 1 .. len : one[k - 1] = two[k - 1] => one[k] = two[k]
SameUpTo(one, two, len) == \A k \in 0 .. len : one[k] = two[k]

\* Such functions are the same up to len.
LEMMA Agreement ==
    ASSUME NEW one, NEW two, NEW len, InStep(one, two, len)
    PROVE  SameUpTo(one, two, len)
<1> DEFINE P == {k \in 0 .. len : one[k] = two[k]}
<1>1. Inductive(P, len)
  BY DEF Inductive, InStep
<1>2. 0 .. len \subseteq P
  <2> HIDE DEF P
  <2> QED
    BY <1>1, Induction
<1> QED
  BY <1>2 DEF SameUpTo

\* A set of one element has it as its choice.
LEMMA OnlyChoice == ASSUME NEW S, NEW x, S = {x} PROVE (CHOOSE r \in S : TRUE) = x
  OBVIOUS

\* Concatenated() by its recursion.
Joins(f, ss) == /\ f[0] = <<>>
                /\ \A k \in 1 .. Len(ss) : f[k] = f[k - 1] \o ss[k]

\* A list of lists put together is the end of the chain that joins them one by one.
LEMMA ConcatenatedIs ==
    ASSUME NEW S, NEW ss \in Seq(Seq(S))
    PROVE  \E f \in [0 .. Len(ss) -> Seq(S)] : Joins(f, ss) /\ Concatenated(ss) = f[Len(ss)]
<1> DEFINE n == Len(ss)
           V == Seq(S)
           T == [k \in 1 .. n |-> [v \in V |-> v \o ss[k]]]
           Step(v, x) == CHOOSE r \in {w \o x : w \in {v}} : TRUE
           Runs(h, t) == h = [k \in 0 .. Len(t) |-> IF k = 0 THEN <<>> ELSE Step(h[k - 1], t[k])]
           Along(t) == (CHOOSE h : Runs(h, t))[Len(t)]
           f == CHOOSE h : Runs(h, ss)
<1>1. n \in Nat /\ DOMAIN ss = 1 .. n /\ \A k \in 1 .. n : ss[k] \in V
  BY LenProperties, ElementOfSeq
<1>2. \A v, x : Step(v, x) = v \o x
  BY OnlyChoice
<1>3. Concatenated(ss) = f[n]
  <2>1. Accumulate(\o, <<>>, ss) = CHOOSE r \in {Along(t) : t \in {ss}} : TRUE
    BY DEF Accumulate
  <2> HIDE DEF Runs
  <2>2. {Along(t) : t \in {ss}} = {f[n]}
    OBVIOUS
  <2> QED
    BY <2>1, <2>2, OnlyChoice DEF Concatenated
<1>4. T \in [1 .. n -> [V -> V]] /\ <<>> \in V
  BY <1>1
<1> HIDE DEF n, V, Step, Runs, Along, f
<1>5. PICK g : Iterates(g, V, <<>>, n, T)
  <2>1. Steps(V, <<>>, n, T)
    BY <1>1, <1>4 DEF Steps
  <2> QED
    BY <2>1, Recursion
<1>6. g \in [0 .. n -> V] /\ g[0] = <<>> /\ \A k \in 1 .. n : g[k] = T[k][g[k - 1]]
  BY <1>5 DEF Iterates
<1>7. ASSUME NEW k \in 1 .. n
      PROVE  g[k] = g[k - 1] \o ss[k]
  <2>1. k - 1 \in 0 .. n
    BY <1>1
  <2>2. g[k - 1] \in V
    BY <1>6, <2>1
  <2> QED
    BY <1>6, <2>1, <2>2
<1>8. g = [k \in 0 .. n |-> IF k = 0 THEN <<>> ELSE Step(g[k - 1], ss[k])]
  <2>1. ASSUME NEW k \in 0 .. n
        PROVE  g[k] = IF k = 0 THEN <<>> ELSE Step(g[k - 1], ss[k])
    <3>1. k = 0 \/ k \in 1 .. n
      BY <1>1
    <3> QED
      BY <1>2, <1>6, <1>7, <3>1
  <2> QED
    BY <1>6, <2>1
<1>9. f = [k \in 0 .. n |-> IF k = 0 THEN <<>> ELSE Step(f[k - 1], ss[k])]
  <2>1. Runs(g, ss)
    BY <1>8 DEF Runs, n
  <2>2. Runs(f, ss)
    BY <2>1 DEF f
  <2> QED
    BY <2>2 DEF Runs, n
<1>10. f[0] = g[0] /\ \A k \in 1 .. n : f[k - 1] = g[k - 1] => f[k] = g[k]
  <2>1. 0 \in 0 .. n /\ \A k \in 1 .. n : k \in 0 .. n /\ k # 0
    BY <1>1
  <2>2. \A k \in 0 .. n : f[k] = IF k = 0 THEN <<>> ELSE Step(f[k - 1], ss[k])
    BY <1>9
  <2> QED
    BY <1>2, <1>6, <1>7, <2>1, <2>2
<1>11. \A k \in 0 .. n : f[k] = g[k]
  <2>1. InStep(f, g, n)
    BY <1>1, <1>10 DEF InStep
  <2>2. SameUpTo(f, g, n)
    BY <2>1, Agreement
  <2> QED
    BY <2>2 DEF SameUpTo
<1>12. f[n] = g[n]
  BY <1>1, <1>11
<1> QED
  BY <1>3, <1>6, <1>7, <1>12 DEF Joins, n, V

\* One sequence more at the end comes at the end.
LEMMA ConcatenatedAppend ==
    ASSUME NEW S, NEW ss \in Seq(Seq(S)), NEW x \in Seq(S)
    PROVE  Concatenated(Append(ss, x)) = Concatenated(ss) \o x
<1> DEFINE tt == Append(ss, x)
           N == Len(ss)
<1>1. tt \in Seq(Seq(S)) /\ Len(tt) = N + 1 /\ tt[N + 1] = x /\ N \in Nat
  BY AppendProperties, LenProperties
<1>2. \A k \in 1 .. N : tt[k] = ss[k]
  BY AppendProperties
<1> HIDE DEF tt
<1>3. PICK f \in [0 .. N -> Seq(S)] : Joins(f, ss) /\ Concatenated(ss) = f[N]
  BY ConcatenatedIs
<1> HIDE DEF N
<1>0. N \in Nat
  BY <1>1
<1>4. PICK g \in [0 .. N + 1 -> Seq(S)] : Joins(g, tt) /\ Concatenated(tt) = g[N + 1]
  <2>1. \E g \in [0 .. Len(tt) -> Seq(S)] : Joins(g, tt) /\ Concatenated(tt) = g[Len(tt)]
    BY <1>1, ConcatenatedIs
  <2> QED
    BY <1>1, <2>1
<1>5. g[0] = f[0] /\ \A k \in 1 .. N : g[k - 1] = f[k - 1] => g[k] = f[k]
  <2>1. g[0] = <<>> /\ f[0] = <<>>
    BY <1>3, <1>4 DEF Joins
  <2>2. ASSUME NEW k \in 1 .. N
        PROVE  g[k] = g[k - 1] \o ss[k] /\ f[k] = f[k - 1] \o ss[k]
    <3>1. k \in 1 .. Len(tt) /\ k \in 1 .. Len(ss)
      BY <1>0, <1>1 DEF N
    <3> QED
      BY <1>2, <1>3, <1>4, <3>1 DEF Joins
  <2> QED
    BY <2>1, <2>2
<1>6. \A k \in 0 .. N : g[k] = f[k]
  <2>1. InStep(g, f, N)
    BY <1>0, <1>5 DEF InStep
  <2>2. SameUpTo(g, f, N)
    BY <2>1, Agreement
  <2> QED
    BY <2>2 DEF SameUpTo
<1>7. g[N + 1] = g[N] \o tt[N + 1]
  <2>1. N + 1 \in 1 .. Len(tt) /\ (N + 1) - 1 = N
    BY <1>0, <1>1
  <2> QED
    BY <1>4, <2>1 DEF Joins
<1>8. g[N] = f[N]
  BY <1>0, <1>6
<1>9. Concatenated(tt) = f[N] \o x
  BY <1>1, <1>4, <1>7, <1>8
<1> QED
  BY <1>3, <1>9 DEF tt

\* One sequence and then another.
Joined(one, two, whole) ==
    /\ Len(whole) = Len(one) + Len(two) /\ Len(one) \in Nat /\ Len(two) \in Nat
    /\ \A j \in 1 .. Len(one) : j \in 1 .. Len(whole) /\ whole[j] = one[j]
    /\ \A j \in 1 .. Len(two) : Len(one) + j \in 1 .. Len(whole) /\ whole[Len(one) + j] = two[j]

\* Two lists put together: the items of the first at their places, those of the
\* second behind them, and nothing else.
LEMMA Joining ==
    ASSUME NEW S, NEW one \in Seq(S), NEW two \in Seq(S)
    PROVE  Joined(one, two, one \o two)
<1> DEFINE whole == one \o two
           a == Len(one)
           b == Len(two)
<1>1. a \in Nat /\ b \in Nat
  BY LenProperties
<1>2. /\ Len(whole) = a + b
      /\ \A i \in 1 .. a + b : whole[i] = IF i <= a THEN one[i] ELSE two[i - a]
  BY ConcatProperties
<1> HIDE DEF whole, a, b
<1>3. ASSUME NEW j \in 1 .. a
      PROVE  j \in 1 .. Len(whole) /\ whole[j] = one[j]
  <2>1. j \in 1 .. a + b /\ j <= a
    BY <1>1
  <2> QED
    BY <1>2, <2>1
<1>4. ASSUME NEW j \in 1 .. b
      PROVE  a + j \in 1 .. Len(whole) /\ whole[a + j] = two[j]
  <2>1. a + j \in 1 .. a + b /\ ~ (a + j <= a) /\ (a + j) - a = j
    BY <1>1
  <2> QED
    BY <1>2, <2>1
<1>5. Joined(one, two, whole)
  BY <1>1, <1>2, <1>3, <1>4 DEF Joined, a, b
<1> QED
  BY <1>5 DEF whole

\* Where each of the sequences begins in what they are put together to.
Offsets(P, ss) ==
    /\ P \in [0 .. Len(ss) -> Nat] /\ P[0] = 0
    /\ \A k \in 1 .. Len(ss) : P[k] = P[k - 1] + Len(ss[k])

\* The whole is as long as the parts; each item is in its place, and every
\* place has one.
LaidOut(whole, P, ss) ==
    /\ Len(whole) = P[Len(ss)]
    /\ \A k \in 1 .. Len(ss) : \A j \in 1 .. Len(ss[k]) :
          P[k - 1] + j \in 1 .. Len(whole) /\ whole[P[k - 1] + j] = ss[k][j]
    /\ \A i \in 1 .. Len(whole) :
          \E k \in 1 .. Len(ss) : \E j \in 1 .. Len(ss[k]) : i = P[k - 1] + j

\* Lists put together: each list stands at the sum of the lengths before it, and
\* every item of the whole comes from one of them.
LEMMA ConcatenatedPlaces ==
    ASSUME NEW S, NEW ss \in Seq(Seq(S))
    PROVE  /\ Concatenated(ss) \in Seq(S)
           /\ \E P : Offsets(P, ss) /\ LaidOut(Concatenated(ss), P, ss)
<1> DEFINE N == Len(ss)
<1>0. N \in Nat
  BY LenProperties
<1>1. \A k \in 1 .. N : ss[k] \in Seq(S) /\ Len(ss[k]) \in Nat
  BY LenProperties, ElementOfSeq
<1>a. PICK f \in [0 .. N -> Seq(S)] : Joins(f, ss) /\ Concatenated(ss) = f[N]
  BY ConcatenatedIs
<1>2. /\ f[0] = <<>> /\ Concatenated(ss) = f[N]
      /\ \A k \in 1 .. N : f[k] = f[k - 1] \o ss[k]
  BY <1>a DEF Joins
<1> DEFINE P == [k \in 0 .. N |-> Len(f[k])]
<1>3. /\ P \in [0 .. N -> Nat] /\ P[0] = 0
      /\ \A k \in 0 .. N : P[k] = Len(f[k]) /\ P[k] \in Nat
  <2> HIDE DEF N
  <2>1. \A k \in 0 .. N : Len(f[k]) \in Nat
    BY LenProperties
  <2>2. 0 \in 0 .. N
    BY <1>0
  <2> QED
    BY <1>2, <2>1, <2>2
<1> HIDE DEF N
<1>4. ASSUME NEW k \in 1 .. N
      PROVE  /\ k - 1 \in 0 .. N /\ k \in 0 .. N /\ Len(ss[k]) \in Nat
             /\ P[k - 1] \in Nat /\ P[k] \in Nat /\ P[k] = P[k - 1] + Len(ss[k])
             /\ \A j \in 1 .. P[k - 1] : f[k][j] = f[k - 1][j]
             /\ \A j \in 1 .. Len(ss[k]) : f[k][P[k - 1] + j] = ss[k][j]
  <2>0. k - 1 \in 0 .. N /\ k \in 0 .. N
    BY <1>0
  <2>1. f[k - 1] \in Seq(S) /\ ss[k] \in Seq(S) /\ Len(ss[k]) \in Nat
    BY <1>1, <2>0
  <2>2. Joined(f[k - 1], ss[k], f[k - 1] \o ss[k])
    BY <2>1, Joining
  <2>3. Joined(f[k - 1], ss[k], f[k])
    BY <1>2, <2>2
  <2>4. P[k - 1] = Len(f[k - 1]) /\ P[k] = Len(f[k]) /\ P[k - 1] \in Nat /\ P[k] \in Nat
    BY <1>3, <2>0
  <2> HIDE DEF P
  <2> QED
    BY <2>0, <2>1, <2>3, <2>4 DEF Joined
<1> HIDE DEF P
<1>5. Offsets(P, ss)
  BY <1>3, <1>4 DEF Offsets, N
\* What is in the first parts is in the whole, and what is in the whole is
\* in some part.
<1> DEFINE Holds(m) == \A k \in 1 .. m : \A j \in 1 .. Len(ss[k]) :
                           P[k - 1] + j \in 1 .. P[m] /\ f[m][P[k - 1] + j] = ss[k][j]
           Comes(m) == \A i \in 1 .. P[m] : \E k \in 1 .. m : \E j \in 1 .. Len(ss[k]) : i = P[k - 1] + j
           Has == {m \in 0 .. N : Holds(m) /\ Comes(m)}
<1>7. 0 \in Has
  BY <1>0, <1>3
<1>8. ASSUME NEW m \in 1 .. N, m - 1 \in Has
      PROVE  m \in Has
  <2>1. Holds(m - 1) /\ Comes(m - 1)
    BY <1>8
  <2>2. m \in Nat /\ m \in 0 .. N /\ m \in 1 .. m /\ m - 1 \in 0 .. N /\ 1 .. m - 1 \subseteq 1 .. m
    BY <1>0
  <2>3. /\ P[m - 1] \in Nat /\ P[m] \in Nat /\ Len(ss[m]) \in Nat /\ P[m] = P[m - 1] + Len(ss[m])
        /\ \A j \in 1 .. P[m - 1] : f[m][j] = f[m - 1][j]
        /\ \A j \in 1 .. Len(ss[m]) : f[m][P[m - 1] + j] = ss[m][j]
    BY <1>4
  <2>4. ASSUME NEW k \in 1 .. m, NEW j \in 1 .. Len(ss[k])
        PROVE  P[k - 1] + j \in 1 .. P[m] /\ f[m][P[k - 1] + j] = ss[k][j]
    <3>1. CASE k = m
      <4>1. P[m - 1] + j \in 1 .. P[m] /\ f[m][P[m - 1] + j] = ss[m][j]
        <5> HIDE DEF Holds, Comes, Has
        <5> QED
          BY <2>3, <3>1
      <4> QED
        BY <3>1, <4>1
    <3>2. CASE k # m
      <4>1. k \in 1 .. m - 1
        BY <2>2, <3>2
      <4>2. P[k - 1] + j \in 1 .. P[m - 1] /\ f[m - 1][P[k - 1] + j] = ss[k][j]
        BY <2>1, <4>1
      <4>3. f[m][P[k - 1] + j] = f[m - 1][P[k - 1] + j]
        BY <2>3, <4>2
      <4>4. P[k - 1] + j \in 1 .. P[m]
        BY <2>3, <4>2
      <4> QED
        BY <4>2, <4>3, <4>4
    <3> QED
      BY <3>1, <3>2
  <2>5. ASSUME NEW i \in 1 .. P[m]
        PROVE  \E k \in 1 .. m : \E j \in 1 .. Len(ss[k]) : i = P[k - 1] + j
    <3>1. CASE i \in 1 .. P[m - 1]
      BY <2>1, <2>2, <3>1, Zenon
    <3>2. CASE i \notin 1 .. P[m - 1]
      <4>1. i - P[m - 1] \in 1 .. Len(ss[m]) /\ i = P[m - 1] + (i - P[m - 1])
        BY <2>3, <3>2
      <4> QED
        BY <2>2, <4>1
    <3> QED
      BY <3>1, <3>2
  <2>6. Holds(m) /\ Comes(m)
    BY <2>4, <2>5, Zenon
  <2> HIDE DEF Holds, Comes
  <2> QED
    BY <2>2, <2>6
<1>9. N \in Has
  <2> HIDE DEF Has
  <2>1. Inductive(Has, N)
    BY <1>0, <1>7, <1>8 DEF Inductive
  <2> QED
    BY <2>1, Induction
<1>10. LaidOut(f[N], P, ss)
  <2>1. Holds(N) /\ Comes(N)
    BY <1>9
  <2>2. N \in 0 .. N
    BY <1>0
  <2>3. Len(f[N]) = P[N]
    BY <1>3, <2>2
  <2> QED
    BY <2>1, <2>3 DEF LaidOut, N
<1>11. Concatenated(ss) \in Seq(S)
  <2>1. N \in 0 .. N
    BY <1>0
  <2> QED
    BY <1>2, <2>1
<1> QED
  BY <1>2, <1>5, <1>10, <1>11

-----------------------------------------------------------------------------
(* Ascending().                                                            *)

\* The items of s are those of S, each once and each larger than the one before.
Lists(s, S) ==
    /\ Cardinality(S) \in Nat /\ Len(s) = Cardinality(S)
    /\ s \in [1 .. Len(s) -> S] /\ s \in Seq(S)
    /\ \A i, j \in 1 .. Len(s) : i < j => s[i] < s[j]
    /\ \A x \in S : \E i \in 1 .. Len(s) : s[i] = x
    /\ \A i \in 1 .. Len(s) : Cardinality({y \in S : y < s[i]}) = i - 1

\* Ascending() lists the numbers of a finite set.
LEMMA AscendingLists ==
    ASSUME NEW S \in SUBSET Int, IsFiniteSet(S)
    PROVE  Lists(Ascending(S), S)
<1> DEFINE Below(x) == {y \in S : y < x}
           n == Cardinality(S)
           Rank == [x \in S |-> Cardinality(Below(x)) + 1]
           a == Ascending(S)
<1>1. n \in Nat
  BY FS_CardinalityType
<1>2. ASSUME NEW x \in S
      PROVE  /\ IsFiniteSet(Below(x)) /\ Cardinality(Below(x)) \in Nat
             /\ Cardinality(Below(x)) < n
  <2>1. Below(x) \in SUBSET S /\ x \notin Below(x)
    OBVIOUS
  <2>2. IsFiniteSet(Below(x)) /\ Cardinality(Below(x)) <= n /\ (n = Cardinality(Below(x)) => S = Below(x))
    <3> HIDE DEF Below
    <3> QED
      BY <2>1, FS_Subset
  <2>3. Cardinality(Below(x)) \in Nat
    BY <2>2, FS_CardinalityType
  <2>4. Cardinality(Below(x)) # n
    BY <2>1, <2>2
  <2> HIDE DEF Below, n
  <2> QED
    BY <1>1, <2>2, <2>3, <2>4
<1>3. ASSUME NEW x \in S, NEW z \in S, x < z
      PROVE  Cardinality(Below(x)) < Cardinality(Below(z))
  <2>1. Below(x) \in SUBSET Below(z) /\ x \in Below(z) /\ x \notin Below(x)
    <3>1. ASSUME NEW y \in S, y < x
          PROVE  y < z
      <4>1. x \in Int /\ z \in Int /\ y \in Int
        OBVIOUS
      <4> HIDE DEF n, Rank, a
      <4> QED
        BY <1>3, <3>1, <4>1
    <3>2. ~ (x < x)
      OBVIOUS
    <3> HIDE DEF n, Rank, a
    <3> QED
      BY <1>3, <3>1, <3>2
  <2>2. /\ Cardinality(Below(x)) <= Cardinality(Below(z))
        /\ Cardinality(Below(z)) = Cardinality(Below(x)) => Below(z) = Below(x)
    <3>1. IsFiniteSet(Below(z))
      BY <1>2
    <3> HIDE DEF Below
    <3> QED
      BY <2>1, <3>1, FS_Subset
  <2>3. Cardinality(Below(z)) # Cardinality(Below(x))
    BY <2>1, <2>2
  <2>4. Cardinality(Below(x)) \in Nat /\ Cardinality(Below(z)) \in Nat
    BY <1>2
  <2> HIDE DEF Below
  <2> QED
    BY <2>2, <2>3, <2>4
<1> HIDE DEF Below
<1>4. Rank \in [S -> 1 .. n]
  <2>1. ASSUME NEW x \in S
        PROVE  Cardinality(Below(x)) + 1 \in 1 .. n
    <3>1. Cardinality(Below(x)) \in Nat /\ Cardinality(Below(x)) < n
      BY <1>2
    <3> HIDE DEF n
    <3> QED
      BY <1>1, <3>1
  <2> HIDE DEF n
  <2> QED
    BY <2>1
<1>5. ASSUME NEW x \in S, NEW z \in S
      PROVE  (x < z => Rank[x] < Rank[z]) /\ (Rank[x] = Rank[z] => x = z)
  <2>1. Cardinality(Below(x)) \in Nat /\ Cardinality(Below(z)) \in Nat
    BY <1>2
  <2>2. Rank[x] = Cardinality(Below(x)) + 1 /\ Rank[z] = Cardinality(Below(z)) + 1
    OBVIOUS
  <2>3. (x < z => Rank[x] < Rank[z]) /\ (z < x => Rank[z] < Rank[x])
    BY <1>3, <2>1, <2>2
  <2>4. x < z \/ x = z \/ z < x
    OBVIOUS
  <2>5. Rank[x] \in Int /\ Rank[z] \in Int
    BY <2>1, <2>2
  <2> HIDE DEF Rank
  <2> QED
    BY <2>3, <2>4, <2>5
<1>6. \A k \in 1 .. n : \E x \in S : Rank[x] = k
  <2>1. Rank \in Injection(S, 1 .. n)
    <3> HIDE DEF Rank, n
    <3>1. \A x, z \in S : Rank[x] = Rank[z] => x = z
      BY <1>5
    <3> QED
      BY <1>4, <3>1 DEF Injection, IsInjective
  <2>2. IsFiniteSet(1 .. n) /\ Cardinality(1 .. n) = n
    <3>1. 1 \in Int /\ n \in Int
      BY <1>1
    <3>2. IsFiniteSet(1 .. n) /\ Cardinality(1 .. n) = IF 1 > n THEN 0 ELSE n - 1 + 1
      <4> HIDE DEF n
      <4> QED
        BY <3>1, FS_Interval
    <3> HIDE DEF n
    <3> QED
      BY <1>1, <3>2
  <2>3. Rank \in Surjection(S, 1 .. n)
    <3>1. Cardinality(S) = Cardinality(1 .. n)
      BY <2>2
    <3> HIDE DEF Rank, n
    <3> QED
      BY <2>1, <2>2, <3>1, FS_Injection
  <2> HIDE DEF Rank, n
  <2> QED
    BY <2>3 DEF Surjection
<1>7. ASSUME NEW k \in 1 .. n
      PROVE  a[k] \in S /\ Rank[a[k]] = k /\ Cardinality(Below(a[k])) = k - 1
  <2>1. a[k] = CHOOSE x \in S : Cardinality(Below(x)) = k - 1
    BY DEF Ascending, Below
  <2>2. PICK x \in S : Rank[x] = k
    BY <1>6
  <2>3. Cardinality(Below(x)) \in Nat /\ Rank[x] = Cardinality(Below(x)) + 1
    BY <1>2
  <2>4. k \in Int
    OBVIOUS
  <2>5. Cardinality(Below(x)) = k - 1
    <3> HIDE DEF n, Rank
    <3> QED
      BY <2>2, <2>3, <2>4
  <2> HIDE DEF a
  <2>6. a[k] \in S /\ Cardinality(Below(a[k])) = k - 1
    BY <2>1, <2>5
  <2>7. Rank[a[k]] = (k - 1) + 1
    BY <2>6
  <2> HIDE DEF Rank, n
  <2> QED
    BY <2>4, <2>6, <2>7
<1>8. a = [k \in 1 .. n |-> a[k]]
  BY DEF Ascending
<1> HIDE DEF n, Rank, a
<1>9. a \in [1 .. n -> S] /\ a \in Seq(S) /\ Len(a) = n
  <2>1. a \in [1 .. n -> S]
    BY <1>7, <1>8
  <2> QED
    BY <1>1, <2>1
<1>10. ASSUME NEW i \in 1 .. n, NEW j \in 1 .. n, i < j
       PROVE  a[i] < a[j]
  <2>1. a[i] \in S /\ a[j] \in S /\ Rank[a[i]] = i /\ Rank[a[j]] = j
    BY <1>7
  <2>2. S \subseteq Int /\ i \in Int /\ j \in Int
    OBVIOUS
  <2>5. a[i] \in Int /\ a[j] \in Int
    BY <2>1, <2>2
  <2>3. a[j] < a[i] => j < i
    BY <1>5, <2>1
  <2>4. a[j] # a[i]
    BY <1>10, <2>1, <2>2
  <2> QED
    BY <1>10, <2>2, <2>3, <2>4, <2>5
<1>11. ASSUME NEW x \in S
       PROVE  \E i \in 1 .. n : a[i] = x
  <2>1. Rank[x] \in 1 .. n
    BY <1>4
  <2>2. a[Rank[x]] \in S /\ Rank[a[Rank[x]]] = Rank[x]
    BY <1>7, <2>1
  <2>3. a[Rank[x]] = x
    BY <1>5, <2>2
  <2> QED
    BY <2>1, <2>3
<1>12. \A i \in 1 .. n : Cardinality({y \in S : y < a[i]}) = i - 1
  BY <1>7 DEF Below
<1>13. Lists(a, S)
  BY <1>1, <1>9, <1>10, <1>11, <1>12 DEF Lists, n
<1> QED
  BY <1>13 DEF a

-----------------------------------------------------------------------------
(* Numbers.                                                                *)

\* What is left after a division is less than the divisor.
LEMMA Remainder ==
    ASSUME NEW i \in Nat, NEW n \in Nat, n > 0
    PROVE  i % n \in 0 .. n - 1
  OBVIOUS

\* A function on the numbers up to a number is a sequence of its values.
LEMMA Numbers ==
    ASSUME NEW n \in Nat, NEW s, s = [i \in 1 .. n |-> s[i]]
    PROVE  s \in Seq(Range(s)) /\ Len(s) = n
<1>1. \A i \in 1 .. n : s[i] \in Range(s)
  BY DEF Range
<1>2. s \in [1 .. n -> Range(s)]
  BY <1>1
<1> QED
  BY <1>2

\* A function on the numbers up to a number is a sequence.
LEMMA FunctionIsSequence ==
    ASSUME NEW S, NEW n \in Nat, NEW s \in [1 .. n -> S]
    PROVE  s \in Seq(S) /\ Len(s) = n
  OBVIOUS

\* Numbers have a smallest.
LEMMA Least ==
    ASSUME NEW S \in SUBSET Nat, S # {}
    PROVE  \E k \in S : \A i \in S : k <= i
<1>1. \E k \in S : \A i \in S : ~ (<<i, k>> \in OpToRel(<, Nat))
  BY NatLessThanWellFounded, WFMin
<1>2. PICK k \in S : \A i \in S : ~ (i < k)
  BY <1>1 DEF OpToRel
<1>3. \A i \in S : i \in Nat /\ k \in Nat
  OBVIOUS
<1> QED
  BY <1>2, <1>3

-----------------------------------------------------------------------------
(* The widget that shows a mesh.                                           *)

-----------------------------------------------------------------------------
(* The scene and the pointers into it, for any scene sc, pointers p,       *)
(* objects ob and device d.                                                *)

Placed(sc) == IsFiniteSet(DOMAIN sc) /\ DOMAIN sc \subseteq DrawnKinds \X Nat

DrawableOn(x, d) ==
    /\ DOMAIN x = {"of", "visible", "range", "map", "built"}
    /\ x.visible \in BOOLEAN /\ x.built \in {NoDevice, d}
Drawn(sc, d) == \A i \in DOMAIN sc : DrawableOn(sc[i], d)

\* A pointer leads to a drawable of its kind; m_scalar_field is m_field or null.
Pointed(sc, p) ==
    /\ DOMAIN p = Pointers
    /\ \A x \in Pointers \ {"scalar"} : p[x] # NoId => p[x] \in DOMAIN sc /\ p[x][1] = x
    /\ p["scalar"] \in {NoId, p["field"]}

\* An object has a drawable to itself, of its mesh.
Named(sc, ob) ==
    /\ DOMAIN ob \subseteq Names
    /\ \A n \in DOMAIN ob : /\ ob[n].drawable \in DOMAIN sc /\ ob[n].drawable[1] = "object"
                            /\ sc[ob[n].drawable].of = <<ob[n].mesh>>
    /\ \A m, n \in DOMAIN ob : ob[m].drawable = ob[n].drawable => m = n

\* Who can remove a drawable: a pointer, an object, or a search for its kind.
Owned(sc, p, ob) ==
    /\ \A i \in DOMAIN sc : i[1] \in Pointers => p[i[1]] = i
    /\ \A i \in DOMAIN sc : i[1] = "object" => \E n \in DOMAIN ob : ob[n].drawable = i
Single(sc) ==
    /\ \A i, j \in DOMAIN sc : i[1] \in {"normals", "edges"} /\ j[1] = i[1] => i = j
    /\ \A i, j \in DOMAIN sc :
          i[1] = "boundary" /\ j[1] = "boundary" /\ sc[j].of[2] = sc[i].of[2] => i = j

Links(sc, p, ob, d) == /\ Placed(sc) /\ Drawn(sc, d) /\ Pointed(sc, p)
                       /\ Named(sc, ob) /\ Owned(sc, p, ob) /\ Single(sc)

\* From sc1 to sc2 only drawables of the kinds K come, go or change.
Others(K, sc1, sc2) ==
    /\ \A i \in DOMAIN sc1 : i[1] \notin K => i \in DOMAIN sc2 /\ sc2[i] = sc1[i]
    /\ \A i \in DOMAIN sc2 : i[1] \notin K => i \in DOMAIN sc1

\* From sc1 to sc2 the same drawables stay, of the same things.
Attributes(sc1, sc2) ==
    DOMAIN sc2 = DOMAIN sc1 /\ \A i \in DOMAIN sc1 : sc2[i].of = sc1[i].of

\* A new drawable has an id of its own.
LEMMA NewIdIs ==
  ASSUME NEW sc, IsFiniteSet(DOMAIN sc), NEW kind
  PROVE  /\ NewId(sc, kind) \notin DOMAIN sc
         /\ NewId(sc, kind)[1] = kind
         /\ NewId(sc, kind) \in {kind} \X Nat
<1> DEFINE C == Cardinality(DOMAIN sc)
           f == [n \in 0..C |-> <<kind, n>>]
<1>1. C \in Nat
  BY FS_CardinalityType
<1>2. \E n \in 0..C : <<kind, n>> \notin DOMAIN sc
  <2>1. SUFFICES ASSUME \A n \in 0..C : <<kind, n>> \in DOMAIN sc PROVE FALSE
    OBVIOUS
  <2>2. f \in [0..C -> DOMAIN sc]
    BY <2>1
  <2>3. IsFiniteSet(0..C) /\ Cardinality(0..C) = C + 1
    BY <1>1, FS_Interval
  <2>4. \E x, y \in 0..C : x # y /\ f[x] = f[y]
    <3> HIDE DEF f
    <3>1. C < Cardinality(0..C)
      BY <1>1, <2>3
    <3> QED
      BY <2>2, <2>3, <3>1, FS_PigeonHole
  <2> QED
    BY <2>4
<1>3. PICK k \in 0..C : NewId(sc, kind) = <<kind, k>> /\ <<kind, k>> \notin DOMAIN sc
  BY <1>2 DEF NewId
<1> QED
  BY <1>1, <1>3

\* What is left when the drawable behind a pointer goes: none of its kind.
LEMMA RestOf ==
  ASSUME NEW sc, NEW p, NEW ob, NEW d, Links(sc, p, ob, d), NEW x \in Pointers \ {"scalar"},
         NEW rest, rest = RemoveDrawables(sc, {p[x]})
  PROVE  /\ IsFiniteSet(DOMAIN rest)
         /\ \A i \in DOMAIN rest : i \in DOMAIN sc /\ rest[i] = sc[i] /\ i[1] # x
         /\ \A i \in DOMAIN sc : i[1] # x => i \in DOMAIN rest
<1>1. DOMAIN rest = DOMAIN sc \ {p[x]} /\ \A i \in DOMAIN rest : rest[i] = sc[i]
  BY DEF RemoveDrawables
<1>2. \A i \in DOMAIN rest : i[1] # x
  BY <1>1 DEF Links, Owned
<1>3. IsFiniteSet(DOMAIN rest)
  BY <1>1, FS_RemoveElement DEF Links, Placed
<1>4. \A i \in DOMAIN sc : i[1] # x => i # p[x]
  BY NoIdAssumption DEF Links, Placed, Pointed
<1> QED
  BY <1>1, <1>2, <1>3, <1>4

\* A pointer's drawable is taken out, and a new one may come in its place.
Swap(x, has, y, d, sc, p, sc2, p2) ==
    LET rest == RemoveDrawables(sc, {p[x]})
        id == NewId(rest, x)
    IN  /\ x \in Pointers \ {"scalar"} /\ has \in BOOLEAN /\ DrawableOn(y, d)
        /\ sc2 = IF has THEN With(rest, id, y) ELSE rest
        /\ DOMAIN p2 = Pointers /\ p2[x] = IF has THEN id ELSE NoId
        /\ \A q \in Pointers \ {x, "scalar"} : p2[q] = p[q]
        /\ p2["scalar"] \in {NoId, p2["field"]}

\* Pointers, objects and scene agree again after the swap.
LEMMA LinksSwap ==
  ASSUME NEW x, NEW has, NEW y, NEW d, NEW sc, NEW p, NEW sc2, NEW p2, NEW ob,
         Links(sc, p, ob, d), Swap(x, has, y, d, sc, p, sc2, p2)
  PROVE  Links(sc2, p2, ob, d) /\ Others({x}, sc, sc2) /\ (has => sc2[p2[x]] = y)
<1>0. PICK rest, id :
         /\ rest = RemoveDrawables(sc, {p[x]}) /\ id = NewId(rest, x)
         /\ x \in Pointers \ {"scalar"} /\ has \in BOOLEAN /\ DrawableOn(y, d)
         /\ sc2 = IF has THEN With(rest, id, y) ELSE rest
         /\ DOMAIN p2 = Pointers /\ p2[x] = IF has THEN id ELSE NoId
         /\ \A q \in Pointers \ {x, "scalar"} : p2[q] = p[q]
         /\ p2["scalar"] \in {NoId, p2["field"]}
  BY DEF Swap
<1> USE <1>0
<1>1. /\ IsFiniteSet(DOMAIN rest)
      /\ \A i \in DOMAIN rest : i \in DOMAIN sc /\ rest[i] = sc[i] /\ i[1] # x
      /\ \A i \in DOMAIN sc : i[1] # x => i \in DOMAIN rest
  BY RestOf
<1>2. id \notin DOMAIN rest /\ id[1] = x /\ id \in {x} \X Nat
  BY <1>1, NewIdIs
<1>3. /\ \A i \in DOMAIN sc2 : \/ has /\ i = id /\ sc2[i] = y
                               \/ i \in DOMAIN sc /\ sc2[i] = sc[i] /\ i[1] # x
      /\ \A i \in DOMAIN sc : i[1] # x => i \in DOMAIN sc2 /\ sc2[i] = sc[i]
      /\ has => id \in DOMAIN sc2 /\ sc2[id] = y
      /\ IsFiniteSet(DOMAIN sc2)
  <2>1. CASE has
    <3>1. DOMAIN sc2 = DOMAIN rest \cup {id} /\ sc2[id] = y /\ \A i \in DOMAIN rest : sc2[i] = rest[i]
      BY <1>2, <2>1 DEF With
    <3>2. IsFiniteSet(DOMAIN rest \cup {id})
      BY <1>1, FS_AddElement
    <3> QED
      BY <1>1, <2>1, <3>1, <3>2
  <2>2. CASE ~ has
    BY <1>1, <2>2
  <2> QED
    BY <2>1, <2>2
<1>4. Placed(sc2)
  BY <1>2, <1>3 DEF Links, Placed, DrawnKinds
<1>5. Drawn(sc2, d)
  BY <1>3 DEF Links, Drawn
<1>6. Pointed(sc2, p2)
  <2>1. has => p2[x] \in DOMAIN sc2 /\ p2[x][1] = x
    BY <1>2, <1>3
  <2>2. ~ has => p2[x] = NoId
    OBVIOUS
  <2>3. ASSUME NEW q \in Pointers \ {x, "scalar"}, p2[q] # NoId PROVE p2[q] \in DOMAIN sc2 /\ p2[q][1] = q
    <3>1. p[q] # NoId /\ p2[q] = p[q]
      BY <2>3
    <3>2. p[q] \in DOMAIN sc /\ p[q][1] = q
      BY <3>1 DEF Links, Pointed
    <3> QED
      BY <1>3, <3>1, <3>2
  <2> QED
    BY <2>1, <2>2, <2>3 DEF Pointed
<1>7. Named(sc2, ob)
  BY ZenonT(60), <1>3 DEF Links, Named, Pointers, StyleNames
<1>8. Owned(sc2, p2, ob)
  <2>1. ASSUME NEW i \in DOMAIN sc2, i[1] \in Pointers PROVE p2[i[1]] = i
    <3>1. CASE has /\ i = id
      BY <1>2, <3>1
    <3>2. CASE i \in DOMAIN sc /\ i[1] # x
      <4>1. p[i[1]] = i
        BY <2>1, <3>2 DEF Links, Owned
      <4>2. i[1] # "scalar"
        BY <3>2 DEF Links, Placed, DrawnKinds, Pointers, StyleNames
      <4> QED
        BY <2>1, <3>2, <4>1, <4>2
    <3> QED
      BY <1>3, <3>1, <3>2
  <2>2. ASSUME NEW i \in DOMAIN sc2, i[1] = "object" PROVE \E n \in DOMAIN ob : ob[n].drawable = i
    <3>1. i \in DOMAIN sc
      BY <1>2, <1>3, <2>2 DEF Pointers, StyleNames
    <3> QED
      BY <2>2, <3>1 DEF Links, Owned
  <2> QED
    BY <2>1, <2>2 DEF Owned
<1>9. Single(sc2)
  <2>1. \A i \in DOMAIN sc2 : i[1] \in {"normals", "edges", "boundary"} => i \in DOMAIN sc /\ sc2[i] = sc[i]
    BY <1>2, <1>3 DEF Pointers, StyleNames
  <2>2. ASSUME NEW i \in DOMAIN sc2, NEW j \in DOMAIN sc2, i[1] \in {"normals", "edges"}, j[1] = i[1]
        PROVE  i = j
    <3>1. i \in DOMAIN sc /\ j \in DOMAIN sc
      BY <2>1, <2>2
    <3> QED
      BY <2>2, <3>1 DEF Links, Single
  <2>3. ASSUME NEW i \in DOMAIN sc2, NEW j \in DOMAIN sc2,
               i[1] = "boundary", j[1] = "boundary", sc2[j].of[2] = sc2[i].of[2]
        PROVE  i = j
    <3>1. i \in DOMAIN sc /\ j \in DOMAIN sc /\ sc2[i] = sc[i] /\ sc2[j] = sc[j]
      BY <2>1, <2>3
    <3>2. sc[j].of[2] = sc[i].of[2]
      BY <2>3, <3>1
    <3> QED
      BY <2>3, <3>1, <3>2 DEF Links, Single
  <2> QED
    BY <2>2, <2>3 DEF Single
<1>10. Others({x}, sc, sc2)
  BY <1>2, <1>3 DEF Others
<1> QED
  BY <1>3, <1>4, <1>5, <1>6, <1>7, <1>8, <1>9, <1>10 DEF Links

\* Drawables of a kind that is searched for are taken out, and a new one may be
\* added that is the only one of its kind, or of its boundary set.
Search(k, R, has, y, d, sc, sc2) ==
    LET rest == RemoveDrawables(sc, R)
    IN  /\ k \in {"normals", "edges", "boundary"} /\ R \subseteq OfKind(sc, k)
        /\ has \in BOOLEAN /\ DrawableOn(y, d)
        /\ sc2 = IF has THEN With(rest, NewId(rest, k), y) ELSE rest
        /\ k # "boundary" => R = OfKind(sc, k)
        /\ k = "boundary" => \A i \in OfKind(sc, k) \ R : sc[i].of[2] # y.of[2]

\* They agree after the search, and what it looked for is gone.
LEMMA LinksSearch ==
  ASSUME NEW k, NEW R, NEW has, NEW y, NEW d, NEW sc, NEW sc2, NEW p, NEW ob,
         Links(sc, p, ob, d), Search(k, R, has, y, d, sc, sc2)
  PROVE  /\ Links(sc2, p, ob, d) /\ Others({k}, sc, sc2)
         /\ \A i \in OfKind(sc2, k) : (has /\ sc2[i] = y) \/ i \in DOMAIN sc \ R
         /\ has => \E i \in OfKind(sc2, k) : sc2[i] = y
<1>0. PICK rest, id :
         /\ rest = RemoveDrawables(sc, R) /\ id = NewId(rest, k)
         /\ k \in {"normals", "edges", "boundary"} /\ R \subseteq OfKind(sc, k)
         /\ has \in BOOLEAN /\ DrawableOn(y, d)
         /\ sc2 = IF has THEN With(rest, id, y) ELSE rest
         /\ k # "boundary" => R = OfKind(sc, k)
         /\ k = "boundary" => \A i \in OfKind(sc, k) \ R : sc[i].of[2] # y.of[2]
  BY DEF Search
<1> USE <1>0
<1>1. /\ DOMAIN rest = DOMAIN sc \ R /\ \A i \in DOMAIN rest : rest[i] = sc[i]
      /\ IsFiniteSet(DOMAIN rest)
  <2>1. DOMAIN rest = DOMAIN sc \ R /\ \A i \in DOMAIN rest : rest[i] = sc[i]
    BY DEF RemoveDrawables
  <2>2. IsFiniteSet(DOMAIN sc \ R)
    BY FS_Subset DEF Links, Placed
  <2> QED
    BY <2>1, <2>2
<1>2. id \notin DOMAIN rest /\ id[1] = k /\ id \in {k} \X Nat
  BY <1>1, NewIdIs
<1>3. /\ \A i \in DOMAIN sc2 : \/ has /\ i = id /\ sc2[i] = y
                               \/ i \in DOMAIN sc \ R /\ sc2[i] = sc[i]
      /\ \A i \in DOMAIN sc \ R : i \in DOMAIN sc2 /\ sc2[i] = sc[i]
      /\ has => id \in DOMAIN sc2 /\ sc2[id] = y
      /\ IsFiniteSet(DOMAIN sc2)
  <2>1. CASE has
    <3>1. DOMAIN sc2 = DOMAIN rest \cup {id} /\ sc2[id] = y /\ \A i \in DOMAIN rest : sc2[i] = rest[i]
      BY <1>2, <2>1 DEF With
    <3>2. IsFiniteSet(DOMAIN rest \cup {id})
      BY <1>1, FS_AddElement
    <3> QED
      BY <1>1, <2>1, <3>1, <3>2
  <2>2. CASE ~ has
    BY <1>1, <2>2
  <2> QED
    BY <2>1, <2>2
<1>4. \A i \in DOMAIN sc : i[1] # k => i \in DOMAIN sc2 /\ sc2[i] = sc[i]
  BY <1>3 DEF OfKind
<1>5. \A i \in DOMAIN sc2 : i[1] # k => i \in DOMAIN sc /\ sc2[i] = sc[i]
  BY <1>2, <1>3
<1>6. k \notin Pointers /\ k # "object"
  BY DEF Pointers, StyleNames
<1>7. Placed(sc2)
  BY <1>2, <1>3 DEF Links, Placed, DrawnKinds
<1>8. Drawn(sc2, d)
  BY <1>3 DEF Links, Drawn
<1>9. Pointed(sc2, p)
  <2>1. ASSUME NEW q \in Pointers \ {"scalar"}, p[q] # NoId PROVE p[q] \in DOMAIN sc2 /\ p[q][1] = q
    <3>1. p[q] \in DOMAIN sc /\ p[q][1] = q
      BY <2>1 DEF Links, Pointed
    <3> QED
      BY <1>4, <1>6, <3>1
  <2> QED
    BY <2>1 DEF Links, Pointed
<1>10. Named(sc2, ob)
  BY <1>4, <1>6 DEF Links, Named
<1>11. Owned(sc2, p, ob)
  <2>1. \A i \in DOMAIN sc2 : i[1] \in Pointers \cup {"object"} => i \in DOMAIN sc
    BY <1>5, <1>6
  <2> QED
    BY <2>1 DEF Links, Owned
<1>12. Single(sc2)
  <2>1. ASSUME NEW i \in DOMAIN sc2, NEW j \in DOMAIN sc2, i[1] \in {"normals", "edges"}, j[1] = i[1]
        PROVE  i = j
    <3>1. CASE i[1] = k
      <4>1. i = id /\ j = id
        BY <1>3, <2>1, <3>1 DEF OfKind
      <4> QED
        BY <4>1
    <3>2. CASE i[1] # k
      BY <1>5, <2>1, <3>2 DEF Links, Single
    <3> QED
      BY <3>1, <3>2
  <2>2. ASSUME NEW i \in DOMAIN sc2, NEW j \in DOMAIN sc2,
               i[1] = "boundary", j[1] = "boundary", sc2[j].of[2] = sc2[i].of[2]
        PROVE  i = j
    <3>1. CASE i \in DOMAIN sc \ R /\ sc2[i] = sc[i] /\ j \in DOMAIN sc \ R /\ sc2[j] = sc[j]
      <4>1. sc[j].of[2] = sc[i].of[2]
        BY <2>2, <3>1
      <4> QED
        BY <2>2, <3>1, <4>1 DEF Links, Single
    <3>2. ASSUME NEW a \in DOMAIN sc \ R, a[1] = "boundary", id[1] = "boundary"
          PROVE  sc[a].of[2] # y.of[2]
      BY <1>2, <3>2 DEF OfKind
    <3>3. CASE has /\ i = id /\ sc2[i] = y
      BY <1>3, <2>2, <3>2, <3>3
    <3>4. CASE has /\ j = id /\ sc2[j] = y
      BY <1>3, <2>2, <3>2, <3>4
    <3> QED
      BY <1>3, <3>1, <3>3, <3>4
  <2> QED
    BY <2>1, <2>2 DEF Single
<1>13. Others({k}, sc, sc2)
  BY <1>4, <1>5 DEF Others
<1>14. /\ \A i \in OfKind(sc2, k) : (has /\ sc2[i] = y) \/ i \in DOMAIN sc \ R
       /\ has => \E i \in OfKind(sc2, k) : sc2[i] = y
  BY <1>2, <1>3 DEF OfKind
<1> QED
  BY <1>7, <1>8, <1>9, <1>10, <1>11, <1>12, <1>13, <1>14 DEF Links

\* A drawable is made unseen, unbuilt and complete.
LEMMA DrawableIs ==
  ASSUME NEW of, NEW d
  PROVE  /\ DrawableOn(Drawable(of), d) /\ Drawable(of).of = of
         /\ Drawable(of).visible = TRUE /\ Drawable(of).built = NoDevice
  BY DEF Drawable, DrawableOn

\* The members of the drawables change, the drawables stay.
LEMMA LinksAttributes ==
  ASSUME NEW sc, NEW p, NEW ob, NEW d, Links(sc, p, ob, d),
         NEW sc2, NEW d2, Attributes(sc, sc2), Drawn(sc2, d2)
  PROVE  Links(sc2, p, ob, d2)
<1>1. DOMAIN sc2 = DOMAIN sc /\ \A i \in DOMAIN sc : sc2[i].of = sc[i].of
  BY DEF Attributes
<1>2. Placed(sc2) /\ Pointed(sc2, p) /\ Owned(sc2, p, ob)
  BY <1>1 DEF Links, Placed, Pointed, Owned
<1>3. Named(sc2, ob)
  BY <1>1 DEF Links, Named
<1>4. Single(sc2)
  BY <1>1 DEF Links, Single
<1> QED
  BY <1>2, <1>3, <1>4 DEF Links

\* A new mesh: the three drawables of its styles take the place of the old.
Restyled(m, sc, p, sc2, p2) ==
    LET rest == RemoveDrawables(sc, {p[s] : s \in StyleNames})
        ids == [s \in StyleNames |-> NewId(rest, s)]
    IN  /\ sc2 = NewStyles(rest, ids, m)
        /\ p2 = [x \in Pointers |-> IF x \in StyleNames THEN ids[x] ELSE p[x]]

Dressed(m, sc2, p, p2) ==
    /\ \A s \in StyleNames : /\ p2[s] \in DOMAIN sc2 /\ p2[s][1] = s /\ p2[s] # NoId
                             /\ sc2[p2[s]] = Drawable(<<m>>)
    /\ \A x \in Pointers \ StyleNames : p2[x] = p[x]

\* They agree after the new mesh, and its drawables are in their places.
LEMMA LinksStyles ==
  ASSUME NEW m, NEW sc, NEW p, NEW sc2, NEW p2, NEW ob, NEW d,
         Links(sc, p, ob, d), Restyled(m, sc, p, sc2, p2)
  PROVE  Links(sc2, p2, ob, d) /\ Others(StyleNames, sc, sc2) /\ Dressed(m, sc2, p, p2)
<1>0. PICK rest, ids :
         /\ rest = RemoveDrawables(sc, {p[s] : s \in StyleNames})
         /\ ids = [s \in StyleNames |-> NewId(rest, s)]
         /\ sc2 = NewStyles(rest, ids, m)
         /\ p2 = [x \in Pointers |-> IF x \in StyleNames THEN ids[x] ELSE p[x]]
  <2> DEFINE r0 == RemoveDrawables(sc, {p[s] : s \in StyleNames})
             i0 == [s \in StyleNames |-> NewId(r0, s)]
  <2>1. /\ sc2 = NewStyles(r0, i0, m)
        /\ p2 = [x \in Pointers |-> IF x \in StyleNames THEN i0[x] ELSE p[x]]
    BY DEF Restyled
  <2>2. i0 = [s \in StyleNames |-> NewId(r0, s)]
    OBVIOUS
  <2>3. r0 = RemoveDrawables(sc, {p[s] : s \in StyleNames})
    OBVIOUS
  <2> HIDE DEF r0, i0
  <2> QED
    BY <2>1, <2>2, <2>3
<1> USE <1>0
<1> DEFINE new == {ids[s] : s \in StyleNames}
<1>1. DOMAIN rest = DOMAIN sc \ {p[s] : s \in StyleNames} /\ \A i \in DOMAIN rest : rest[i] = sc[i]
  BY DEF RemoveDrawables
<1>2. StyleNames \subseteq Pointers \ {"scalar"}
  BY DEF Pointers, StyleNames
<1>3. \A i \in DOMAIN rest : i[1] \notin StyleNames
  BY <1>1, <1>2 DEF Links, Owned
<1>4. \A i \in DOMAIN sc : i[1] \notin StyleNames => i \in DOMAIN rest
  <2>1. ASSUME NEW i \in DOMAIN sc, i[1] \notin StyleNames, NEW s \in StyleNames PROVE i # p[s]
    <3>1. p[s] # NoId => p[s][1] = s
      BY <1>2 DEF Links, Pointed
    <3>2. i # NoId
      BY NoIdAssumption DEF Links, Placed
    <3> QED
      BY <2>1, <3>1, <3>2
  <2> QED
    BY <1>1, <2>1
<1>5. IsFiniteSet(DOMAIN rest)
  <2>1. IsFiniteSet(DOMAIN sc \ {p[s] : s \in StyleNames})
    BY FS_Subset DEF Links, Placed
  <2> QED
    BY <1>1, <2>1
<1>6. \A s \in StyleNames : ids[s] \notin DOMAIN rest /\ ids[s][1] = s /\ ids[s] \in {s} \X Nat
  BY <1>5, NewIdIs
<1>7. DOMAIN sc2 = DOMAIN rest \cup new
  BY DEF NewStyles
<1>8. \A s \in StyleNames : ids[s] \in DOMAIN sc2 /\ sc2[ids[s]] = Drawable(<<m>>)
  BY DEF NewStyles
<1>9. \A i \in DOMAIN rest : i \in DOMAIN sc2 /\ sc2[i] = sc[i]
  BY <1>1, <1>6 DEF NewStyles
<1>10. \A i \in DOMAIN sc2 : \/ i[1] \in StyleNames /\ i = ids[i[1]]
                             \/ i \in DOMAIN sc /\ i[1] \notin StyleNames /\ sc2[i] = sc[i]
  <2>1. \A i \in new : i[1] \in StyleNames /\ i = ids[i[1]]
    BY <1>6
  <2> QED
    BY <1>1, <1>3, <1>7, <1>9, <2>1
<1>11. IsFiniteSet(DOMAIN sc2)
  <2> HIDE DEF new
  <2>1. IsFiniteSet(StyleNames)
    <3>1. IsFiniteSet({"surface"})
      BY FS_Singleton
    <3>2. IsFiniteSet({"surface"} \cup {"wireframe"})
      BY <3>1, FS_AddElement
    <3>3. IsFiniteSet(({"surface"} \cup {"wireframe"}) \cup {"points"})
      BY <3>2, FS_AddElement
    <3>4. StyleNames = ({"surface"} \cup {"wireframe"}) \cup {"points"}
      BY DEF StyleNames
    <3> QED
      BY <3>3, <3>4
  <2>2. IsFiniteSet(new)
    <3>1. ids \in Surjection(StyleNames, new)
      BY DEF Surjection, new
    <3> QED
      BY <2>1, <3>1, FS_Surjection
  <2>3. IsFiniteSet(DOMAIN rest \cup new)
    BY <1>5, <2>2, FS_Union
  <2> QED
    BY <1>7, <2>3
<1> HIDE DEF new
<1>12. /\ DOMAIN p2 = Pointers
       /\ \A s \in StyleNames : p2[s] = ids[s]
       /\ \A x \in Pointers \ StyleNames : p2[x] = p[x]
  BY <1>2
<1>13. \A i \in DOMAIN sc : i[1] \notin StyleNames => i \in DOMAIN sc2 /\ sc2[i] = sc[i]
  BY <1>4, <1>9
<1>14. Placed(sc2)
  <2>1. ASSUME NEW i \in DOMAIN sc2 PROVE i \in DrawnKinds \X Nat
    <3>1. CASE i[1] \in StyleNames /\ i = ids[i[1]]
      BY <1>2, <1>6, <3>1 DEF DrawnKinds
    <3>2. CASE i \in DOMAIN sc
      BY <3>2 DEF Links, Placed
    <3> QED
      BY <1>10, <3>1, <3>2
  <2> QED
    BY <1>11, <2>1 DEF Placed
<1>15. Drawn(sc2, d)
  <2>1. ASSUME NEW i \in DOMAIN sc2 PROVE DrawableOn(sc2[i], d)
    <3>1. CASE i[1] \in StyleNames /\ i = ids[i[1]]
      <4>1. sc2[i] = Drawable(<<m>>)
        BY <1>8, <3>1
      <4> QED
        BY <4>1, DrawableIs
    <3>2. CASE i \in DOMAIN sc /\ sc2[i] = sc[i]
      BY <3>2 DEF Links, Drawn
    <3> QED
      BY <1>10, <3>1, <3>2
  <2> QED
    BY <2>1 DEF Drawn
<1>16. Pointed(sc2, p2)
  <2>1. ASSUME NEW q \in Pointers \ {"scalar"}, p2[q] # NoId PROVE p2[q] \in DOMAIN sc2 /\ p2[q][1] = q
    <3>1. CASE q \in StyleNames
      BY <1>6, <1>8, <1>12, <3>1
    <3>2. CASE q \notin StyleNames
      <4>1. p[q] \in DOMAIN sc /\ p[q][1] = q
        BY <1>12, <2>1, <3>2 DEF Links, Pointed
      <4> QED
        BY <1>12, <1>13, <3>2, <4>1
    <3> QED
      BY <3>1, <3>2
  <2>2. {"scalar", "field"} \subseteq Pointers \ StyleNames
    BY DEF Pointers, StyleNames
  <2>3. p2["scalar"] \in {NoId, p2["field"]}
    BY <1>12, <2>2 DEF Links, Pointed
  <2> QED
    BY <1>12, <2>1, <2>3 DEF Pointed
<1>17. Named(sc2, ob)
  <2>1. "object" \notin StyleNames
    BY DEF StyleNames
  <2> QED
    BY <1>13, <2>1 DEF Links, Named
<1>18. Owned(sc2, p2, ob)
  <2>1. ASSUME NEW i \in DOMAIN sc2, i[1] \in Pointers PROVE p2[i[1]] = i
    <3>1. CASE i[1] \in StyleNames /\ i = ids[i[1]]
      BY <1>12, <3>1
    <3>2. CASE i \in DOMAIN sc /\ i[1] \notin StyleNames
      <4>1. p[i[1]] = i
        BY <2>1, <3>2 DEF Links, Owned
      <4> QED
        BY <1>12, <2>1, <3>2, <4>1
    <3> QED
      BY <1>10, <3>1, <3>2
  <2>2. ASSUME NEW i \in DOMAIN sc2, i[1] = "object" PROVE \E n \in DOMAIN ob : ob[n].drawable = i
    <3>1. i \in DOMAIN sc
      BY <1>10, <2>2 DEF StyleNames
    <3> QED
      BY <2>2, <3>1 DEF Links, Owned
  <2> QED
    BY <2>1, <2>2 DEF Owned
<1>19. Single(sc2)
  <2>1. \A i \in DOMAIN sc2 : i[1] \in {"normals", "edges", "boundary"} => i \in DOMAIN sc /\ sc2[i] = sc[i]
    BY <1>10 DEF StyleNames
  <2>2. ASSUME NEW i \in DOMAIN sc2, NEW j \in DOMAIN sc2, i[1] \in {"normals", "edges"}, j[1] = i[1]
        PROVE  i = j
    <3>1. i \in DOMAIN sc /\ j \in DOMAIN sc
      BY <2>1, <2>2
    <3> QED
      BY <2>2, <3>1 DEF Links, Single
  <2>3. ASSUME NEW i \in DOMAIN sc2, NEW j \in DOMAIN sc2,
               i[1] = "boundary", j[1] = "boundary", sc2[j].of[2] = sc2[i].of[2]
        PROVE  i = j
    <3>1. i \in DOMAIN sc /\ j \in DOMAIN sc /\ sc2[i] = sc[i] /\ sc2[j] = sc[j]
      BY <2>1, <2>3
    <3>2. sc[j].of[2] = sc[i].of[2]
      BY <2>3, <3>1
    <3> QED
      BY <2>3, <3>1, <3>2 DEF Links, Single
  <2> QED
    BY <2>2, <2>3 DEF Single
<1>20. Others(StyleNames, sc, sc2)
  BY <1>10, <1>13 DEF Others
<1>21. \A s \in StyleNames : p2[s] # NoId
  BY <1>8, <1>12, <1>14, NoIdAssumption DEF Placed
<1>22. Dressed(m, sc2, p, p2)
  BY <1>6, <1>8, <1>12, <1>21 DEF Dressed
<1> QED
  BY <1>14, <1>15, <1>16, <1>17, <1>18, <1>19, <1>20, <1>22 DEF Links

\* An object is added, in the place of the one of its name if there was one.
Added(name, m, sc, ob, sc2, ob2) ==
    LET old == IF name \in DOMAIN ob THEN {ob[name].drawable} ELSE {}
        rest == RemoveDrawables(sc, old)
        id == NewId(rest, "object")
    IN  /\ sc2 = With(rest, id, Drawable(<<m>>))
        /\ ob2 = With(ob, name, [drawable |-> id, mesh |-> m])

\* They agree after the addition, and the object is there.
LEMMA LinksObject ==
  ASSUME NEW name \in Names, NEW m, NEW sc, NEW ob, NEW sc2, NEW ob2, NEW p, NEW d,
         Links(sc, p, ob, d), Added(name, m, sc, ob, sc2, ob2)
  PROVE  Links(sc2, p, ob2, d) /\ Others({"object"}, sc, sc2) /\ name \in DOMAIN ob2
<1>0. PICK old, rest, id :
         /\ old = IF name \in DOMAIN ob THEN {ob[name].drawable} ELSE {}
         /\ rest = RemoveDrawables(sc, old) /\ id = NewId(rest, "object")
         /\ sc2 = With(rest, id, Drawable(<<m>>))
         /\ ob2 = With(ob, name, [drawable |-> id, mesh |-> m])
  BY DEF Added
<1> USE <1>0
<1>1. DOMAIN rest = DOMAIN sc \ old /\ \A i \in DOMAIN rest : rest[i] = sc[i]
  BY DEF RemoveDrawables
<1>2. \A i \in old : i[1] = "object"
  BY DEF Links, Named
<1>3. IsFiniteSet(DOMAIN rest)
  <2>1. IsFiniteSet(DOMAIN sc \ old)
    BY FS_Subset DEF Links, Placed
  <2> QED
    BY <1>1, <2>1
<1>4. id \notin DOMAIN rest /\ id[1] = "object" /\ id \in {"object"} \X Nat
  BY <1>3, NewIdIs
<1>5. /\ DOMAIN sc2 = DOMAIN rest \cup {id} /\ sc2[id] = Drawable(<<m>>)
      /\ \A i \in DOMAIN rest : sc2[i] = sc[i]
  BY <1>1, <1>4 DEF With
<1>6. \A i \in DOMAIN sc : i[1] # "object" => i \in DOMAIN sc2 /\ sc2[i] = sc[i] /\ i # id
  BY <1>1, <1>2, <1>4, <1>5
<1>7. \A i \in DOMAIN sc2 : i = id \/ (i \in DOMAIN sc \ old /\ i \in DOMAIN rest /\ sc2[i] = sc[i])
  BY <1>1, <1>5
<1>8. "object" \notin Pointers /\ "object" \in DrawnKinds
  BY DEF Pointers, StyleNames, DrawnKinds
<1>9. Placed(sc2)
  <2>1. IsFiniteSet(DOMAIN rest \cup {id})
    BY <1>3, FS_AddElement
  <2>2. id \in DrawnKinds \X Nat
    BY <1>4, <1>8
  <2>3. \A i \in DOMAIN sc : i \in DrawnKinds \X Nat
    BY DEF Links, Placed
  <2> QED
    BY <1>5, <1>7, <2>1, <2>2, <2>3 DEF Placed
<1>10. Drawn(sc2, d)
  <2>1. ASSUME NEW i \in DOMAIN sc2 PROVE DrawableOn(sc2[i], d)
    <3>1. CASE i = id
      <4>1. sc2[i] = Drawable(<<m>>)
        BY <1>5, <3>1
      <4> QED
        BY <4>1, DrawableIs
    <3>2. CASE i \in DOMAIN sc /\ sc2[i] = sc[i]
      BY <3>2 DEF Links, Drawn
    <3> QED
      BY <1>7, <3>1, <3>2
  <2> QED
    BY <2>1 DEF Drawn
<1>11. Pointed(sc2, p)
  <2>1. ASSUME NEW q \in Pointers \ {"scalar"}, p[q] # NoId PROVE p[q] \in DOMAIN sc2 /\ p[q][1] = q
    <3>1. p[q] \in DOMAIN sc /\ p[q][1] = q
      BY <2>1 DEF Links, Pointed
    <3> QED
      BY <1>6, <1>8, <3>1
  <2> QED
    BY <2>1 DEF Links, Pointed
<1>12. /\ DOMAIN ob2 = DOMAIN ob \cup {name}
       /\ ob2[name].drawable = id /\ ob2[name].mesh = m
       /\ \A n \in DOMAIN ob \ {name} : ob2[n] = ob[n]
  BY DEF With
<1>13. \A n \in DOMAIN ob \ {name} : ob[n].drawable \in DOMAIN rest
  BY <1>1 DEF Links, Named
<1>14. Named(sc2, ob2)
  <2>1. DOMAIN ob2 \subseteq Names
    BY <1>12 DEF Links, Named
  <2>2. ASSUME NEW n \in DOMAIN ob2
        PROVE  /\ ob2[n].drawable \in DOMAIN sc2 /\ ob2[n].drawable[1] = "object"
               /\ sc2[ob2[n].drawable].of = <<ob2[n].mesh>>
    <3>1. CASE n = name
      <4>1. sc2[id].of = <<m>>
        <5>1. sc2[id] = Drawable(<<m>>)
          BY <1>5
        <5> QED
          BY <5>1, DrawableIs
      <4> QED
        BY <1>4, <1>5, <1>12, <3>1, <4>1
    <3>2. CASE n # name
      <4>1. n \in DOMAIN ob \ {name} /\ ob2[n] = ob[n]
        BY <1>12, <3>2
      <4>2. ob[n].drawable \in DOMAIN rest
        BY <1>13, <4>1
      <4>3. ob[n].drawable[1] = "object" /\ sc[ob[n].drawable].of = <<ob[n].mesh>>
        BY <4>1 DEF Links, Named
      <4>4. ob[n].drawable \in DOMAIN sc2 /\ sc2[ob[n].drawable] = sc[ob[n].drawable]
        BY <1>5, <4>2
      <4> QED
        BY <4>1, <4>3, <4>4
    <3> QED
      BY <3>1, <3>2
  <2>3. ASSUME NEW a \in DOMAIN ob2, NEW b \in DOMAIN ob2, ob2[a].drawable = ob2[b].drawable
        PROVE  a = b
    <3>1. \A n \in DOMAIN ob \ {name} : ob2[n].drawable # id
      BY <1>4, <1>12, <1>13
    <3>2. CASE a # name /\ b # name
      <4>1. a \in DOMAIN ob /\ b \in DOMAIN ob /\ ob[a].drawable = ob[b].drawable
        BY <1>12, <2>3, <3>2
      <4> QED
        BY <4>1 DEF Links, Named
    <3> QED
      BY <1>12, <2>3, <3>1, <3>2
  <2> QED
    BY <2>1, <2>2, <2>3 DEF Named
<1>15. Owned(sc2, p, ob2)
  <2>1. ASSUME NEW i \in DOMAIN sc2, i[1] \in Pointers PROVE p[i[1]] = i
    <3>1. i \in DOMAIN sc
      BY <1>4, <1>7, <1>8, <2>1
    <3> QED
      BY <2>1, <3>1 DEF Links, Owned
  <2>2. ASSUME NEW i \in DOMAIN sc2, i[1] = "object" PROVE \E n \in DOMAIN ob2 : ob2[n].drawable = i
    <3>1. CASE i = id
      BY <1>12, <3>1
    <3>2. CASE i \in DOMAIN sc \ old
      <4>1. PICK n \in DOMAIN ob : ob[n].drawable = i
        BY <2>2, <3>2 DEF Links, Owned
      <4>2. n # name
        BY <3>2, <4>1
      <4> QED
        BY <1>12, <4>1, <4>2
    <3> QED
      BY <1>7, <3>1, <3>2
  <2> QED
    BY <2>1, <2>2 DEF Owned
<1>16. Single(sc2)
  <2>1. \A i \in DOMAIN sc2 : i[1] \in {"normals", "edges", "boundary"} => i \in DOMAIN sc /\ sc2[i] = sc[i]
    BY <1>4, <1>7
  <2>2. ASSUME NEW i \in DOMAIN sc2, NEW j \in DOMAIN sc2, i[1] \in {"normals", "edges"}, j[1] = i[1]
        PROVE  i = j
    <3>1. i \in DOMAIN sc /\ j \in DOMAIN sc
      BY <2>1, <2>2
    <3> QED
      BY <2>2, <3>1 DEF Links, Single
  <2>3. ASSUME NEW i \in DOMAIN sc2, NEW j \in DOMAIN sc2,
               i[1] = "boundary", j[1] = "boundary", sc2[j].of[2] = sc2[i].of[2]
        PROVE  i = j
    <3>1. i \in DOMAIN sc /\ j \in DOMAIN sc /\ sc2[i] = sc[i] /\ sc2[j] = sc[j]
      BY <2>1, <2>3
    <3>2. sc[j].of[2] = sc[i].of[2]
      BY <2>3, <3>1
    <3> QED
      BY <2>3, <3>1, <3>2 DEF Links, Single
  <2> QED
    BY <2>2, <2>3 DEF Single
<1>17. Others({"object"}, sc, sc2)
  BY <1>4, <1>6, <1>7 DEF Others
<1> QED
  BY <1>9, <1>10, <1>11, <1>12, <1>14, <1>15, <1>16, <1>17 DEF Links

-----------------------------------------------------------------------------
(* The inductive invariant.                                                *)

Members ==
    /\ mesh \in Meshes \cup {NoMesh} /\ styles \subseteq StyleNames /\ shown \in BOOLEAN
    /\ normals \in [on : BOOLEAN, scale : Scales]
    /\ color \in [map : Colormaps \cup {"categorical"}, pinned : BOOLEAN, range : Int \X Int]
    /\ bar \in [map : Colormaps \cup {"categorical"}, range : Int \X Int]
    /\ fieldBox \subseteq Axis /\ box \subseteq Axis /\ ndim \in {0, 2, 3}
    /\ DOMAIN camera = {"mode", "view"} /\ camera.mode \in {"orbit", "pan", "fps"}
    /\ camera.view.by \in {"default", "fit", "frame", "preset", "user"}
    /\ DOMAIN pick = {"has", "kind", "id", "of"}
    /\ pick.has \in BOOLEAN /\ pick.kind \in {"none", "cell", "node", "face"}
    /\ dev \in Devices \cup {NoDevice}
    /\ overlay \in [Overlays -> [visible : BOOLEAN, built : Devices \cup {NoDevice}]]

Linked == Links(scene, ptr, objects, dev)

\* Bar and widget agree on the colours also while no scalar field is drawn.
Legend ==
    /\ color.map = bar.map
    /\ color.pinned => color.range = bar.range
    /\ ptr.scalar # NoId => /\ scene[ptr.scalar].range = bar.range
                            /\ scene[ptr.scalar].map = bar.map

Overlaid == \A o \in Overlays \ {"title"} : overlay[o].built \in {NoDevice, dev}

ViewerInv == /\ Members /\ Linked /\ StylesFollowMesh /\ NormalsFollowMesh
             /\ SelectionShown /\ Legend /\ FieldInView /\ DimensionIsDomains /\ Overlaid

\* What KeepsView says of one step.
ViewKept ==
    \/ /\ ptr.field # NoId /\ ptr'.field # NoId
       /\ scene'[ptr'.field].of # scene[ptr.field].of
       /\ fieldBox' = fieldBox
    \/ mesh' # mesh /\ box # {} /\ box' = box
    => camera'.view = camera.view /\ frame' = frame

\* The invariant is what the run checks, and more.
LEMMA InvImplies == ViewerInv => SceneInStep
<1> SUFFICES ASSUME ViewerInv PROVE SceneInStep
  OBVIOUS
<1>1. PointersOwn
  <2>1. ASSUME NEW x \in Pointers, ptr[x] # NoId PROVE ptr[x] \in DOMAIN scene
    <3>1. "field" \in Pointers \ {"scalar"}
      BY DEF Pointers
    <3> QED
      BY <2>1, <3>1 DEF ViewerInv, Linked, Links, Pointed
  <2>2. \A i \in DOMAIN scene : i[1] = "object" => i \in Kept
    BY DEF ViewerInv, Linked, Links, Owned, Kept
  <2>3. \A i \in DOMAIN scene : i[1] \notin {"object", "normals", "edges", "boundary"} => ptr[i[1]] = i
    BY DEF ViewerInv, Linked, Links, Owned, Placed, DrawnKinds
  <2>4. /\ \A i \in DOMAIN scene : i[1] \in {"normals", "edges"} =>
              \A j \in DOMAIN scene : j[1] = i[1] => i = j
        /\ \A i \in DOMAIN scene : i[1] = "boundary" =>
              \A j \in DOMAIN scene : j[1] = "boundary" /\ scene[j].of[2] = scene[i].of[2] => i = j
    BY DEF ViewerInv, Linked, Links, Single
  <2>5. /\ \A n \in DOMAIN objects : /\ objects[n].drawable \in DOMAIN scene
                                     /\ scene[objects[n].drawable].of = <<objects[n].mesh>>
        /\ \A m, n \in DOMAIN objects : objects[m].drawable = objects[n].drawable => m = n
    BY DEF ViewerInv, Linked, Links, Named
  <2>6. ASSUME NEW i \in DOMAIN scene
        PROVE  CASE i[1] = "object" -> i \in Kept
                 [] i[1] \in {"normals", "edges"} -> \A j \in DOMAIN scene : j[1] = i[1] => i = j
                 [] i[1] = "boundary" -> \A j \in DOMAIN scene :
                        j[1] = "boundary" /\ scene[j].of[2] = scene[i].of[2] => i = j
                 [] OTHER -> ptr[i[1]] = i
    BY <2>2, <2>3, <2>4
  <2> QED
    BY <2>1, <2>5, <2>6 DEF PointersOwn
<1>2. TypeOK
  BY DEF ViewerInv, Members, Linked, Links, Drawn, DrawableOn, Pointed, Named, TypeOK
<1>3. LegendMatchesField
  BY DEF ViewerInv, Legend, Linked, Links, Pointed, LegendMatchesField
<1>4. BuiltForDevice
  BY DEF ViewerInv, Linked, Links, Drawn, DrawableOn, Overlaid, BuiltForDevice
<1> QED
  BY <1>1, <1>2, <1>3, <1>4 DEF ViewerInv, SceneInStep

\* What a step leaves alone follows the members it leaves alone.
LEMMA Untouched ==
  ASSUME ViewerInv, NEW K, Others(K, scene, scene')
  PROVE  /\ /\ K \cap StyleNames = {} /\ mesh' = mesh /\ styles' = styles /\ shown' = shown
            /\ \A s \in StyleNames : ptr'[s] = ptr[s]
            => StylesFollowMesh'
         /\ "normals" \notin K /\ mesh' = mesh /\ normals' = normals => NormalsFollowMesh'
         /\ "selection" \notin K /\ ptr'["selection"] = ptr["selection"] /\ pick' = pick => SelectionShown'
         /\ /\ "field" \notin K /\ ptr'["field"] = ptr["field"] /\ ptr'["scalar"] = ptr["scalar"]
            /\ color' = color /\ bar' = bar
            => Legend'
         /\ "field" \notin K /\ ptr'["field"] = ptr["field"] /\ mesh' = mesh => ViewKept
<1>1. \A x \in Pointers \ {"scalar"} : ptr[x] # NoId /\ x \notin K =>
          ptr[x] \in DOMAIN scene /\ ptr[x] \in DOMAIN scene' /\ scene'[ptr[x]] = scene[ptr[x]]
  BY DEF ViewerInv, Linked, Links, Pointed, Others
<1>2. ASSUME K \cap StyleNames = {}, mesh' = mesh, styles' = styles, shown' = shown,
             \A s \in StyleNames : ptr'[s] = ptr[s]
      PROVE  StylesFollowMesh'
  <2>1. StyleNames \subseteq Pointers \ {"scalar"}
    BY DEF Pointers, StyleNames
  <2>2. \A s \in StyleNames : ptr[s] # NoId => scene'[ptr[s]] = scene[ptr[s]]
    BY <1>1, <1>2, <2>1
  <2> QED
    BY <1>2, <2>2 DEF ViewerInv, StylesFollowMesh
<1>3. ASSUME "normals" \notin K, mesh' = mesh, normals' = normals PROVE NormalsFollowMesh'
  <2>1. OfKind(scene', "normals") = OfKind(scene, "normals")
    BY <1>3 DEF Others, OfKind
  <2>2. \A i \in OfKind(scene, "normals") : scene'[i] = scene[i]
    BY <1>3 DEF Others, OfKind
  <2>3. {scene'[i].of : i \in OfKind(scene', "normals")} = {scene[i].of : i \in OfKind(scene, "normals")}
    BY <2>1, <2>2
  <2> QED
    BY <1>3, <2>3 DEF ViewerInv, NormalsFollowMesh
<1>4. ASSUME "selection" \notin K, ptr'["selection"] = ptr["selection"], pick' = pick PROVE SelectionShown'
  <2>1. ptr["selection"] # NoId => scene'[ptr["selection"]] = scene[ptr["selection"]]
    BY <1>1, <1>4 DEF Pointers
  <2> QED
    BY <1>4, <2>1 DEF ViewerInv, SelectionShown
<1>5. "field" \notin K /\ ptr["field"] # NoId => scene'[ptr["field"]] = scene[ptr["field"]]
  BY <1>1 DEF Pointers
<1>6. ASSUME "field" \notin K, ptr'["field"] = ptr["field"], ptr'["scalar"] = ptr["scalar"],
             color' = color, bar' = bar
      PROVE  Legend'
  <2>1. ptr["scalar"] \in {NoId, ptr["field"]}
    BY DEF ViewerInv, Linked, Links, Pointed
  <2>2. ptr["scalar"] # NoId => scene'[ptr["scalar"]] = scene[ptr["scalar"]]
    BY <1>5, <1>6, <2>1
  <2> QED
    BY <1>6, <2>2 DEF ViewerInv, Legend
<1>7. ASSUME "field" \notin K, ptr'["field"] = ptr["field"], mesh' = mesh PROVE ViewKept
  BY <1>5, <1>7 DEF ViewKept
<1> QED
  BY <1>2, <1>3, <1>4, <1>6, <1>7

\* A box that is extended covers what it covered and what is new.
LEMMA HullCovers ==
  ASSUME NEW a, a \subseteq Axis, NEW b, b \subseteq Axis
  PROVE  Hull(a, b) \subseteq Axis /\ a \subseteq Hull(a, b) /\ b \subseteq Hull(a, b)
<1>1. ASSUME NEW x \in a \cup b PROVE x \in Hull(a, b)
  <2>1. x \in Axis /\ x <= x
    BY ViewerAssumption
  <2> QED
    BY <2>1 DEF Hull
<1>2. Hull(a, b) \subseteq Axis
  BY DEF Hull
<1> QED
  BY <1>1, <1>2

\* The camera is put somewhere known.
LEMMA FitIs ==
  ASSUME NEW b
  PROVE  Fit(b).by \in {"default", "fit", "frame", "preset", "user"}
  BY DEF Fit

\* A drawable behind a pointer of its own is replaced.
LEMMA ReplaceStep ==
  ASSUME ViewerInv, NEW x \in {"selection", "ruler", "axes", "clip", "slice"},
         NEW has \in BOOLEAN, NEW of, Replace(x, has, of), objects' = objects, dev' = dev
  PROVE  /\ Linked' /\ Others({x}, scene, scene')
         /\ \A q \in Pointers \ {x} : ptr'[q] = ptr[q]
         /\ (ptr'[x] # NoId) = has
         /\ has => scene'[ptr'[x]].of = of
<1> DEFINE rest == RemoveDrawables(scene, {ptr[x]})
           id == NewId(rest, x)
<1>1. x \in Pointers \ {"scalar"} /\ x # "field" /\ x \in DrawnKinds
  BY DEF Pointers, DrawnKinds
<1>2. /\ scene' = IF has THEN With(rest, id, Drawable(of)) ELSE rest
      /\ ptr' = [ptr EXCEPT ![x] = IF has THEN id ELSE NoId]
  BY DEF Replace
<1>3. DOMAIN ptr = Pointers /\ ptr["scalar"] \in {NoId, ptr["field"]} /\ Links(scene, ptr, objects, dev)
  BY DEF ViewerInv, Linked, Links, Pointed
<1>4. /\ DOMAIN ptr' = Pointers /\ ptr'[x] = IF has THEN id ELSE NoId
      /\ \A q \in Pointers \ {x} : ptr'[q] = ptr[q]
  BY <1>1, <1>2, <1>3
<1>5. ptr'["scalar"] \in {NoId, ptr'["field"]}
  BY <1>1, <1>3, <1>4 DEF Pointers
<1>6. id # NoId
  <2>1. IsFiniteSet(DOMAIN rest)
    BY <1>1, <1>3, RestOf
  <2>2. id \in {x} \X Nat
    BY <2>1, NewIdIs
  <2> QED
    BY <1>1, <2>2, NoIdAssumption
<1>7. DrawableOn(Drawable(of), dev) /\ Drawable(of).of = of
  BY DrawableIs
<1> HIDE DEF rest, id
<1>8. /\ Links(scene', ptr', objects, dev) /\ Others({x}, scene, scene')
      /\ has => scene'[ptr'[x]] = Drawable(of)
  <2>1. Swap(x, has, Drawable(of), dev, scene, ptr, scene', ptr')
    BY <1>1, <1>2, <1>4, <1>5, <1>7 DEF Swap, rest, id
  <2> QED
    BY <1>3, <2>1, LinksSwap
<1> QED
  BY <1>4, <1>6, <1>7, <1>8 DEF Linked

\* Nothing but a pointer's drawable, and what the selection recorded.
LEMMA ReplaceKeeps ==
  ASSUME ViewerInv, NEW x \in {"selection", "ruler", "axes", "clip", "slice"},
         NEW has \in BOOLEAN, NEW of, Replace(x, has, of),
         UNCHANGED <<meshVars, objects, colorVars, viewVars, dev, overlay>>,
         DOMAIN pick' = {"has", "kind", "id", "of"},
         pick'.has \in BOOLEAN, pick'.kind \in {"none", "cell", "node", "face"},
         IF x = "selection"
         THEN has = (pick'.has /\ pick'.kind = "cell") /\ (has => of = <<pick'.of, pick'.id>>)
         ELSE pick' = pick
  PROVE  ViewerInv' /\ ViewKept
<1>1. /\ mesh' = mesh /\ styles' = styles /\ shown' = shown /\ normals' = normals
      /\ objects' = objects /\ dev' = dev /\ overlay' = overlay
      /\ color' = color /\ bar' = bar /\ fieldBox' = fieldBox
      /\ box' = box /\ ndim' = ndim /\ camera' = camera /\ frame' = frame
  BY DEF meshVars, colorVars, viewVars
<1>2. /\ Linked' /\ Others({x}, scene, scene')
      /\ \A q \in Pointers \ {x} : ptr'[q] = ptr[q]
      /\ (ptr'[x] # NoId) = has
      /\ has => scene'[ptr'[x]].of = of
  BY <1>1, ReplaceStep
<1>3. /\ \A s \in StyleNames : ptr'[s] = ptr[s]
      /\ ptr'["field"] = ptr["field"] /\ ptr'["scalar"] = ptr["scalar"]
      /\ x # "selection" => ptr'["selection"] = ptr["selection"]
      /\ {x} \cap StyleNames = {} /\ "normals" # x /\ "field" # x
  BY <1>2 DEF Pointers, StyleNames
<1>4. StylesFollowMesh' /\ NormalsFollowMesh' /\ Legend' /\ ViewKept
  BY <1>1, <1>2, <1>3, Untouched
<1>5. SelectionShown'
  <2>1. CASE x = "selection"
    BY <1>2, <2>1 DEF SelectionShown
  <2>2. CASE x # "selection"
    BY <1>1, <1>2, <1>3, <2>2, Untouched
  <2> QED
    BY <2>1, <2>2
<1>6. FieldInView' /\ DimensionIsDomains' /\ Overlaid'
  BY <1>1, <1>3 DEF ViewerInv, FieldInView, DimensionIsDomains, Overlaid
<1>7. Members'
  BY <1>1 DEF ViewerInv, Members
<1> QED
  BY <1>2, <1>4, <1>5, <1>6, <1>7 DEF ViewerInv

\* The field is replaced: the box grows over it, and the view is kept when
\* it covers what the last one covered.
LEMMA InstallStep ==
  ASSUME ViewerInv, NEW y, DrawableOn(y, dev), NEW b, b \subseteq Axis, NEW deep, NEW scalar \in BOOLEAN,
         InstallField(y, b, deep, scalar), UNCHANGED meshVars, objects' = objects, dev' = dev
  PROVE  /\ Linked' /\ Others({"field"}, scene, scene')
         /\ \A q \in Pointers \ {"field", "scalar"} : ptr'[q] = ptr[q]
         /\ ptr'["scalar"] # NoId => scalar /\ scene'[ptr'["scalar"]] = y
         /\ FieldInView' /\ DimensionIsDomains' /\ ViewKept
         /\ fieldBox' \subseteq Axis /\ box' \subseteq Axis /\ ndim' \in {0, 2, 3}
         /\ DOMAIN camera' = {"mode", "view"} /\ camera'.mode = camera.mode
         /\ camera'.view.by \in {"default", "fit", "frame", "preset", "user"}
<1> DEFINE rest == RemoveDrawables(scene, {ptr["field"]})
           id == NewId(rest, "field")
           has == b # {}
<1>1. "field" \in Pointers \ {"scalar"} /\ "field" \in DrawnKinds /\ "scalar" \in Pointers
  BY DEF Pointers, DrawnKinds
<1>2. /\ DOMAIN ptr = Pointers /\ Links(scene, ptr, objects, dev)
      /\ DOMAIN camera = {"mode", "view"} /\ fieldBox \subseteq Axis /\ box \subseteq Axis
      /\ ndim \in {0, 2, 3} /\ camera.view.by \in {"default", "fit", "frame", "preset", "user"}
  BY DEF ViewerInv, Linked, Links, Pointed, Members
<1>3. /\ scene' = IF has THEN With(rest, id, y) ELSE rest
      /\ ptr' = [ptr EXCEPT !["field"] = IF has THEN id ELSE NoId,
                            !["scalar"] = IF has /\ scalar THEN id ELSE NoId]
  BY DEF InstallField
<1>4. /\ DOMAIN ptr' = Pointers /\ ptr'["field"] = IF has THEN id ELSE NoId
      /\ ptr'["scalar"] = IF has /\ scalar THEN id ELSE NoId
      /\ \A q \in Pointers \ {"field", "scalar"} : ptr'[q] = ptr[q]
  BY <1>1, <1>2, <1>3
<1>5. id # NoId
  <2>1. IsFiniteSet(DOMAIN rest)
    BY <1>1, <1>2, RestOf
  <2>2. id \in {"field"} \X Nat
    BY <2>1, NewIdIs
  <2> QED
    BY <1>1, <2>2, NoIdAssumption
<1>6. /\ fieldBox' = b
      /\ box' = IF has THEN Hull(box, b) ELSE box
      /\ ndim' = IF has /\ box = {} THEN (IF deep THEN 3 ELSE 2) ELSE ndim
      /\ ~ has \/ fieldBox = b => camera' = camera /\ frame' = frame
      /\ has /\ fieldBox # b => camera' = [camera EXCEPT !.view = Fit(Hull(box, b))]
  BY DEF InstallField, FitCamera
<1> HIDE DEF rest, id, has
<1>7. /\ Links(scene', ptr', objects, dev) /\ Others({"field"}, scene, scene')
      /\ has => scene'[ptr'["field"]] = y
  <2>1. ptr'["scalar"] \in {NoId, ptr'["field"]} /\ has \in BOOLEAN
    BY <1>4 DEF has
  <2> QED
    <3>1. Swap("field", has, y, dev, scene, ptr, scene', ptr')
      BY <1>1, <1>3, <1>4, <2>1 DEF Swap, rest, id
    <3> QED
      BY <1>2, <3>1, LinksSwap
<1>8. ptr'["scalar"] # NoId => scalar /\ scene'[ptr'["scalar"]] = y
  BY <1>4, <1>7
<1>9. box \subseteq box' /\ b \subseteq box' /\ box' \subseteq Axis
  BY <1>2, <1>6, HullCovers DEF has
<1>10. mesh' = mesh
  BY DEF meshVars
<1>11. FieldInView'
  <2>1. (fieldBox' # {}) = (ptr'["field"] # NoId)
    BY <1>4, <1>5, <1>6 DEF has
  <2>2. mesh # NoMesh => Bounds[mesh] \subseteq box'
    BY <1>9 DEF ViewerInv, FieldInView
  <2> QED
    BY <1>6, <1>9, <1>10, <2>1, <2>2 DEF FieldInView
<1>12. DimensionIsDomains'
  <2>1. mesh # NoMesh /\ Bounds[mesh] # {} => box # {}
    BY DEF ViewerInv, FieldInView
  <2> QED
    BY <1>6, <1>10, <2>1 DEF ViewerInv, DimensionIsDomains
<1>13. ViewKept
  BY <1>4, <1>6, <1>10 DEF ViewKept
<1>14. /\ DOMAIN camera' = {"mode", "view"} /\ camera'.mode = camera.mode
       /\ camera'.view.by \in {"default", "fit", "frame", "preset", "user"}
  <2>1. CASE ~ has \/ fieldBox = b
    BY <1>2, <1>6, <2>1
  <2>2. CASE has /\ fieldBox # b
    BY <1>2, <1>6, <2>2, FitIs
  <2> QED
    BY <2>1, <2>2
<1>15. fieldBox' \subseteq Axis /\ ndim' \in {0, 2, 3}
  BY <1>2, <1>6
<1> QED
  BY <1>4, <1>7, <1>8, <1>9, <1>11, <1>12, <1>13, <1>14, <1>15 DEF Linked

-----------------------------------------------------------------------------
(* The calls, one by one.                                                  *)

\* A field is installed, and bar and colours say what it is drawn with.
LEMMA InstallKeeps ==
  ASSUME ViewerInv, NEW y, DrawableOn(y, dev), NEW b, b \subseteq Axis, NEW deep, NEW scalar \in BOOLEAN,
         InstallField(y, b, deep, scalar), UNCHANGED <<meshVars, objects, pick, dev>>,
         color' \in [map : Colormaps \cup {"categorical"}, pinned : BOOLEAN, range : Int \X Int],
         bar' \in [map : Colormaps \cup {"categorical"}, range : Int \X Int],
         color'.map = bar'.map, color'.pinned => color'.range = bar'.range,
         scalar => y.range = bar'.range /\ y.map = bar'.map,
         overlay' \in [Overlays -> [visible : BOOLEAN, built : Devices \cup {NoDevice}]],
         \A o \in Overlays : overlay'[o].built = overlay[o].built
  PROVE  ViewerInv' /\ ViewKept
<1>1. /\ mesh' = mesh /\ styles' = styles /\ shown' = shown /\ normals' = normals
      /\ objects' = objects /\ dev' = dev /\ pick' = pick
  BY DEF meshVars
<1>2. /\ Linked' /\ Others({"field"}, scene, scene')
      /\ \A q \in Pointers \ {"field", "scalar"} : ptr'[q] = ptr[q]
      /\ ptr'["scalar"] # NoId => scalar /\ scene'[ptr'["scalar"]] = y
      /\ FieldInView' /\ DimensionIsDomains' /\ ViewKept
      /\ fieldBox' \subseteq Axis /\ box' \subseteq Axis /\ ndim' \in {0, 2, 3}
      /\ DOMAIN camera' = {"mode", "view"} /\ camera'.mode = camera.mode
      /\ camera'.view.by \in {"default", "fit", "frame", "preset", "user"}
  BY <1>1, InstallStep
<1>3. /\ \A s \in StyleNames : ptr'[s] = ptr[s]
      /\ ptr'["selection"] = ptr["selection"]
      /\ {"field"} \cap StyleNames = {}
  BY <1>2 DEF Pointers, StyleNames
<1>4. StylesFollowMesh' /\ NormalsFollowMesh' /\ SelectionShown'
  BY <1>1, <1>2, <1>3, Untouched
<1>5. Legend'
  BY <1>2 DEF Legend
<1>6. Overlaid'
  BY <1>1 DEF ViewerInv, Overlaid
<1>7. Members'
  BY <1>1, <1>2 DEF ViewerInv, Members
<1> QED
  BY <1>2, <1>4, <1>5, <1>6, <1>7 DEF ViewerInv

\* The drawable of a scalar field carries its range and its colours.
LEMMA ScalarDrawableIs ==
  ASSUME NEW of, NEW range, NEW map, NEW d
  PROVE  /\ DrawableOn(ScalarDrawable(of, range, map), d)
         /\ ScalarDrawable(of, range, map).range = range /\ ScalarDrawable(of, range, map).map = map
  BY DEF ScalarDrawable, Drawable, DrawableOn

\* A field of colours has no scalar, and leaves the legend alone.
LEMMA UpdateColorFieldKeeps ==
  ASSUME ViewerInv, NEW f \in Fields, UpdateColorField(f)
  PROVE  ViewerInv' /\ ViewKept
<1>1. DrawableOn(ColorDrawable(f), dev)
  BY DrawableIs DEF ColorDrawable
<1>2. f.box \subseteq Axis
  BY ViewerAssumption
<1>3. /\ InstallField(ColorDrawable(f), f.box, f.deep, FALSE)
      /\ color' = color /\ bar' = bar /\ overlay' = overlay
      /\ UNCHANGED <<meshVars, objects, pick, dev>>
  BY DEF UpdateColorField
<1>4. /\ color \in [map : Colormaps \cup {"categorical"}, pinned : BOOLEAN, range : Int \X Int]
      /\ bar \in [map : Colormaps \cup {"categorical"}, range : Int \X Int]
      /\ color.map = bar.map /\ (color.pinned => color.range = bar.range)
      /\ overlay \in [Overlays -> [visible : BOOLEAN, built : Devices \cup {NoDevice}]]
  BY DEF ViewerInv, Members, Legend
<1> QED
  BY <1>1, <1>2, <1>3, <1>4, InstallKeeps

\* A scalar field takes the pinned range, or the bar takes the range of the field.
LEMMA UpdateScalarFieldKeeps ==
  ASSUME ViewerInv, NEW f \in Fields, UpdateScalarField(f)
  PROVE  ViewerInv' /\ ViewKept
<1> DEFINE range == IF color.pinned THEN color.range ELSE f.own
           y == ScalarDrawable(<<"scalar", f>>, range, color.map)
<1>1. DrawableOn(y, dev) /\ y.range = range /\ y.map = color.map
  BY ScalarDrawableIs
<1>2. f.box \subseteq Axis /\ f.own \in Int \X Int
  BY ViewerAssumption
<1>3. /\ InstallField(y, f.box, f.deep, TRUE)
      /\ color' = color /\ bar' = [bar EXCEPT !.range = range] /\ overlay' = overlay
      /\ UNCHANGED <<meshVars, objects, pick, dev>>
  BY DEF UpdateScalarField
<1>4. /\ color \in [map : Colormaps \cup {"categorical"}, pinned : BOOLEAN, range : Int \X Int]
      /\ bar \in [map : Colormaps \cup {"categorical"}, range : Int \X Int]
      /\ color.map = bar.map
      /\ overlay \in [Overlays -> [visible : BOOLEAN, built : Devices \cup {NoDevice}]]
  BY DEF ViewerInv, Members, Legend
<1>5. range \in Int \X Int /\ (color.pinned => range = color.range)
  BY <1>2, <1>4
<1> HIDE DEF range, y
<1>6. /\ bar' \in [map : Colormaps \cup {"categorical"}, range : Int \X Int]
      /\ bar'.range = range /\ bar'.map = color.map
  BY <1>3, <1>4, <1>5
<1> QED
  BY <1>1, <1>2, <1>3, <1>4, <1>5, <1>6, InstallKeeps

\* The legend is shown.
LEMMA BarShown ==
  ASSUME ViewerInv, NEW on \in BOOLEAN, NEW o \in Overlays, overlay' = [overlay EXCEPT ![o].visible = on]
  PROVE  /\ overlay' \in [Overlays -> [visible : BOOLEAN, built : Devices \cup {NoDevice}]]
         /\ \A x \in Overlays : overlay'[x].built = overlay[x].built
<1>1. overlay \in [Overlays -> [visible : BOOLEAN, built : Devices \cup {NoDevice}]]
  BY DEF ViewerInv, Members
<1> QED
  BY <1>1

\* A field made from the mesh brings its range and colours to the legend.
LEMMA InstallSurfaceFieldKeeps ==
  ASSUME ViewerInv, NEW of, NEW r \in Int \X Int, NEW map \in Colormaps \cup {"categorical"},
         NEW pinned \in BOOLEAN, InstallSurfaceField(of, r, map, pinned)
  PROVE  ViewerInv' /\ ViewKept
<1> DEFINE y == ScalarDrawable(<<of, mesh>>, r, map)
<1>1. DrawableOn(y, dev) /\ y.range = r /\ y.map = map
  BY ScalarDrawableIs
<1>2. mesh \in Meshes /\ Surface(mesh) \subseteq Axis
  BY ViewerAssumption DEF ViewerInv, Members, InstallSurfaceField, Surface
<1>3. /\ InstallField(y, Surface(mesh), NDim[mesh] = 3, TRUE)
      /\ color' = [map |-> map, pinned |-> pinned, range |-> r]
      /\ bar' = [map |-> map, range |-> r]
      /\ overlay' = [overlay EXCEPT !["bar"].visible = TRUE]
      /\ UNCHANGED <<meshVars, objects, pick, dev>>
  BY DEF InstallSurfaceField
<1>4. /\ overlay' \in [Overlays -> [visible : BOOLEAN, built : Devices \cup {NoDevice}]]
      /\ \A x \in Overlays : overlay'[x].built = overlay[x].built
  BY <1>3, BarShown DEF Overlays
<1> HIDE DEF y
<1> QED
  BY <1>1, <1>2, <1>3, <1>4, InstallKeeps

\* Colouring by category pins a range, by quality releases it.
LEMMA ColorByKeeps ==
  ASSUME ViewerInv, ColorByCategory \/ \E r \in Ranges : ColorByQuality(r)
  PROVE  ViewerInv' /\ ViewKept
<1>1. CASE ColorByCategory
  <2>1. mesh \in Meshes
    BY <1>1 DEF ColorByCategory, ViewerInv, Members
  <2>2. Categories[mesh] \in Nat
    BY <2>1, ViewerAssumption
  <2>3. <<0, IF Categories[mesh] > 1 THEN Categories[mesh] - 1 ELSE 1>> \in Int \X Int
    BY <2>2
  <2> QED
    BY <1>1, <2>3, InstallSurfaceFieldKeeps DEF ColorByCategory, InstallCategoryField
<1>2. CASE \E r \in Ranges : ColorByQuality(r)
  <2>1. PICK r \in Ranges : ColorByQuality(r)
    BY <1>2
  <2>2. r \in Int \X Int
    BY ViewerAssumption
  <2>3. (IF color.map = "categorical" THEN "viridis" ELSE color.map) \in Colormaps \cup {"categorical"}
    BY ViewerAssumption DEF ViewerInv, Members
  <2> QED
    BY <2>1, <2>2, <2>3, InstallSurfaceFieldKeeps DEF ColorByQuality, InstallMetricField
<1> QED
  BY <1>1, <1>2

\* Dropping the field drops its box and the pinned range.
LEMMA ClearCellColoringKeeps ==
  ASSUME ViewerInv, ClearCellColoring
  PROVE  ViewerInv' /\ ViewKept
<1>1. /\ scene' = RemoveDrawables(scene, {ptr["field"]})
      /\ ptr' = [ptr EXCEPT !["field"] = NoId, !["scalar"] = NoId]
      /\ fieldBox' = {} /\ color' = [color EXCEPT !.pinned = FALSE]
      /\ overlay' = [overlay EXCEPT !["bar"].visible = FALSE]
  BY DEF ClearCellColoring
<1>u. /\ mesh' = mesh /\ styles' = styles /\ shown' = shown /\ normals' = normals
      /\ objects' = objects /\ bar' = bar /\ pick' = pick /\ dev' = dev
      /\ box' = box /\ ndim' = ndim /\ camera' = camera /\ frame' = frame
  BY DEF ClearCellColoring, meshVars, viewVars
<1>2. DOMAIN ptr = Pointers /\ Links(scene, ptr, objects, dev)
  BY DEF ViewerInv, Linked, Links, Pointed
<1>3. /\ DOMAIN ptr' = Pointers /\ ptr'["field"] = NoId /\ ptr'["scalar"] = NoId
      /\ \A q \in Pointers \ {"field", "scalar"} : ptr'[q] = ptr[q]
  BY <1>1, <1>2 DEF Pointers
<1>4. Swap("field", FALSE, Drawable(<<>>), dev, scene, ptr, scene', ptr')
  <2>1. "field" \in Pointers \ {"scalar"} /\ DrawableOn(Drawable(<<>>), dev)
    BY DrawableIs DEF Pointers
  <2> QED
    BY <1>1, <1>3, <2>1 DEF Swap
<1>5. Linked' /\ Others({"field"}, scene, scene')
  <2>1. Links(scene', ptr', objects, dev) /\ Others({"field"}, scene, scene')
    BY <1>2, <1>4, LinksSwap
  <2> QED
    BY <1>u, <2>1 DEF Linked
<1>6. /\ \A s \in StyleNames : ptr'[s] = ptr[s]
      /\ ptr'["selection"] = ptr["selection"]
      /\ {"field"} \cap StyleNames = {}
  BY <1>3 DEF Pointers, StyleNames
<1>7. StylesFollowMesh' /\ NormalsFollowMesh' /\ SelectionShown'
  <2>1. "normals" \notin {"field"} /\ "selection" \notin {"field"}
    OBVIOUS
  <2> QED
    BY <1>u, <1>5, <1>6, <2>1, Untouched
<1>8. color \in [map : Colormaps \cup {"categorical"}, pinned : BOOLEAN, range : Int \X Int]
  BY DEF ViewerInv, Members
<1>9. Legend'
  BY <1>u, <1>1, <1>3, <1>8 DEF ViewerInv, Legend
<1>10. FieldInView' /\ DimensionIsDomains'
  BY <1>u, <1>1, <1>3 DEF ViewerInv, FieldInView, DimensionIsDomains
<1>11. /\ overlay' \in [Overlays -> [visible : BOOLEAN, built : Devices \cup {NoDevice}]]
       /\ \A x \in Overlays : overlay'[x].built = overlay[x].built
  BY <1>1, BarShown DEF Overlays
<1>12. Overlaid'
  BY <1>u, <1>11 DEF ViewerInv, Overlaid
<1>13. color' \in [map : Colormaps \cup {"categorical"}, pinned : BOOLEAN, range : Int \X Int]
  BY <1>1, <1>8
<1>14. Members'
  BY <1>u, <1>1, <1>11, <1>13 DEF ViewerInv, Members
<1>15. ViewKept
  BY <1>u, <1>3 DEF ViewKept
<1> QED
  BY <1>5, <1>7, <1>9, <1>10, <1>12, <1>14, <1>15 DEF ViewerInv

\* A pick records what it hit, and highlights a cell.
LEMMA SetSelectionKeeps ==
  ASSUME ViewerInv, NEW kind \in {"cell", "node", "face"}, NEW id, SetSelection(kind, id)
  PROVE  ViewerInv' /\ ViewKept
<1>1. /\ Replace("selection", kind = "cell", <<mesh, id>>)
      /\ pick' = [has |-> TRUE, kind |-> kind, id |-> id, of |-> mesh]
      /\ UNCHANGED <<meshVars, objects, colorVars, viewVars, dev, overlay>>
  BY DEF SetSelection
<1>2. /\ DOMAIN pick' = {"has", "kind", "id", "of"} /\ pick'.has \in BOOLEAN
      /\ pick'.kind \in {"none", "cell", "node", "face"}
      /\ (kind = "cell") = (pick'.has /\ pick'.kind = "cell")
      /\ <<mesh, id>> = <<pick'.of, pick'.id>>
      /\ (kind = "cell") \in BOOLEAN
  BY <1>1
<1> QED
  BY <1>1, <1>2, ReplaceKeeps

\* What is not selected is not highlighted.
LEMMA ClearSelectionKeeps ==
  ASSUME ViewerInv, ClearSelection
  PROVE  ViewerInv' /\ ViewKept
<1>1. /\ Replace("selection", FALSE, <<>>)
      /\ pick' = [pick EXCEPT !.has = FALSE, !.kind = "none", !.id = -1]
      /\ UNCHANGED <<meshVars, objects, colorVars, viewVars, dev, overlay>>
  BY DEF ClearSelection
<1>2. DOMAIN pick = {"has", "kind", "id", "of"}
  BY DEF ViewerInv, Members
<1>3. DOMAIN pick' = {"has", "kind", "id", "of"} /\ pick'.has = FALSE /\ pick'.kind = "none"
  BY <1>1, <1>2
<1> QED
  BY <1>1, <1>3, ReplaceKeeps

\* Measurements, the clip, the slice and the cube axes.
LEMMA ShownKeeps ==
  ASSUME ViewerInv, NEW x \in {"ruler", "axes", "clip", "slice"}, NEW has \in BOOLEAN, NEW of,
         Replace(x, has, of), UNCHANGED <<meshVars, objects, colorVars, viewVars, pick, dev, overlay>>
  PROVE  ViewerInv' /\ ViewKept
<1>1. /\ DOMAIN pick = {"has", "kind", "id", "of"}
      /\ pick.has \in BOOLEAN /\ pick.kind \in {"none", "cell", "node", "face"}
  BY DEF ViewerInv, Members
<1> QED
  BY <1>1, ReplaceKeeps

\* Rulers, axes, clips and slices each replace the one before.
LEMMA FiltersKeep ==
  ASSUME ViewerInv, \E on \in BOOLEAN : Measure(on) \/ ShowCubeAxes(on) \/ AddClip(on) \/ AddSlice(on)
  PROVE  ViewerInv' /\ ViewKept
<1>1. PICK on \in BOOLEAN : Measure(on) \/ ShowCubeAxes(on) \/ AddClip(on) \/ AddSlice(on)
  OBVIOUS
<1>2. CASE Measure(on)
  BY <1>2, ShownKeeps DEF Measure
<1>3. CASE ShowCubeAxes(on)
  BY <1>3, ShownKeeps DEF ShowCubeAxes
<1>4. CASE AddClip(on)
  BY <1>4, ShownKeeps DEF AddClip, AddFilter
<1>5. CASE AddSlice(on)
  BY <1>5, ShownKeeps DEF AddSlice, AddFilter
<1> QED
  BY <1>1, <1>2, <1>3, <1>4, <1>5

\* Both filters go at once.
LEMMA ClearFiltersKeeps ==
  ASSUME ViewerInv, ClearFilters
  PROVE  ViewerInv' /\ ViewKept
<1> DEFINE sc == RemoveDrawables(scene, {ptr["clip"]})
           p == [ptr EXCEPT !["clip"] = NoId]
<1>1. /\ scene' = RemoveDrawables(scene, {ptr["clip"], ptr["slice"]})
      /\ ptr' = [ptr EXCEPT !["clip"] = NoId, !["slice"] = NoId]
  BY DEF ClearFilters
<1>u. /\ mesh' = mesh /\ styles' = styles /\ shown' = shown /\ normals' = normals
      /\ objects' = objects /\ pick' = pick /\ dev' = dev /\ overlay' = overlay
      /\ color' = color /\ bar' = bar /\ fieldBox' = fieldBox
      /\ box' = box /\ ndim' = ndim /\ camera' = camera /\ frame' = frame
  BY DEF ClearFilters, meshVars, colorVars, viewVars
<1>2. /\ DOMAIN ptr = Pointers /\ Links(scene, ptr, objects, dev)
      /\ ptr["scalar"] \in {NoId, ptr["field"]}
  BY DEF ViewerInv, Linked, Links, Pointed
<1>3. /\ DOMAIN p = Pointers /\ p["clip"] = NoId
      /\ \A q \in Pointers \ {"clip"} : p[q] = ptr[q]
  BY <1>2 DEF Pointers
<1>4. /\ DOMAIN ptr' = Pointers /\ ptr'["slice"] = NoId
      /\ \A q \in Pointers \ {"slice"} : ptr'[q] = p[q]
      /\ \A q \in Pointers \ {"clip", "slice"} : ptr'[q] = ptr[q]
  <2>1. {"clip", "slice"} \subseteq Pointers
    BY DEF Pointers
  <2> QED
    BY <1>1, <1>2, <1>3, <2>1
<1>5. scene' = RemoveDrawables(sc, {p["slice"]})
  <2>1. p["slice"] = ptr["slice"]
    BY <1>3 DEF Pointers
  <2>2. /\ DOMAIN sc = DOMAIN scene \ {ptr["clip"]}
        /\ \A i \in DOMAIN sc : sc[i] = scene[i]
    BY DEF RemoveDrawables
  <2> HIDE DEF sc, p
  <2>3. RemoveDrawables(sc, {p["slice"]}) = [i \in DOMAIN scene \ {ptr["clip"], ptr["slice"]} |-> scene[i]]
    BY <2>1, <2>2 DEF RemoveDrawables
  <2> QED
    BY <1>1, <2>3 DEF RemoveDrawables
<1> HIDE DEF p
<1>6. DrawableOn(Drawable(<<>>), dev)
  BY DrawableIs
<1>7. Swap("clip", FALSE, Drawable(<<>>), dev, scene, ptr, sc, p)
  <2>1. "clip" \in Pointers \ {"scalar"} /\ p["scalar"] \in {NoId, p["field"]}
    BY <1>2, <1>3 DEF Pointers
  <2> QED
    BY <1>3, <1>6, <2>1 DEF Swap
<1> HIDE DEF sc
<1>8. Links(sc, p, objects, dev) /\ Others({"clip"}, scene, sc)
  BY <1>2, <1>7, LinksSwap
<1>9. Swap("slice", FALSE, Drawable(<<>>), dev, sc, p, scene', ptr')
  <2>1. "slice" \in Pointers \ {"scalar"} /\ ptr'["scalar"] \in {NoId, ptr'["field"]}
    BY <1>2, <1>4 DEF Pointers
  <2> QED
    BY <1>4, <1>5, <1>6, <2>1 DEF Swap
<1>10. Links(scene', ptr', objects, dev) /\ Others({"slice"}, sc, scene')
  BY <1>8, <1>9, LinksSwap
<1>11. Others({"clip", "slice"}, scene, scene')
  BY <1>8, <1>10 DEF Others
<1>12. /\ \A s \in StyleNames : ptr'[s] = ptr[s]
       /\ ptr'["selection"] = ptr["selection"]
       /\ ptr'["field"] = ptr["field"] /\ ptr'["scalar"] = ptr["scalar"]
       /\ {"clip", "slice"} \cap StyleNames = {}
  BY <1>4 DEF Pointers, StyleNames
<1>13. StylesFollowMesh' /\ NormalsFollowMesh' /\ SelectionShown' /\ Legend' /\ ViewKept
  <2>1. {"normals", "selection", "field"} \cap {"clip", "slice"} = {}
    OBVIOUS
  <2> QED
    BY <1>u, <1>11, <1>12, <2>1, Untouched
<1>14. FieldInView' /\ DimensionIsDomains' /\ Overlaid'
  BY <1>u, <1>12 DEF ViewerInv, FieldInView, DimensionIsDomains, Overlaid
<1>15. Members'
  BY <1>u DEF ViewerInv, Members
<1> QED
  BY <1>u, <1>10, <1>13, <1>14, <1>15 DEF ViewerInv, Linked

\* One drawable changes what it shows.
LEMMA OneSet ==
  ASSUME ViewerInv, NEW i \in DOMAIN scene, DOMAIN scene' = DOMAIN scene,
         \A j \in DOMAIN scene \ {i} : scene'[j] = scene[j],
         scene'[i].of = scene[i].of, DrawableOn(scene'[i], dev),
         ptr' = ptr, objects' = objects, dev' = dev
  PROVE  Linked' /\ Others({i[1]}, scene, scene')
<1>1. Links(scene, ptr, objects, dev)
  BY DEF ViewerInv, Linked
<1>2. Attributes(scene, scene')
  BY DEF Attributes
<1>3. Drawn(scene', dev)
  BY <1>1 DEF Links, Drawn
<1>4. Links(scene', ptr, objects, dev)
  BY <1>1, <1>2, <1>3, LinksAttributes
<1>5. Others({i[1]}, scene, scene')
  BY DEF Others
<1> QED
  BY <1>4, <1>5 DEF Linked

\* Hiding an object leaves it in the scene.
LEMMA SetObjectVisibleKeeps ==
  ASSUME ViewerInv, NEW name, NEW on \in BOOLEAN, SetObjectVisible(name, on)
  PROVE  ViewerInv' /\ ViewKept
<1> DEFINE i == objects[name].drawable
<1>1. name \in DOMAIN objects /\ scene' = [scene EXCEPT ![i].visible = on]
  BY DEF SetObjectVisible
<1>u. /\ mesh' = mesh /\ styles' = styles /\ shown' = shown /\ normals' = normals
      /\ ptr' = ptr /\ objects' = objects /\ pick' = pick /\ dev' = dev /\ overlay' = overlay
      /\ color' = color /\ bar' = bar /\ fieldBox' = fieldBox
      /\ box' = box /\ ndim' = ndim /\ camera' = camera /\ frame' = frame
  BY DEF SetObjectVisible, meshVars, colorVars, viewVars
<1>2. i \in DOMAIN scene /\ i[1] = "object" /\ DrawableOn(scene[i], dev)
  BY <1>1 DEF ViewerInv, Linked, Links, Named, Drawn
<1> HIDE DEF i
<1>3. /\ DOMAIN scene' = DOMAIN scene /\ \A j \in DOMAIN scene \ {i} : scene'[j] = scene[j]
      /\ scene'[i] = [scene[i] EXCEPT !.visible = on]
  BY <1>1, <1>2
<1>4. scene'[i].of = scene[i].of /\ DrawableOn(scene'[i], dev)
  BY <1>2, <1>3 DEF DrawableOn
<1>5. Linked' /\ Others({"object"}, scene, scene')
  BY <1>u, <1>2, <1>3, <1>4, OneSet
<1>6. StylesFollowMesh' /\ NormalsFollowMesh' /\ SelectionShown' /\ Legend' /\ ViewKept
  <2>1. {"object"} \cap StyleNames = {} /\ {"normals", "selection", "field"} \cap {"object"} = {}
    BY DEF StyleNames
  <2> QED
    BY <1>u, <1>5, <2>1, Untouched
<1>7. FieldInView' /\ DimensionIsDomains' /\ Overlaid' /\ Members'
  BY <1>u DEF ViewerInv, FieldInView, DimensionIsDomains, Overlaid, Members
<1> QED
  BY <1>5, <1>6, <1>7 DEF ViewerInv

\* The scalar field follows the colours, or the range, that are set.
LEMMA Recoloured ==
  ASSUME ViewerInv, NEW y, DrawableOn(y, dev),
         IF ptr["scalar"] = NoId THEN scene' = scene
         ELSE /\ DOMAIN scene' = DOMAIN scene /\ scene'[ptr["scalar"]] = y
              /\ \A j \in DOMAIN scene \ {ptr["scalar"]} : scene'[j] = scene[j]
              /\ y.of = scene[ptr["scalar"]].of
              /\ y.range = bar'.range /\ y.map = bar'.map,
         UNCHANGED <<meshVars, ptr, objects, fieldBox, viewVars, pick, dev, overlay>>,
         color' \in [map : Colormaps \cup {"categorical"}, pinned : BOOLEAN, range : Int \X Int],
         bar' \in [map : Colormaps \cup {"categorical"}, range : Int \X Int],
         color'.map = bar'.map, color'.pinned => color'.range = bar'.range
  PROVE  ViewerInv' /\ ViewKept
<1>u. /\ mesh' = mesh /\ styles' = styles /\ shown' = shown /\ normals' = normals
      /\ ptr' = ptr /\ objects' = objects /\ pick' = pick /\ dev' = dev /\ overlay' = overlay
      /\ fieldBox' = fieldBox
      /\ box' = box /\ ndim' = ndim /\ camera' = camera /\ frame' = frame
  BY DEF meshVars, viewVars
<1>1. ptr["scalar"] # NoId => /\ ptr["scalar"] = ptr["field"] /\ ptr["scalar"] \in DOMAIN scene
                              /\ ptr["scalar"][1] = "field"
  <2>1. "field" \in Pointers \ {"scalar"}
    BY DEF Pointers
  <2> QED
    BY <2>1 DEF ViewerInv, Linked, Links, Pointed
<1>2. Linked' /\ Others({"field"}, scene, scene')
  <2>1. CASE ptr["scalar"] = NoId
    BY <1>u, <2>1 DEF ViewerInv, Linked, Others
  <2>2. CASE ptr["scalar"] # NoId
    BY <1>u, <1>1, <2>2, OneSet
  <2> QED
    BY <2>1, <2>2
<1>3. StylesFollowMesh' /\ NormalsFollowMesh' /\ SelectionShown'
  <2>1. {"field"} \cap StyleNames = {} /\ {"normals", "selection"} \cap {"field"} = {}
    BY DEF StyleNames
  <2> QED
    BY <1>u, <1>2, <2>1, Untouched
<1>4. Legend'
  BY <1>u DEF Legend
<1>5. FieldInView' /\ DimensionIsDomains' /\ Overlaid'
  BY <1>u DEF ViewerInv, FieldInView, DimensionIsDomains, Overlaid
<1>6. Members'
  BY <1>u DEF ViewerInv, Members
<1>7. ViewKept
  BY <1>u DEF ViewKept
<1> QED
  BY <1>2, <1>3, <1>4, <1>5, <1>6, <1>7 DEF ViewerInv

\* New colours reach the legend and the field that is drawn.
LEMMA SetColormapKeeps ==
  ASSUME ViewerInv, NEW map \in Colormaps, SetColormap(map)
  PROVE  ViewerInv' /\ ViewKept
<1> DEFINE i == ptr["scalar"]
           y == IF i = NoId THEN Drawable(<<>>) ELSE [scene[i] EXCEPT !.map = map]
<1>1. /\ color' = [color EXCEPT !.map = map] /\ bar' = [bar EXCEPT !.map = map]
      /\ scene' = IF i = NoId THEN scene ELSE [scene EXCEPT ![i].map = map]
      /\ UNCHANGED <<meshVars, ptr, objects, fieldBox, viewVars, pick, dev, overlay>>
  BY DEF SetColormap
<1>2. /\ color \in [map : Colormaps \cup {"categorical"}, pinned : BOOLEAN, range : Int \X Int]
      /\ bar \in [map : Colormaps \cup {"categorical"}, range : Int \X Int]
      /\ color.pinned => color.range = bar.range
      /\ i # NoId => scene[i].range = bar.range
  BY DEF ViewerInv, Members, Legend
<1>3. /\ color' \in [map : Colormaps \cup {"categorical"}, pinned : BOOLEAN, range : Int \X Int]
      /\ bar' \in [map : Colormaps \cup {"categorical"}, range : Int \X Int]
      /\ color'.map = map /\ bar'.map = map /\ bar'.range = bar.range
      /\ color'.pinned = color.pinned /\ color'.range = color.range
  BY <1>1, <1>2
<1>4. i # NoId => i \in DOMAIN scene /\ DrawableOn(scene[i], dev)
  <2>1. "field" \in Pointers \ {"scalar"}
    BY DEF Pointers
  <2> QED
    BY <2>1 DEF ViewerInv, Linked, Links, Pointed, Drawn
<1> HIDE DEF i
<1>5. DrawableOn(y, dev)
  <2>1. CASE i = NoId
    BY <2>1, DrawableIs
  <2>2. CASE i # NoId
    BY <1>4, <2>2 DEF DrawableOn
  <2> QED
    BY <2>1, <2>2
<1>6. i # NoId => /\ DOMAIN scene' = DOMAIN scene /\ scene'[i] = y
                  /\ \A j \in DOMAIN scene \ {i} : scene'[j] = scene[j]
                  /\ y.of = scene[i].of /\ y.range = bar'.range /\ y.map = bar'.map
  BY <1>1, <1>2, <1>3, <1>4 DEF DrawableOn
<1> HIDE DEF y
<1>7. i = NoId => scene' = scene
  BY <1>1
<1> QED
  BY <1>1, <1>2, <1>3, <1>5, <1>6, <1>7, Recoloured DEF i

\* A pinned range reaches the legend and the field that is drawn.
LEMMA SetScalarRangeKeeps ==
  ASSUME ViewerInv, NEW r \in Ranges, SetScalarRange(r)
  PROVE  ViewerInv' /\ ViewKept
<1> DEFINE i == ptr["scalar"]
           y == IF i = NoId THEN Drawable(<<>>) ELSE [scene[i] EXCEPT !.range = r]
<1>1. /\ color' = [color EXCEPT !.pinned = TRUE, !.range = r] /\ bar' = [bar EXCEPT !.range = r]
      /\ scene' = IF i = NoId THEN scene ELSE [scene EXCEPT ![i].range = r]
      /\ UNCHANGED <<meshVars, ptr, objects, fieldBox, viewVars, pick, dev, overlay>>
  BY DEF SetScalarRange
<1>2. /\ color \in [map : Colormaps \cup {"categorical"}, pinned : BOOLEAN, range : Int \X Int]
      /\ bar \in [map : Colormaps \cup {"categorical"}, range : Int \X Int]
      /\ color.map = bar.map
      /\ i # NoId => scene[i].map = bar.map
  BY DEF ViewerInv, Members, Legend
<1>3. /\ color' \in [map : Colormaps \cup {"categorical"}, pinned : BOOLEAN, range : Int \X Int]
      /\ bar' \in [map : Colormaps \cup {"categorical"}, range : Int \X Int]
      /\ color'.map = color.map /\ bar'.map = bar.map /\ bar'.range = r /\ color'.range = r
  <2>1. r \in Int \X Int
    BY ViewerAssumption
  <2> QED
    BY <1>1, <1>2, <2>1
<1>4. i # NoId => i \in DOMAIN scene /\ DrawableOn(scene[i], dev)
  <2>1. "field" \in Pointers \ {"scalar"}
    BY DEF Pointers
  <2> QED
    BY <2>1 DEF ViewerInv, Linked, Links, Pointed, Drawn
<1> HIDE DEF i
<1>5. DrawableOn(y, dev)
  <2>1. CASE i = NoId
    BY <2>1, DrawableIs
  <2>2. CASE i # NoId
    BY <1>4, <2>2 DEF DrawableOn
  <2> QED
    BY <2>1, <2>2
<1>6. i # NoId => /\ DOMAIN scene' = DOMAIN scene /\ scene'[i] = y
                  /\ \A j \in DOMAIN scene \ {i} : scene'[j] = scene[j]
                  /\ y.of = scene[i].of /\ y.range = bar'.range /\ y.map = bar'.map
  BY <1>1, <1>2, <1>3, <1>4 DEF DrawableOn
<1> HIDE DEF y
<1>7. i = NoId => scene' = scene
  BY <1>1
<1> QED
  BY <1>1, <1>2, <1>3, <1>5, <1>6, <1>7, Recoloured DEF i

\* The flags of the styles reach the drawables of the styles, and no others.
LEMMA VisibilityIs ==
  ASSUME NEW sc, NEW p, NEW ob, NEW d, Links(sc, p, ob, d), NEW on \in BOOLEAN, NEW st,
         NEW sc2, sc2 = ApplyMeshVisibility(sc, p, on, st)
  PROVE  /\ Links(sc2, p, ob, d) /\ Others(StyleNames, sc, sc2) /\ Attributes(sc, sc2)
         /\ \A s \in StyleNames : p[s] # NoId => sc2[p[s]].visible = (on /\ s \in st)
<1>1. StyleNames \subseteq Pointers \ {"scalar"}
  BY DEF Pointers, StyleNames
<1>2. \A s \in StyleNames : p[s] # NoId => p[s] \in DOMAIN sc /\ p[s][1] = s
  BY <1>1 DEF Links, Pointed
<1>3. NoId \notin DOMAIN sc
  BY NoIdAssumption DEF Links, Placed
<1>4. ASSUME NEW i \in DOMAIN sc
      PROVE  sc2[i] = IF i[1] \in StyleNames THEN [sc[i] EXCEPT !.visible = on /\ i[1] \in st] ELSE sc[i]
  <2>1. CASE i[1] \in StyleNames
    <3>1. p[i[1]] = i
      BY <1>1, <2>1 DEF Links, Owned
    <3>2. \A s \in StyleNames : p[s] = i => s = i[1]
      BY <1>2, <1>3
    <3>3. (CHOOSE s \in StyleNames : p[s] = i) = i[1]
      BY <2>1, <3>1, <3>2
    <3>4. \E s \in StyleNames : p[s] = i
      BY <2>1, <3>1
    <3> QED
      BY <2>1, <3>3, <3>4 DEF ApplyMeshVisibility
  <2>2. CASE i[1] \notin StyleNames
    <3>1. ~ \E s \in StyleNames : p[s] = i
      BY <1>2, <1>3, <2>2
    <3> QED
      BY <2>2, <3>1 DEF ApplyMeshVisibility
  <2> QED
    BY <2>1, <2>2
<1>5. DOMAIN sc2 = DOMAIN sc
  BY DEF ApplyMeshVisibility
<1>6. \A i \in DOMAIN sc : DrawableOn(sc[i], d)
  BY DEF Links, Drawn
<1>7. \A i \in DOMAIN sc : sc2[i].of = sc[i].of /\ DrawableOn(sc2[i], d)
  <2>1. ASSUME NEW i \in DOMAIN sc PROVE sc2[i].of = sc[i].of /\ DrawableOn(sc2[i], d)
    <3>1. CASE i[1] \in StyleNames
      <4>1. sc2[i] = [sc[i] EXCEPT !.visible = on /\ i[1] \in st]
        BY <1>4, <3>1
      <4>2. DrawableOn(sc[i], d)
        BY <1>6
      <4> QED
        BY <4>1, <4>2 DEF DrawableOn
    <3>2. CASE i[1] \notin StyleNames
      BY <1>4, <1>6, <3>2
    <3> QED
      BY <3>1, <3>2
  <2> QED
    BY <2>1
<1>8. Attributes(sc, sc2) /\ Drawn(sc2, d)
  BY <1>5, <1>7 DEF Attributes, Drawn
<1>9. Links(sc2, p, ob, d)
  BY <1>8, LinksAttributes
<1>10. Others(StyleNames, sc, sc2)
  BY <1>4, <1>5 DEF Others
<1>11. ASSUME NEW s \in StyleNames, p[s] # NoId PROVE sc2[p[s]].visible = (on /\ s \in st)
  <2>1. p[s] \in DOMAIN sc /\ p[s][1] = s
    BY <1>2, <1>11
  <2>2. sc2[p[s]] = [sc[p[s]] EXCEPT !.visible = on /\ s \in st] /\ DrawableOn(sc[p[s]], d)
    BY <1>4, <1>6, <2>1
  <2> QED
    BY <2>2 DEF DrawableOn
<1> QED
  BY <1>8, <1>9, <1>10, <1>11

\* New flags reach the drawables of the mesh.
LEMMA ShowStylesKeeps ==
  ASSUME ViewerInv, scene' = ApplyMeshVisibility(scene, ptr, shown', styles'),
         shown' \in BOOLEAN, styles' \subseteq StyleNames,
         UNCHANGED <<mesh, normals, ptr, objects, colorVars, viewVars, pick, dev, overlay>>
  PROVE  ViewerInv' /\ ViewKept
<1>u. /\ mesh' = mesh /\ normals' = normals
      /\ ptr' = ptr /\ objects' = objects /\ pick' = pick /\ dev' = dev /\ overlay' = overlay
      /\ color' = color /\ bar' = bar /\ fieldBox' = fieldBox
      /\ box' = box /\ ndim' = ndim /\ camera' = camera /\ frame' = frame
  BY DEF colorVars, viewVars
<1>1. Links(scene, ptr, objects, dev)
  BY DEF ViewerInv, Linked
<1>2. /\ Links(scene', ptr, objects, dev) /\ Others(StyleNames, scene, scene') /\ Attributes(scene, scene')
      /\ \A s \in StyleNames : ptr[s] # NoId => scene'[ptr[s]].visible = (shown' /\ s \in styles')
  BY <1>1, VisibilityIs
<1>3. StylesFollowMesh'
  <2>1. \A s \in StyleNames : ptr[s] # NoId => scene'[ptr[s]].of = scene[ptr[s]].of
    BY <1>1, <1>2 DEF Links, Pointed, Attributes, Pointers, StyleNames
  <2> QED
    BY <1>u, <1>2, <2>1 DEF ViewerInv, StylesFollowMesh
<1>4. NormalsFollowMesh' /\ SelectionShown' /\ Legend' /\ ViewKept
  <2>1. {"normals", "selection", "field"} \cap StyleNames = {}
    BY DEF StyleNames
  <2> QED
    BY <1>u, <1>2, <2>1, Untouched
<1>5. FieldInView' /\ DimensionIsDomains' /\ Overlaid' /\ Members'
  BY <1>u DEF ViewerInv, FieldInView, DimensionIsDomains, Overlaid, Members
<1> QED
  BY <1>u, <1>2, <1>3, <1>4, <1>5 DEF ViewerInv, Linked

\* The normals are those of the mesh and the scale they are built for.
LEMMA RebuildIs ==
  ASSUME NEW sc, NEW p, NEW ob, NEW d, Links(sc, p, ob, d), NEW m, NEW nm
  PROVE  LET sc2 == RebuildNormals(sc, m, nm)
         IN  /\ Links(sc2, p, ob, d) /\ Others({"normals"}, sc, sc2)
             /\ {sc2[i].of : i \in OfKind(sc2, "normals")} =
                    IF nm.on /\ m # NoMesh /\ Bounds[m] # {} THEN {<<m, nm.scale>>} ELSE {}
<1> DEFINE sc2 == RebuildNormals(sc, m, nm)
           has == nm.on /\ m # NoMesh /\ Bounds[m] # {}
           y == Drawable(<<m, nm.scale>>)
<1>1. Search("normals", OfKind(sc, "normals"), has, y, d, sc, sc2)
  <2>1. has \in BOOLEAN /\ DrawableOn(y, d)
    BY DrawableIs
  <2> QED
    BY <2>1 DEF Search, RebuildNormals, HasNormals, AddDrawable
<1>2. y.of = <<m, nm.scale>>
  BY DrawableIs
<1> HIDE DEF has, y, sc2
<1>3. /\ Links(sc2, p, ob, d) /\ Others({"normals"}, sc, sc2)
      /\ \A i \in OfKind(sc2, "normals") : (has /\ sc2[i] = y) \/ i \in DOMAIN sc \ OfKind(sc, "normals")
      /\ has => \E i \in OfKind(sc2, "normals") : sc2[i] = y
  BY <1>1, LinksSearch
<1>4. \A i \in OfKind(sc2, "normals") : has /\ sc2[i] = y
  BY <1>3 DEF OfKind
<1>5. {sc2[i].of : i \in OfKind(sc2, "normals")} = IF has THEN {<<m, nm.scale>>} ELSE {}
  BY <1>2, <1>3, <1>4
<1> QED
  BY <1>3, <1>5 DEF has, sc2

\* The normals follow their switch and their scale.
LEMMA ShowNormalsKeeps ==
  ASSUME ViewerInv, \/ \E on \in BOOLEAN : ShowNormals(on)
                    \/ \E k \in Scales : SetNormalScale(k)
  PROVE  ViewerInv' /\ ViewKept
<1>1. normals \in [on : BOOLEAN, scale : Scales] /\ Links(scene, ptr, objects, dev)
  BY DEF ViewerInv, Members, Linked
<1>2. /\ normals' \in [on : BOOLEAN, scale : Scales]
      /\ \/ scene' = RebuildNormals(scene, mesh, normals')
         \/ scene' = scene /\ ~ normals.on /\ ~ normals'.on
  <2>1. CASE \E on \in BOOLEAN : ShowNormals(on)
    BY <1>1, <2>1 DEF ShowNormals
  <2>2. CASE \E k \in Scales : SetNormalScale(k)
    BY <1>1, <2>2 DEF SetNormalScale
  <2> QED
    BY <2>1, <2>2
<1>u. /\ mesh' = mesh /\ styles' = styles /\ shown' = shown
      /\ ptr' = ptr /\ objects' = objects /\ pick' = pick /\ dev' = dev /\ overlay' = overlay
      /\ color' = color /\ bar' = bar /\ fieldBox' = fieldBox
      /\ box' = box /\ ndim' = ndim /\ camera' = camera /\ frame' = frame
  BY DEF ShowNormals, SetNormalScale, colorVars, viewVars
<1>3. Links(scene', ptr, objects, dev) /\ Others({"normals"}, scene, scene') /\ NormalsFollowMesh'
  <2>1. CASE scene' = RebuildNormals(scene, mesh, normals')
    <3>1. /\ Links(scene', ptr, objects, dev) /\ Others({"normals"}, scene, scene')
          /\ {scene'[i].of : i \in OfKind(scene', "normals")} =
                IF normals'.on /\ mesh # NoMesh /\ Bounds[mesh] # {} THEN {<<mesh, normals'.scale>>} ELSE {}
      BY <1>1, <2>1, RebuildIs
    <3> QED
      BY <1>u, <3>1 DEF NormalsFollowMesh
  <2>2. CASE scene' = scene /\ ~ normals.on /\ ~ normals'.on
    <3>1. NormalsFollowMesh'
      BY <1>u, <2>2 DEF ViewerInv, NormalsFollowMesh
    <3> QED
      BY <1>1, <2>2, <3>1 DEF Others
  <2> QED
    BY <1>2, <2>1, <2>2
<1>4. StylesFollowMesh' /\ SelectionShown' /\ Legend' /\ ViewKept
  <2>1. "normals" \notin StyleNames /\ {"normals"} \cap StyleNames = {} /\ {"selection", "field"} \cap {"normals"} = {}
    BY DEF StyleNames
  <2> QED
    BY <1>u, <1>3, <2>1, Untouched
<1>5. FieldInView' /\ DimensionIsDomains' /\ Overlaid' /\ Members'
  BY <1>u, <1>2 DEF ViewerInv, FieldInView, DimensionIsDomains, Overlaid, Members
<1> QED
  BY <1>u, <1>3, <1>4, <1>5 DEF ViewerInv, Linked

\* A highlight that is found by its kind.
LEMMA SearchKeeps ==
  ASSUME ViewerInv, NEW k \in {"edges", "boundary"}, NEW R, NEW has, NEW y,
         Search(k, R, has, y, dev, scene, scene'),
         UNCHANGED <<meshVars, ptr, objects, colorVars, viewVars, pick, dev, overlay>>
  PROVE  ViewerInv' /\ ViewKept
<1>u. /\ mesh' = mesh /\ styles' = styles /\ shown' = shown /\ normals' = normals
      /\ ptr' = ptr /\ objects' = objects /\ pick' = pick /\ dev' = dev /\ overlay' = overlay
      /\ color' = color /\ bar' = bar /\ fieldBox' = fieldBox
      /\ box' = box /\ ndim' = ndim /\ camera' = camera /\ frame' = frame
  BY DEF meshVars, colorVars, viewVars
<1>1. Links(scene, ptr, objects, dev)
  BY DEF ViewerInv, Linked
<1>2. Links(scene', ptr, objects, dev) /\ Others({k}, scene, scene')
  BY <1>1, LinksSearch
<1>3. StylesFollowMesh' /\ NormalsFollowMesh' /\ SelectionShown' /\ Legend' /\ ViewKept
  <2>1. {k} \cap StyleNames = {} /\ {"normals", "selection", "field"} \cap {k} = {}
    BY DEF StyleNames
  <2> QED
    BY <1>u, <1>2, <2>1, Untouched
<1>4. FieldInView' /\ DimensionIsDomains' /\ Overlaid' /\ Members'
  BY <1>u DEF ViewerInv, FieldInView, DimensionIsDomains, Overlaid, Members
<1> QED
  BY <1>u, <1>2, <1>3, <1>4 DEF ViewerInv, Linked

\* One highlight for each boundary set.
LEMMA ShowBoundaryKeeps ==
  ASSUME ViewerInv, NEW s, NEW on \in BOOLEAN, ShowBoundary(s, on)
  PROVE  ViewerInv' /\ ViewKept
<1> DEFINE R == {i \in OfKind(scene, "boundary") : scene[i].of[2] = s}
           has == on /\ mesh # NoMesh /\ HasBoundary(mesh, s)
           y == Drawable(<<mesh, s>>)
<1>1. y.of[2] = s /\ DrawableOn(y, dev) /\ has \in BOOLEAN
  <2>1. y.of = <<mesh, s>> /\ DrawableOn(y, dev)
    BY DrawableIs
  <2> QED
    BY <2>1
<1>2. Search("boundary", R, has, y, dev, scene, scene')
  BY <1>1 DEF Search, ShowBoundary, AddDrawable
<1>3. UNCHANGED <<meshVars, ptr, objects, colorVars, viewVars, pick, dev, overlay>>
  BY DEF ShowBoundary
<1> HIDE DEF R, has, y
<1> QED
  BY <1>2, <1>3, SearchKeeps

\* One drawable of feature edges at most.
LEMMA ShowFeatureEdgesKeeps ==
  ASSUME ViewerInv, NEW on \in BOOLEAN, ShowFeatureEdges(on)
  PROVE  ViewerInv' /\ ViewKept
<1> DEFINE R == OfKind(scene, "edges")
           has == on /\ mesh # NoMesh /\ HasFeatureEdges(mesh)
           y == Drawable(<<mesh>>)
<1>1. DrawableOn(y, dev) /\ has \in BOOLEAN
  BY DrawableIs
<1>2. Search("edges", R, has, y, dev, scene, scene')
  BY <1>1 DEF Search, ShowFeatureEdges, AddDrawable
<1>3. UNCHANGED <<meshVars, ptr, objects, colorVars, viewVars, pick, dev, overlay>>
  BY DEF ShowFeatureEdges
<1> HIDE DEF R, has, y
<1> QED
  BY <1>2, <1>3, SearchKeeps

\* A new mesh: its drawables are styled as the flags say, the normals are
\* built again, and the box is made anew from the mesh and the field.
LEMMA UpdateMeshKeeps ==
  ASSUME ViewerInv, NEW m \in Meshes, UpdateMesh(m)
  PROVE  ViewerInv' /\ ViewKept
<1> DEFINE rest == RemoveDrawables(scene, {ptr[s] : s \in StyleNames})
           ids == [s \in StyleNames |-> NewId(rest, s)]
           three == NewStyles(rest, ids, m)
           styled == ApplyMeshVisibility(three, ptr', shown, styles)
           newBox == Hull(Bounds[m], fieldBox)
           sameBox == box # {} /\ newBox # {} /\ newBox = box
           mode == IF NDim[m] = 2 THEN "pan" ELSE camera.mode
<1>1. /\ ptr' = [x \in Pointers |-> IF x \in StyleNames THEN ids[x] ELSE ptr[x]]
      /\ scene' = RebuildNormals(styled, m, normals)
  BY DEF UpdateMesh
<1>2. /\ mesh' = m /\ ndim' = NDim[m] /\ box' = newBox
      /\ camera' = [mode |-> mode, view |-> IF sameBox THEN camera.view ELSE Fit(newBox)]
      /\ frame' = IF sameBox \/ newBox = {} THEN frame ELSE "none"
  BY DEF UpdateMesh
<1>u. /\ styles' = styles /\ shown' = shown /\ normals' = normals
      /\ objects' = objects /\ pick' = pick /\ dev' = dev /\ overlay' = overlay
      /\ color' = color /\ bar' = bar /\ fieldBox' = fieldBox
  BY DEF UpdateMesh, colorVars
<1>3. Restyled(m, scene, ptr, three, ptr')
  BY <1>1 DEF Restyled
<1> HIDE DEF three, rest, ids
<1>4. Links(scene, ptr, objects, dev) /\ shown \in BOOLEAN
  BY DEF ViewerInv, Linked, Members
<1>d. Links(three, ptr', objects, dev) /\ Others(StyleNames, scene, three) /\ Dressed(m, three, ptr, ptr')
  BY <1>3, <1>4, LinksStyles
<1>5. /\ Links(three, ptr', objects, dev) /\ Others(StyleNames, scene, three)
      /\ \A s \in StyleNames : /\ ptr'[s] \in DOMAIN three /\ ptr'[s][1] = s /\ ptr'[s] # NoId
                               /\ three[ptr'[s]] = Drawable(<<m>>)
      /\ \A x \in Pointers \ StyleNames : ptr'[x] = ptr[x]
  BY <1>d DEF Dressed
<1>6. /\ Links(styled, ptr', objects, dev) /\ Others(StyleNames, three, styled) /\ Attributes(three, styled)
      /\ \A s \in StyleNames : ptr'[s] # NoId => styled[ptr'[s]].visible = (shown /\ s \in styles)
  BY <1>4, <1>5, VisibilityIs
<1> HIDE DEF styled
<1>7. /\ Links(scene', ptr', objects, dev) /\ Others({"normals"}, styled, scene')
      /\ {scene'[i].of : i \in OfKind(scene', "normals")} =
             IF normals.on /\ m # NoMesh /\ Bounds[m] # {} THEN {<<m, normals.scale>>} ELSE {}
  BY <1>1, <1>6, RebuildIs
<1>8. Others(StyleNames \cup {"normals"}, scene, scene')
  BY <1>5, <1>6, <1>7 DEF Others
<1>9. StylesFollowMesh'
  <2>1. ASSUME NEW s \in StyleNames
        PROVE  ptr'[s] # NoId /\ scene'[ptr'[s]].of = <<m>> /\ scene'[ptr'[s]].visible = (shown /\ s \in styles)
    <3>1. /\ ptr'[s] \in DOMAIN three /\ ptr'[s][1] = s /\ ptr'[s] # NoId
          /\ three[ptr'[s]] = Drawable(<<m>>)
      BY <1>5
    <3>2. styled[ptr'[s]].of = <<m>> /\ ptr'[s] \in DOMAIN styled
      <4>1. Drawable(<<m>>).of = <<m>>
        BY DrawableIs
      <4>2. ptr'[s] \in DOMAIN styled /\ styled[ptr'[s]].of = three[ptr'[s]].of
        BY <1>6, <3>1 DEF Attributes
      <4> QED
        BY <3>1, <4>1, <4>2
    <3>3. scene'[ptr'[s]] = styled[ptr'[s]]
      BY <1>7, <3>1, <3>2 DEF Others, StyleNames
    <3> QED
      BY <1>6, <3>1, <3>2, <3>3
  <2>2. m # NoMesh
    BY ViewerAssumption
  <2> QED
    BY <1>2, <1>u, <2>1, <2>2 DEF StylesFollowMesh
<1>10. NormalsFollowMesh'
  BY <1>2, <1>u, <1>7 DEF NormalsFollowMesh
<1>11. /\ ptr'["selection"] = ptr["selection"] /\ ptr'["field"] = ptr["field"]
       /\ ptr'["scalar"] = ptr["scalar"]
       /\ {"selection", "field"} \cap (StyleNames \cup {"normals"}) = {}
  BY <1>5 DEF Pointers, StyleNames
<1>12. SelectionShown' /\ Legend'
  BY <1>u, <1>8, <1>11, Untouched
<1>13. Bounds[m] \subseteq Axis /\ NDim[m] \in {2, 3} /\ fieldBox \subseteq Axis
  BY ViewerAssumption DEF ViewerInv, Members
<1>14. newBox \subseteq Axis /\ Bounds[m] \subseteq newBox /\ fieldBox \subseteq newBox
  BY <1>13, HullCovers
<1> HIDE DEF newBox
<1>15. FieldInView' /\ DimensionIsDomains'
  BY <1>2, <1>u, <1>11, <1>14 DEF ViewerInv, FieldInView, DimensionIsDomains
<1>16. ViewKept
  <2>1. "field" \in Pointers \ {"scalar"}
    BY DEF Pointers
  <2>2. ptr["field"] # NoId => scene'[ptr["field"]] = scene[ptr["field"]]
    BY <1>4, <1>8, <1>11, <2>1 DEF Links, Pointed, Others
  <2>3. box # {} /\ box' = box => camera'.view = camera.view /\ frame' = frame
    BY <1>2
  <2> QED
    BY <1>11, <2>2, <2>3 DEF ViewKept
<1>17. Members'
  <2>1. /\ DOMAIN camera' = {"mode", "view"} /\ camera'.mode \in {"orbit", "pan", "fps"}
        /\ camera'.view.by \in {"default", "fit", "frame", "preset", "user"}
    BY <1>2, FitIs DEF ViewerInv, Members
  <2> QED
    BY <1>2, <1>u, <1>13, <1>14, <2>1 DEF ViewerInv, Members
<1>18. Overlaid'
  BY <1>u DEF ViewerInv, Overlaid
<1> QED
  BY <1>u, <1>7, <1>9, <1>10, <1>12, <1>15, <1>16, <1>17, <1>18 DEF ViewerInv, Linked

\* An object replaces the one of its name, and widens the box.
LEMMA AddObjectKeeps ==
  ASSUME ViewerInv, NEW name \in Names, NEW m \in Meshes, AddObject(name, m)
  PROVE  ViewerInv' /\ ViewKept
<1> DEFINE newBox == IF Bounds[m] = {} THEN box ELSE Hull(box, Bounds[m])
<1>1. Added(name, m, scene, objects, scene', objects')
  BY DEF AddObject, Added
<1>2. /\ ndim' = NDim[m] /\ box' = newBox
      /\ camera' = [camera EXCEPT !.view = Fit(newBox)]
  BY DEF AddObject, FitCamera
<1>u. /\ mesh' = mesh /\ styles' = styles /\ shown' = shown /\ normals' = normals
      /\ ptr' = ptr /\ pick' = pick /\ dev' = dev /\ overlay' = overlay
      /\ color' = color /\ bar' = bar /\ fieldBox' = fieldBox
  BY DEF AddObject, meshVars, colorVars
<1>3. Links(scene, ptr, objects, dev)
  BY DEF ViewerInv, Linked
<1>4. Links(scene', ptr, objects', dev) /\ Others({"object"}, scene, scene') /\ name \in DOMAIN objects'
  BY <1>1, <1>3, LinksObject
<1>5. StylesFollowMesh' /\ NormalsFollowMesh' /\ SelectionShown' /\ Legend' /\ ViewKept
  <2>1. {"object"} \cap StyleNames = {} /\ {"normals", "selection", "field"} \cap {"object"} = {}
    BY DEF StyleNames
  <2> QED
    BY <1>u, <1>4, <2>1, Untouched
<1>6. box \subseteq newBox /\ newBox \subseteq Axis /\ NDim[m] \in {2, 3}
  <2>1. Bounds[m] \subseteq Axis /\ NDim[m] \in {2, 3} /\ box \subseteq Axis
    BY ViewerAssumption DEF ViewerInv, Members
  <2> QED
    BY <2>1, HullCovers
<1> HIDE DEF newBox
<1>7. FieldInView'
  BY <1>2, <1>u, <1>6 DEF ViewerInv, FieldInView
<1>8. DimensionIsDomains'
  <2>1. DOMAIN <<>> = {}
    OBVIOUS
  <2>2. objects' # <<>>
    BY <1>4, <2>1
  <2> QED
    BY <2>2 DEF DimensionIsDomains
<1>9. Members'
  <2>1. /\ DOMAIN camera = {"mode", "view"} /\ camera.mode \in {"orbit", "pan", "fps"}
    BY DEF ViewerInv, Members
  <2>2. /\ DOMAIN camera' = {"mode", "view"} /\ camera'.mode \in {"orbit", "pan", "fps"}
        /\ camera'.view.by \in {"default", "fit", "frame", "preset", "user"}
    BY <1>2, <2>1, FitIs
  <2> QED
    BY <1>2, <1>u, <1>6, <2>2 DEF ViewerInv, Members
<1>10. Overlaid'
  BY <1>u DEF ViewerInv, Overlaid
<1> QED
  BY <1>u, <1>4, <1>5, <1>7, <1>8, <1>9, <1>10 DEF ViewerInv, Linked

\* The camera is in a mode, and something placed it.
CameraTyped == /\ DOMAIN camera = {"mode", "view"} /\ camera.mode \in {"orbit", "pan", "fps"}
               /\ camera.view.by \in {"default", "fit", "frame", "preset", "user"}

\* The camera moves, or the box it is fitted to grows, and all else stays.
LEMMA CameraKeeps ==
  ASSUME ViewerInv, UNCHANGED <<meshVars, drawVars, colorVars, pick, dev, ndim, overlay>>,
         box \subseteq box', box' \subseteq Axis, CameraTyped'
  PROVE  ViewerInv' /\ ViewKept
<1>u. /\ mesh' = mesh /\ styles' = styles /\ shown' = shown /\ normals' = normals
      /\ scene' = scene /\ ptr' = ptr /\ objects' = objects /\ pick' = pick
      /\ dev' = dev /\ overlay' = overlay /\ ndim' = ndim
      /\ color' = color /\ bar' = bar /\ fieldBox' = fieldBox
  BY DEF meshVars, drawVars, colorVars
<1>1. Linked'
  BY <1>u DEF ViewerInv, Linked
<1>2. StylesFollowMesh' /\ NormalsFollowMesh' /\ SelectionShown' /\ Legend' /\ Overlaid'
  BY <1>u DEF ViewerInv, StylesFollowMesh, NormalsFollowMesh, SelectionShown, Legend, Overlaid
<1>3. FieldInView' /\ DimensionIsDomains'
  BY <1>u DEF ViewerInv, FieldInView, DimensionIsDomains
<1>4. Members'
  BY <1>u DEF ViewerInv, Members, CameraTyped
<1>5. ViewKept
  BY <1>u DEF ViewKept
<1> QED
  BY <1>1, <1>2, <1>3, <1>4, <1>5 DEF ViewerInv

\* Framing, presets, navigation and modes.
LEMMA CameraCallsKeep ==
  ASSUME ViewerInv, CameraCalls \/ ZoomToSelection
  PROVE  ViewerInv' /\ ViewKept
<1>1. CameraTyped /\ box \subseteq Axis
  BY DEF ViewerInv, Members, CameraTyped
<1>2. ASSUME NEW v, v.by \in {"default", "fit", "frame", "preset", "user"},
             camera' = [camera EXCEPT !.view = v]
      PROVE  CameraTyped'
  BY <1>1, <1>2 DEF CameraTyped
<1>3. UNCHANGED <<meshVars, drawVars, colorVars, pick, dev, ndim, overlay>> /\ box' = box
  BY DEF CameraCalls, FitScene, SetView, Navigate, SetCameraMode, ZoomToSelection
<1>4. CameraTyped'
  <2>1. CASE FitScene
    <3>1. camera' = [camera EXCEPT !.view = Fit(box)]
      BY <2>1 DEF FitScene, FitCamera
    <3> QED
      BY <1>2, <3>1, FitIs
  <2>2. CASE SetView
    BY <1>1, <2>2 DEF SetView, CameraTyped
  <2>3. CASE Navigate
    BY <1>1, <2>3 DEF Navigate, CameraTyped
  <2>4. CASE \E mode \in {"pan", "orbit", "fps"} : SetCameraMode(mode)
    BY <1>1, <2>4 DEF SetCameraMode, CameraTyped
  <2>5. CASE ZoomToSelection
    <3>1. CASE pick.has
      BY <1>1, <2>5, <3>1 DEF ZoomToSelection, CameraTyped
    <3>2. CASE ~ pick.has
      <4>1. camera' = [camera EXCEPT !.view = Fit(box)]
        BY <2>5, <3>2 DEF ZoomToSelection, FitCamera
      <4> QED
        BY <1>2, <4>1, FitIs
    <3> QED
      BY <3>1, <3>2
  <2> QED
    BY <2>1, <2>2, <2>3, <2>4, <2>5 DEF CameraCalls
<1> QED
  BY <1>1, <1>3, <1>4, CameraKeeps

\* An object that moves only widens the box.
LEMMA SetObjectTransformKeeps ==
  ASSUME ViewerInv, NEW name, NEW t, SetObjectTransform(name, t)
  PROVE  ViewerInv' /\ ViewKept
<1> DEFINE b == Bounds[objects[name].mesh]
           moved == IF b = {} THEN Axis ELSE {x + t : x \in b} \cap Axis
<1>1. /\ box' = Hull(box, moved) /\ camera' = [camera EXCEPT !.view = Fit(Hull(box, moved))]
      /\ UNCHANGED <<meshVars, scene, ptr, objects, colorVars, ndim, pick, dev, overlay>>
  BY DEF SetObjectTransform, FitCamera
<1>2. moved \subseteq Axis /\ box \subseteq Axis /\ CameraTyped
  BY DEF ViewerInv, Members, CameraTyped
<1> HIDE DEF moved
<1>3. box \subseteq box' /\ box' \subseteq Axis
  BY <1>1, <1>2, HullCovers
<1>4. CameraTyped'
  BY <1>1, <1>2, FitIs DEF CameraTyped
<1> QED
  BY <1>1, <1>3, <1>4, CameraKeeps DEF drawVars

\* The device comes and goes: what is drawn stays, and is built for no other.
LEMMA DeviceKeeps ==
  ASSUME ViewerInv, UNCHANGED <<meshVars, ptr, objects, colorVars, viewVars, pick>>,
         Attributes(scene, scene'), Drawn(scene', dev'),
         \A i \in DOMAIN scene : /\ scene'[i].visible = scene[i].visible
                                 /\ scene'[i].range = scene[i].range
                                 /\ scene'[i].map = scene[i].map,
         dev' \in Devices \cup {NoDevice},
         overlay' \in [Overlays -> [visible : BOOLEAN, built : Devices \cup {NoDevice}]], Overlaid'
  PROVE  ViewerInv' /\ ViewKept
<1>u. /\ mesh' = mesh /\ styles' = styles /\ shown' = shown /\ normals' = normals
      /\ ptr' = ptr /\ objects' = objects /\ pick' = pick
      /\ color' = color /\ bar' = bar /\ fieldBox' = fieldBox
      /\ box' = box /\ ndim' = ndim /\ camera' = camera /\ frame' = frame
  BY DEF meshVars, colorVars, viewVars
<1>1. Linked'
  BY <1>u, LinksAttributes DEF ViewerInv, Linked
<1>2. DOMAIN scene' = DOMAIN scene /\ \A i \in DOMAIN scene : scene'[i].of = scene[i].of
  BY DEF Attributes
<1>3. \A x \in Pointers \ {"scalar"} : ptr[x] # NoId => ptr[x] \in DOMAIN scene
  BY DEF ViewerInv, Linked, Links, Pointed
<1>4. StylesFollowMesh'
  <2>1. StyleNames \subseteq Pointers \ {"scalar"}
    BY DEF Pointers, StyleNames
  <2>2. \A s \in StyleNames : ptr[s] # NoId => /\ scene'[ptr[s]].of = scene[ptr[s]].of
                                               /\ scene'[ptr[s]].visible = scene[ptr[s]].visible
    BY <1>2, <1>3, <2>1
  <2> QED
    BY <1>u, <2>2 DEF ViewerInv, StylesFollowMesh
<1>5. NormalsFollowMesh'
  <2>1. OfKind(scene', "normals") = OfKind(scene, "normals")
    BY <1>2 DEF OfKind
  <2>2. {scene'[i].of : i \in OfKind(scene', "normals")} = {scene[i].of : i \in OfKind(scene, "normals")}
    BY <1>2, <2>1 DEF OfKind
  <2> QED
    BY <1>u, <2>2 DEF ViewerInv, NormalsFollowMesh
<1>6. SelectionShown'
  <2>1. ptr["selection"] # NoId => scene'[ptr["selection"]].of = scene[ptr["selection"]].of
    BY <1>2, <1>3 DEF Pointers
  <2> QED
    BY <1>u, <2>1 DEF ViewerInv, SelectionShown
<1>7. ptr["field"] # NoId => ptr["field"] \in DOMAIN scene
  BY <1>3 DEF Pointers
<1>8. Legend'
  <2>1. ptr["scalar"] \in {NoId, ptr["field"]}
    BY DEF ViewerInv, Linked, Links, Pointed
  <2>2. ptr["scalar"] # NoId => /\ scene'[ptr["scalar"]].range = scene[ptr["scalar"]].range
                                /\ scene'[ptr["scalar"]].map = scene[ptr["scalar"]].map
    BY <1>7, <2>1
  <2> QED
    BY <1>u, <2>2 DEF ViewerInv, Legend
<1>9. FieldInView' /\ DimensionIsDomains' /\ Members'
  BY <1>u DEF ViewerInv, FieldInView, DimensionIsDomains, Members
<1>10. ViewKept
  BY <1>u, <1>2, <1>7 DEF ViewKept
<1> QED
  BY <1>1, <1>4, <1>5, <1>6, <1>8, <1>9, <1>10 DEF ViewerInv

\* Initialize, render, release, and the overlays.
LEMMA DeviceCallsKeep ==
  ASSUME ViewerInv, DeviceCalls
  PROVE  ViewerInv' /\ ViewKept
<1>1. \A i \in DOMAIN scene : DrawableOn(scene[i], dev)
  BY DEF ViewerInv, Linked, Links, Drawn
<1>2. /\ dev \in Devices \cup {NoDevice}
      /\ overlay \in [Overlays -> [visible : BOOLEAN, built : Devices \cup {NoDevice}]]
      /\ \A o \in Overlays \ {"title"} : overlay[o].built \in {NoDevice, dev}
  BY DEF ViewerInv, Members, Overlaid
<1>3. ASSUME NEW sc, sc = Released(scene), NEW d
      PROVE  /\ Attributes(scene, sc) /\ Drawn(sc, d)
             /\ \A i \in DOMAIN scene : /\ sc[i].visible = scene[i].visible
                                        /\ sc[i].range = scene[i].range
                                        /\ sc[i].map = scene[i].map
  <2>1. DOMAIN sc = DOMAIN scene /\ \A i \in DOMAIN scene : sc[i] = [scene[i] EXCEPT !.built = NoDevice]
    BY <1>3 DEF Released
  <2>2. \A i \in DOMAIN scene : /\ DrawableOn(sc[i], d) /\ sc[i].of = scene[i].of
                                /\ sc[i].visible = scene[i].visible
                                /\ sc[i].range = scene[i].range /\ sc[i].map = scene[i].map
    BY <1>1, <2>1 DEF DrawableOn
  <2> QED
    BY <2>1, <2>2 DEF Attributes, Drawn
<1>4. CASE \E d \in Devices : Initialize(d)
  <2>1. PICK d \in Devices : Initialize(d)
    BY <1>4
  <2>2. /\ dev' = d /\ scene' = Released(scene)
        /\ overlay' = [o \in Overlays |->
                          IF o = "title" THEN overlay[o] ELSE [overlay[o] EXCEPT !.built = NoDevice]]
        /\ UNCHANGED <<meshVars, ptr, objects, colorVars, viewVars, pick>>
    BY <2>1 DEF Initialize
  <2>3. overlay' \in [Overlays -> [visible : BOOLEAN, built : Devices \cup {NoDevice}]] /\ Overlaid'
    BY <1>2, <2>2 DEF Overlaid
  <2> QED
    BY <1>3, <2>2, <2>3, DeviceKeeps
<1>5. CASE ReleaseResources
  <2>1. /\ dev' = NoDevice /\ scene' = Released(scene)
        /\ overlay' = [o \in Overlays |-> [overlay[o] EXCEPT !.built = NoDevice]]
        /\ UNCHANGED <<meshVars, ptr, objects, colorVars, viewVars, pick>>
    BY <1>5 DEF ReleaseResources
  <2>2. overlay' \in [Overlays -> [visible : BOOLEAN, built : Devices \cup {NoDevice}]] /\ Overlaid'
    BY <1>2, <2>1 DEF Overlaid
  <2> QED
    BY <1>3, <2>1, <2>2, DeviceKeeps
<1>6. CASE Render
  <2>1. /\ dev' = dev /\ scene' = [i \in DOMAIN scene |-> Prepared(i)]
        /\ overlay' = [o \in Overlays |-> UpdatedOverlay(o)]
        /\ UNCHANGED <<meshVars, ptr, objects, colorVars, viewVars, pick>>
    BY <1>6 DEF Render
  <2>2. \A i \in DOMAIN scene : scene'[i] \in {scene[i], [scene[i] EXCEPT !.built = dev]}
    BY <2>1 DEF Prepared
  <2>3. \A i \in DOMAIN scene : /\ DrawableOn(scene'[i], dev) /\ scene'[i].of = scene[i].of
                                /\ scene'[i].visible = scene[i].visible
                                /\ scene'[i].range = scene[i].range /\ scene'[i].map = scene[i].map
    BY <1>1, <2>2 DEF DrawableOn
  <2>4. DOMAIN scene' = DOMAIN scene
    BY <2>1
  <2>5. Attributes(scene, scene') /\ Drawn(scene', dev')
    BY <2>1, <2>3, <2>4 DEF Attributes, Drawn
  <2>6. \A o \in Overlays : overlay'[o] \in {overlay[o], [overlay[o] EXCEPT !.built = dev]}
    BY <2>1 DEF UpdatedOverlay
  <2>7. overlay' \in [Overlays -> [visible : BOOLEAN, built : Devices \cup {NoDevice}]] /\ Overlaid'
    BY <1>2, <2>1, <2>6 DEF Overlaid
  <2> QED
    BY <1>2, <2>1, <2>3, <2>5, <2>7, DeviceKeeps
<1>7. CASE \E o \in Overlays, on \in BOOLEAN : ShowOverlay(o, on)
  <2>1. PICK o \in Overlays, on \in BOOLEAN : ShowOverlay(o, on)
    BY <1>7
  <2>2. /\ overlay' = [overlay EXCEPT ![o].visible = on]
        /\ UNCHANGED <<meshVars, viewVars, colorVars, scene, ptr, objects, pick, dev>>
    BY <2>1 DEF ShowOverlay, drawVars
  <2>3. Attributes(scene, scene') /\ Drawn(scene', dev')
    BY <1>1, <2>2 DEF Attributes, Drawn
  <2>4. overlay' \in [Overlays -> [visible : BOOLEAN, built : Devices \cup {NoDevice}]] /\ Overlaid'
    BY <1>2, <2>2 DEF Overlaid
  <2>5. \A i \in DOMAIN scene : /\ scene'[i].visible = scene[i].visible
                                /\ scene'[i].range = scene[i].range
                                /\ scene'[i].map = scene[i].map
    BY <2>2
  <2> QED
    BY <1>2, <2>2, <2>3, <2>4, <2>5, DeviceKeeps
<1> QED
  BY <1>4, <1>5, <1>6, <1>7 DEF DeviceCalls

\* The widget starts with no mesh and an empty scene.
LEMMA InitViewer == Init => ViewerInv
<1> SUFFICES ASSUME Init PROVE ViewerInv
  OBVIOUS
<1>1. DOMAIN scene = {} /\ DOMAIN objects = {} /\ objects = <<>>
  BY DEF Init
<1>2. \A x \in Pointers : ptr[x] = NoId
  BY DEF Init
<1>3. "scalar" \in Pointers /\ "field" \in Pointers /\ "selection" \in Pointers /\ StyleNames \subseteq Pointers
  BY DEF Pointers
<1>4. Placed(scene) /\ Drawn(scene, dev) /\ Named(scene, objects)
  BY <1>1, FS_EmptySet DEF Placed, Drawn, Named
<1>5. Pointed(scene, ptr)
  BY <1>2, <1>3 DEF Init, Pointed
<1>6. Owned(scene, ptr, objects) /\ Single(scene)
  BY <1>1 DEF Owned, Single
<1>7. Members
  <2>1. mesh \in Meshes \cup {NoMesh} /\ styles \subseteq StyleNames /\ shown \in BOOLEAN
    BY DEF Init, StyleNames
  <2>2. normals \in [on : BOOLEAN, scale : Scales]
    BY ViewerAssumption DEF Init
  <2>3. /\ color \in [map : Colormaps \cup {"categorical"}, pinned : BOOLEAN, range : Int \X Int]
        /\ bar \in [map : Colormaps \cup {"categorical"}, range : Int \X Int]
    BY ViewerAssumption DEF Init
  <2>4. /\ DOMAIN camera = {"mode", "view"} /\ camera.mode \in {"orbit", "pan", "fps"}
        /\ camera.view.by \in {"default", "fit", "frame", "preset", "user"}
    BY DEF Init, Fit
  <2>5. /\ DOMAIN pick = {"has", "kind", "id", "of"}
        /\ pick.has \in BOOLEAN /\ pick.kind \in {"none", "cell", "node", "face"}
    BY DEF Init
  <2>6. overlay \in [Overlays -> [visible : BOOLEAN, built : Devices \cup {NoDevice}]]
    BY DEF Init
  <2>7. fieldBox \subseteq Axis /\ box \subseteq Axis /\ ndim \in {0, 2, 3} /\ dev \in Devices \cup {NoDevice}
    BY DEF Init
  <2> QED
    BY <2>1, <2>2, <2>3, <2>4, <2>5, <2>6, <2>7 DEF Members
<1>8. StylesFollowMesh /\ SelectionShown /\ Legend /\ FieldInView /\ DimensionIsDomains
  BY <1>2, <1>3 DEF Init, StylesFollowMesh, SelectionShown, Legend, FieldInView, DimensionIsDomains
<1>9. NormalsFollowMesh
  BY <1>1 DEF Init, NormalsFollowMesh, OfKind
<1>10. Overlaid
  BY DEF Init, Overlaid
<1> QED
  BY <1>4, <1>5, <1>6, <1>7, <1>8, <1>9, <1>10 DEF ViewerInv, Linked, Links

\* Showing the mesh, or one style of it.
LEMMA ShowMeshKeeps ==
  ASSUME ViewerInv, \/ \E on \in BOOLEAN : ShowMesh(on)
                    \/ \E s \in StyleNames, on \in BOOLEAN : ShowMeshStyle(s, on)
  PROVE  ViewerInv' /\ ViewKept
<1>1. styles \subseteq StyleNames /\ shown \in BOOLEAN
  BY DEF ViewerInv, Members
<1>2. /\ scene' = ApplyMeshVisibility(scene, ptr, shown', styles')
      /\ shown' \in BOOLEAN /\ styles' \subseteq StyleNames
  BY <1>1 DEF ShowMesh, ShowMeshStyle
<1>3. UNCHANGED <<mesh, normals, ptr, objects, colorVars, viewVars, pick, dev, overlay>>
  BY DEF ShowMesh, ShowMeshStyle
<1> QED
  BY <1>2, <1>3, ShowStylesKeeps

\* Every call keeps the scene in step with the widget, and the view where it
\* must stay.
LEMMA StepKeeps == ViewerInv /\ [Next]_vars => ViewerInv' /\ ViewKept
<1> SUFFICES ASSUME ViewerInv, [Next]_vars PROVE ViewerInv' /\ ViewKept
  OBVIOUS
<1>1. CASE \E m \in Meshes : UpdateMesh(m)
  BY <1>1, UpdateMeshKeeps
<1>2. CASE MeshCalls
  <2>1. CASE \E on \in BOOLEAN : ShowMesh(on)
    BY <2>1, ShowMeshKeeps
  <2>2. CASE \E s \in StyleNames, on \in BOOLEAN : ShowMeshStyle(s, on)
    BY <2>2, ShowMeshKeeps
  <2>3. CASE \E on \in BOOLEAN : ShowNormals(on)
    BY <2>3, ShowNormalsKeeps
  <2>4. CASE \E k \in Scales : SetNormalScale(k)
    BY <2>4, ShowNormalsKeeps
  <2>5. CASE \E on \in BOOLEAN : ShowFeatureEdges(on)
    BY <2>5, ShowFeatureEdgesKeeps
  <2>6. CASE \E s \in UNION {Sets[m] : m \in Meshes}, on \in BOOLEAN : ShowBoundary(s, on)
    BY <2>6, ShowBoundaryKeeps
  <2> QED
    BY <1>2, <2>1, <2>2, <2>3, <2>4, <2>5, <2>6 DEF MeshCalls
<1>3. CASE FieldCalls
  <2>1. CASE \E f \in Fields : UpdateColorField(f)
    BY <2>1, UpdateColorFieldKeeps
  <2>2. CASE \E f \in Fields : UpdateScalarField(f)
    BY <2>2, UpdateScalarFieldKeeps
  <2>3. CASE \E r \in Ranges : SetScalarRange(r)
    BY <2>3, SetScalarRangeKeeps
  <2>4. CASE ColorByCategory \/ \E r \in Ranges : ColorByQuality(r)
    BY <2>4, ColorByKeeps
  <2>5. CASE \E map \in Colormaps : SetColormap(map)
    BY <2>5, SetColormapKeeps
  <2>6. CASE ClearCellColoring
    BY <2>6, ClearCellColoringKeeps
  <2> QED
    BY <1>3, <2>1, <2>2, <2>3, <2>4, <2>5, <2>6 DEF FieldCalls
<1>4. CASE ObjectCalls
  <2>1. PICK name \in Names :
           \/ \E m \in Meshes : AddObject(name, m)
           \/ \E t \in Shifts : SetObjectTransform(name, t)
           \/ \E on \in BOOLEAN : SetObjectVisible(name, on)
    BY <1>4 DEF ObjectCalls
  <2> QED
    BY <2>1, AddObjectKeeps, SetObjectTransformKeeps, SetObjectVisibleKeeps
<1>5. CASE PickCalls
  <2>1. CASE \E id \in Ids : PickCell(id) \/ PickNode(id) \/ PickFace(id)
    <3>1. \E kind \in {"cell", "node", "face"}, id \in Ids : SetSelection(kind, id)
      BY <2>1 DEF PickCell, PickNode, PickFace
    <3> QED
      BY <3>1, SetSelectionKeeps
  <2>2. CASE ClearSelection
    BY <2>2, ClearSelectionKeeps
  <2>3. CASE ZoomToSelection
    BY <2>3, CameraCallsKeep
  <2> QED
    BY <1>5, <2>1, <2>2, <2>3 DEF PickCalls
<1>6. CASE FilterCalls
  BY <1>6, FiltersKeep, ClearFiltersKeeps DEF FilterCalls
<1>7. CASE CameraCalls
  BY <1>7, CameraCallsKeep
<1>8. CASE DeviceCalls
  BY <1>8, DeviceCallsKeep
<1>9. CASE UNCHANGED vars
  <2>1. /\ UNCHANGED <<meshVars, drawVars, colorVars, pick, dev, ndim, overlay>>
        /\ box' = box /\ camera' = camera
    BY <1>9 DEF vars, viewVars
  <2>2. box \subseteq Axis /\ CameraTyped
    BY DEF ViewerInv, Members, CameraTyped
  <2>3. CameraTyped'
    BY <2>1, <2>2 DEF CameraTyped
  <2> QED
    BY <2>1, <2>2, <2>3, CameraKeeps
<1> QED
  BY <1>1, <1>2, <1>3, <1>4, <1>5, <1>6, <1>7, <1>8, <1>9 DEF Next

\* What is in the scene is what the members of the widget say of it: no pointer
\* outlives its drawable, no drawable is out of reach, and the mesh, its styles
\* and normals, the selection, the legend, the box and the device agree.
THEOREM SceneFollows == Spec => []SceneInStep
<1>1. Spec => []ViewerInv
  BY InitViewer, StepKeeps, PTL DEF Spec
<1> QED
  BY <1>1, InvImplies, PTL

\* A field recoloured over the same geometry, and a mesh over the same box,
\* leave the pan and zoom of the user alone.
THEOREM ViewIsKept == Spec => KeepsView
<1>1. ViewerInv /\ [Next]_vars => ViewerInv' /\ [ViewKept]_vars
  BY StepKeeps
<1>2. Spec => [][ViewKept]_vars
  BY <1>1, InitViewer, PTL DEF Spec
<1> QED
  BY <1>2 DEF KeepsView, ViewKept

-----------------------------------------------------------------------------
(* The pad of polygons.                                                    *)

\* A part of a sequence is the same in a longer one.
LEMMA SubSeqKept ==
    ASSUME NEW S, NEW s \in Seq(S), NEW t \in Seq(S), NEW m \in Nat, NEW n \in Nat,
           m >= 1, n <= Len(s)
    PROVE  SubSeq(s \o t, m, n) = SubSeq(s, m, n)
<1>1. Joined(s, t, s \o t)
  BY Joining
<1>2. Len(s) \in Nat /\ \A j \in 1 .. Len(s) : (s \o t)[j] = s[j] /\ s[j] \in S
  BY <1>1, LenProperties, ElementOfSeq DEF Joined
<1> DEFINE st == s \o t
           a == SubSeq(st, m, n)
           b == SubSeq(s, m, n)
<1>3. \A i \in m .. n : i \in 1 .. Len(s)
  BY <1>2
<1> HIDE DEF st
<1>4. \A i \in m .. n : st[i] = s[i] /\ s[i] \in S
  BY <1>2, <1>3 DEF st
<1>5. /\ a \in Seq(S) /\ b \in Seq(S) /\ Len(a) = Len(b)
      /\ Len(a) = IF m <= n THEN n - m + 1 ELSE 0
      /\ \A i \in 1 .. n - m + 1 : a[i] = st[m + i - 1] /\ b[i] = s[m + i - 1]
  BY <1>4, SubSeqProperties
<1> HIDE DEF a, b
<1>6. \A i \in 1 .. Len(a) : a[i] = b[i]
  <2>1. \A i \in 1 .. Len(a) : i \in 1 .. n - m + 1 /\ m + i - 1 \in m .. n
    BY <1>5
  <2> QED
    BY <1>4, <1>5, <2>1
<1>7. a = b
  BY <1>5, <1>6, SeqEqual
<1> QED
  BY <1>7 DEF a, b, st

\* What a sequence is made longer by is its last part.
LEMMA SubSeqNew ==
    ASSUME NEW S, NEW s \in Seq(S), NEW t \in Seq(S)
    PROVE  SubSeq(s \o t, Len(s) + 1, Len(s) + Len(t)) = t
<1>1. Joined(s, t, s \o t)
  BY Joining
<1> DEFINE st == s \o t
           m == Len(s) + 1
           n == Len(s) + Len(t)
           a == SubSeq(st, m, n)
<1>2. Len(s) \in Nat /\ Len(t) \in Nat /\ \A j \in 1 .. Len(t) : st[Len(s) + j] = t[j] /\ t[j] \in S
  BY <1>1, ElementOfSeq DEF Joined
<1> HIDE DEF st
<1>3. \A i \in m .. n : st[i] \in S
  <2>1. \A i \in m .. n : i - Len(s) \in 1 .. Len(t) /\ Len(s) + (i - Len(s)) = i
    BY <1>2
  <2> QED
    BY <1>2, <2>1
<1>4. m \in Int /\ n \in Int
  BY <1>2
<1> HIDE DEF m, n
<1>5. /\ a \in Seq(S)
      /\ Len(a) = IF m <= n THEN n - m + 1 ELSE 0
      /\ \A i \in 1 .. n - m + 1 : a[i] = st[m + i - 1]
  BY <1>3, <1>4, SubSeqProperties
<1> HIDE DEF a
<1>6. Len(a) = Len(t)
  BY <1>2, <1>5 DEF m, n
<1>7. \A i \in 1 .. Len(t) : a[i] = t[i]
  <2>1. \A i \in 1 .. Len(t) : i \in 1 .. n - m + 1 /\ m + i - 1 = Len(s) + i
    BY <1>2 DEF m, n
  <2> QED
    BY <1>2, <1>5, <2>1
<1>8. a = t
  BY <1>5, <1>6, <1>7, SeqEqual
<1> QED
  BY <1>8 DEF a, st, m, n

\* The heights of an outline are so many.
LEMMA OutlineHeights ==
    ASSUME NEW ps \in Seq(Int \X Int)
    PROVE  LET edges == Rising(ps)
               ys == UNION {{edges[i].lo[2], edges[i].hi[2]} : i \in DOMAIN edges}
           IN  /\ ys \in SUBSET Int /\ IsFiniteSet(ys)
               /\ IsFiniteSet(DOMAIN edges)
<1> DEFINE n == Len(ps)
           edges == Rising(ps)
           ys == UNION {{edges[i].lo[2], edges[i].hi[2]} : i \in DOMAIN edges}
           Y == [i \in 1 .. n |-> ps[i][2]]
<1>1. n \in Nat /\ DOMAIN ps = 1 .. n /\ \A i \in 1 .. n : ps[i] \in Int \X Int
  BY LenProperties, ElementOfSeq
<1>2. \A i \in 1 .. n : ps[i][2] \in Int
  BY <1>1
<1>3. IsFiniteSet(1 .. n)
  BY <1>1, FS_Interval
<1>4. DOMAIN edges \in SUBSET (1 .. n)
  BY <1>1 DEF Rising
<1>5. ASSUME NEW i \in 1 .. n
      PROVE  (i % n) + 1 \in 1 .. n
  <2>1. i \in Nat /\ n > 0
    BY <1>1
  <2>2. i % n \in 0 .. n - 1
    BY <1>1, <2>1, Remainder
  <2> HIDE DEF n
  <2> QED
    BY <1>1, <2>2
<1>6. ys \in SUBSET Range(Y)
  <2>1. ASSUME NEW i \in DOMAIN edges
        PROVE  edges[i].lo[2] \in Range(Y) /\ edges[i].hi[2] \in Range(Y)
    <3>1. i \in 1 .. n /\ (i % n) + 1 \in 1 .. n
      BY <1>4, <1>5
    <3>2. edges[i] = IF ps[i][2] < After(ps, i)[2] THEN [lo |-> ps[i], hi |-> After(ps, i)]
                                                   ELSE [lo |-> After(ps, i), hi |-> ps[i]]
      BY DEF Rising
    <3>3. After(ps, i) = ps[(i % n) + 1]
      BY DEF After
    <3>4. ps[i][2] \in Range(Y) /\ ps[(i % n) + 1][2] \in Range(Y)
      BY <3>1 DEF Range
    <3> HIDE DEF edges, Y, n
    <3> QED
      BY <3>2, <3>3, <3>4
  <2> HIDE DEF edges, Y
  <2> QED
    BY <2>1
<1>7. IsFiniteSet(Range(Y)) /\ Range(Y) \in SUBSET Int
  <2>1. Y \in Surjection(1 .. n, Range(Y))
    BY <1>2 DEF Surjection, Range
  <2>2. Range(Y) \in SUBSET Int
    BY <1>2 DEF Range
  <2> HIDE DEF Y, n
  <2> QED
    BY <1>3, <2>1, <2>2, FS_Surjection
<1> HIDE DEF ys, Y, edges, n
<1>8. ys \in SUBSET Int /\ IsFiniteSet(ys)
  BY <1>6, <1>7, FS_Subset
<1>9. IsFiniteSet(DOMAIN edges)
  BY <1>3, <1>4, FS_Subset
<1> QED
  BY <1>8, <1>9 DEF ys, edges

\* A decomposition is a sequence.
LEMMA TrapezoidsAreListed ==
    ASSUME NEW ps \in Seq(Int \X Int)
    PROVE  \E S : Trapezoids(ps) \in Seq(S)
<1> DEFINE edges == Rising(ps)
           Cut(band) ==
               LET at == Active(edges, band[1])
               IN  [j \in 1 .. Len(at) \div 2 |->
                       Trapezoid(band[1], band[2], at[2 * j - 1], at[2 * j])]
           ys == UNION {{edges[i].lo[2], edges[i].hi[2]} : i \in DOMAIN edges}
           bands == Bands(ys)
           ss == [b \in DOMAIN bands |-> Cut(bands[b])]
           S == UNION {Range(ss[b]) : b \in DOMAIN bands}
<1>1. Trapezoids(ps) = Concatenated(ss)
  BY DEF Trapezoids
<1>2. ys \in SUBSET Int /\ IsFiniteSet(ys) /\ IsFiniteSet(DOMAIN edges)
  BY OutlineHeights
<1> HIDE DEF edges, ys
<1>3. \E m \in Nat : DOMAIN bands = 1 .. m
  <2> DEFINE h == Ascending(ys)
  <2>1. Lists(h, ys)
    BY <1>2, AscendingLists
  <2>2. Len(h) \in Nat
    BY <2>1 DEF Lists
  <2>3. DOMAIN bands = 1 .. Len(h) - 1
    BY DEF Bands
  <2> HIDE DEF h, bands
  <2>4. CASE Len(h) = 0
    BY <2>3, <2>4
  <2>5. CASE Len(h) # 0
    <3>1. Len(h) - 1 \in Nat
      BY <2>2, <2>5
    <3> QED
      BY <2>3, <3>1
  <2> QED
    BY <2>4, <2>5
<1> HIDE DEF bands
<1>4. ASSUME NEW b \in DOMAIN bands
      PROVE  ss[b] \in Seq(S)
  <2> DEFINE at == Active(edges, bands[b][1])
             k == Len(at) \div 2
  <2>1. Len(at) \in Nat
    <3> DEFINE y == bands[b][1]
               T == {i \in DOMAIN edges : edges[i].lo[2] <= y /\ y < edges[i].hi[2]}
    <3>1. Cardinality(T) \in Nat
      <4>1. T \in SUBSET DOMAIN edges
        OBVIOUS
      <4> HIDE DEF T
      <4> QED
        BY <1>2, <4>1, FS_Subset, FS_CardinalityType
    <3>2. at = [j \in 1 .. Cardinality(T) |-> at[j]]
      BY DEF Active, Spanning
    <3> HIDE DEF T, at
    <3> QED
      BY <3>1, <3>2, Numbers
  <2>2. k \in Nat
    <3> HIDE DEF at
    <3> QED
      BY <2>1
  <2>3. ss[b] = [j \in 1 .. k |-> ss[b][j]]
    OBVIOUS
  <2>4. Range(ss[b]) \subseteq S
    <3> HIDE DEF ss
    <3> QED
      OBVIOUS
  <2> HIDE DEF ss, S, k
  <2>5. ss[b] \in Seq(Range(ss[b]))
    BY <2>2, <2>3, Numbers
  <2> QED
    BY <2>4, <2>5, SeqMonotonic
<1>5. ss = [b \in DOMAIN bands |-> ss[b]]
  OBVIOUS
<1> HIDE DEF ss, S
<1>6. ss \in Seq(Seq(S))
  <2>1. PICK m \in Nat : DOMAIN bands = 1 .. m
    BY <1>3
  <2>2. ss \in [1 .. m -> Seq(S)]
    BY <1>4, <1>5, <2>1
  <2> QED
    BY <2>1, <2>2
<1>7. Concatenated(ss) \in Seq(S)
  BY <1>6, ConcatenatedPlaces
<1> QED
  BY <1>1, <1>7

\* What is taken of an outline: its points up to the first off the plane.
FlatIs(outline) ==
    /\ Flat(outline) \in Seq(Int \X Int) /\ Len(Flat(outline)) \in Nat
    /\ Len(Flat(outline)) = Len(outline) => \A k \in DOMAIN outline : outline[k][3] = 0

\* The points of an outline that decompose() keeps are points of the plane, and
\* they are all of them only where every point lies in the plane.
LEMMA FlatPoints ==
    ASSUME NEW outline \in Outlines
    PROVE  FlatIs(outline)
<1> DEFINE n == Len(outline)
           D == {i \in DOMAIN outline : \A k \in 1 .. i : outline[k][3] = 0}
           Off == {i \in DOMAIN outline : outline[i][3] # 0}
<1>1. outline \in Seq(Int \X Int \X Int)
  BY OutlinesAssumption
<1>2. n \in Nat /\ DOMAIN outline = 1 .. n /\ \A i \in 1 .. n : outline[i] \in Int \X Int \X Int
  BY <1>1, LenProperties, ElementOfSeq
<1>3. \A i \in 1 .. n : <<outline[i][1], outline[i][2]>> \in Int \X Int
  BY <1>2
<1>4. PICK m \in Nat : D = 1 .. m /\ (m = n => Off = {})
  <2>1. CASE Off = {}
    <3>1. D = 1 .. n
      BY <1>2, <2>1
    <3> HIDE DEF D, Off, n
    <3> QED
      BY <1>2, <2>1, <3>1
  <2>2. CASE Off # {}
    <3>1. Off \in SUBSET Nat
      BY <1>2
    <3>2. PICK j \in Off : \A i \in Off : j <= i
      <4> HIDE DEF Off
      <4> QED
        BY <2>2, <3>1, Least
    <3>3. j \in 1 .. n /\ outline[j][3] # 0
      BY <1>2
    <3>4. ASSUME NEW i \in 1 .. n
          PROVE  i \in D <=> i < j
      <4>1. i >= j => i \notin D
        BY <3>3
      <4>2. ASSUME i < j
            PROVE  i \in D
        <5>1. \A k \in 1 .. i : k \in DOMAIN outline /\ k < j /\ j \in Nat
          BY <1>2, <3>3, <4>2
        <5>2. \A k \in 1 .. i : k \notin Off
          <6>1. \A k \in 1 .. i : ~ (j <= k)
            BY <5>1
          <6> HIDE DEF Off
          <6> QED
            BY <3>2, <6>1
        <5> QED
          BY <1>2, <5>1, <5>2
      <4>3. i \in Nat /\ j \in Nat
        BY <1>2, <3>3
      <4> HIDE DEF D, Off, n
      <4> QED
        BY <4>1, <4>2, <4>3
    <3>5. D \subseteq 1 .. n
      BY <1>2
    <3> HIDE DEF D, Off, n
    <3>7. n \in Nat /\ j \in Nat /\ j >= 1 /\ j <= n
      BY <1>2, <3>3
    <3>8. j - 1 \in Nat /\ j - 1 # n
      BY <3>7
    <3>9. \A i \in 1 .. j - 1 : i \in 1 .. n /\ i < j
      BY <3>7
    <3>10. \A i \in 1 .. n : i < j => i \in 1 .. j - 1
      BY <3>7
    <3>6. D = 1 .. j - 1 /\ j - 1 \in Nat /\ j - 1 # n
      BY <3>4, <3>5, <3>8, <3>9, <3>10
    <3> QED
      BY <3>6
  <2> QED
    BY <2>1, <2>2
<1>5. Flat(outline) = [i \in D |-> <<outline[i][1], outline[i][2]>>]
  BY DEF Flat
<1>6. 1 .. m \subseteq 1 .. n
  BY <1>2, <1>4
<1>7. Off = {} => \A k \in DOMAIN outline : outline[k][3] = 0
  OBVIOUS
<1> HIDE DEF D, Off, n
<1>8. Flat(outline) \in [1 .. m -> Int \X Int]
  BY <1>3, <1>4, <1>5, <1>6
<1>9. Flat(outline) \in Seq(Int \X Int) /\ Len(Flat(outline)) = m
  BY <1>8
<1> QED
  BY <1>4, <1>7, <1>9 DEF FlatIs, n

-----------------------------------------------------------------------------
(* The inductive invariant.                                                *)

\* The nodes, and the range in them that a polygon has.
NodesOK ==
    /\ nodes \in Seq(Int \X Int) /\ Len(nodes) \in Nat
    /\ ranges \in Seq([first : Nat, last : Nat])
    /\ \A id \in Polygons : /\ ranges[id].first \in Nat /\ ranges[id].last \in Nat
                            /\ ranges[id].first >= 1 /\ ranges[id].last <= Len(nodes)

\* What has been cut lies in the list of trapezoids, and is the polygon's own.
CacheOK(d) ==
    /\ d = [traps |-> d.traps, cuts |-> d.cuts]
    /\ \E S : d.traps \in Seq(S)
    /\ \A id \in DOMAIN d.cuts :
          /\ id \in Polygons
          /\ d.cuts[id].first \in Nat /\ d.cuts[id].last \in Nat
          /\ d.cuts[id].first >= 1 /\ d.cuts[id].last <= Len(d.traps)
          /\ TrapsOf(d, id) = Alone(id)
Cache == [traps |-> traps, cuts |-> cuts]
PadIInv == NodesOK /\ PadInStep /\ CacheOK(Cache)

\* A polygon has a point, and is one of the plane.
LEMMA PolygonPoints ==
    ASSUME NodesOK, NEW id \in Polygons
    PROVE  NodesOf(id) \in Seq(Int \X Int)
<1> DEFINE m == ranges[id].first
           n == ranges[id].last
<1>1. m \in Nat /\ n \in Nat /\ m >= 1 /\ n <= Len(nodes) /\ nodes \in Seq(Int \X Int)
      /\ Len(nodes) \in Nat
  BY DEF NodesOK
<1> HIDE DEF m, n
<1>2. \A i \in m .. n : i \in 1 .. Len(nodes)
  BY <1>1
<1>3. \A i \in m .. n : nodes[i] \in Int \X Int
  BY <1>1, <1>2, ElementOfSeq
<1>4. SubSeq(nodes, m, n) \in Seq(Int \X Int)
  BY <1>1, <1>3, SubSeqProperties
<1> QED
  BY <1>4 DEF NodesOf, m, n

\* A polygon is cut once, behind what is cut already.
LEMMA DecomposedIsOK ==
    ASSUME NodesOK, NEW d, CacheOK(d), NEW id \in Polygons
    PROVE  CacheOK(Decomposed(d, id)) /\ id \in DOMAIN Decomposed(d, id).cuts
           /\ \A k \in DOMAIN d.cuts : k \in DOMAIN Decomposed(d, id).cuts
<1>1. CASE id \in DOMAIN d.cuts
  BY <1>1 DEF Decomposed
<1>2. CASE id \notin DOMAIN d.cuts
  <2> DEFINE new == AsTuple(Trapezoids(NodesOf(id)))
             n == Len(d.traps)
             range == [first |-> n + 1, last |-> n + Len(new)]
             e == Decomposed(d, id)
  <2>1. PICK S : d.traps \in Seq(S)
    BY DEF CacheOK
  <2>2. PICK T : Trapezoids(NodesOf(id)) \in Seq(T)
    BY PolygonPoints, TrapezoidsAreListed
  <2>3. new \in Seq(T) /\ new = Alone(id)
    <3>1. SubSeq(Trapezoids(NodesOf(id)), 1, Len(Trapezoids(NodesOf(id)))) = Trapezoids(NodesOf(id))
      BY <2>2, SubSeqFull
    <3> QED
      BY <2>2, <3>1 DEF AsTuple, Alone
  <2>4. e = [traps |-> d.traps \o new, cuts |-> Put(d.cuts, id, range)]
    BY <1>2 DEF Decomposed
  <2> HIDE DEF new, e
  <2>5. d.traps \in Seq(S \cup T) /\ new \in Seq(S \cup T)
    BY <2>1, <2>3, SeqMonotonic
  <2>6. Joined(d.traps, new, e.traps)
    BY <2>4, <2>5, Joining
  <2>7. n \in Nat /\ Len(new) \in Nat /\ Len(e.traps) = n + Len(new)
    BY <2>6 DEF Joined
  <2>8. /\ DOMAIN e.cuts = DOMAIN d.cuts \cup {id} /\ e.cuts[id] = range
        /\ \A k \in DOMAIN d.cuts : e.cuts[k] = d.cuts[k]
    <3> HIDE DEF range
    <3> QED
      BY <1>2, <2>4 DEF Put
  <2>9. e.traps \in Seq(S \cup T) /\ e.traps = d.traps \o new
    BY <2>4, <2>5, ConcatProperties
  <2>10. e = [traps |-> e.traps, cuts |-> e.cuts]
    BY <2>4
  <2>11. ASSUME NEW k \in DOMAIN d.cuts
         PROVE  /\ k \in Polygons /\ k \in DOMAIN e.cuts
                /\ e.cuts[k].first \in Nat /\ e.cuts[k].last \in Nat
                /\ e.cuts[k].first >= 1 /\ e.cuts[k].last <= Len(e.traps)
                /\ TrapsOf(e, k) = Alone(k)
    <3> DEFINE a == d.cuts[k].first
               b == d.cuts[k].last
    <3>1. a \in Nat /\ b \in Nat /\ a >= 1 /\ b <= n /\ k \in Polygons /\ SubSeq(d.traps, a, b) = Alone(k)
      BY DEF CacheOK, TrapsOf
    <3>2. SubSeq(e.traps, a, b) = SubSeq(d.traps, a, b)
      <4> HIDE DEF a, b
      <4> QED
        BY <2>5, <2>9, <3>1, SubSeqKept
    <3>3. TrapsOf(e, k) = SubSeq(e.traps, a, b)
      BY <2>8 DEF TrapsOf
    <3>4. b <= Len(e.traps)
      <4> HIDE DEF n, b
      <4> QED
        BY <2>7, <3>1
    <3> HIDE DEF n
    <3> QED
      BY <2>8, <3>1, <3>2, <3>3, <3>4
  <2>12. /\ e.cuts[id].first \in Nat /\ e.cuts[id].last \in Nat
         /\ e.cuts[id].first >= 1 /\ e.cuts[id].last <= Len(e.traps)
         /\ TrapsOf(e, id) = Alone(id)
    <3>1. e.cuts[id].first = n + 1 /\ e.cuts[id].last = n + Len(new)
      BY <2>8
    <3>2. TrapsOf(e, id) = SubSeq(d.traps \o new, n + 1, n + Len(new))
      BY <2>8, <2>9 DEF TrapsOf
    <3>3. TrapsOf(e, id) = new
      BY <2>5, <3>2, SubSeqNew
    <3> HIDE DEF n, range
    <3> QED
      BY <2>3, <2>7, <3>1, <3>3
  <2>13. \A k \in DOMAIN e.cuts : k \in DOMAIN d.cuts \/ k = id
    BY <2>8
  <2>14. CacheOK(e)
    <3>1. \E U : e.traps \in Seq(U)
      BY <2>9
    <3> HIDE DEF n, range
    <3> QED
      BY <2>10, <2>11, <2>12, <2>13, <3>1 DEF CacheOK
  <2> HIDE DEF range, n
  <2> QED
    BY <2>8, <2>14 DEF e
<1> QED
  BY <1>1, <1>2

-----------------------------------------------------------------------------
(* Each step keeps it.                                                     *)

\* The sides of an outline are pairs of its points.
LEMMA SidesArePairs ==
    ASSUME NEW P, NEW ps \in Seq(P)
    PROVE  Sides(ps) \in Seq(P \X P)
<1> DEFINE n == Len(ps)
<1>1. n \in Nat /\ DOMAIN ps = 1 .. n /\ \A i \in 1 .. n : ps[i] \in P
  BY LenProperties, ElementOfSeq
<1>2. ASSUME NEW i \in 1 .. n
      PROVE  <<ps[i], After(ps, i)>> \in P \X P
  <2>1. i \in Nat /\ n > 0
    BY <1>1
  <2>2. i % n \in 0 .. n - 1
    BY <1>1, <2>1, Remainder
  <2>3. (i % n) + 1 \in 1 .. n
    <3> HIDE DEF n
    <3> QED
      BY <1>1, <2>2
  <2> QED
    BY <1>1, <2>3 DEF After
<1>3. Sides(ps) = [i \in 1 .. n |-> <<ps[i], After(ps, i)>>]
  BY <1>1 DEF Sides
<1> HIDE DEF n
<1>4. Sides(ps) \in [1 .. n -> P \X P]
  BY <1>2, <1>3
<1> QED
  BY <1>1, <1>4

AllSides == [id \in Polygons |-> Sides(NodesOf(id))]
\* The sides of all polygons are one list for each polygon of the pad.
LEMMA AllSidesAreListed ==
    ASSUME NodesOK
    PROVE  AllSides \in Seq(Seq((Int \X Int) \X (Int \X Int))) /\ Len(AllSides) = Len(ranges)
<1> DEFINE S == (Int \X Int) \X (Int \X Int)
<1>1. Len(ranges) \in Nat /\ Polygons = 1 .. Len(ranges)
  BY LenProperties DEF NodesOK, Polygons
<1>2. \A id \in Polygons : Sides(NodesOf(id)) \in Seq(S)
  BY PolygonPoints, SidesArePairs
<1> HIDE DEF S
<1>3. AllSides \in [1 .. Len(ranges) -> Seq(S)]
  BY <1>1, <1>2 DEF AllSides
<1>4. AllSides \in Seq(Seq(S)) /\ Len(AllSides) = Len(ranges)
  BY <1>1, <1>3
<1> QED
  BY <1>4 DEF S

\* While the polygons that there are stay, so does what was made of them.
LEMMA CutsStay ==
    ASSUME PadIInv, UNCHANGED <<traps, cuts, area>>,
           \A id \in Polygons : id \in Polygons' /\ NodesOf(id)' = NodesOf(id)
    PROVE  CutsAreOwn' /\ CacheOK(Cache)'
<1>1. \A id \in Polygons : id \in Polygons' /\ Alone(id)' = Alone(id)
  BY DEF Alone
<1>2. traps' = traps /\ cuts' = cuts /\ area' = area /\ Cache' = Cache
  BY DEF Cache
<1>3. CacheOK(Cache)'
  <2>1. CacheOK(Cache)
    BY DEF PadIInv
  <2> HIDE DEF Cache
  <2> QED
    BY <1>1, <1>2, <2>1 DEF CacheOK, TrapsOf
<1>4. CutsAreOwn'
  <2>1. CutsAreOwn
    BY DEF PadIInv, PadInStep
  <2>2. ASSUME NEW id \in DOMAIN cuts'
        PROVE  id \in Polygons' /\ TrapsOf([traps |-> traps', cuts |-> cuts'], id) = Alone(id)'
    BY <1>1, <1>2, <2>1 DEF CutsAreOwn
  <2>3. ASSUME area.op # "none"
        PROVE  \E p, q \in Polygons' :
                  /\ p = area'.of[1] /\ q = area'.of[2]
                  /\ area'.result = IF p # q THEN Combined(Alone(p)', Alone(q)', area'.op)
                                    ELSE IF area'.op = "difference" THEN <<>> ELSE <<NodesOf(p)'>>
    <3>1. PICK p \in Polygons, q \in Polygons :
            /\ p = area.of[1] /\ q = area.of[2]
            /\ area.result = IF p # q THEN Combined(Alone(p), Alone(q), area.op)
                             ELSE IF area.op = "difference" THEN <<>> ELSE <<NodesOf(p)>>
      BY <2>1, <2>3 DEF CutsAreOwn
    <3>2. Alone(p)' = Alone(p) /\ Alone(q)' = Alone(q) /\ NodesOf(p)' = NodesOf(p)
          /\ p \in Polygons' /\ q \in Polygons'
      BY <1>1
    <3> QED
      BY <1>2, <3>1, <3>2
  <2> SUFFICES ASSUME area'.op # "none"
               PROVE  LET p == area'.of[1]
                          q == area'.of[2]
                      IN  /\ {p, q} \subseteq Polygons'
                          /\ area'.result =
                                IF p # q
                                THEN Combined(AsTuple(Trapezoids(SubSeq(nodes', ranges'[p].first, ranges'[p].last))),
                                              AsTuple(Trapezoids(SubSeq(nodes', ranges'[q].first, ranges'[q].last))),
                                              area'.op)
                                ELSE IF area'.op = "difference" THEN <<>>
                                ELSE <<SubSeq(nodes', ranges'[p].first, ranges'[p].last)>>
    BY <2>2 DEF CutsAreOwn, Alone, NodesOf
  <2>5. PICK p \in Polygons', q \in Polygons' :
          /\ p = area'.of[1] /\ q = area'.of[2]
          /\ area'.result = IF p # q THEN Combined(Alone(p)', Alone(q)', area'.op)
                            ELSE IF area'.op = "difference" THEN <<>> ELSE <<NodesOf(p)'>>
    BY <1>2, <2>3
  <2> QED
    BY <2>5 DEF Alone, NodesOf
<1> QED
  BY <1>3, <1>4

\* A polygon is added, or its nodes are left behind.
LEMMA AddPolygonKeeps ==
    ASSUME PadIInv, NEW outline \in Outlines, AddPolygon(outline)
    PROVE  PadIInv'
<1> DEFINE taken == Flat(outline)
           S == (Int \X Int) \X (Int \X Int)
           N == Len(ranges)
<1>1. /\ taken \in Seq(Int \X Int) /\ Len(taken) \in Nat
      /\ Len(taken) = Len(outline) => \A k \in DOMAIN outline : outline[k][3] = 0
  BY FlatPoints DEF FlatIs
<1>2. nodes' = nodes \o taken /\ UNCHANGED <<traps, cuts, area>> /\ Len(outline) >= 3
  BY DEF AddPolygon
<1>3. NodesOK /\ PolygonsAreAdded
  BY DEF PadIInv, PadInStep
<1>4. /\ nodes \in Seq(Int \X Int) /\ Len(nodes) \in Nat
      /\ ranges \in Seq([first : Nat, last : Nat]) /\ N \in Nat /\ Polygons = 1 .. N
      /\ \A id \in Polygons : /\ ranges[id].first \in Nat /\ ranges[id].last \in Nat
                              /\ ranges[id].first >= 1 /\ ranges[id].last <= Len(nodes)
  BY <1>3, LenProperties DEF NodesOK, Polygons
<1> HIDE DEF taken
<1>5. /\ nodes' \in Seq(Int \X Int) /\ Len(nodes') = Len(nodes) + Len(taken) /\ Len(nodes') \in Nat
  <2>1. Joined(nodes, taken, nodes')
    BY <1>1, <1>2, <1>4, Joining
  <2>2. nodes' \in Seq(Int \X Int)
    BY <1>1, <1>2, <1>4, ConcatProperties
  <2> QED
    BY <2>1, <2>2, <1>4, <1>1 DEF Joined
<1>6. ASSUME NEW id \in Polygons
      PROVE  SubSeq(nodes', ranges[id].first, ranges[id].last) = NodesOf(id)
  <2> DEFINE m == ranges[id].first
             n == ranges[id].last
  <2>1. m \in Nat /\ n \in Nat /\ m >= 1 /\ n <= Len(nodes)
    BY <1>4
  <2> HIDE DEF m, n
  <2>2. SubSeq(nodes \o taken, m, n) = SubSeq(nodes, m, n)
    BY <1>1, <1>4, <2>1, SubSeqKept
  <2> QED
    BY <1>2, <2>2 DEF NodesOf, m, n
<1>7. CASE Len(taken) = Len(outline)
  <2> DEFINE r == [first |-> Len(nodes) + 1, last |-> Len(nodes')]
  <2>1. ranges' = Append(ranges, r) /\ edgeIndex' = edgeIndex \o Sides(taken)
    BY <1>7 DEF AddPolygon, taken
  <2>2. r \in [first : Nat, last : Nat] /\ r.first = Len(nodes) + 1 /\ r.last = Len(nodes')
    BY <1>4, <1>5
  <2> HIDE DEF r
  <2>3. /\ ranges' \in Seq([first : Nat, last : Nat]) /\ Len(ranges') = N + 1
        /\ ranges'[N + 1] = r /\ \A id \in 1 .. N : ranges'[id] = ranges[id]
        /\ Polygons' = 1 .. N + 1 /\ N + 1 \in 1 .. N + 1
        /\ \A id \in 1 .. N + 1 : id \in 1 .. N \/ id = N + 1
        /\ \A id \in 1 .. N : id \in 1 .. N + 1
    <3>1. ranges' \in Seq([first : Nat, last : Nat]) /\ Len(ranges') = N + 1
          /\ ranges'[N + 1] = r /\ \A id \in 1 .. N : ranges'[id] = ranges[id]
      BY <1>4, <2>1, <2>2, AppendProperties
    <3>2. Polygons' = 1 .. N + 1
      BY <3>1, LenProperties DEF Polygons
    <3> HIDE DEF N
    <3> QED
      BY <1>4, <3>1, <3>2
  <2> HIDE DEF N
  <2>4. NodesOK'
    <3>1. ASSUME NEW id \in Polygons'
          PROVE  /\ ranges'[id].first \in Nat /\ ranges'[id].last \in Nat
                 /\ ranges'[id].first >= 1 /\ ranges'[id].last <= Len(nodes')
      <4>1. CASE id \in 1 .. N
        <5>1. ranges'[id] = ranges[id] /\ id \in Polygons
          BY <1>4, <2>3, <4>1
        <5> QED
          BY <1>1, <1>4, <1>5, <5>1
      <4>2. CASE id = N + 1
        BY <1>1, <1>4, <1>5, <2>2, <2>3, <4>2
      <4> QED
        BY <2>3, <4>1, <4>2
    <3> QED
      BY <1>5, <2>3, <3>1 DEF NodesOK
  <2>5. \A id \in 1 .. N : NodesOf(id)' = NodesOf(id)
    BY <1>4, <1>6, <2>3 DEF NodesOf
  <2> DEFINE Its(id) == SubSeq(nodes', ranges'[id].first, ranges'[id].last)
  <2>a. \A id \in 1 .. N : Its(id) = NodesOf(id)
    BY <2>5 DEF NodesOf
  <2>6. Its(N + 1) = taken
    <3>1. SubSeq(nodes', Len(nodes) + 1, Len(nodes')) = taken
      BY <1>1, <1>2, <1>4, <1>5, SubSeqNew
    <3>2. ranges'[N + 1].first = Len(nodes) + 1 /\ ranges'[N + 1].last = Len(nodes')
      BY <2>2, <2>3
    <3> QED
      BY <3>1, <3>2
  <2> HIDE DEF Its
  <2>7. ASSUME NEW id \in Polygons'
        PROVE  \E o \in Outlines : /\ Len(o) >= 3 /\ \A k \in DOMAIN o : o[k][3] = 0
                                   /\ Its(id) = Flat(o)
    <3>1. CASE id \in 1 .. N
      BY <1>3, <1>4, <2>a, <3>1 DEF PolygonsAreAdded
    <3>2. CASE id = N + 1
      BY <1>1, <1>2, <1>7, <2>6, <3>2 DEF taken
    <3> QED
      BY <2>3, <3>1, <3>2
  <2>8. edgeIndex' = Concatenated(AllSides')
    <3>1. AllSides \in Seq(Seq(S)) /\ Len(AllSides) = N
      BY <1>3, AllSidesAreListed DEF N
    <3>2. Sides(taken) \in Seq(S)
      BY <1>1, SidesArePairs
    <3> HIDE DEF S
    <3>3. Concatenated(Append(AllSides, Sides(taken))) = Concatenated(AllSides) \o Sides(taken)
      BY <3>1, <3>2, ConcatenatedAppend
    <3>4. edgeIndex = Concatenated(AllSides)
      BY <1>3 DEF PolygonsAreAdded, AllSides
    <3>5. AllSides' = Append(AllSides, Sides(taken))
      <4> DEFINE a == Append(AllSides, Sides(taken))
      <4>0. /\ a[N + 1] = Sides(taken) /\ \A id \in 1 .. N : a[id] = AllSides[id]
            /\ a \in Seq(Seq(S)) /\ Len(a) = N + 1
        BY <3>1, <3>2, AppendProperties
      <4>1. a \in [1 .. N + 1 -> Seq(S)]
        <5> HIDE DEF a
        <5> QED
          BY <4>0, LenProperties
      <4> HIDE DEF a
      <4>2. \A id \in 1 .. N : AllSides[id] = Sides(NodesOf(id))
        BY <1>4 DEF AllSides
      <4>3. ASSUME NEW id \in 1 .. N + 1
            PROVE  a[id] = Sides(Its(id))
        <5>1. CASE id \in 1 .. N
          BY <2>a, <4>0, <4>2, <5>1
        <5>2. CASE id = N + 1
          BY <2>6, <4>0, <5>2
        <5> QED
          BY <2>3, <5>1, <5>2
      <4>4. AllSides' = [id \in 1 .. N + 1 |-> Sides(Its(id))]
        BY <2>3 DEF AllSides, NodesOf, Its
      <4>5. a = [id \in 1 .. N + 1 |-> Sides(Its(id))]
        BY <4>1, <4>3
      <4> QED
        BY <4>4, <4>5 DEF a
    <3> QED
      BY <2>1, <3>3, <3>4, <3>5
  <2>9. PolygonsAreAdded'
    BY <2>7, <2>8 DEF PolygonsAreAdded, AllSides, NodesOf, Its
  <2>10. CutsAreOwn' /\ CacheOK(Cache)'
    BY <1>2, <1>4, <2>3, <2>5, CutsStay
  <2> QED
    BY <2>4, <2>9, <2>10 DEF PadIInv, PadInStep
<1>8. CASE Len(taken) # Len(outline)
  <2>1. ranges' = ranges /\ edgeIndex' = edgeIndex
    BY <1>8 DEF AddPolygon, taken
  <2>2. Polygons' = Polygons
    BY <2>1 DEF Polygons
  <2>3. \A id \in Polygons : NodesOf(id)' = NodesOf(id)
    BY <1>6, <2>1 DEF NodesOf
  <2>4. NodesOK'
    <3>1. ASSUME NEW id \in Polygons'
          PROVE  /\ ranges'[id].first \in Nat /\ ranges'[id].last \in Nat
                 /\ ranges'[id].first >= 1 /\ ranges'[id].last <= Len(nodes')
      <4>1. id \in Polygons /\ ranges'[id] = ranges[id]
        BY <2>1, <2>2
      <4>2. /\ ranges[id].first \in Nat /\ ranges[id].last \in Nat
            /\ ranges[id].first >= 1 /\ ranges[id].last <= Len(nodes)
        BY <1>4, <4>1
      <4> HIDE DEF N
      <4> QED
        BY <1>1, <1>4, <1>5, <4>1, <4>2
    <3>2. ranges' \in Seq([first : Nat, last : Nat])
      BY <1>4, <2>1
    <3> HIDE DEF N
    <3> QED
      BY <1>5, <3>1, <3>2 DEF NodesOK
  <2>5. PolygonsAreAdded'
    <3>1. AllSides' = AllSides
      <4>1. \A id \in Polygons : Sides(NodesOf(id)') = Sides(NodesOf(id))
        BY <2>3
      <4>2. AllSides' = [id \in Polygons |-> Sides(NodesOf(id)')]
        BY <2>2 DEF AllSides, Sides, After
      <4> QED
        BY <4>1, <4>2 DEF AllSides
    <3>2. edgeIndex' = Concatenated(AllSides')
      BY <1>3, <2>1, <3>1 DEF PolygonsAreAdded, AllSides
    <3> QED
      BY <1>3, <2>2, <2>3, <3>2 DEF PolygonsAreAdded, AllSides
  <2>6. CutsAreOwn' /\ CacheOK(Cache)'
    BY <1>2, <2>2, <2>3, CutsStay
  <2> QED
    BY <2>4, <2>5, <2>6 DEF PadIInv, PadInStep
<1> QED
  BY <1>7, <1>8

\* The nodes and what was added stay while nodes, ranges and the index do.
LEMMA PolygonsStay ==
    ASSUME PadIInv, UNCHANGED <<nodes, ranges>>,
           edgeIndex' \in {edgeIndex, Concatenated(AllSides)}
    PROVE  /\ NodesOK' /\ PolygonsAreAdded'
           /\ \A id \in Polygons : id \in Polygons' /\ NodesOf(id)' = NodesOf(id)
<1>1. nodes' = nodes /\ ranges' = ranges /\ edgeIndex' = Concatenated(AllSides)
  BY DEF PadIInv, PadInStep, PolygonsAreAdded, AllSides
<1>2. NodesOK'
  BY <1>1 DEF PadIInv, NodesOK, Polygons
<1>3. Polygons' = Polygons /\ \A id \in Polygons : NodesOf(id)' = NodesOf(id)
  BY <1>1 DEF Polygons, NodesOf
<1>4. PolygonsAreAdded'
  <2>1. AllSides' = AllSides
    BY <1>3 DEF AllSides
  <2>2. edgeIndex' = Concatenated(AllSides')
    BY <1>1, <2>1
  <2> QED
    BY <1>3, <2>2 DEF PadIInv, PadInStep, PolygonsAreAdded, AllSides
<1> QED
  BY <1>2, <1>3, <1>4

\* What a call has cut beside what was cut.
LEMMA CutMore ==
    ASSUME PadIInv, UNCHANGED <<nodes, ranges, edgeIndex>>,
           NEW d, CacheOK(d), traps' = d.traps, cuts' = d.cuts,
           area'.op # "none" => \E p, q \in Polygons :
               /\ p = area'.of[1] /\ q = area'.of[2]
               /\ area'.result = IF p # q THEN Combined(Alone(p), Alone(q), area'.op)
                                 ELSE IF area'.op = "difference" THEN <<>> ELSE <<NodesOf(p)>>
    PROVE  PadIInv'
<1>1. /\ NodesOK' /\ PolygonsAreAdded'
      /\ \A id \in Polygons : id \in Polygons' /\ NodesOf(id)' = NodesOf(id)
  BY PolygonsStay
<1>2. \A id \in Polygons : id \in Polygons' /\ Alone(id)' = Alone(id)
  BY <1>1 DEF Alone
<1>3. Cache' = d
  BY DEF Cache, CacheOK
<1>4. /\ d = [traps |-> d.traps, cuts |-> d.cuts]
      /\ \E S : d.traps \in Seq(S)
      /\ \A id \in DOMAIN d.cuts :
            /\ id \in Polygons'
            /\ d.cuts[id].first \in Nat /\ d.cuts[id].last \in Nat
            /\ d.cuts[id].first >= 1 /\ d.cuts[id].last <= Len(d.traps)
            /\ TrapsOf(d, id) = Alone(id)'
  <2>1. \A id \in DOMAIN d.cuts :
            /\ id \in Polygons
            /\ d.cuts[id].first \in Nat /\ d.cuts[id].last \in Nat
            /\ d.cuts[id].first >= 1 /\ d.cuts[id].last <= Len(d.traps)
            /\ TrapsOf(d, id) = Alone(id)
    BY DEF CacheOK
  <2>2. d = [traps |-> d.traps, cuts |-> d.cuts] /\ \E S : d.traps \in Seq(S)
    BY DEF CacheOK
  <2> QED
    BY <1>2, <2>1, <2>2
<1>5. CacheOK(Cache)'
  <2> HIDE DEF Cache
  <2> QED
    BY <1>3, <1>4 DEF CacheOK, TrapsOf
<1>6. CutsAreOwn'
  <2>1. \A id \in DOMAIN cuts' : id \in Polygons' /\ TrapsOf([traps |-> traps', cuts |-> cuts'], id) = Alone(id)'
    <3>1. [traps |-> traps', cuts |-> cuts'] = d
      BY <1>4
    <3> QED
      BY <1>4, <3>1
  <2> SUFFICES ASSUME area'.op # "none"
               PROVE  LET p == area'.of[1]
                          q == area'.of[2]
                      IN  /\ {p, q} \subseteq Polygons'
                          /\ area'.result =
                                IF p # q
                                THEN Combined(AsTuple(Trapezoids(SubSeq(nodes', ranges'[p].first, ranges'[p].last))),
                                              AsTuple(Trapezoids(SubSeq(nodes', ranges'[q].first, ranges'[q].last))),
                                              area'.op)
                                ELSE IF area'.op = "difference" THEN <<>>
                                ELSE <<SubSeq(nodes', ranges'[p].first, ranges'[p].last)>>
    BY <2>1 DEF CutsAreOwn, Alone, NodesOf
  <2>2. PICK p \in Polygons, q \in Polygons :
          /\ p = area'.of[1] /\ q = area'.of[2]
          /\ area'.result = IF p # q THEN Combined(Alone(p), Alone(q), area'.op)
                            ELSE IF area'.op = "difference" THEN <<>> ELSE <<NodesOf(p)>>
    OBVIOUS
  <2>3. /\ p \in Polygons' /\ q \in Polygons'
        /\ area'.result = IF p # q THEN Combined(Alone(p)', Alone(q)', area'.op)
                          ELSE IF area'.op = "difference" THEN <<>> ELSE <<NodesOf(p)'>>
    BY <1>1, <1>2, <2>2
  <2> QED
    BY <2>2, <2>3 DEF Alone, NodesOf
<1> QED
  BY <1>1, <1>5, <1>6 DEF PadIInv, PadInStep

\* What the last operation has left, while there is no other.
LEMMA ResultStays ==
    ASSUME PadIInv, area' = area, area'.op # "none"
    PROVE  \E p, q \in Polygons :
               /\ p = area'.of[1] /\ q = area'.of[2]
               /\ area'.result = IF p # q THEN Combined(Alone(p), Alone(q), area'.op)
                                 ELSE IF area'.op = "difference" THEN <<>> ELSE <<NodesOf(p)>>
  BY DEF PadIInv, PadInStep, CutsAreOwn

\* An operation on two polygons.
LEMMA BooleanKeeps ==
    ASSUME PadIInv, NEW op \in Ops, NEW p \in Polygons, NEW q \in Polygons, Boolean(op, p, q)
    PROVE  PadIInv'
<1>1. NodesOK /\ CacheOK(Cache) /\ UNCHANGED <<nodes, ranges, edgeIndex>>
  BY DEF PadIInv, Boolean
<1>2. CASE p = q
  <2>1. area' = [op |-> op, of |-> <<p, q>>,
                 result |-> IF op = "difference" THEN <<>> ELSE <<NodesOf(p)>>]
        /\ traps' = Cache.traps /\ cuts' = Cache.cuts
    BY <1>2 DEF Boolean, Cache
  <2>2. \E x, y \in Polygons :
               /\ x = area'.of[1] /\ y = area'.of[2]
               /\ area'.result = IF x # y THEN Combined(Alone(x), Alone(y), area'.op)
                                 ELSE IF area'.op = "difference" THEN <<>> ELSE <<NodesOf(x)>>
    BY <1>2, <2>1
  <2> HIDE DEF Cache
  <2> QED
    BY <1>1, <2>1, <2>2, CutMore
<1>3. CASE p # q
  <2> DEFINE e == Decomposed(Cache, p)
             d == Decomposed(e, q)
  <2>1. /\ traps' = d.traps /\ cuts' = d.cuts
        /\ area' = [op |-> op, of |-> <<p, q>>, result |-> Combined(TrapsOf(d, p), TrapsOf(d, q), op)]
    BY <1>3 DEF Boolean, Cache
  <2> HIDE DEF Cache
  <2>2. CacheOK(e) /\ p \in DOMAIN e.cuts
    BY <1>1, DecomposedIsOK
  <2> HIDE DEF e
  <2>3. CacheOK(d) /\ q \in DOMAIN d.cuts /\ p \in DOMAIN d.cuts
    BY <1>1, <2>2, DecomposedIsOK
  <2> HIDE DEF d
  <2>4. TrapsOf(d, p) = Alone(p) /\ TrapsOf(d, q) = Alone(q)
    BY <2>3 DEF CacheOK
  <2>5. \E x, y \in Polygons :
               /\ x = area'.of[1] /\ y = area'.of[2]
               /\ area'.result = IF x # y THEN Combined(Alone(x), Alone(y), area'.op)
                                 ELSE IF area'.op = "difference" THEN <<>> ELSE <<NodesOf(x)>>
    <3>1. area'.of[1] = p /\ area'.of[2] = q /\ area'.op = op
          /\ area'.result = Combined(Alone(p), Alone(q), op)
      BY <2>1, <2>4
    <3> QED
      BY <1>3, <3>1
  <2> QED
    BY <1>1, <2>1, <2>3, <2>5, CutMore
<1> QED
  BY <1>2, <1>3

\* The tables of the pad belong together after every sequence of calls, for any
\* outlines: a polygon keeps its nodes and its own trapezoids.
THEOREM PadStaysInStep == PolygonSpec => []PadInStep
<1>1. PolygonInit => PadIInv
  <2> SUFFICES ASSUME PolygonInit
               PROVE  PadIInv
    OBVIOUS
  <2>1. /\ nodes = <<>> /\ ranges = <<>> /\ edgeIndex = <<>> /\ traps = <<>> /\ cuts = <<>>
        /\ area.op = "none"
    BY DEF PolygonInit, NoArea
  <2>2. Polygons = {} /\ DOMAIN cuts = {} /\ Len(nodes) = 0
    BY <2>1 DEF Polygons
  <2>3. NodesOK
    BY <2>1, <2>2 DEF NodesOK
  <2>4. CacheOK(Cache)
    <3>1. <<>> \in Seq({})
      OBVIOUS
    <3> QED
      BY <2>1, <2>2, <3>1 DEF CacheOK, Cache
  <2>5. PolygonsAreAdded
    <3>1. AllSides = <<>>
      BY <2>2 DEF AllSides
    <3>2. Concatenated(<<>>) = <<>>
      <4> DEFINE S == {}
      <4>1. <<>> \in Seq(Seq(S)) /\ Len(<<>>) = 0
        OBVIOUS
      <4>2. PICK f \in [0 .. Len(<<>>) -> Seq(S)] : Joins(f, <<>>) /\ Concatenated(<<>>) = f[Len(<<>>)]
        BY <4>1, ConcatenatedIs
      <4> QED
        BY <4>1, <4>2 DEF Joins
    <3> QED
      BY <2>1, <2>2, <3>1, <3>2 DEF PolygonsAreAdded, AllSides
  <2>6. CutsAreOwn
    BY <2>1, <2>2 DEF CutsAreOwn
  <2> QED
    BY <2>3, <2>4, <2>5, <2>6 DEF PadIInv, PadInStep
<1>2. PadIInv /\ [PolygonNext]_polygonVars => PadIInv'
  <2> SUFFICES ASSUME PadIInv, [PolygonNext]_polygonVars
               PROVE  PadIInv'
    OBVIOUS
  <2>1. CASE \E outline \in Outlines : AddPolygon(outline)
    BY <2>1, AddPolygonKeeps
  <2>2. CASE RebuildRtree
    <3>1. UNCHANGED <<nodes, ranges>> /\ UNCHANGED <<traps, cuts, area>>
          /\ edgeIndex' = Concatenated(AllSides)
      BY <2>2 DEF RebuildRtree, AllSides
    <3>2. /\ NodesOK' /\ PolygonsAreAdded'
          /\ \A id \in Polygons : id \in Polygons' /\ NodesOf(id)' = NodesOf(id)
      BY <3>1, PolygonsStay
    <3>3. CutsAreOwn' /\ CacheOK(Cache)'
      BY <3>1, <3>2, CutsStay
    <3> QED
      BY <3>2, <3>3 DEF PadIInv, PadInStep
  <2>3. CASE \E id \in Polygons : DecomposeToTrapezoid(id)
    <3>1. PICK id \in Polygons : DecomposeToTrapezoid(id)
      BY <2>3
    <3> DEFINE d == Decomposed(Cache, id)
    <3>2. traps' = d.traps /\ cuts' = d.cuts /\ area' = area /\ UNCHANGED <<nodes, ranges, edgeIndex>>
      BY <3>1 DEF DecomposeToTrapezoid, Cache
    <3>3. CacheOK(d)
      BY DecomposedIsOK DEF PadIInv
    <3> HIDE DEF d
    <3> QED
      BY <3>2, <3>3, ResultStays, CutMore
  <2>4. CASE \E op \in Ops, p, q \in Polygons : Boolean(op, p, q)
    BY <2>4, BooleanKeeps
  <2>5. CASE UNCHANGED polygonVars
    <3>1. UNCHANGED <<nodes, ranges>> /\ UNCHANGED <<traps, cuts, area>> /\ edgeIndex' = edgeIndex
      BY <2>5 DEF polygonVars
    <3>2. /\ NodesOK' /\ PolygonsAreAdded'
          /\ \A id \in Polygons : id \in Polygons' /\ NodesOf(id)' = NodesOf(id)
      BY <3>1, PolygonsStay
    <3>3. CutsAreOwn' /\ CacheOK(Cache)'
      BY <3>1, <3>2, CutsStay
    <3> QED
      BY <3>2, <3>3 DEF PadIInv, PadInStep
  <2> QED
    BY <2>1, <2>2, <2>3, <2>4, <2>5 DEF PolygonNext
<1>3. PadIInv => PadInStep
  BY DEF PadIInv
<1> QED
  BY <1>1, <1>2, <1>3, PTL DEF PolygonSpec

-----------------------------------------------------------------------------
(* The mesh.                                                               *)

\* A sum, number by number.
Sums(f, base, s) ==
    f[0] = base /\ \A k \in 1 .. Len(s) : f[k] = f[k - 1] + s[k]

AllSums(base, s) ==
    Accumulate(+, base, s)

\* They are taken one by one.
LEMMA SumsRun ==
    ASSUME NEW base, NEW s, Len(s) \in Nat
    PROVE  \E f : Sums(f, base, s) /\ AllSums(base, s) = f[Len(s)]
<1> DEFINE n == Len(s)
           Step(v, x) == CHOOSE r \in {w + x : w \in {v}} : TRUE
           Runs(m, h) == h = [k \in 0 .. m |-> IF k = 0 THEN base ELSE Step(h[k - 1], s[k])]
           f == CHOOSE h : Runs(n, h)
           Has == {m \in 0 .. n : \E h : Runs(m, h)}
<1>1. AllSums(base, s) = f[n]
  <2> DEFINE From(t) == (CHOOSE h : h = [k \in 0 .. Len(t) |->
                            IF k = 0 THEN base ELSE Step(h[k - 1], t[k])])[Len(t)]
  <2>1. AllSums(base, s) = CHOOSE r \in {From(t) : t \in {s}} : TRUE
    BY DEF Accumulate, AllSums
  <2>2. From(s) = f[n]
    OBVIOUS
  <2> HIDE DEF From, f
  <2>3. {From(t) : t \in {s}} = {f[n]}
    BY <2>2
  <2> QED
    BY <2>1, <2>3, OnlyChoice
<1>2. \A v, x : Step(v, x) = v + x
  BY OnlyChoice
<1> HIDE DEF Step, n
<1>3. 0 \in Has
  <2>1. Runs(0, [k \in 0 .. 0 |-> base])
    OBVIOUS
  <2> HIDE DEF Runs
  <2> QED
    BY <2>1 DEF n
<1>4. ASSUME NEW m \in 1 .. n, m - 1 \in Has
      PROVE  m \in Has
  <2>1. PICK g : Runs(m - 1, g)
    BY <1>4
  <2> DEFINE h == [k \in 0 .. m |-> IF k = m THEN Step(g[m - 1], s[m]) ELSE g[k]]
  <2>2. ASSUME NEW k \in 0 .. m
        PROVE  h[k] = IF k = 0 THEN base ELSE Step(h[k - 1], s[k])
    <3>1. CASE k = m
      BY <3>1
    <3>2. CASE k # m
      <4>1. k \in 0 .. m - 1 /\ h[k] = g[k] /\ (k # 0 => h[k - 1] = g[k - 1])
        BY <3>2
      <4>2. g[k] = IF k = 0 THEN base ELSE Step(g[k - 1], s[k])
        BY <2>1, <4>1
      <4> HIDE DEF h
      <4> QED
        BY <4>1, <4>2
    <3> QED
      BY <3>1, <3>2
  <2>3. Runs(m, h)
    BY <2>2
  <2>4. m \in 0 .. n
    OBVIOUS
  <2> HIDE DEF Runs, h
  <2> QED
    BY <2>3, <2>4
<1> HIDE DEF Runs
<1>5. n \in Has
  <2> HIDE DEF Has
  <2>1. Inductive(Has, n)
    BY <1>3, <1>4 DEF Inductive, n
  <2> QED
    BY <2>1, Induction
<1>6. Runs(n, f)
  BY <1>5
<1> HIDE DEF f, Has
<1>7. f[0] = base /\ \A k \in 1 .. n : f[k] = Step(f[k - 1], s[k])
  BY <1>6 DEF Runs, n
<1>8. Sums(f, base, s)
  BY <1>2, <1>7 DEF Sums, n
<1> QED
  BY <1>1, <1>8 DEF n

\* The faces turned round, cell by cell and face by face.
Turns(f, cls, base, s) ==
    f[0] = base /\ \A k \in 1 .. Len(s) : f[k] = Turned(f[k - 1], s[k][1], s[k][2], cls)

AllTurns(cls, base, s) ==
    LET Turn(faces, side) == Turned(faces, side[1], side[2], cls) IN Accumulate(Turn, base, s)

\* They are taken one by one.
LEMMA TurnsRun ==
    ASSUME NEW cls, NEW base, NEW s, Len(s) \in Nat
    PROVE  \E f : Turns(f, cls, base, s) /\ AllTurns(cls, base, s) = f[Len(s)]
<1> DEFINE n == Len(s)
           Step(v, x) == CHOOSE r \in {Turned(w, x[1], x[2], cls) : w \in {v}} : TRUE
           Runs(m, h) == h = [k \in 0 .. m |-> IF k = 0 THEN base ELSE Step(h[k - 1], s[k])]
           f == CHOOSE h : Runs(n, h)
           Has == {m \in 0 .. n : \E h : Runs(m, h)}
<1>1. AllTurns(cls, base, s) = f[n]
  <2> DEFINE From(t) == (CHOOSE h : h = [k \in 0 .. Len(t) |->
                            IF k = 0 THEN base ELSE Step(h[k - 1], t[k])])[Len(t)]
  <2>1. AllTurns(cls, base, s) = CHOOSE r \in {From(t) : t \in {s}} : TRUE
    BY DEF Accumulate, AllTurns
  <2>2. From(s) = f[n]
    OBVIOUS
  <2> HIDE DEF From, f
  <2>3. {From(t) : t \in {s}} = {f[n]}
    BY <2>2
  <2> QED
    BY <2>1, <2>3, OnlyChoice
<1>2. \A v, x : Step(v, x) = Turned(v, x[1], x[2], cls)
  BY OnlyChoice
<1> HIDE DEF Step, n
<1>3. 0 \in Has
  <2>1. Runs(0, [k \in 0 .. 0 |-> base])
    OBVIOUS
  <2> HIDE DEF Runs
  <2> QED
    BY <2>1 DEF n
<1>4. ASSUME NEW m \in 1 .. n, m - 1 \in Has
      PROVE  m \in Has
  <2>1. PICK g : Runs(m - 1, g)
    BY <1>4
  <2> DEFINE h == [k \in 0 .. m |-> IF k = m THEN Step(g[m - 1], s[m]) ELSE g[k]]
  <2>2. ASSUME NEW k \in 0 .. m
        PROVE  h[k] = IF k = 0 THEN base ELSE Step(h[k - 1], s[k])
    <3>1. CASE k = m
      BY <3>1
    <3>2. CASE k # m
      <4>1. k \in 0 .. m - 1 /\ h[k] = g[k] /\ (k # 0 => h[k - 1] = g[k - 1])
        BY <3>2
      <4>2. g[k] = IF k = 0 THEN base ELSE Step(g[k - 1], s[k])
        BY <2>1, <4>1
      <4> HIDE DEF h
      <4> QED
        BY <4>1, <4>2
    <3> QED
      BY <3>1, <3>2
  <2>3. Runs(m, h)
    BY <2>2
  <2>4. m \in 0 .. n
    OBVIOUS
  <2> HIDE DEF Runs, h
  <2> QED
    BY <2>3, <2>4
<1> HIDE DEF Runs
<1>5. n \in Has
  <2> HIDE DEF Has
  <2>1. Inductive(Has, n)
    BY <1>3, <1>4 DEF Inductive, n
  <2> QED
    BY <2>1, Induction
<1>6. Runs(n, f)
  BY <1>5
<1> HIDE DEF f, Has
<1>7. f[0] = base /\ \A k \in 1 .. n : f[k] = Step(f[k - 1], s[k])
  BY <1>6 DEF Runs, n
<1>8. Turns(f, cls, base, s)
  BY <1>2, <1>7 DEF Turns, n
<1> QED
  BY <1>1, <1>8 DEF n

\* The ghosts of nodes, one by one.
NodeGhosts(f, ibfc, base, s) ==
    f[0] = base /\ \A k \in 1 .. Len(s) : f[k] = GhostNode(ibfc, f[k - 1], s[k])

AllNodeGhosts(ibfc, base, s) ==
    LET Node(g, n) == GhostNode(ibfc, g, n) IN Accumulate(Node, base, s)

\* They are taken one by one.
LEMMA NodeGhostsRun ==
    ASSUME NEW ibfc, NEW base, NEW s, Len(s) \in Nat
    PROVE  \E f : NodeGhosts(f, ibfc, base, s) /\ AllNodeGhosts(ibfc, base, s) = f[Len(s)]
<1> DEFINE n == Len(s)
           Step(v, x) == CHOOSE r \in {GhostNode(ibfc, w, x) : w \in {v}} : TRUE
           Runs(m, h) == h = [k \in 0 .. m |-> IF k = 0 THEN base ELSE Step(h[k - 1], s[k])]
           f == CHOOSE h : Runs(n, h)
           Has == {m \in 0 .. n : \E h : Runs(m, h)}
<1>1. AllNodeGhosts(ibfc, base, s) = f[n]
  <2> DEFINE From(t) == (CHOOSE h : h = [k \in 0 .. Len(t) |->
                            IF k = 0 THEN base ELSE Step(h[k - 1], t[k])])[Len(t)]
  <2>1. AllNodeGhosts(ibfc, base, s) = CHOOSE r \in {From(t) : t \in {s}} : TRUE
    BY DEF Accumulate, AllNodeGhosts
  <2>2. From(s) = f[n]
    OBVIOUS
  <2> HIDE DEF From, f
  <2>3. {From(t) : t \in {s}} = {f[n]}
    BY <2>2
  <2> QED
    BY <2>1, <2>3, OnlyChoice
<1>2. \A v, x : Step(v, x) = GhostNode(ibfc, v, x)
  BY OnlyChoice
<1> HIDE DEF Step, n
<1>3. 0 \in Has
  <2>1. Runs(0, [k \in 0 .. 0 |-> base])
    OBVIOUS
  <2> HIDE DEF Runs
  <2> QED
    BY <2>1 DEF n
<1>4. ASSUME NEW m \in 1 .. n, m - 1 \in Has
      PROVE  m \in Has
  <2>1. PICK g : Runs(m - 1, g)
    BY <1>4
  <2> DEFINE h == [k \in 0 .. m |-> IF k = m THEN Step(g[m - 1], s[m]) ELSE g[k]]
  <2>2. ASSUME NEW k \in 0 .. m
        PROVE  h[k] = IF k = 0 THEN base ELSE Step(h[k - 1], s[k])
    <3>1. CASE k = m
      BY <3>1
    <3>2. CASE k # m
      <4>1. k \in 0 .. m - 1 /\ h[k] = g[k] /\ (k # 0 => h[k - 1] = g[k - 1])
        BY <3>2
      <4>2. g[k] = IF k = 0 THEN base ELSE Step(g[k - 1], s[k])
        BY <2>1, <4>1
      <4> HIDE DEF h
      <4> QED
        BY <4>1, <4>2
    <3> QED
      BY <3>1, <3>2
  <2>3. Runs(m, h)
    BY <2>2
  <2>4. m \in 0 .. n
    OBVIOUS
  <2> HIDE DEF Runs, h
  <2> QED
    BY <2>3, <2>4
<1> HIDE DEF Runs
<1>5. n \in Has
  <2> HIDE DEF Has
  <2>1. Inductive(Has, n)
    BY <1>3, <1>4 DEF Inductive, n
  <2> QED
    BY <2>1, Induction
<1>6. Runs(n, f)
  BY <1>5
<1> HIDE DEF f, Has
<1>7. f[0] = base /\ \A k \in 1 .. n : f[k] = Step(f[k - 1], s[k])
  BY <1>6 DEF Runs, n
<1>8. NodeGhosts(f, ibfc, base, s)
  BY <1>2, <1>7 DEF NodeGhosts, n
<1> QED
  BY <1>1, <1>8 DEF n

\* The ghosts of faces, one by one.
FaceGhosts(f, ibfc, igcl, base, s) ==
    f[0] = base /\ \A k \in 1 .. Len(s) : f[k] = GhostFace(ibfc, igcl, f[k - 1], s[k])

AllFaceGhosts(ibfc, igcl, base, s) ==
    LET Face(g, f) == GhostFace(ibfc, igcl, g, f) IN Accumulate(Face, base, s)

\* They are taken one by one.
LEMMA FaceGhostsRun ==
    ASSUME NEW ibfc, NEW igcl, NEW base, NEW s, Len(s) \in Nat
    PROVE  \E f : FaceGhosts(f, ibfc, igcl, base, s) /\ AllFaceGhosts(ibfc, igcl, base, s) = f[Len(s)]
<1> DEFINE n == Len(s)
           Step(v, x) == CHOOSE r \in {GhostFace(ibfc, igcl, w, x) : w \in {v}} : TRUE
           Runs(m, h) == h = [k \in 0 .. m |-> IF k = 0 THEN base ELSE Step(h[k - 1], s[k])]
           f == CHOOSE h : Runs(n, h)
           Has == {m \in 0 .. n : \E h : Runs(m, h)}
<1>1. AllFaceGhosts(ibfc, igcl, base, s) = f[n]
  <2> DEFINE From(t) == (CHOOSE h : h = [k \in 0 .. Len(t) |->
                            IF k = 0 THEN base ELSE Step(h[k - 1], t[k])])[Len(t)]
  <2>1. AllFaceGhosts(ibfc, igcl, base, s) = CHOOSE r \in {From(t) : t \in {s}} : TRUE
    BY DEF Accumulate, AllFaceGhosts
  <2>2. From(s) = f[n]
    OBVIOUS
  <2> HIDE DEF From, f
  <2>3. {From(t) : t \in {s}} = {f[n]}
    BY <2>2
  <2> QED
    BY <2>1, <2>3, OnlyChoice
<1>2. \A v, x : Step(v, x) = GhostFace(ibfc, igcl, v, x)
  BY OnlyChoice
<1> HIDE DEF Step, n
<1>3. 0 \in Has
  <2>1. Runs(0, [k \in 0 .. 0 |-> base])
    OBVIOUS
  <2> HIDE DEF Runs
  <2> QED
    BY <2>1 DEF n
<1>4. ASSUME NEW m \in 1 .. n, m - 1 \in Has
      PROVE  m \in Has
  <2>1. PICK g : Runs(m - 1, g)
    BY <1>4
  <2> DEFINE h == [k \in 0 .. m |-> IF k = m THEN Step(g[m - 1], s[m]) ELSE g[k]]
  <2>2. ASSUME NEW k \in 0 .. m
        PROVE  h[k] = IF k = 0 THEN base ELSE Step(h[k - 1], s[k])
    <3>1. CASE k = m
      BY <3>1
    <3>2. CASE k # m
      <4>1. k \in 0 .. m - 1 /\ h[k] = g[k] /\ (k # 0 => h[k - 1] = g[k - 1])
        BY <3>2
      <4>2. g[k] = IF k = 0 THEN base ELSE Step(g[k - 1], s[k])
        BY <2>1, <4>1
      <4> HIDE DEF h
      <4> QED
        BY <4>1, <4>2
    <3> QED
      BY <3>1, <3>2
  <2>3. Runs(m, h)
    BY <2>2
  <2>4. m \in 0 .. n
    OBVIOUS
  <2> HIDE DEF Runs, h
  <2> QED
    BY <2>3, <2>4
<1> HIDE DEF Runs
<1>5. n \in Has
  <2> HIDE DEF Has
  <2>1. Inductive(Has, n)
    BY <1>3, <1>4 DEF Inductive, n
  <2> QED
    BY <2>1, Induction
<1>6. Runs(n, f)
  BY <1>5
<1> HIDE DEF f, Has
<1>7. f[0] = base /\ \A k \in 1 .. n : f[k] = Step(f[k - 1], s[k])
  BY <1>6 DEF Runs, n
<1>8. FaceGhosts(f, ibfc, igcl, base, s)
  BY <1>2, <1>7 DEF FaceGhosts, n
<1> QED
  BY <1>1, <1>8 DEF n

\* The ghost cells, one by one.
CellGhosts(f, base, s) ==
    f[0] = base /\ \A k \in 1 .. Len(s) : f[k] = GhostCell(f[k - 1], s[k])

AllCellGhosts(base, s) ==
    Accumulate(GhostCell, base, s)

\* They are taken one by one.
LEMMA CellGhostsRun ==
    ASSUME NEW base, NEW s, Len(s) \in Nat
    PROVE  \E f : CellGhosts(f, base, s) /\ AllCellGhosts(base, s) = f[Len(s)]
<1> DEFINE n == Len(s)
           Step(v, x) == CHOOSE r \in {GhostCell(w, x) : w \in {v}} : TRUE
           Runs(m, h) == h = [k \in 0 .. m |-> IF k = 0 THEN base ELSE Step(h[k - 1], s[k])]
           f == CHOOSE h : Runs(n, h)
           Has == {m \in 0 .. n : \E h : Runs(m, h)}
<1>1. AllCellGhosts(base, s) = f[n]
  <2> DEFINE From(t) == (CHOOSE h : h = [k \in 0 .. Len(t) |->
                            IF k = 0 THEN base ELSE Step(h[k - 1], t[k])])[Len(t)]
  <2>1. AllCellGhosts(base, s) = CHOOSE r \in {From(t) : t \in {s}} : TRUE
    BY DEF Accumulate, AllCellGhosts
  <2>2. From(s) = f[n]
    OBVIOUS
  <2> HIDE DEF From, f
  <2>3. {From(t) : t \in {s}} = {f[n]}
    BY <2>2
  <2> QED
    BY <2>1, <2>3, OnlyChoice
<1>2. \A v, x : Step(v, x) = GhostCell(v, x)
  BY OnlyChoice
<1> HIDE DEF Step, n
<1>3. 0 \in Has
  <2>1. Runs(0, [k \in 0 .. 0 |-> base])
    OBVIOUS
  <2> HIDE DEF Runs
  <2> QED
    BY <2>1 DEF n
<1>4. ASSUME NEW m \in 1 .. n, m - 1 \in Has
      PROVE  m \in Has
  <2>1. PICK g : Runs(m - 1, g)
    BY <1>4
  <2> DEFINE h == [k \in 0 .. m |-> IF k = m THEN Step(g[m - 1], s[m]) ELSE g[k]]
  <2>2. ASSUME NEW k \in 0 .. m
        PROVE  h[k] = IF k = 0 THEN base ELSE Step(h[k - 1], s[k])
    <3>1. CASE k = m
      BY <3>1
    <3>2. CASE k # m
      <4>1. k \in 0 .. m - 1 /\ h[k] = g[k] /\ (k # 0 => h[k - 1] = g[k - 1])
        BY <3>2
      <4>2. g[k] = IF k = 0 THEN base ELSE Step(g[k - 1], s[k])
        BY <2>1, <4>1
      <4> HIDE DEF h
      <4> QED
        BY <4>1, <4>2
    <3> QED
      BY <3>1, <3>2
  <2>3. Runs(m, h)
    BY <2>2
  <2>4. m \in 0 .. n
    OBVIOUS
  <2> HIDE DEF Runs, h
  <2> QED
    BY <2>3, <2>4
<1> HIDE DEF Runs
<1>5. n \in Has
  <2> HIDE DEF Has
  <2>1. Inductive(Has, n)
    BY <1>3, <1>4 DEF Inductive, n
  <2> QED
    BY <2>1, Induction
<1>6. Runs(n, f)
  BY <1>5
<1> HIDE DEF f, Has
<1>7. f[0] = base /\ \A k \in 1 .. n : f[k] = Step(f[k - 1], s[k])
  BY <1>6 DEF Runs, n
<1>8. CellGhosts(f, base, s)
  BY <1>2, <1>7 DEF CellGhosts, n
<1> QED
  BY <1>1, <1>8 DEF n

-----------------------------------------------------------------------------
(* The faces of the cells.                                                 *)

\* A cell of a grid, and a face of one as populate() lists it.
GridCell == [type : DOMAIN CellType, nodes : Seq(DOMAIN grid.crd)]
RawFace == {face \in [cell : Cells, nodes : Seq(DOMAIN grid.crd)] :
                /\ face.nodes # <<>> /\ IsInjective(face.nodes)
                /\ Range(face.nodes) \subseteq Range(grid.cells[face.cell + 1].nodes)}

\* The interior cells have the nodes that the caller filled in.
NodesAsGiven ==
    \A c \in Cells : /\ c \in DOMAIN clnds /\ c \in DOMAIN clfcs
                     /\ clnds[c] = grid.cells[c + 1].nodes

\* The nodes of a grid are numbered from 0.
LEMMA NodesAreNumbered ==
    ASSUME NEW g, IsGrid(g)
    PROVE  /\ DOMAIN g.crd = 0 .. Cardinality(DOMAIN g.crd) - 1
           /\ Cardinality(DOMAIN g.crd) \in Nat /\ DOMAIN g.crd \subseteq Nat
<1>1. DOMAIN g.crd = 0 .. Cardinality(DOMAIN g.crd) - 1 /\ Cardinality(DOMAIN g.crd) \in Nat
  BY FS_CardinalityType DEF IsGrid
<1>2. 0 .. Cardinality(DOMAIN g.crd) - 1 \subseteq Nat
  BY <1>1
<1> QED
  BY <1>1, <1>2

\* The faces of a type of cell are lists of positions in its nodes.
FacesOfType(t) ==
    /\ CellType[t].faces \in Seq(Seq(Nat)) /\ Len(CellType[t].faces) \in Nat
    /\ DOMAIN CellType[t].faces = 1 .. Len(CellType[t].faces)
    /\ \A k \in DOMAIN CellType[t].faces :
          /\ CellType[t].faces[k] \in Seq(Nat) /\ CellType[t].faces[k] # <<>>
          /\ CellType[t].faces[k] \in Range(CellType[t].faces) /\ IsInjective(CellType[t].faces[k])

\* Every type of cell lists its faces, and each face names positions of the cell,
\* none twice.
LEMMA FacesHavePositions ==
    ASSUME NEW t \in DOMAIN CellType
    PROVE  FacesOfType(t)
<1> DEFINE F == CellType[t].faces
<1>1. F \in Seq(Seq(Nat)) /\ \A k \in DOMAIN F : F[k] # <<>> /\ IsInjective(F[k])
  <2>1. /\ LineFaces \in Seq(Seq(Nat))
        /\ \A k \in DOMAIN LineFaces : LineFaces[k] # <<>> /\ IsInjective(LineFaces[k])
    BY DEF LineFaces, IsInjective
  <2>2. /\ TriangleFaces \in Seq(Seq(Nat))
        /\ \A k \in DOMAIN TriangleFaces : TriangleFaces[k] # <<>> /\ IsInjective(TriangleFaces[k])
    BY DEF TriangleFaces, IsInjective
  <2>3. /\ QuadrilateralFaces \in Seq(Seq(Nat))
        /\ \A k \in DOMAIN QuadrilateralFaces : QuadrilateralFaces[k] # <<>> /\ IsInjective(QuadrilateralFaces[k])
    BY DEF QuadrilateralFaces, IsInjective
  <2>4. /\ HexahedronFaces \in Seq(Seq(Nat))
        /\ \A k \in DOMAIN HexahedronFaces : HexahedronFaces[k] # <<>> /\ IsInjective(HexahedronFaces[k])
    BY DEF HexahedronFaces, IsInjective
  <2>5. /\ TetrahedronFaces \in Seq(Seq(Nat))
        /\ \A k \in DOMAIN TetrahedronFaces : TetrahedronFaces[k] # <<>> /\ IsInjective(TetrahedronFaces[k])
    BY DEF TetrahedronFaces, IsInjective
  <2>6. /\ PrismFaces \in Seq(Seq(Nat))
        /\ \A k \in DOMAIN PrismFaces : PrismFaces[k] # <<>> /\ IsInjective(PrismFaces[k])
    BY DEF PrismFaces, IsInjective
  <2>7. /\ PyramidFaces \in Seq(Seq(Nat))
        /\ \A k \in DOMAIN PyramidFaces : PyramidFaces[k] # <<>> /\ IsInjective(PyramidFaces[k])
    BY DEF PyramidFaces, IsInjective
  <2>8. F \in {LineFaces, TriangleFaces, QuadrilateralFaces, HexahedronFaces, TetrahedronFaces,
               PrismFaces, PyramidFaces}
    BY DEF CellType
  <2> HIDE DEF F
  <2> QED
    BY <2>1, <2>2, <2>3, <2>4, <2>5, <2>6, <2>7, <2>8
<1>2. Len(F) \in Nat /\ DOMAIN F = 1 .. Len(F) /\ \A k \in DOMAIN F : F[k] \in Seq(Nat)
  <2> HIDE DEF F
  <2> QED
    BY <1>1, LenProperties, ElementOfSeq
<1>3. \A k \in DOMAIN F : F[k] \in Range(F)
  <2> HIDE DEF F
  <2> QED
    BY DEF Range
<1> QED
  BY <1>1, <1>2, <1>3 DEF FacesOfType

\* The cells of a grid.
LEMMA CellsAreTyped ==
    ASSUME IsGrid(grid), NEW c \in Cells
    PROVE  /\ c \in Nat /\ c + 1 \in 1 .. Len(grid.cells) /\ Len(grid.cells) \in Nat
           /\ grid.cells[c + 1] \in GridCell /\ grid.cells[c + 1].nodes \in Seq(DOMAIN grid.crd)
           /\ grid.cells[c + 1].type \in DOMAIN CellType
           /\ IsInjective(grid.cells[c + 1].nodes)
           /\ DOMAIN grid.cells[c + 1].nodes = UNION {Range(face) : face \in Range(TypeOf(c).faces)}
<1>1. grid.cells \in Seq(GridCell)
  BY DEF IsGrid, GridCell
<1>2. Len(grid.cells) \in Nat /\ DOMAIN grid.cells = 1 .. Len(grid.cells)
  BY <1>1, LenProperties
<1>3. c \in Nat /\ c + 1 \in 1 .. Len(grid.cells)
  BY <1>2 DEF Cells
<1>4. grid.cells[c + 1] \in GridCell
  BY <1>1, <1>3, ElementOfSeq
<1>5. grid.cells[c + 1].nodes \in Seq(DOMAIN grid.crd) /\ grid.cells[c + 1].type \in DOMAIN CellType
  BY <1>4 DEF GridCell
<1>6. /\ IsInjective(grid.cells[c + 1].nodes)
      /\ DOMAIN grid.cells[c + 1].nodes =
            UNION {Range(face) : face \in Range(CellType[grid.cells[c + 1].type].faces)}
  <2>1. c + 1 \in DOMAIN grid.cells
    BY <1>2, <1>3
  <2> QED
    BY <2>1 DEF IsGrid
<1> QED
  BY <1>2, <1>3, <1>4, <1>5, <1>6 DEF TypeOf

\* The faces of a cell are lists of its nodes.
FacesListed(c) ==
    /\ FacesOfCell(c) \in Seq(RawFace)
    /\ DOMAIN FacesOfCell(c) = DOMAIN TypeOf(c).faces
    /\ \A k \in DOMAIN TypeOf(c).faces :
          /\ FacesOfCell(c)[k].cell = c
          /\ FacesOfCell(c)[k].nodes =
                [n \in DOMAIN TypeOf(c).faces[k] |-> clnds[c][TypeOf(c).faces[k][n]]]

\* A cell of the grid offers populate() the faces of its type, each with the
\* nodes the cell has at the positions of the face.
LEMMA CellHasFaces ==
    ASSUME IsGrid(grid), NodesAsGiven, NEW c \in Cells
    PROVE  FacesListed(c)
<1> DEFINE F == TypeOf(c).faces
           nds == grid.cells[c + 1].nodes
           Corners(k) == [n \in DOMAIN F[k] |-> clnds[c][F[k][n]]]
<1>1. /\ F \in Seq(Seq(Nat)) /\ Len(F) \in Nat /\ DOMAIN F = 1 .. Len(F)
      /\ \A k \in DOMAIN F : F[k] \in Seq(Nat) /\ F[k] \in Range(F) /\ F[k] # <<>> /\ IsInjective(F[k])
  BY CellsAreTyped, FacesHavePositions DEF FacesOfType, TypeOf
<1>2. /\ nds \in Seq(DOMAIN grid.crd) /\ clnds[c] = nds
      /\ DOMAIN nds = UNION {Range(face) : face \in Range(F)} /\ IsInjective(nds)
  BY CellsAreTyped DEF NodesAsGiven
<1> HIDE DEF F, nds
<1>3. ASSUME NEW k \in DOMAIN F
      PROVE  /\ Corners(k) \in Seq(DOMAIN grid.crd) /\ AsTuple(Corners(k)) = Corners(k)
             /\ Corners(k) # <<>> /\ IsInjective(Corners(k)) /\ Range(Corners(k)) \subseteq Range(nds)
  <2>1. F[k] \in Seq(Nat) /\ F[k] \in Range(F)
    BY <1>1
  <2>2. Len(F[k]) \in Nat /\ DOMAIN F[k] = 1 .. Len(F[k])
    BY <2>1, LenProperties
  <2>3. \A n \in DOMAIN F[k] : F[k][n] \in Range(F[k])
    BY DEF Range
  <2>4. \A n \in DOMAIN F[k] : F[k][n] \in DOMAIN nds
    BY <1>2, <2>1, <2>3
  <2>5. \A n \in DOMAIN F[k] : clnds[c][F[k][n]] \in DOMAIN grid.crd
    <3>1. DOMAIN nds = 1 .. Len(nds)
      BY <1>2, LenProperties
    <3> QED
      BY <1>2, <2>4, <3>1, ElementOfSeq
  <2>6. Corners(k) \in [1 .. Len(F[k]) -> DOMAIN grid.crd]
    BY <2>2, <2>5
  <2>8. IsInjective(Corners(k))
    <3>1. \A i, j \in DOMAIN F[k] : F[k][i] = F[k][j] => i = j
      BY <1>1 DEF IsInjective
    <3>2. \A i, j \in DOMAIN nds : nds[i] = nds[j] => i = j
      BY <1>2 DEF IsInjective
    <3> QED
      BY <1>2, <2>4, <3>1, <3>2 DEF IsInjective
  <2>9. 1 \in DOMAIN F[k]
    <3>1. F[k] # <<>>
      BY <1>1
    <3> QED
      BY <2>1, <2>2, <3>1, EmptySeq
  <2>10. DOMAIN Corners(k) = DOMAIN F[k]
    OBVIOUS
  <2>12. Range(Corners(k)) \subseteq Range(nds)
    BY <1>2, <2>4 DEF Range
  <2> HIDE DEF Corners
  <2>7. Corners(k) \in Seq(DOMAIN grid.crd)
    BY <2>2, <2>6, FunctionIsSequence
  <2>11. Corners(k) # <<>>
    BY <2>9, <2>10
  <2> QED
    BY <2>7, <2>8, <2>11, <2>12, SubSeqFull DEF AsTuple
<1>4. FacesOfCell(c) = [k \in DOMAIN F |-> [cell |-> c, nodes |-> AsTuple(Corners(k))]]
  BY DEF FacesOfCell, F
<1> HIDE DEF Corners
<1>5. FacesOfCell(c) = [k \in DOMAIN F |-> [cell |-> c, nodes |-> Corners(k)]]
  BY <1>3, <1>4
<1>6. FacesOfCell(c) \in [1 .. Len(F) -> RawFace]
  BY <1>1, <1>3, <1>5 DEF RawFace, nds
<1>7. FacesOfCell(c) \in Seq(RawFace)
  <2>1. Len(F) \in Nat
    BY <1>1
  <2> QED
    BY <1>6, <2>1, FunctionIsSequence
<1> QED
  BY <1>5, <1>7 DEF FacesListed, F, Corners

\* populate() lists the faces of all cells.
AllFaces == [c \in 1 .. Len(grid.cells) |-> FacesOfCell(c - 1)]
\* The faces of the cells are one list for each cell, in the order of the cells.
LEMMA AllFacesAreListed ==
    ASSUME IsGrid(grid), NodesAsGiven
    PROVE  /\ AllFaces \in Seq(Seq(RawFace)) /\ Len(AllFaces) = Len(grid.cells)
           /\ Len(grid.cells) \in Nat /\ \A c \in 1 .. Len(grid.cells) : c - 1 \in Cells
<1> DEFINE n == Len(grid.cells)
<1>1. n \in Nat
  BY LenProperties DEF IsGrid
<1>2. \A c \in 1 .. n : c - 1 \in Cells
  BY <1>1 DEF Cells
<1>3. \A c \in 1 .. n : FacesOfCell(c - 1) \in Seq(RawFace)
  BY <1>2, CellHasFaces DEF FacesListed
<1> HIDE DEF n
<1>4. AllFaces \in [1 .. n -> Seq(RawFace)]
  BY <1>3 DEF AllFaces, n
<1>5. AllFaces \in Seq(Seq(RawFace)) /\ Len(AllFaces) = n
  BY <1>1, <1>4
<1> QED
  BY <1>1, <1>2, <1>5 DEF n

\* What populate() goes through is a list of faces with their cells.
LEMMA PopulatedIsListed ==
    ASSUME IsGrid(grid), NodesAsGiven
    PROVE  /\ Populated \in Seq(RawFace) /\ Len(Populated) \in Nat
           /\ DOMAIN Populated = 1 .. Len(Populated)
           /\ \A i \in 1 .. Len(Populated) : Populated[i] \in RawFace
<1>1. Populated = Concatenated(AllFaces)
  BY DEF Populated, AllFaces
<1>2. Populated \in Seq(RawFace)
  BY <1>1, AllFacesAreListed, ConcatenatedPlaces
<1> QED
  BY <1>2, LenProperties, ElementOfSeq

\* It lists the same ones again.
LEMMA PopulatedStays ==
    ASSUME IsGrid(grid), grid' = grid, \A c \in Cells : clnds'[c] = clnds[c]
    PROVE  Populated' = Populated
<1>1. \A c \in 1 .. Len(grid.cells) : c - 1 \in Cells
  <2>1. Len(grid.cells) \in Nat
    BY LenProperties DEF IsGrid
  <2> QED
    BY <2>1 DEF Cells
<1>2. ASSUME NEW c \in Cells
      PROVE  FacesOfCell(c)' = FacesOfCell(c)
  BY <1>2 DEF FacesOfCell, TypeOf
<1>3. AllFaces' = AllFaces
  BY <1>1, <1>2 DEF AllFaces
<1> QED
  BY <1>3 DEF Populated, AllFaces

-----------------------------------------------------------------------------
(* The faces that are kept.                                                *)

\* The faces i and j of a list are one.
Twins(raw, i, j) ==
    Head(raw[i].nodes) \in Range(raw[j].nodes) /\ SameFace(raw[i].nodes, raw[j].nodes)

\* For each face stands the first of those that are one with it.
FirstOfAll(raw, d, n) ==
    /\ DOMAIN d = 1 .. n
    /\ \A j \in 1 .. n : /\ d[j] \in 1 .. j /\ (d[j] = j \/ Twins(raw, d[j], j))
                         /\ \A i \in 1 .. j : i = j \/ Twins(raw, i, j) => d[j] <= i

\* make_dedupmap() finds the first ones.
LEMMA FirstsAreFound ==
    ASSUME NEW n \in Nat, NEW raw, DOMAIN raw = 1 .. n
    PROVE  FirstOfAll(raw, Deduplicated(raw), n)
<1> DEFINE S(j) == {i \in 1 .. j : i = j \/ Twins(raw, i, j)}
           e == [j \in 1 .. n |-> Min(S(j))]
           d == Deduplicated(raw)
<1>1. d = AsTuple(e)
  BY DEF Deduplicated, Twins
<1>2. d = e /\ DOMAIN e = 1 .. n
  <2> HIDE DEF d, S
  <2>1. e \in Seq(Range(e)) /\ Len(e) = n
    BY Numbers
  <2> HIDE DEF e
  <2> QED
    BY <1>1, <2>1, SubSeqFull, LenProperties DEF AsTuple
<1>3. ASSUME NEW j \in 1 .. n
      PROVE  Min(S(j)) \in S(j) /\ \A i \in S(j) : Min(S(j)) <= i
  <2>1. S(j) \in SUBSET Nat /\ j \in S(j)
    OBVIOUS
  <2> HIDE DEF S
  <2>2. S(j) # {}
    BY <2>1
  <2>3. \E k \in S(j) : \A i \in S(j) : k <= i
    BY <2>1, <2>2, Least
  <2> QED
    BY <2>3 DEF Min
<1>4. \A j \in 1 .. n : d[j] = Min(S(j))
  <2> HIDE DEF d, S
  <2> QED
    BY <1>2
<1>5. ASSUME NEW j \in 1 .. n
      PROVE  /\ d[j] \in 1 .. j /\ (d[j] = j \/ Twins(raw, d[j], j))
             /\ \A i \in 1 .. j : i = j \/ Twins(raw, i, j) => d[j] <= i
  <2>1. d[j] \in S(j) /\ \A i \in S(j) : d[j] <= i
    BY <1>3, <1>4
  <2> HIDE DEF d
  <2> QED
    BY <2>1
<1> HIDE DEF S, e, d
<1>6. FirstOfAll(raw, d, n)
  BY <1>2, <1>5 DEF FirstOfAll
<1> QED
  BY <1>6 DEF d

\* The first of the faces that are one stands for it.
FirstTwin == Deduplicated(Populated)
KeptFaces == Survivors(FirstTwin)
NumberOf == Renumbered(FirstTwin)
Owners == [f \in 0 .. Len(KeptFaces) - 1 |-> OwnersOf(Populated, NumberOf, f)]

\* A face that is kept goes by its number, and a cell has it.
IsKept(f) ==
    /\ KeptFaces[f + 1] \in 1 .. Len(Populated)
    /\ FirstTwin[KeptFaces[f + 1]] = KeptFaces[f + 1] /\ NumberOf[KeptFaces[f + 1]] = f
    /\ Owners[f] = <<Owners[f][1], Owners[f][2]>> /\ Owners[f][1] \in Cells
    /\ \E i \in 1 .. Len(Populated) : NumberOf[i] = f /\ Populated[i].cell = Owners[f][1]

\* The faces that are kept are numbered from 0.
LEMMA KeptAreNumbered ==
    ASSUME IsGrid(grid), NodesAsGiven
    PROVE  /\ Len(KeptFaces) \in Nat /\ IsFiniteSet(0 .. Len(KeptFaces) - 1) /\ DOMAIN NumberOf = 1 .. Len(Populated)
           /\ \A f \in 0 .. Len(KeptFaces) - 1 : IsKept(f)
           /\ \A f, h \in 0 .. Len(KeptFaces) - 1 : f < h => KeptFaces[f + 1] < KeptFaces[h + 1]
           /\ \A i \in 1 .. Len(Populated) : FirstTwin[i] = i => \E f \in 0 .. Len(KeptFaces) - 1 : KeptFaces[f + 1] = i
           /\ \A i, j \in 1 .. Len(Populated) : FirstTwin[i] = FirstTwin[j] => NumberOf[i] = NumberOf[j]
<1> DEFINE n == Len(Populated)
           S == {i \in DOMAIN FirstTwin : FirstTwin[i] = i}
<1>1. n \in Nat /\ DOMAIN Populated = 1 .. n /\ \A i \in 1 .. n : Populated[i] \in RawFace
  BY PopulatedIsListed
<1>2. FirstOfAll(Populated, FirstTwin, n)
  BY <1>1, FirstsAreFound DEF FirstTwin
<1>3. DOMAIN FirstTwin = 1 .. n /\ \A j \in 1 .. n : FirstTwin[j] \in 1 .. j
  BY <1>2 DEF FirstOfAll
<1> HIDE DEF n
<1>4. S \in SUBSET Int /\ IsFiniteSet(S) /\ S \subseteq 1 .. n
  <2>1. S \in SUBSET (1 .. n) /\ S \in SUBSET Int
    BY <1>1, <1>3
  <2>2. IsFiniteSet(1 .. n)
    BY <1>1, FS_Interval
  <2> HIDE DEF S
  <2> QED
    BY <2>1, <2>2, FS_Subset
<1>5. KeptFaces = Ascending(S)
  BY DEF KeptFaces, Survivors
<1>6. Lists(KeptFaces, S)
  <2> HIDE DEF S
  <2> QED
    BY <1>4, <1>5, AscendingLists
<1>7. Len(KeptFaces) \in Nat
  BY <1>6 DEF Lists
<1>8. IsFiniteSet(0 .. Len(KeptFaces) - 1)
  <2>1. 0 \in Int /\ Len(KeptFaces) - 1 \in Int
    BY <1>7
  <2> QED
    BY <2>1, FS_Interval
<1> DEFINE Smaller(i) == {k \in 1 .. FirstTwin[i] - 1 : FirstTwin[k] = k}
           e == [i \in 1 .. n |-> Cardinality(Smaller(i))]
<1>9. NumberOf = e
  <2>1. NumberOf = AsTuple(e)
    BY <1>3 DEF NumberOf, Renumbered
  <2> HIDE DEF Smaller
  <2>2. e \in Seq(Range(e)) /\ Len(e) = n
    BY <1>1, Numbers
  <2> HIDE DEF e
  <2> QED
    BY <2>1, <2>2, SubSeqFull DEF AsTuple
<1>10. ASSUME NEW f \in 0 .. Len(KeptFaces) - 1
       PROVE  IsKept(f)
  <2> DEFINE i == KeptFaces[f + 1]
  <2>1. f + 1 \in 1 .. Len(KeptFaces) /\ f \in Nat
    BY <1>7
  <2>2. i \in S /\ Cardinality({y \in S : y < i}) = f
    <3>1. i \in S /\ Cardinality({y \in S : y < i}) = (f + 1) - 1
      BY <1>6, <2>1 DEF Lists
    <3> HIDE DEF i
    <3> QED
      BY <2>1, <3>1
  <2>3. i \in 1 .. n /\ FirstTwin[i] = i
    BY <1>3, <2>2
  <2>4. {y \in S : y < i} = Smaller(i)
    <3>1. ASSUME NEW y
          PROVE  y \in S /\ y < i <=> y \in 1 .. i - 1 /\ FirstTwin[y] = y
      BY <1>1, <1>3, <2>3
    <3> HIDE DEF i, S
    <3> QED
      BY <2>3, <3>1
  <2>5. NumberOf[i] = f
    <3>1. e[i] = Cardinality(Smaller(i))
      BY <2>3
    <3> HIDE DEF e, Smaller, S, i
    <3> QED
      BY <1>9, <2>2, <2>4, <3>1
  <2> DEFINE W == {j \in DOMAIN Populated : NumberOf[j] = f}
             who == Ascending(W)
  <2>6. Lists(who, W) /\ i \in W /\ W \subseteq 1 .. n
    <3>1. W \in SUBSET Int /\ W \in SUBSET (1 .. n) /\ i \in W
      BY <1>1, <2>3, <2>5
    <3>2. IsFiniteSet(1 .. n)
      BY <1>1, FS_Interval
    <3> HIDE DEF W, i
    <3>3. IsFiniteSet(W)
      BY <3>1, <3>2, FS_Subset
    <3> QED
      BY <3>1, <3>3, AscendingLists
  <2>7. 1 \in DOMAIN who /\ who[1] \in 1 .. n /\ NumberOf[who[1]] = f
    <3>4. \A j \in W : NumberOf[j] = f
      OBVIOUS
    <3> HIDE DEF W, who, i
    <3>1. Len(who) \in Nat /\ who \in [1 .. Len(who) -> W]
      BY <2>6 DEF Lists
    <3>2. PICK k \in 1 .. Len(who) : who[k] = i
      BY <2>6 DEF Lists
    <3>3. 1 \in 1 .. Len(who)
      BY <3>1, <3>2
    <3> QED
      BY <2>6, <3>1, <3>3, <3>4
  <2>8. Populated[who[1]].cell \in Cells
    <3> HIDE DEF who
    <3> QED
      BY <1>1, <2>7 DEF RawFace
  <2>9. Owners[f] = OwnersOf(Populated, NumberOf, f)
    BY DEF Owners
  <2>10. Owners[f] = <<Owners[f][1], Owners[f][2]>> /\ Owners[f][1] = Populated[who[1]].cell
    <3>1. OwnersOf(Populated, NumberOf, f) =
            <<IF 1 \in DOMAIN who THEN Populated[who[1]].cell ELSE -1,
              IF 2 \in DOMAIN who THEN Populated[who[2]].cell ELSE -1>>
      BY DEF OwnersOf
    <3> HIDE DEF who
    <3> QED
      BY <2>7, <2>9, <3>1
  <2> HIDE DEF who, W, S, e
  <2> QED
    BY <2>3, <2>5, <2>7, <2>8, <2>10 DEF IsKept, n
<1>11. ASSUME NEW f \in 0 .. Len(KeptFaces) - 1, NEW h \in 0 .. Len(KeptFaces) - 1, f < h
       PROVE  KeptFaces[f + 1] < KeptFaces[h + 1]
  <2>1. f + 1 \in 1 .. Len(KeptFaces) /\ h + 1 \in 1 .. Len(KeptFaces) /\ f + 1 < h + 1
    BY <1>7, <1>11
  <2> QED
    BY <1>6, <2>1 DEF Lists
<1>12. DOMAIN NumberOf = 1 .. n
  BY <1>9
<1>13. ASSUME NEW i \in 1 .. n, FirstTwin[i] = i
       PROVE  \E f \in 0 .. Len(KeptFaces) - 1 : KeptFaces[f + 1] = i
  <2>1. i \in S
    BY <1>3, <1>13
  <2>2. PICK k \in 1 .. Len(KeptFaces) : KeptFaces[k] = i
    BY <1>6, <2>1 DEF Lists
  <2>3. k - 1 \in 0 .. Len(KeptFaces) - 1 /\ (k - 1) + 1 = k
    BY <1>7
  <2> QED
    BY <2>2, <2>3
<1>14. ASSUME NEW i \in 1 .. n, NEW j \in 1 .. n, FirstTwin[i] = FirstTwin[j]
       PROVE  NumberOf[i] = NumberOf[j]
  <2>1. Smaller(i) = Smaller(j)
    BY <1>14
  <2>2. NumberOf[i] = Cardinality(Smaller(i)) /\ NumberOf[j] = Cardinality(Smaller(j))
    BY <1>9
  <2> QED
    BY <2>1, <2>2
<1> HIDE DEF S, Smaller, e
<1> QED
  BY <1>7, <1>8, <1>10, <1>11, <1>12, <1>13, <1>14 DEF n

-----------------------------------------------------------------------------
(* No two of the faces that are kept have the same nodes.                  *)

\* A list without repetition has as many items as it is long.
LEMMA ItemsAreCounted ==
    ASSUME NEW S, NEW u \in Seq(S), IsInjective(u)
    PROVE  Len(u) \in Nat /\ Cardinality(Range(u)) = Len(u) /\ IsFiniteSet(Range(u))
<1>1. Len(u) \in Nat /\ u \in [1 .. Len(u) -> S] /\ DOMAIN u = 1 .. Len(u)
  BY LenProperties
<1>2. u \in [1 .. Len(u) -> Range(u)]
  BY <1>1 DEF Range
<1>3. u \in Bijection(1 .. Len(u), Range(u))
  BY <1>1, <1>2 DEF Bijection, Injection, Surjection, Range
<1>4. ExistsBijection(1 .. Len(u), Range(u))
  BY <1>3 DEF ExistsBijection
<1>5. IsFiniteSet(1 .. Len(u)) /\ Cardinality(1 .. Len(u)) = Len(u)
  <2>1. 1 \in Int /\ Len(u) \in Int
    BY <1>1
  <2>2. IsFiniteSet(1 .. Len(u)) /\ Cardinality(1 .. Len(u)) = IF 1 > Len(u) THEN 0 ELSE Len(u) - 1 + 1
    BY <2>1, FS_Interval
  <2> QED
    BY <1>1, <2>2
<1> QED
  BY <1>1, <1>4, <1>5, FS_Bijection

\* Two such lists of the same items are as long as each other.
LEMMA SameItemsSameLength ==
    ASSUME NEW S, NEW s \in Seq(S), NEW t \in Seq(S),
           IsInjective(s), IsInjective(t), Range(s) = Range(t)
    PROVE  Len(s) = Len(t)
  BY ItemsAreCounted

\* The hash of the faces by their first node misses no twin.
LEMMA KeptDiffer ==
    ASSUME IsGrid(grid), NodesAsGiven,
           NEW f \in 0 .. Len(KeptFaces) - 1, NEW h \in 0 .. Len(KeptFaces) - 1, f < h
    PROVE  Range(Populated[KeptFaces[f + 1]].nodes) # Range(Populated[KeptFaces[h + 1]].nodes)
<1> DEFINE n == Len(Populated)
           i == KeptFaces[f + 1]
           j == KeptFaces[h + 1]
           one == Populated[i].nodes
           two == Populated[j].nodes
<1>1. n \in Nat /\ DOMAIN Populated = 1 .. n /\ \A k \in 1 .. n : Populated[k] \in RawFace
  BY PopulatedIsListed
<1>2. FirstOfAll(Populated, FirstTwin, n)
  BY <1>1, FirstsAreFound DEF FirstTwin
<1>3. i \in 1 .. n /\ j \in 1 .. n /\ FirstTwin[j] = j /\ i < j
  <2>1. IsKept(f) /\ IsKept(h) /\ i < j
    BY KeptAreNumbered
  <2> QED
    BY <2>1 DEF IsKept
<1> HIDE DEF i, j, n
<1>4. ~ Twins(Populated, i, j)
  <2>1. i \in 1 .. j
    BY <1>1, <1>3
  <2>2. Twins(Populated, i, j) => FirstTwin[j] <= i
    BY <1>2, <1>3, <2>1 DEF FirstOfAll
  <2>3. i \in Int /\ j \in Int
    BY <1>1, <1>3
  <2> QED
    BY <1>3, <2>2, <2>3
<1>5. /\ one \in Seq(DOMAIN grid.crd) /\ two \in Seq(DOMAIN grid.crd) /\ one # <<>>
      /\ IsInjective(one) /\ IsInjective(two)
  <2>1. Populated[i] \in RawFace /\ Populated[j] \in RawFace
    BY <1>1, <1>3
  <2> QED
    BY <2>1 DEF RawFace
<1> SUFFICES ASSUME Range(one) = Range(two)
             PROVE  Twins(Populated, i, j)
  BY <1>4 DEF i, j
<1>6. Len(one) = Len(two)
  <2> HIDE DEF one, two
  <2> QED
    BY <1>5, SameItemsSameLength
<1>7. Head(one) \in Range(one)
  <2> HIDE DEF one
  <2>1. 1 \in DOMAIN one /\ Head(one) = one[1]
    BY <1>5, LenProperties, EmptySeq
  <2> QED
    BY <2>1 DEF Range
<1> HIDE DEF one, two
<1>8. Head(one) \in Range(two) /\ SameFace(one, two)
  BY <1>6, <1>7 DEF SameFace
<1> QED
  BY <1>8 DEF Twins, one, two

-----------------------------------------------------------------------------
(* Turning faces round.                                                    *)

\* A list of functions on 1 .. n, each a list of so many items, can be put
\* together to one list.
LEMMA ListsOfLists ==
    ASSUME NEW n \in Nat, NEW ss, ss = [c \in 1 .. n |-> ss[c]],
           \A c \in 1 .. n : Len(ss[c]) \in Nat /\ ss[c] = [k \in 1 .. Len(ss[c]) |-> ss[c][k]]
    PROVE  Len(Concatenated(ss)) \in Nat
<1> DEFINE T == UNION {Range(ss[c]) : c \in 1 .. n}
<1>1. ASSUME NEW c \in 1 .. n
      PROVE  ss[c] \in Seq(T)
  <2>1. ss[c] \in Seq(Range(ss[c]))
    BY Numbers
  <2>2. Range(ss[c]) \subseteq T
    OBVIOUS
  <2> HIDE DEF T
  <2> QED
    BY <2>1, <2>2, SeqMonotonic
<1> HIDE DEF T
<1>2. ss \in [1 .. n -> Seq(T)]
  BY <1>1
<1>3. ss \in Seq(Seq(T))
  BY <1>2, FunctionIsSequence
<1>4. Concatenated(ss) \in Seq(T)
  BY <1>3, ConcatenatedPlaces
<1> QED
  BY <1>4, LenProperties

\* A list backwards has the same items.
LEMMA BackwardsIsTheSame ==
    ASSUME NEW S, NEW s \in Seq(S)
    PROVE  Reverse(s) \in Seq(S) /\ Range(Reverse(s)) = Range(s) /\ Len(Reverse(s)) = Len(s)
<1> DEFINE n == Len(s)
           r == Reverse(s)
<1>1. n \in Nat /\ DOMAIN s = 1 .. n /\ \A i \in 1 .. n : s[i] \in S
  BY LenProperties, ElementOfSeq
<1> HIDE DEF n
<1>2. r = [i \in 1 .. n |-> s[(n - i) + 1]]
  BY DEF Reverse, n
<1>3. \A i \in 1 .. n : (n - i) + 1 \in 1 .. n /\ (n - ((n - i) + 1)) + 1 = i
  BY <1>1
<1> HIDE DEF r
<1>4. r \in [1 .. n -> S]
  BY <1>1, <1>2, <1>3
<1>5. r \in Seq(S) /\ Len(r) = n
  BY <1>1, <1>4, FunctionIsSequence
<1>6. \A i \in 1 .. n : r[i] = s[(n - i) + 1] /\ r[(n - i) + 1] = s[i]
  BY <1>2, <1>3
<1>7. DOMAIN r = 1 .. n
  BY <1>2
<1>8. ASSUME NEW x \in Range(s)
      PROVE  x \in Range(r)
  <2>1. PICK i \in 1 .. n : s[i] = x
    BY <1>1 DEF Range
  <2>2. (n - i) + 1 \in DOMAIN r /\ r[(n - i) + 1] = x
    BY <1>3, <1>6, <1>7, <2>1
  <2> QED
    BY <2>2 DEF Range
<1>9. ASSUME NEW x \in Range(r)
      PROVE  x \in Range(s)
  <2>1. PICK i \in 1 .. n : r[i] = x
    BY <1>7 DEF Range
  <2>2. (n - i) + 1 \in DOMAIN s /\ s[(n - i) + 1] = x
    BY <1>1, <1>3, <1>6, <2>1
  <2> QED
    BY <2>2 DEF Range
<1> QED
  BY <1>5, <1>8, <1>9 DEF r, n

\* The same faces, perhaps with their nodes in another order.
SameFaces(new, old, S) ==
    /\ DOMAIN new = DOMAIN old
    /\ \A f \in DOMAIN old :
          new[f] \in Seq(S) /\ Range(new[f]) = Range(old[f]) /\ Len(new[f]) = Len(old[f])

\* calc_metric() only turns faces round.
LEMMA OrientedTurns ==
    ASSUME IsGrid(grid), NEW S, NEW nds, NEW cfs, NEW cls,
           \A f \in DOMAIN nds : nds[f] \in Seq(S),
           \A c \in Cells : Len(cfs[c]) \in Nat /\ DOMAIN cfs[c] = 1 .. Len(cfs[c])
    PROVE  SameFaces(Oriented(nds, cfs, cls).nds, nds, S)
<1> DEFINE m == Len(grid.cells)
           ss == [c \in 1 .. m |-> [k \in DOMAIN cfs[c - 1] |-> <<c - 1, cfs[c - 1][k]>>]]
           sides == Concatenated(ss)
           start == [nds |-> nds, nml |-> [f \in DOMAIN nds |-> AreaVector(At(ndcrd, nds[f]))]]
<1>1. m \in Nat /\ \A c \in 1 .. m : c - 1 \in Cells
  <2>1. m \in Nat
    BY LenProperties DEF IsGrid
  <2> QED
    BY <2>1 DEF Cells
<1>2. Len(sides) \in Nat
  <2>1. ASSUME NEW c \in 1 .. m
        PROVE  Len(ss[c]) \in Nat /\ ss[c] = [k \in 1 .. Len(ss[c]) |-> ss[c][k]]
    <3> DEFINE len == Len(cfs[c - 1])
               row == [k \in 1 .. len |-> <<c - 1, cfs[c - 1][k]>>]
    <3>1. len \in Nat /\ DOMAIN cfs[c - 1] = 1 .. len
      BY <1>1
    <3> HIDE DEF len, m
    <3>2. ss[c] = row
      BY <3>1
    <3> HIDE DEF ss
    <3>3. Len(row) = len
      BY <3>1
    <3>4. row = [k \in 1 .. len |-> row[k]]
      OBVIOUS
    <3> HIDE DEF row
    <3> QED
      BY <3>1, <3>2, <3>3, <3>4
  <2>2. ss = [c \in 1 .. m |-> ss[c]]
    OBVIOUS
  <2> HIDE DEF ss, m
  <2> QED
    BY <1>1, <2>1, <2>2, ListsOfLists
<1> HIDE DEF ss, m
<1>3. PICK f : Turns(f, cls, start, sides) /\ AllTurns(cls, start, sides) = f[Len(sides)]
  <2> HIDE DEF start, sides
  <2> QED
    BY <1>2, TurnsRun
<1>4. Oriented(nds, cfs, cls) = f[Len(sides)]
  <2>1. Oriented(nds, cfs, cls) = AllTurns(cls, start, sides)
    BY DEF Oriented, AllTurns, Accumulate, ss, m
  <2> QED
    BY <1>3, <2>1
<1> HIDE DEF start, sides
<1> DEFINE n == Len(sides)
           Has == {k \in 0 .. n : SameFaces(f[k].nds, nds, S)}
<1>5. 0 \in Has
  <2>1. f[0] = start /\ start.nds = nds
    BY <1>3 DEF Turns, start
  <2>2. SameFaces(nds, nds, S)
    BY DEF SameFaces
  <2>3. SameFaces(f[0].nds, nds, S)
    BY <2>1, <2>2
  <2> QED
    BY <1>2, <2>3
<1>6. ASSUME NEW k \in 1 .. n, k - 1 \in Has
      PROVE  k \in Has
  <2> DEFINE g == f[k - 1]
             h == sides[k][2]
  <2>1. SameFaces(g.nds, nds, S)
    BY <1>6
  <2>2. f[k] = Turned(g, sides[k][1], h, cls)
    BY <1>3 DEF Turns
  <2>3. f[k] = g \/ f[k].nds = [g.nds EXCEPT ![h] = Reverse(@)]
    BY <2>2 DEF Turned
  <2> HIDE DEF g, h
  <2>4. ASSUME f[k].nds = [g.nds EXCEPT ![h] = Reverse(@)]
        PROVE  SameFaces(f[k].nds, nds, S)
    <3>1. DOMAIN f[k].nds = DOMAIN nds
      BY <2>1, <2>4 DEF SameFaces
    <3>2. ASSUME NEW e \in DOMAIN nds
          PROVE  /\ f[k].nds[e] \in Seq(S) /\ Range(f[k].nds[e]) = Range(nds[e])
                 /\ Len(f[k].nds[e]) = Len(nds[e])
      <4>1. /\ g.nds[e] \in Seq(S) /\ Range(g.nds[e]) = Range(nds[e]) /\ Len(g.nds[e]) = Len(nds[e])
            /\ e \in DOMAIN g.nds
        BY <2>1 DEF SameFaces
      <4>2. f[k].nds[e] = IF e = h THEN Reverse(g.nds[e]) ELSE g.nds[e]
        BY <2>4, <4>1
      <4>3. /\ Reverse(g.nds[e]) \in Seq(S) /\ Range(Reverse(g.nds[e])) = Range(g.nds[e])
            /\ Len(Reverse(g.nds[e])) = Len(g.nds[e])
        BY <4>1, BackwardsIsTheSame
      <4> QED
        BY <4>1, <4>2, <4>3
    <3> QED
      BY <3>1, <3>2 DEF SameFaces
  <2>5. SameFaces(f[k].nds, nds, S)
    BY <2>1, <2>3, <2>4
  <2> QED
    BY <1>2, <2>5
<1>7. n \in Has
  <2> HIDE DEF Has
  <2>1. Inductive(Has, n)
    BY <1>2, <1>5, <1>6 DEF Inductive
  <2> QED
    BY <2>1, Induction
<1> QED
  BY <1>4, <1>7

-----------------------------------------------------------------------------
(* build_interior().                                                       *)

\* The faces that a cell has.
Listing(c) == FacesFrom(Populated, NumberOf, c)

\* They are listed.
LEMMA ListingIsList ==
    ASSUME IsGrid(grid), NodesAsGiven, NEW c
    PROVE  Len(Listing(c)) \in Nat /\ DOMAIN Listing(c) = 1 .. Len(Listing(c))
<1> DEFINE W == {i \in DOMAIN Populated : Populated[i].cell = c}
           places == Ascending(W)
<1>1. Lists(places, W)
  <2>1. Len(Populated) \in Nat /\ DOMAIN Populated = 1 .. Len(Populated)
    BY PopulatedIsListed
  <2>2. W \in SUBSET Int /\ W \in SUBSET (1 .. Len(Populated))
    BY <2>1
  <2>3. IsFiniteSet(1 .. Len(Populated))
    BY <2>1, FS_Interval
  <2> HIDE DEF W
  <2>4. IsFiniteSet(W)
    BY <2>2, <2>3, FS_Subset
  <2> QED
    BY <2>2, <2>4, AscendingLists
<1>2. Listing(c) = [k \in DOMAIN places |-> NumberOf[places[k]]]
  BY DEF Listing, FacesFrom
<1> HIDE DEF W, places
<1>3. Len(places) \in Nat /\ DOMAIN places = 1 .. Len(places)
  BY <1>1 DEF Lists
<1> QED
  BY <1>2, <1>3

\* What build_interior() leaves behind.
FreshFaces(cls, nds) ==
    /\ cls = Owners /\ DOMAIN nds = 0 .. Len(KeptFaces) - 1
    /\ \A f \in 0 .. Len(KeptFaces) - 1 :
          /\ nds[f] \in Seq(DOMAIN grid.crd) /\ Range(nds[f]) = Range(Populated[KeptFaces[f + 1]].nodes)
          /\ Len(nds[f]) = Len(Populated[KeptFaces[f + 1]].nodes)
FreshLists(cfs) ==
    DOMAIN cfs = DOMAIN clfcs /\ \A c \in Cells : cfs[c] = Listing(c)

\* build_interior() builds the faces of the cells anew.
LEMMA InteriorIsFresh ==
    ASSUME IsGrid(grid), NodesAsGiven,
           NEW doMetric \in BOOLEAN, NEW doEdge \in BOOLEAN, BuildInterior(doMetric, doEdge)
    PROVE  FreshFaces(fccls', fcnds') /\ FreshLists(clfcs')
<1>1. fccls' = Owners
  BY DEF BuildInterior, Owners, KeptFaces, NumberOf, FirstTwin
<1>2. clfcs' = Over(clfcs, [c \in Cells |-> Listing(c)])
  BY DEF BuildInterior, Listing, NumberOf, FirstTwin
<1>3. FreshLists(clfcs')
  BY <1>2 DEF FreshLists, Over, NodesAsGiven
<1> DEFINE nds == [f \in DOMAIN fccls' |-> Populated[KeptFaces[f + 1]].nodes]
           S == DOMAIN grid.crd
<1>4. fcnds' = nds \/ fcnds' = Oriented(nds, clfcs', fccls').nds
  <2>1. CASE doMetric
    <3>1. PICK raw \in {Populated} : \E d \in {Deduplicated(raw)} : \E kept \in {Survivors(d)} :
            \E x \in {[f \in DOMAIN fccls' |-> raw[kept[f + 1]].nodes]} :
                \E faces \in {Oriented(x, clfcs', fccls')} : fcnds' = faces.nds
      BY <2>1, Zenon DEF BuildInterior
    <3>2. PICK kept \in {KeptFaces} : \E x \in {[f \in DOMAIN fccls' |-> raw[kept[f + 1]].nodes]} :
            \E faces \in {Oriented(x, clfcs', fccls')} : fcnds' = faces.nds
      BY <3>1, Zenon DEF KeptFaces, FirstTwin
    <3>3. PICK x \in {nds} : \E faces \in {Oriented(x, clfcs', fccls')} : fcnds' = faces.nds
      <4>1. kept = KeptFaces /\ raw = Populated
        BY <3>1, <3>2
      <4> QED
        BY <3>2, <4>1, Zenon
    <3> HIDE DEF nds
    <3> QED
      BY <3>3
  <2>2. CASE ~ doMetric
    BY <2>2 DEF BuildInterior, KeptFaces, FirstTwin
  <2> QED
    BY <2>1, <2>2
<1>5. /\ DOMAIN nds = 0 .. Len(KeptFaces) - 1
      /\ \A f \in 0 .. Len(KeptFaces) - 1 : nds[f] = Populated[KeptFaces[f + 1]].nodes /\ nds[f] \in Seq(S)
  <2>1. ASSUME NEW f \in 0 .. Len(KeptFaces) - 1
        PROVE  Populated[KeptFaces[f + 1]].nodes \in Seq(S)
    <3>1. KeptFaces[f + 1] \in 1 .. Len(Populated)
      BY KeptAreNumbered DEF IsKept
    <3>2. Populated[KeptFaces[f + 1]] \in RawFace
      BY <3>1, PopulatedIsListed
    <3> QED
      BY <3>2 DEF RawFace
  <2> QED
    BY <1>1, <2>1 DEF Owners
<1>6. SameFaces(fcnds', nds, S)
  <2>1. SameFaces(nds, nds, S)
    BY <1>5 DEF SameFaces
  <2>2. \A c \in Cells : Len(clfcs'[c]) \in Nat /\ DOMAIN clfcs'[c] = 1 .. Len(clfcs'[c])
    BY <1>3, ListingIsList DEF FreshLists
  <2>3. \A f \in DOMAIN nds : nds[f] \in Seq(S)
    BY <1>5
  <2> HIDE DEF nds, S
  <2>4. SameFaces(Oriented(nds, clfcs', fccls').nds, nds, S)
    BY <2>2, <2>3, OrientedTurns
  <2> QED
    BY <1>4, <2>1, <2>4
<1>7. FreshFaces(fccls', fcnds')
  <2> HIDE DEF nds
  <2> QED
    BY <1>1, <1>5, <1>6 DEF FreshFaces, SameFaces
<1> QED
  BY <1>3, <1>7

-----------------------------------------------------------------------------
(* The boundary.                                                           *)

\* A boundary condition with its faces, and a row of m_bndfcs.
BcGroup == [name : BcNames \cup {NoName}, facn : Seq([face : Int, row : Int])]
BndRow == [face : Int, bc : Int]

\* Conditions claim faces that are open, and each of them once.
OwnClaims(bs, open) ==
    \A b \in DOMAIN bs : \A k \in DOMAIN bs[b].facn :
        /\ bs[b].facn[k].face \in open
        /\ \A b2 \in DOMAIN bs : \A k2 \in DOMAIN bs[b2].facn :
              bs[b].facn[k].face = bs[b2].facn[k2].face => b = b2 /\ k = k2
AllClaimed(bs, open) ==
    \A f \in open : \E b \in DOMAIN bs : \E k \in DOMAIN bs[b].facn : bs[b].facn[k].face = f

\* The rows of the boundary and of the conditions point at each other.
IsSplit(bs, list, open) ==
    /\ list \in Seq(BndRow) /\ bs \in Seq(BcGroup) /\ OwnClaims(bs, open)
    /\ IsInjective([k \in DOMAIN list |-> list[k].face])
    /\ {list[k].face : k \in DOMAIN list} = open
    /\ Cardinality(open) = Len(list)
    /\ \A b \in DOMAIN bs : \A k \in DOMAIN bs[b].facn :
          list[bs[b].facn[k].row + 1] = [face |-> bs[b].facn[k].face, bc |-> b - 1]

\* The conditions are lists of rows.
LEMMA GroupsAreLists ==
    ASSUME NEW bs \in Seq(BcGroup)
    PROVE  /\ Len(bs) \in Nat /\ DOMAIN bs = 1 .. Len(bs)
           /\ \A b \in 1 .. Len(bs) :
                /\ bs[b] \in BcGroup /\ bs[b].facn \in Seq([face : Int, row : Int])
                /\ Len(bs[b].facn) \in Nat /\ DOMAIN bs[b].facn = 1 .. Len(bs[b].facn)
                /\ \A k \in 1 .. Len(bs[b].facn) : bs[b].facn[k] \in [face : Int, row : Int]
<1>1. Len(bs) \in Nat /\ DOMAIN bs = 1 .. Len(bs) /\ \A b \in 1 .. Len(bs) : bs[b] \in BcGroup
  BY LenProperties, ElementOfSeq
<1>2. \A b \in 1 .. Len(bs) : bs[b].facn \in Seq([face : Int, row : Int])
  BY <1>1 DEF BcGroup
<1> QED
  BY <1>1, <1>2, LenProperties, ElementOfSeq

\* The rows of each condition, as Listed() puts them together.
RowsOf(bs) ==
    [b \in DOMAIN bs |-> [k \in DOMAIN bs[b].facn |-> [face |-> bs[b].facn[k].face, bc |-> b - 1]]]

\* They are lists as long as those of the conditions.
LEMMA RowsAreLists ==
    ASSUME NEW bs \in Seq(BcGroup)
    PROVE  /\ RowsOf(bs) \in Seq(Seq(BndRow)) /\ Len(RowsOf(bs)) = Len(bs)
           /\ \A b \in 1 .. Len(bs) : Len(RowsOf(bs)[b]) = Len(bs[b].facn)
<1> DEFINE n == Len(bs)
           Row(b, k) == [face |-> bs[b].facn[k].face, bc |-> b - 1]
           Rows(b) == [k \in 1 .. Len(bs[b].facn) |-> Row(b, k)]
<1>1. /\ n \in Nat /\ DOMAIN bs = 1 .. n
      /\ \A b \in 1 .. n : /\ Len(bs[b].facn) \in Nat /\ DOMAIN bs[b].facn = 1 .. Len(bs[b].facn)
                           /\ \A k \in 1 .. Len(bs[b].facn) : bs[b].facn[k] \in [face : Int, row : Int]
  BY GroupsAreLists
<1> HIDE DEF n
<1>2. RowsOf(bs) = [b \in 1 .. n |-> Rows(b)]
  BY <1>1 DEF RowsOf
<1>3. ASSUME NEW b \in 1 .. n
      PROVE  Rows(b) \in Seq(BndRow) /\ Len(Rows(b)) = Len(bs[b].facn)
  <2>1. \A k \in 1 .. Len(bs[b].facn) : Row(b, k) \in BndRow
    BY <1>1 DEF BndRow
  <2> HIDE DEF Row
  <2>2. Rows(b) \in [1 .. Len(bs[b].facn) -> BndRow]
    BY <2>1
  <2>3. Len(bs[b].facn) \in Nat
    BY <1>1
  <2> HIDE DEF Rows
  <2> QED
    BY <2>2, <2>3, FunctionIsSequence
<1> HIDE DEF Rows
<1>4. RowsOf(bs) \in [1 .. n -> Seq(BndRow)]
  BY <1>2, <1>3
<1>5. RowsOf(bs) \in Seq(Seq(BndRow)) /\ Len(RowsOf(bs)) = n
  BY <1>1, <1>4, FunctionIsSequence
<1>6. \A b \in 1 .. n : Len(RowsOf(bs)[b]) = Len(bs[b].facn)
  BY <1>2, <1>3
<1> QED
  BY <1>5, <1>6 DEF n

\* The row of a condition's first face is the number of faces before it.
LEMMA BeforeIsOffset ==
    ASSUME NEW bs \in Seq(BcGroup), NEW P, Offsets(P, RowsOf(bs)), NEW b \in 1 .. Len(bs)
    PROVE  Before(bs, b) = P[b - 1]
<1> DEFINE s == [k \in 1 .. b - 1 |-> Len(bs[k].facn)]
<1>1. Len(bs) \in Nat /\ \A k \in 1 .. Len(bs) : Len(bs[k].facn) \in Nat
  BY GroupsAreLists
<1>2. b - 1 \in Nat /\ \A k \in 1 .. b - 1 : k \in 1 .. Len(bs)
  BY <1>1
<1>3. Len(s) = b - 1
  BY <1>2
<1>4. Before(bs, b) = AllSums(0, s)
  BY DEF Before, AllSums, Accumulate
<1>5. PICK f : Sums(f, 0, s) /\ AllSums(0, s) = f[b - 1]
  <2> HIDE DEF s
  <2>1. Len(s) \in Nat
    BY <1>2, <1>3
  <2>2. \E f : Sums(f, 0, s) /\ AllSums(0, s) = f[Len(s)]
    BY <2>1, SumsRun
  <2> QED
    BY <1>3, <2>2
<1>6. f[0] = 0 /\ \A k \in 1 .. b - 1 : f[k] = f[k - 1] + Len(bs[k].facn)
  BY <1>3, <1>5 DEF Sums
<1>7. P[0] = 0 /\ \A k \in 1 .. Len(bs) : P[k] = P[k - 1] + Len(bs[k].facn)
  BY RowsAreLists DEF Offsets
<1> HIDE DEF s
<1>8. InStep(f, P, b - 1)
  <2>1. ASSUME NEW k \in 1 .. b - 1, f[k - 1] = P[k - 1]
        PROVE  f[k] = P[k]
    <3>1. f[k] = f[k - 1] + Len(bs[k].facn)
      BY <1>6
    <3>2. P[k] = P[k - 1] + Len(bs[k].facn)
      BY <1>2, <1>7
    <3> QED
      BY <2>1, <3>1, <3>2
  <2> QED
    BY <1>2, <1>6, <1>7, <2>1 DEF InStep
<1>9. SameUpTo(f, P, b - 1)
  BY <1>8, Agreement
<1>10. b - 1 \in 0 .. b - 1
  BY <1>2
<1> QED
  BY <1>4, <1>5, <1>9, <1>10 DEF SameUpTo

\* Conditions that claim every open face once are split over the rows.
LEMMA SplitIsMade ==
    ASSUME NEW bs \in Seq(BcGroup), NEW open, IsFiniteSet(open),
           OwnClaims(bs, open), AllClaimed(bs, open)
    PROVE  IsSplit(Numbered(bs), Listed(bs), open)
<1> DEFINE n == Len(bs)
           list == Listed(bs)
           nb == Numbered(bs)
           len(b) == Len(bs[b].facn)
<1>1. /\ n \in Nat /\ DOMAIN bs = 1 .. n
      /\ \A b \in 1 .. n : /\ bs[b] \in BcGroup /\ len(b) \in Nat /\ DOMAIN bs[b].facn = 1 .. len(b)
                           /\ \A k \in 1 .. len(b) : bs[b].facn[k] \in [face : Int, row : Int]
  BY GroupsAreLists
<1>2. /\ RowsOf(bs) \in Seq(Seq(BndRow)) /\ Len(RowsOf(bs)) = n
      /\ \A b \in 1 .. n : Len(RowsOf(bs)[b]) = len(b)
  BY RowsAreLists
<1>3. \A b \in 1 .. n : \A k \in 1 .. len(b) : RowsOf(bs)[b][k] = [face |-> bs[b].facn[k].face, bc |-> b - 1]
  BY <1>1 DEF RowsOf
<1>4. list = Concatenated(RowsOf(bs))
  BY DEF Listed, RowsOf
<1> HIDE DEF n, list, len
<1>5. PICK P : Offsets(P, RowsOf(bs)) /\ LaidOut(list, P, RowsOf(bs))
  BY <1>2, <1>4, ConcatenatedPlaces
<1>6. /\ list \in Seq(BndRow) /\ Len(list) \in Nat /\ DOMAIN list = 1 .. Len(list)
      /\ P \in [0 .. n -> Nat]
  <2>1. list \in Seq(BndRow)
    BY <1>2, <1>4, ConcatenatedPlaces
  <2>2. P \in [0 .. n -> Nat]
    BY <1>2, <1>5 DEF Offsets
  <2> QED
    BY <2>1, <2>2, LenProperties
<1>7. ASSUME NEW b \in 1 .. n, NEW k \in 1 .. len(b)
      PROVE  /\ P[b - 1] + k \in 1 .. Len(list)
             /\ list[P[b - 1] + k] = [face |-> bs[b].facn[k].face, bc |-> b - 1]
  <2>1. b \in 1 .. Len(RowsOf(bs)) /\ k \in 1 .. Len(RowsOf(bs)[b])
    BY <1>2
  <2>2. P[b - 1] + k \in 1 .. Len(list) /\ list[P[b - 1] + k] = RowsOf(bs)[b][k]
    BY <1>5, <2>1 DEF LaidOut
  <2> QED
    BY <1>3, <2>2
<1>8. ASSUME NEW i \in 1 .. Len(list)
      PROVE  \E b \in 1 .. n : \E k \in 1 .. len(b) :
                i = P[b - 1] + k /\ list[i].face = bs[b].facn[k].face
  <2>1. PICK b \in 1 .. Len(RowsOf(bs)) : \E k \in 1 .. Len(RowsOf(bs)[b]) : i = P[b - 1] + k
    BY <1>5 DEF LaidOut
  <2>2. PICK k \in 1 .. Len(RowsOf(bs)[b]) : i = P[b - 1] + k
    BY <2>1
  <2>3. b \in 1 .. n /\ k \in 1 .. len(b)
    BY <1>2
  <2>4. list[i].face = bs[b].facn[k].face
    <3>1. list[P[b - 1] + k] = [face |-> bs[b].facn[k].face, bc |-> b - 1]
      BY <1>7, <2>3
    <3> QED
      BY <2>2, <3>1
  <2> QED
    BY <2>2, <2>3, <2>4
<1>9. ASSUME NEW i \in 1 .. Len(list), NEW j \in 1 .. Len(list), list[i].face = list[j].face
      PROVE  i = j
  <2>a. PICK b \in 1 .. n : \E k \in 1 .. len(b) :
            i = P[b - 1] + k /\ list[i].face = bs[b].facn[k].face
    BY <1>8
  <2>1. PICK k \in 1 .. len(b) : i = P[b - 1] + k /\ list[i].face = bs[b].facn[k].face
    BY <2>a
  <2>b. PICK b2 \in 1 .. n : \E k2 \in 1 .. len(b2) :
            j = P[b2 - 1] + k2 /\ list[j].face = bs[b2].facn[k2].face
    BY <1>8
  <2>2. PICK k2 \in 1 .. len(b2) : j = P[b2 - 1] + k2 /\ list[j].face = bs[b2].facn[k2].face
    BY <2>b
  <2>3. b = b2 /\ k = k2
    BY <1>1, <1>9, <2>1, <2>2 DEF OwnClaims
  <2> QED
    BY <2>1, <2>2, <2>3
<1>10. {list[k].face : k \in DOMAIN list} = open
  <2>1. ASSUME NEW i \in DOMAIN list
        PROVE  list[i].face \in open
    <3>1. PICK b \in 1 .. n : \E k \in 1 .. len(b) : list[i].face = bs[b].facn[k].face
      BY <1>6, <1>8
    <3> QED
      BY <1>1, <3>1 DEF OwnClaims
  <2>2. ASSUME NEW f \in open
        PROVE  \E i \in DOMAIN list : list[i].face = f
    <3>a. PICK b \in 1 .. n : \E k \in 1 .. len(b) : bs[b].facn[k].face = f
      BY <1>1 DEF AllClaimed
    <3>1. PICK k \in 1 .. len(b) : bs[b].facn[k].face = f
      BY <3>a
    <3>2. P[b - 1] + k \in DOMAIN list /\ list[P[b - 1] + k].face = f
      <4>1. /\ P[b - 1] + k \in 1 .. Len(list)
            /\ list[P[b - 1] + k] = [face |-> bs[b].facn[k].face, bc |-> b - 1]
        BY <1>7
      <4> QED
        BY <1>6, <3>1, <4>1
    <3> QED
      BY <3>2
  <2> QED
    BY <2>1, <2>2
<1>11. IsInjective([k \in DOMAIN list |-> list[k].face])
  BY <1>6, <1>9 DEF IsInjective
<1>12. Cardinality(open) = Len(list)
  <2> DEFINE F == [k \in DOMAIN list |-> list[k].face]
  <2>1. F \in [1 .. Len(list) -> open] /\ \A f \in open : \E i \in 1 .. Len(list) : F[i] = f
    BY <1>6, <1>10
  <2>2. IsInjective(F)
    BY <1>11
  <2> HIDE DEF F
  <2>3. F \in Bijection(1 .. Len(list), open)
    BY <2>1, <2>2 DEF Bijection, Injection, Surjection
  <2>4. ExistsBijection(1 .. Len(list), open)
    BY <2>3 DEF ExistsBijection
  <2>5. IsFiniteSet(1 .. Len(list)) /\ Cardinality(1 .. Len(list)) = Len(list)
    <3>1. 1 \in Int /\ Len(list) \in Int
      BY <1>6
    <3>2. /\ IsFiniteSet(1 .. Len(list))
          /\ Cardinality(1 .. Len(list)) = IF 1 > Len(list) THEN 0 ELSE Len(list) - 1 + 1
      BY <3>1, FS_Interval
    <3> QED
      BY <1>6, <3>2
  <2> QED
    BY <2>4, <2>5, FS_Bijection
\* The rows are written back.
<1>13. ASSUME NEW b \in 1 .. n
       PROVE  /\ nb[b] \in BcGroup /\ nb[b].facn \in Seq([face : Int, row : Int])
              /\ DOMAIN nb[b].facn = 1 .. len(b)
              /\ \A k \in 1 .. len(b) : /\ nb[b].facn[k].face = bs[b].facn[k].face
                                        /\ nb[b].facn[k].row = P[b - 1] + k - 1
  <2> DEFINE old == bs[b].facn
             new == [k \in DOMAIN old |-> [old[k] EXCEPT !.row = Before(bs, b) + k - 1]]
  <2>1. nb[b] = [bs[b] EXCEPT !.facn = new]
    BY <1>1 DEF Numbered
  <2>2. Before(bs, b) = P[b - 1] /\ P[b - 1] \in Nat
    <3>1. b \in 1 .. Len(bs) /\ b - 1 \in 0 .. n
      BY <1>1 DEF n
    <3> QED
      BY <1>5, <1>6, <3>1, BeforeIsOffset
  <2>3. len(b) \in Nat /\ DOMAIN old = 1 .. len(b)
    BY <1>1
  <2>4. ASSUME NEW k \in 1 .. len(b)
        PROVE  /\ new[k] \in [face : Int, row : Int]
               /\ new[k].face = old[k].face /\ new[k].row = P[b - 1] + k - 1
    <3>1. old[k] \in [face : Int, row : Int]
      BY <1>1
    <3>2. new[k] = [old[k] EXCEPT !.row = P[b - 1] + k - 1]
      BY <2>2, <2>3
    <3>3. P[b - 1] + k - 1 \in Int
      BY <2>2
    <3> HIDE DEF old, new
    <3> QED
      BY <3>1, <3>2, <3>3
  <2>5. DOMAIN new = 1 .. len(b)
    BY <2>3
  <2>6. new = [k \in 1 .. len(b) |-> new[k]]
    BY <2>3
  <2>7. bs[b] \in [name : BcNames \cup {NoName}, facn : Seq([face : Int, row : Int])]
    BY <1>1 DEF BcGroup
  <2> HIDE DEF new, nb
  <2>8. new \in [1 .. len(b) -> [face : Int, row : Int]]
    BY <2>4, <2>6
  <2>9. new \in Seq([face : Int, row : Int])
    BY <2>3, <2>8, FunctionIsSequence
  <2>10. nb[b] \in BcGroup /\ nb[b].facn = new
    BY <2>1, <2>7, <2>9 DEF BcGroup
  <2> QED
    BY <2>4, <2>5, <2>9, <2>10
<1>14. nb \in Seq(BcGroup) /\ DOMAIN nb = 1 .. n
  <2>1. nb = [b \in 1 .. n |-> nb[b]]
    BY <1>1 DEF Numbered
  <2> HIDE DEF nb
  <2>2. nb \in [1 .. n -> BcGroup]
    BY <1>13, <2>1
  <2> QED
    BY <1>1, <2>2, FunctionIsSequence
<1> HIDE DEF nb
<1>15. OwnClaims(nb, open)
  <2>1. ASSUME NEW b \in DOMAIN nb, NEW k \in DOMAIN nb[b].facn
        PROVE  /\ b \in DOMAIN bs /\ k \in DOMAIN bs[b].facn
               /\ nb[b].facn[k].face = bs[b].facn[k].face
    BY <1>1, <1>13, <1>14
  <2> QED
    BY <2>1 DEF OwnClaims
<1>16. ASSUME NEW b \in DOMAIN nb, NEW k \in DOMAIN nb[b].facn
       PROVE  list[nb[b].facn[k].row + 1] = [face |-> nb[b].facn[k].face, bc |-> b - 1]
  <2>1. b \in 1 .. n /\ k \in 1 .. len(b) /\ P[b - 1] \in Nat
    <3>1. b \in 1 .. n
      BY <1>14
    <3>2. b - 1 \in 0 .. n
      BY <1>1, <3>1
    <3> QED
      BY <1>6, <1>13, <3>1, <3>2
  <2>2. nb[b].facn[k].face = bs[b].facn[k].face /\ nb[b].facn[k].row = P[b - 1] + k - 1
    BY <1>13, <2>1
  <2>3. (P[b - 1] + k - 1) + 1 = P[b - 1] + k
    BY <2>1
  <2> QED
    BY <1>7, <2>1, <2>2, <2>3
<1>17. IsSplit(nb, list, open)
  BY <1>6, <1>10, <1>11, <1>12, <1>14, <1>15, <1>16 DEF IsSplit
<1> QED
  BY <1>17 DEF nb, list

-----------------------------------------------------------------------------
(* The inductive invariant.                                                *)

\* The rows of the cells and the nodes, and the faces that cells list: none before
\* build_interior(), and the same ones after it.
GivenRows ==
    /\ DOMAIN clnds \subseteq Int /\ {c \in DOMAIN clnds : c >= 0} = Cells
    /\ DOMAIN ndcrd \subseteq Int /\ {n \in DOMAIN ndcrd : n >= 0} = DOMAIN grid.crd
CellsListFaces ==
    \A c \in Cells : clfcs[c] = Listing(c) \/ (clfcs[c] = <<>> /\ Faces = {})

\* A face as build_interior() built it, whether or not a ghost was put on the
\* side that no cell is on.
FaceIsBuilt(f) ==
    /\ fccls[f] = <<fccls[f][1], fccls[f][2]>> /\ fccls[f][1] = Owners[f][1]
    /\ fccls[f][2] < 0 <=> Owners[f][2] < 0
    /\ fcnds[f] \in Seq(DOMAIN grid.crd) /\ Range(fcnds[f]) = Range(Populated[KeptFaces[f + 1]].nodes)
    /\ Len(fcnds[f]) = Len(Populated[KeptFaces[f + 1]].nodes)
FaceRows ==
    /\ DOMAIN fccls = DOMAIN fcnds /\ DOMAIN fcnds \subseteq Int /\ IsFiniteSet(DOMAIN fcnds)
    /\ Faces # {} => Faces = 0 .. Len(KeptFaces) - 1 /\ \A f \in Faces : FaceIsBuilt(f)

\* The faces that no cell is behind.
Open == {f \in Faces : fccls[f][2] < 0}

\* The conditions claim open faces, and once the boundary is built all of them.
BoundaryRows ==
    /\ bcs \in Seq(BcGroup) /\ OwnClaims(bcs, Open) /\ nbound \in Nat
    /\ nbound # 0 => IsSplit(bcs, bndfcs, Open) /\ nbound = Len(bndfcs)

MeshIInv ==
    IsGrid(grid) /\ NodesAsGiven /\ GivenRows /\ CellsListFaces /\ FaceRows /\ BoundaryRows

\* The nodes of the cells say which faces there are.
LEMMA TablesStay ==
    ASSUME IsGrid(grid), grid' = grid, \A c \in Cells : clnds'[c] = clnds[c]
    PROVE  /\ Populated' = Populated /\ FirstTwin' = FirstTwin /\ KeptFaces' = KeptFaces
           /\ NumberOf' = NumberOf /\ Owners' = Owners /\ Cells' = Cells
           /\ \A c \in Cells : Listing(c)' = Listing(c)
<1>1. Populated' = Populated
  BY PopulatedStays
<1>2. FirstTwin' = FirstTwin
  BY <1>1 DEF FirstTwin
<1>3. KeptFaces' = KeptFaces /\ NumberOf' = NumberOf
  BY <1>2 DEF KeptFaces, NumberOf
<1>4. Owners' = Owners
  BY <1>1, <1>3 DEF Owners
<1>5. \A c \in Cells : Listing(c)' = Listing(c)
  BY <1>1, <1>3 DEF Listing
<1>6. Cells' = Cells
  BY DEF Cells
<1> QED
  BY <1>1, <1>2, <1>3, <1>4, <1>5, <1>6

\* The open faces are finitely many numbers.
LEMMA OpenIsFinite ==
    ASSUME FaceRows
    PROVE  IsFiniteSet(Open) /\ Open \in SUBSET Int
<1>1. Open \in SUBSET DOMAIN fcnds
  BY DEF Open, Faces
<1>2. IsFiniteSet(DOMAIN fcnds) /\ DOMAIN fcnds \subseteq Int
  BY DEF FaceRows
<1> QED
  BY <1>1, <1>2, FS_Subset

\* The same faces are open as long as the same faces are built.
LEMMA OpenStays ==
    ASSUME FaceRows, FaceRows', Owners' = Owners, Faces # {}, Faces' = Faces
    PROVE  Open' = Open
<1>1. ASSUME NEW f \in Faces
      PROVE  fccls'[f][2] < 0 <=> fccls[f][2] < 0
  <2>1. FaceIsBuilt(f)
    BY DEF FaceRows
  <2>2. \A h \in Faces' : FaceIsBuilt(h)'
    BY DEF FaceRows
  <2>3. FaceIsBuilt(f)'
    BY <2>2
  <2>4. fccls[f][2] < 0 <=> Owners[f][2] < 0
    BY <2>1 DEF FaceIsBuilt
  <2>5. fccls'[f][2] < 0 <=> Owners'[f][2] < 0
    BY <2>3 DEF FaceIsBuilt
  <2> QED
    BY <2>4, <2>5
<1>2. Open = {f \in Faces : fccls[f][2] < 0} /\ Open' = {f \in Faces : fccls'[f][2] < 0}
  BY DEF Open
<1> QED
  BY <1>1, <1>2

\* What the conditions claim stays open then.
LEMMA BoundaryRowsStay ==
    ASSUME FaceRows, FaceRows', Owners' = Owners, Faces # {} => Faces' = Faces,
           BoundaryRows, UNCHANGED <<bcs, bndfcs, nbound>>
    PROVE  BoundaryRows'
<1>1. CASE Faces # {}
  <2>1. Open' = Open
    BY <1>1, OpenStays
  <2> QED
    BY <2>1 DEF BoundaryRows
<1>2. CASE Faces = {}
  <2>1. Open = {}
    BY <1>2 DEF Open
  <2>2. OwnClaims(bcs, {})
    BY <2>1 DEF BoundaryRows
  <2>3. OwnClaims(bcs, Open')
    BY <2>2 DEF OwnClaims
  <2>4. nbound = 0
    <3>1. SUFFICES ASSUME nbound # 0
                   PROVE  FALSE
      OBVIOUS
    <3>2. IsSplit(bcs, bndfcs, {}) /\ nbound = Len(bndfcs) /\ nbound \in Nat
      BY <2>1, <3>1 DEF BoundaryRows
    <3>3. {bndfcs[k].face : k \in DOMAIN bndfcs} = {} /\ DOMAIN bndfcs = 1 .. Len(bndfcs)
      BY <3>2, LenProperties DEF IsSplit
    <3>4. 1 \in DOMAIN bndfcs
      BY <3>1, <3>2, <3>3
    <3> QED
      BY <3>3, <3>4
  <2> QED
    BY <2>3, <2>4 DEF BoundaryRows
<1> QED
  BY <1>1, <1>2

\* build_interior() keeps the invariant.
LEMMA InteriorKeeps ==
    ASSUME MeshIInv, NEW doMetric \in BOOLEAN, NEW doEdge \in BOOLEAN,
           BuildInterior(doMetric, doEdge)
    PROVE  MeshIInv'
<1>1. IsGrid(grid) /\ NodesAsGiven /\ GivenRows /\ CellsListFaces /\ FaceRows /\ BoundaryRows
  BY DEF MeshIInv
<1>2. UNCHANGED <<grid, ndcrd, clnds, bcs, bndfcs, nbound>>
  BY DEF BuildInterior
<1>3. FreshFaces(fccls', fcnds') /\ FreshLists(clfcs')
  BY <1>1, InteriorIsFresh
<1>4. /\ Populated' = Populated /\ KeptFaces' = KeptFaces /\ Owners' = Owners /\ Cells' = Cells
      /\ \A c \in Cells : Listing(c)' = Listing(c)
  BY <1>1, <1>2, TablesStay
<1>5. IsGrid(grid)' /\ GivenRows'
  BY <1>1, <1>2, <1>4 DEF GivenRows
<1>6. NodesAsGiven'
  BY <1>1, <1>2, <1>3, <1>4 DEF NodesAsGiven, FreshLists
<1>7. CellsListFaces'
  <2>1. ASSUME NEW c \in Cells
        PROVE  clfcs'[c] = Listing(c)'
    BY <1>3, <1>4 DEF FreshLists
  <2> QED
    BY <1>4, <2>1 DEF CellsListFaces
<1>8. /\ Len(KeptFaces) \in Nat /\ IsFiniteSet(0 .. Len(KeptFaces) - 1)
      /\ \A f \in 0 .. Len(KeptFaces) - 1 : Owners[f] = <<Owners[f][1], Owners[f][2]>>
  BY <1>1, KeptAreNumbered DEF IsKept
<1>9. Faces' = 0 .. Len(KeptFaces) - 1
  BY <1>3 DEF Faces, FreshFaces
<1>10. FaceRows'
  <2>1. DOMAIN fccls' = DOMAIN fcnds' /\ DOMAIN fcnds' \subseteq Int /\ IsFiniteSet(DOMAIN fcnds')
    BY <1>3, <1>8 DEF FreshFaces, Owners
  <2>2. ASSUME NEW f \in 0 .. Len(KeptFaces) - 1
        PROVE  FaceIsBuilt(f)'
    <3>1. fccls' = Owners /\ fcnds'[f] \in Seq(DOMAIN grid.crd)
          /\ Range(fcnds'[f]) = Range(Populated[KeptFaces[f + 1]].nodes)
          /\ Len(fcnds'[f]) = Len(Populated[KeptFaces[f + 1]].nodes)
      BY <1>3 DEF FreshFaces
    <3>2. fccls'[f] = <<fccls'[f][1], fccls'[f][2]>>
      BY <1>8, <3>1
    <3> QED
      BY <1>2, <1>4, <3>1, <3>2 DEF FaceIsBuilt
  <2> QED
    BY <1>4, <1>9, <2>1, <2>2 DEF FaceRows
<1>11. Faces # {} => Faces' = Faces
  BY <1>1, <1>9 DEF FaceRows
<1>12. BoundaryRows'
  BY <1>1, <1>2, <1>4, <1>10, <1>11, BoundaryRowsStay
<1> QED
  BY <1>5, <1>6, <1>7, <1>10, <1>12 DEF MeshIInv

\* The interior is left alone.
LEMMA InteriorStays ==
    ASSUME IsGrid(grid), NodesAsGiven, GivenRows, CellsListFaces, FaceRows,
           UNCHANGED <<grid, ndcrd, clnds, clfcs, fcnds, fccls>>
    PROVE  /\ IsGrid(grid)' /\ NodesAsGiven' /\ GivenRows' /\ CellsListFaces' /\ FaceRows'
           /\ Open' = Open
<1>1. /\ Populated' = Populated /\ KeptFaces' = KeptFaces /\ Owners' = Owners /\ Cells' = Cells
      /\ \A c \in Cells : Listing(c)' = Listing(c)
  BY TablesStay
<1>2. Faces' = Faces
  BY DEF Faces
<1>3. IsGrid(grid)' /\ GivenRows' /\ NodesAsGiven'
  BY <1>1 DEF GivenRows, NodesAsGiven
<1>4. CellsListFaces'
  BY <1>1, <1>2 DEF CellsListFaces
<1>5. FaceRows'
  <2>1. ASSUME NEW f \in Faces, FaceIsBuilt(f)
        PROVE  FaceIsBuilt(f)'
    BY <1>1, <2>1 DEF FaceIsBuilt
  <2> QED
    BY <1>1, <1>2, <2>1 DEF FaceRows
<1>6. Open' = Open
  BY <1>2 DEF Open
<1> QED
  BY <1>3, <1>4, <1>5, <1>6

\* One condition more with faces of its own.
LEMMA OneGroupMore ==
    ASSUME NEW bs \in Seq(BcGroup), NEW open, OwnClaims(bs, open), NEW group \in BcGroup,
           \A k \in DOMAIN group.facn :
              /\ group.facn[k].face \in open
              /\ \A j \in DOMAIN group.facn : group.facn[j].face = group.facn[k].face => j = k
              /\ \A b \in DOMAIN bs : \A j \in DOMAIN bs[b].facn :
                    bs[b].facn[j].face # group.facn[k].face
    PROVE  Append(bs, group) \in Seq(BcGroup) /\ OwnClaims(Append(bs, group), open)
<1> DEFINE n == Len(bs)
           new == Append(bs, group)
<1>1. n \in Nat /\ DOMAIN bs = 1 .. n
  BY LenProperties
<1>2. /\ new \in Seq(BcGroup) /\ DOMAIN new = 1 .. n + 1 /\ new[n + 1] = group
      /\ \A b \in 1 .. n : new[b] = bs[b]
  <2>1. new \in Seq(BcGroup) /\ Len(new) = n + 1
    BY AppendProperties
  <2> QED
    BY <2>1, AppendProperties, LenProperties
<1> HIDE DEF n, new
<1>3. ASSUME NEW b \in DOMAIN new
      PROVE  b \in 1 .. n \/ b = n + 1
  BY <1>1, <1>2
<1>4. ASSUME NEW b \in DOMAIN new, NEW k \in DOMAIN new[b].facn
      PROVE  new[b].facn[k].face \in open
  BY <1>1, <1>2, <1>3 DEF OwnClaims
<1>5. ASSUME NEW b \in DOMAIN new, NEW k \in DOMAIN new[b].facn,
             NEW b2 \in DOMAIN new, NEW k2 \in DOMAIN new[b2].facn,
             new[b].facn[k].face = new[b2].facn[k2].face
      PROVE  b = b2 /\ k = k2
  <2>1. CASE b \in 1 .. n /\ b2 \in 1 .. n
    BY <1>1, <1>2, <1>5, <2>1 DEF OwnClaims
  <2>2. CASE b \in 1 .. n /\ b2 = n + 1
    BY <1>1, <1>2, <1>5, <2>2
  <2>3. CASE b = n + 1 /\ b2 \in 1 .. n
    BY <1>1, <1>2, <1>5, <2>3
  <2>4. CASE b = n + 1 /\ b2 = n + 1
    BY <1>2, <1>5, <2>4
  <2> QED
    BY <1>3, <2>1, <2>2, <2>3, <2>4
<1>6. OwnClaims(new, open)
  BY <1>4, <1>5 DEF OwnClaims
<1> QED
  BY <1>2, <1>6 DEF new

\* A condition made from a list of faces, as add_bc() and build_boundary() make it.
LEMMA GroupOf ==
    ASSUME NEW name \in BcNames \cup {NoName}, NEW faces \in Seq(Int)
    PROVE  LET group == [name |-> name,
                         facn |-> [k \in DOMAIN faces |-> [face |-> faces[k], row |-> -1]]]
           IN  /\ group \in BcGroup /\ DOMAIN group.facn = DOMAIN faces
               /\ \A k \in DOMAIN faces : group.facn[k].face = faces[k]
<1> DEFINE n == Len(faces)
           facn == [k \in DOMAIN faces |-> [face |-> faces[k], row |-> -1]]
<1>1. n \in Nat /\ DOMAIN faces = 1 .. n /\ \A k \in 1 .. n : faces[k] \in Int
  BY LenProperties, ElementOfSeq
<1> HIDE DEF n
<1>2. facn \in [1 .. n -> [face : Int, row : Int]]
  BY <1>1
<1>3. DOMAIN facn = DOMAIN faces /\ \A k \in DOMAIN faces : facn[k].face = faces[k]
  OBVIOUS
<1> HIDE DEF facn
<1>4. facn \in Seq([face : Int, row : Int])
  BY <1>1, <1>2, FunctionIsSequence
<1>5. [name |-> name, facn |-> facn] \in BcGroup
  BY <1>4 DEF BcGroup
<1> QED
  BY <1>3, <1>5 DEF facn

\* add_bc() claims faces that no condition has yet.
LEMMA AddBcKeeps ==
    ASSUME MeshIInv, NEW name \in BcNames, NEW faces \in grid.patches, AddBc(name, faces)
    PROVE  MeshIInv'
<1>1. IsGrid(grid) /\ NodesAsGiven /\ GivenRows /\ CellsListFaces /\ FaceRows /\ BoundaryRows
  BY DEF MeshIInv
<1>2. UNCHANGED <<grid, ndcrd, clnds, clfcs, fcnds, fccls, nbound>> /\ nbound = 0
  BY DEF AddBc, Accepts, interiorVars
<1>3. /\ IsGrid(grid)' /\ NodesAsGiven' /\ GivenRows' /\ CellsListFaces' /\ FaceRows'
      /\ Open' = Open
  BY <1>1, <1>2, InteriorStays
<1> DEFINE group == [name |-> name, facn |-> [k \in DOMAIN faces |-> [face |-> faces[k], row |-> -1]]]
<1>4. faces \in Seq(Int)
  BY <1>1 DEF IsGrid
<1>5. /\ group \in BcGroup /\ DOMAIN group.facn = DOMAIN faces
      /\ \A k \in DOMAIN faces : group.facn[k].face = faces[k]
  BY <1>4, GroupOf
<1>6. bcs' = Append(bcs, group)
  BY DEF AddBc
<1> HIDE DEF group
<1>7. ASSUME NEW k \in DOMAIN faces
      PROVE  /\ faces[k] \in Open /\ faces[k] \notin Claimed
             /\ \A j \in 1 .. k - 1 : faces[j] # faces[k]
  BY DEF AddBc, Accepts, Open
<1>8. ASSUME NEW k \in DOMAIN faces, NEW j \in DOMAIN faces, faces[j] = faces[k]
      PROVE  j = k
  <2>1. j \in Nat /\ k \in Nat /\ 1 <= j /\ 1 <= k
    BY <1>4, LenProperties
  <2>2. ~ (j < k) /\ ~ (k < j)
    BY <1>7, <1>8, <2>1
  <2> QED
    BY <2>1, <2>2
<1>9. ASSUME NEW k \in DOMAIN faces, NEW b \in DOMAIN bcs, NEW j \in DOMAIN bcs[b].facn
      PROVE  bcs[b].facn[j].face # faces[k]
  <2>1. bcs[b].facn[j].face \in Claimed
    BY DEF Claimed, Range
  <2> QED
    BY <1>7, <2>1
<1>10. bcs \in Seq(BcGroup) /\ OwnClaims(bcs, Open)
  BY <1>1 DEF BoundaryRows
<1>11. Append(bcs, group) \in Seq(BcGroup) /\ OwnClaims(Append(bcs, group), Open)
  BY <1>5, <1>7, <1>8, <1>9, <1>10, OneGroupMore
<1>12. BoundaryRows'
  BY <1>2, <1>3, <1>6, <1>11 DEF BoundaryRows
<1> QED
  BY <1>3, <1>12 DEF MeshIInv

\* build_boundary() puts the faces left over into one condition more and
\* splits the boundary.
LEMMA BoundaryKeeps ==
    ASSUME MeshIInv, BuildBoundary
    PROVE  MeshIInv'
<1>1. IsGrid(grid) /\ NodesAsGiven /\ GivenRows /\ CellsListFaces /\ FaceRows /\ BoundaryRows
  BY DEF MeshIInv
<1>2. UNCHANGED <<grid, ndcrd, clnds, clfcs, fcnds, fccls>>
  BY DEF BuildBoundary, interiorVars
<1>3. /\ IsGrid(grid)' /\ NodesAsGiven' /\ GivenRows' /\ CellsListFaces' /\ FaceRows'
      /\ Open' = Open
  BY <1>1, <1>2, InteriorStays
<1> DEFINE left == Ascending(Open \ Claimed)
           rest == [name |-> NoName, facn |-> [k \in DOMAIN left |-> [face |-> left[k], row |-> -1]]]
           groups == IF left = <<>> THEN bcs ELSE Append(bcs, rest)
<1>4. nbound' = Cardinality(Open) /\ bcs' = Numbered(groups) /\ bndfcs' = Listed(groups)
  BY DEF BuildBoundary, Open
<1>5. IsFiniteSet(Open) /\ Open \in SUBSET Int
  BY <1>1, OpenIsFinite
<1>6. Lists(left, Open \ Claimed)
  <2>1. (Open \ Claimed) \in SUBSET Open /\ (Open \ Claimed) \in SUBSET Int
    BY <1>5
  <2>2. IsFiniteSet(Open \ Claimed)
    BY <1>5, <2>1, FS_Subset
  <2> QED
    BY <2>1, <2>2, AscendingLists
<1> HIDE DEF left
<1>7. /\ left \in Seq(Int) /\ Len(left) \in Nat /\ DOMAIN left = 1 .. Len(left)
      /\ \A k \in DOMAIN left : left[k] \in Open \ Claimed /\ left[k] \in Int
      /\ \A f \in Open \ Claimed : \E k \in DOMAIN left : left[k] = f
  <2>1. left \in Seq(Open \ Claimed) /\ \A f \in Open \ Claimed : \E k \in 1 .. Len(left) : left[k] = f
    BY <1>6 DEF Lists
  <2>2. Len(left) \in Nat /\ DOMAIN left = 1 .. Len(left)
        /\ \A k \in 1 .. Len(left) : left[k] \in Open \ Claimed
    BY <2>1, LenProperties, ElementOfSeq
  <2>3. (Open \ Claimed) \subseteq Int
    BY <1>5
  <2>4. left \in Seq(Int)
    BY <2>1, <2>3, SeqMonotonic
  <2> QED
    BY <2>1, <2>2, <2>3, <2>4
<1>8. ASSUME NEW k \in DOMAIN left, NEW j \in DOMAIN left, left[j] = left[k]
      PROVE  j = k
  <2>1. j \in 1 .. Len(left) /\ k \in 1 .. Len(left) /\ left[j] \in Int /\ left[k] \in Int
    BY <1>7
  <2>2. (j < k => left[j] < left[k]) /\ (k < j => left[k] < left[j])
    BY <1>6, <2>1 DEF Lists
  <2> QED
    BY <1>7, <1>8, <2>1, <2>2
<1>9. /\ rest \in BcGroup /\ DOMAIN rest.facn = DOMAIN left
      /\ \A k \in DOMAIN left : rest.facn[k].face = left[k]
  BY <1>7, GroupOf
<1> HIDE DEF rest
<1>10. ASSUME NEW f \in Claimed
       PROVE  \E b \in DOMAIN bcs : \E k \in DOMAIN bcs[b].facn : bcs[b].facn[k].face = f
  BY DEF Claimed, Range
<1>11. ASSUME NEW k \in DOMAIN left, NEW b \in DOMAIN bcs, NEW j \in DOMAIN bcs[b].facn
       PROVE  bcs[b].facn[j].face # left[k]
  <2>1. bcs[b].facn[j].face \in Claimed
    BY DEF Claimed, Range
  <2> QED
    BY <1>7, <2>1
<1>12. bcs \in Seq(BcGroup) /\ OwnClaims(bcs, Open)
  BY <1>1 DEF BoundaryRows
<1>13. groups \in Seq(BcGroup) /\ OwnClaims(groups, Open) /\ AllClaimed(groups, Open)
  <2>1. CASE left = <<>>
    <3>1. ASSUME NEW f \in Open
          PROVE  f \in Claimed
      BY <1>7, <2>1
    <3>2. AllClaimed(bcs, Open)
      BY <1>10, <3>1 DEF AllClaimed
    <3> QED
      BY <1>12, <2>1, <3>2
  <2>2. CASE left # <<>>
    <3>1. Append(bcs, rest) \in Seq(BcGroup) /\ OwnClaims(Append(bcs, rest), Open)
      <4>1. ASSUME NEW k \in DOMAIN rest.facn
            PROVE  /\ rest.facn[k].face \in Open
                   /\ \A j \in DOMAIN rest.facn : rest.facn[j].face = rest.facn[k].face => j = k
                   /\ \A b \in DOMAIN bcs : \A j \in DOMAIN bcs[b].facn :
                         bcs[b].facn[j].face # rest.facn[k].face
        <5>1. k \in DOMAIN left /\ rest.facn[k].face = left[k] /\ left[k] \in Open
          BY <1>7, <1>9
        <5> QED
          BY <1>8, <1>9, <1>11, <5>1
      <4> QED
        BY <1>9, <1>12, <4>1, OneGroupMore
    <3> DEFINE n == Len(bcs)
               new == Append(bcs, rest)
    <3>2. /\ n \in Nat /\ DOMAIN bcs = 1 .. n /\ DOMAIN new = 1 .. n + 1 /\ new[n + 1] = rest
          /\ \A b \in 1 .. n : new[b] = bcs[b]
      <4>1. Len(new) = n + 1 /\ DOMAIN new = 1 .. Len(new)
        BY <1>9, <1>12, <3>1, AppendProperties, LenProperties
      <4> QED
        BY <1>9, <1>12, <4>1, AppendProperties, LenProperties
    <3> HIDE DEF n, new
    <3>3. ASSUME NEW f \in Open
          PROVE  \E b \in DOMAIN new : \E k \in DOMAIN new[b].facn : new[b].facn[k].face = f
      <4>1. CASE f \in Claimed
        <5>1. PICK b \in DOMAIN bcs : \E k \in DOMAIN bcs[b].facn : bcs[b].facn[k].face = f
          BY <1>10, <4>1
        <5>2. b \in DOMAIN new /\ new[b] = bcs[b]
          BY <3>2
        <5> QED
          BY <5>1, <5>2
      <4>2. CASE f \notin Claimed
        <5>1. PICK k \in DOMAIN left : left[k] = f
          BY <1>7, <4>2
        <5>2. n + 1 \in DOMAIN new /\ new[n + 1] = rest
          BY <3>2
        <5> QED
          BY <1>9, <5>1, <5>2
      <4> QED
        BY <4>1, <4>2
    <3>4. AllClaimed(new, Open)
      BY <3>3 DEF AllClaimed
    <3> QED
      BY <2>2, <3>1, <3>4 DEF new
  <2> QED
    BY <2>1, <2>2
<1> HIDE DEF groups
<1>14. IsSplit(bcs', bndfcs', Open)
  BY <1>4, <1>5, <1>13, SplitIsMade
<1>15. nbound' = Len(bndfcs') /\ nbound' \in Nat
  BY <1>4, <1>14, LenProperties DEF IsSplit
<1>16. BoundaryRows'
  BY <1>3, <1>14, <1>15 DEF BoundaryRows, IsSplit
<1> QED
  BY <1>3, <1>16 DEF MeshIInv

\* A new mesh has its cells, and no faces yet.
LEMMA NewMeshKeeps ==
    ASSUME NEW g \in Grids, NewMesh(g)
    PROVE  MeshIInv'
<1>1. IsGrid(g) /\ grid' = g
  BY GridsAssumption DEF NewMesh
<1>2. IsGrid(grid)'
  BY <1>1
<1>3. Len(g.cells) \in Nat
  BY <1>1, LenProperties DEF IsGrid
<1>4. Cells' = 0 .. Len(g.cells) - 1 /\ DOMAIN clnds' = 0 .. Len(g.cells) - 1
      /\ DOMAIN clfcs' = DOMAIN clnds'
      /\ \A c \in 0 .. Len(g.cells) - 1 : clnds'[c] = g.cells[c + 1].nodes /\ clfcs'[c] = <<>>
  BY <1>1 DEF NewMesh, Cells
<1>5. NodesAsGiven' /\ CellsListFaces'
  <2>1. Faces' = {}
    BY DEF NewMesh, Faces
  <2> QED
    BY <1>1, <1>4, <2>1 DEF NodesAsGiven, CellsListFaces
<1>6. GivenRows'
  <2>1. ndcrd' = g.crd /\ DOMAIN g.crd \subseteq Nat
    BY <1>1, NodesAreNumbered DEF NewMesh
  <2>2. DOMAIN ndcrd' \subseteq Int /\ {n \in DOMAIN ndcrd' : n >= 0} = DOMAIN (grid.crd)'
    BY <1>1, <2>1
  <2> QED
    BY <1>3, <1>4, <2>2 DEF GivenRows
<1>7. DOMAIN fcnds' = {} /\ DOMAIN fccls' = {} /\ bcs' = <<>> /\ nbound' = 0
  BY DEF NewMesh
<1>8. FaceRows' /\ Open' = {}
  BY <1>7, FS_EmptySet DEF FaceRows, Faces, Open
<1>9. BoundaryRows'
  BY <1>7 DEF BoundaryRows, OwnClaims
<1> QED
  BY <1>2, <1>5, <1>6, <1>8, <1>9 DEF MeshIInv

\* Before that there is nothing.
LEMMA MeshStarts ==
    ASSUME StaticMeshInit
    PROVE  MeshIInv
<1>1. IsGrid(grid) /\ grid.cells = <<>>
  <2>1. /\ grid.ndim = 2 /\ grid.crd = <<>> /\ grid.cells = <<>> /\ grid.patches = {}
    BY DEF StaticMeshInit
  <2>2. IsFiniteSet(DOMAIN grid.crd) /\ DOMAIN grid.crd = 0 .. Cardinality(DOMAIN grid.crd) - 1
    <3>1. DOMAIN grid.crd = {}
      BY <2>1
    <3>2. IsFiniteSet(DOMAIN grid.crd) /\ Cardinality(DOMAIN grid.crd) = 0
      BY <3>1, FS_EmptySet
    <3> QED
      BY <3>1, <3>2
  <2>3. DOMAIN grid.cells = {}
    BY <2>1
  <2> QED
    BY <2>1, <2>2, <2>3 DEF IsGrid
<1>2. Cells = {} /\ DOMAIN clnds = {} /\ DOMAIN ndcrd = {} /\ DOMAIN grid.crd = {}
  BY <1>1 DEF StaticMeshInit, Cells
<1>3. NodesAsGiven /\ CellsListFaces /\ GivenRows
  BY <1>2 DEF NodesAsGiven, CellsListFaces, GivenRows
<1>4. DOMAIN fcnds = {} /\ DOMAIN fccls = {} /\ bcs = <<>> /\ nbound = 0
  BY DEF StaticMeshInit
<1>5. FaceRows /\ Open = {}
  BY <1>4, FS_EmptySet DEF FaceRows, Faces, Open
<1>6. BoundaryRows
  BY <1>4 DEF BoundaryRows, OwnClaims
<1> QED
  BY <1>1, <1>3, <1>5, <1>6 DEF MeshIInv

\* And as long as nothing is called, all stays.
LEMMA MeshStutters ==
    ASSUME MeshIInv, UNCHANGED staticMeshVars
    PROVE  MeshIInv'
<1>1. IsGrid(grid) /\ NodesAsGiven /\ GivenRows /\ CellsListFaces /\ FaceRows /\ BoundaryRows
  BY DEF MeshIInv
<1>2. UNCHANGED <<grid, ndcrd, clnds, clfcs, fcnds, fccls, bcs, bndfcs, nbound>>
  BY DEF staticMeshVars, interiorVars
<1>3. /\ IsGrid(grid)' /\ NodesAsGiven' /\ GivenRows' /\ CellsListFaces' /\ FaceRows'
      /\ Open' = Open
  BY <1>1, <1>2, InteriorStays
<1>4. BoundaryRows'
  BY <1>1, <1>2, <1>3 DEF BoundaryRows
<1> QED
  BY <1>3, <1>4 DEF MeshIInv

-----------------------------------------------------------------------------
(* build_ghost(): what it adds.                                            *)

\* The tables that build_ghost() fills, and what it keeps for a cell.
Tables == {"crd", "cnds", "cfcs", "nds", "cls", "map", "sides"}

\* A node gets its ghost, unless the boundary face has it.
NodeAdded(h, ibfc, g, n) ==
    /\ DOMAIN h = Tables
    /\ h.cnds = g.cnds /\ h.cfcs = g.cfcs /\ h.nds = g.nds /\ h.cls = g.cls /\ h.sides = g.sides
    /\ n \in Range(fcnds[ibfc]) => h.map = g.map /\ h.crd = g.crd
    /\ n \notin Range(fcnds[ibfc]) =>
          /\ h.map = Put(g.map, n, NextGhost(g.crd))
          /\ h.crd = Put(g.crd, NextGhost(g.crd), Mirrored(ndcrd[n], ibfc))

\* GhostNode() does that.
LEMMA GhostNodeAdds ==
    ASSUME NEW ibfc, NEW g, DOMAIN g = Tables, NEW n
    PROVE  NodeAdded(GhostNode(ibfc, g, n), ibfc, g, n)
<1> DEFINE at == NextGhost(g.crd)
           crd == Put(g.crd, at, Mirrored(ndcrd[n], ibfc))
           map == Put(g.map, n, at)
           h == GhostNode(ibfc, g, n)
<1>1. CASE n \in Range(fcnds[ibfc])
  <2>1. h = g
    BY <1>1 DEF GhostNode
  <2> QED
    BY <1>1, <2>1 DEF NodeAdded
<1>2. CASE n \notin Range(fcnds[ibfc])
  <2>1. h = [g EXCEPT !.map = map, !.crd = crd]
    BY <1>2 DEF GhostNode
  <2> HIDE DEF h, map, crd
  <2>2. h.map = map /\ h.crd = crd
    BY <2>1 DEF Tables
  <2>3. /\ DOMAIN h = Tables
        /\ h.cnds = g.cnds /\ h.cfcs = g.cfcs /\ h.nds = g.nds /\ h.cls = g.cls /\ h.sides = g.sides
    BY <2>1 DEF Tables
  <2> QED
    BY <1>2, <2>2, <2>3 DEF NodeAdded, h, map, crd
<1> QED
  BY <1>1, <1>2

\* A face of the cell gets its ghost, which takes the ghosts of the nodes; the
\* boundary face is a side of the ghost cell itself.
FaceAdded(h, ibfc, igcl, g, ifc) ==
    /\ DOMAIN h = Tables
    /\ h.cnds = g.cnds /\ h.cfcs = g.cfcs /\ h.crd = g.crd /\ h.map = g.map
    /\ ifc = ibfc => h.nds = g.nds /\ h.cls = g.cls /\ h.sides = Append(g.sides, ibfc)
    /\ ifc # ibfc =>
          LET at == NextGhost(g.nds)
              To(n) == IF n \in DOMAIN g.map THEN g.map[n] ELSE n
          IN  /\ h.nds = Put(g.nds, at, [k \in DOMAIN fcnds[ifc] |-> To(fcnds[ifc][k])])
              /\ h.cls = Put(g.cls, at, <<igcl, -1>>)
              /\ h.sides = Append(g.sides, at)

\* GhostFace() does that.
LEMMA GhostFaceAdds ==
    ASSUME NEW ibfc, NEW igcl, NEW g, DOMAIN g = Tables, NEW ifc
    PROVE  FaceAdded(GhostFace(ibfc, igcl, g, ifc), ibfc, igcl, g, ifc)
<1> DEFINE at == NextGhost(g.nds)
           To(n) == IF n \in DOMAIN g.map THEN g.map[n] ELSE n
           nds == Put(g.nds, at, [k \in DOMAIN fcnds[ifc] |-> To(fcnds[ifc][k])])
           cls == Put(g.cls, at, <<igcl, -1>>)
           h == GhostFace(ibfc, igcl, g, ifc)
<1>1. CASE ifc = ibfc
  <2> DEFINE sides == Append(g.sides, ibfc)
  <2>1. h = [g EXCEPT !.sides = sides]
    BY <1>1 DEF GhostFace
  <2> HIDE DEF h, sides
  <2>2. /\ DOMAIN h = Tables /\ h.sides = sides
        /\ h.cnds = g.cnds /\ h.cfcs = g.cfcs /\ h.crd = g.crd /\ h.map = g.map
        /\ h.nds = g.nds /\ h.cls = g.cls
    BY <2>1 DEF Tables
  <2> QED
    BY <1>1, <2>2 DEF FaceAdded, h, sides
<1>2. CASE ifc # ibfc
  <2> DEFINE sides == Append(g.sides, at)
  <2>1. h = [g EXCEPT !.nds = nds, !.cls = cls, !.sides = sides]
    BY <1>2 DEF GhostFace
  <2> HIDE DEF h, sides, nds, cls
  <2>2. /\ DOMAIN h = Tables /\ h.sides = sides /\ h.nds = nds /\ h.cls = cls
        /\ h.cnds = g.cnds /\ h.cfcs = g.cfcs /\ h.crd = g.crd /\ h.map = g.map
    BY <2>1 DEF Tables
  <2> QED
    BY <1>2, <2>2 DEF FaceAdded, h, sides, nds, cls
<1> QED
  BY <1>1, <1>2

\* The nodes of a cell and then its faces, the tables after each of them.
NodesOver(p, ibfc, icl, g) == NodeGhosts(p, ibfc, g, clnds[icl])
FacesOver(q, ibfc, igcl, icl, noded) == FaceGhosts(q, ibfc, igcl, noded, clfcs[icl])

\* The ghost cell has the nodes of the face and the ghosts of the others, and
\* becomes the neighbour of the face.
CellAdded(h, ibfc, igcl, icl, noded, faced) ==
    LET To(n) == IF n \in Range(fcnds[ibfc]) THEN n ELSE noded.map[n]
    IN  /\ DOMAIN h = Tables
        /\ h.crd = faced.crd /\ h.nds = faced.nds
        /\ h.cnds = Put(faced.cnds, igcl, [k \in DOMAIN clnds[icl] |-> To(clnds[icl][k])])
        /\ h.cfcs = Put(faced.cfcs, igcl, faced.sides)
        /\ h.cls = [faced.cls EXCEPT ![ibfc][2] = igcl]
        /\ h.map = [n \in DOMAIN faced.map \ Range(clnds[icl]) |-> faced.map[n]]
        /\ h.sides = <<>>

\* GhostCell() does that, after the ghosts of its nodes and faces.
LEMMA GhostCellAdds ==
    ASSUME NEW g, NEW row, NEW ibfc, NEW icl, ibfc = bndfcs[row].face, icl = fccls[ibfc][1],
           Len(clnds[icl]) \in Nat, Len(clfcs[icl]) \in Nat
    PROVE  \E p, q :
             LET noded == p[Len(clnds[icl])]
                 faced == q[Len(clfcs[icl])]
             IN  /\ NodesOver(p, ibfc, icl, g) /\ FacesOver(q, ibfc, -row, icl, noded)
                 /\ DOMAIN faced = Tables => CellAdded(GhostCell(g, row), ibfc, -row, icl, noded, faced)
<1>1. PICK p : NodeGhosts(p, ibfc, g, clnds[icl]) /\ AllNodeGhosts(ibfc, g, clnds[icl]) = p[Len(clnds[icl])]
  BY NodeGhostsRun
<1> DEFINE noded == p[Len(clnds[icl])]
<1>2. PICK q : /\ FaceGhosts(q, ibfc, -row, noded, clfcs[icl])
               /\ AllFaceGhosts(ibfc, -row, noded, clfcs[icl]) = q[Len(clfcs[icl])]
  <2> HIDE DEF noded
  <2> QED
    BY FaceGhostsRun
<1> DEFINE faced == q[Len(clfcs[icl])]
           To(n) == IF n \in Range(fcnds[ibfc]) THEN n ELSE noded.map[n]
           corners == [k \in DOMAIN clnds[icl] |-> To(clnds[icl][k])]
           mid == [faced EXCEPT !.cnds = Put(@, -row, corners), !.cfcs = Put(@, -row, faced.sides),
                                !.cls[ibfc][2] = -row]
<1>3. GhostCell(g, row) = Erased(mid, icl)
  <2> DEFINE nodedIs == AllNodeGhosts(ibfc, g, clnds[icl])
             facedIs == AllFaceGhosts(ibfc, -row, nodedIs, clfcs[icl])
             ToIs(n) == IF n \in Range(fcnds[ibfc]) THEN n ELSE nodedIs.map[n]
  <2>1. GhostCell(g, row) =
          Erased([facedIs EXCEPT
                    !.cnds = Put(@, -row, [k \in DOMAIN clnds[icl] |-> ToIs(clnds[icl][k])]),
                    !.cfcs = Put(@, -row, facedIs.sides), !.cls[ibfc][2] = -row], icl)
    BY DEF GhostCell, AllNodeGhosts, AllFaceGhosts, Accumulate
  <2>2. nodedIs = noded /\ facedIs = faced
    BY <1>1, <1>2
  <2> HIDE DEF noded, faced, nodedIs, facedIs
  <2>3. [k \in DOMAIN clnds[icl] |-> ToIs(clnds[icl][k])] = corners
    BY <2>2
  <2> HIDE DEF corners, ToIs, To
  <2> QED
    BY <2>1, <2>2, <2>3
<1> HIDE DEF corners, noded, faced
<1>4. ASSUME DOMAIN faced = Tables
      PROVE  CellAdded(GhostCell(g, row), ibfc, -row, icl, noded, faced)
  <2> DEFINE h == Erased(mid, icl)
             map == [n \in DOMAIN faced.map \ Range(clnds[icl]) |-> faced.map[n]]
             cls == [faced.cls EXCEPT ![ibfc][2] = -row]
             cnds == Put(faced.cnds, -row, corners)
             cfcs == Put(faced.cfcs, -row, faced.sides)
  <2>1. mid = [faced EXCEPT !.cnds = cnds, !.cfcs = cfcs, !.cls = cls]
    BY <1>4 DEF Tables
  <2>2. /\ DOMAIN mid = Tables /\ mid.cnds = cnds /\ mid.cfcs = cfcs /\ mid.cls = cls
        /\ mid.crd = faced.crd /\ mid.nds = faced.nds /\ mid.map = faced.map
    <3> HIDE DEF mid, cnds, cfcs, cls
    <3> QED
      BY <1>4, <2>1 DEF Tables
  <2> HIDE DEF mid
  <2>3. h = [mid EXCEPT !.map = map, !.sides = <<>>]
    BY <2>2 DEF Erased, Tables
  <2> HIDE DEF h, map, cls, cnds, cfcs
  <2>4. /\ DOMAIN h = Tables /\ h.cnds = cnds /\ h.cfcs = cfcs /\ h.cls = cls
        /\ h.crd = faced.crd /\ h.nds = faced.nds /\ h.map = map /\ h.sides = <<>>
    BY <2>2, <2>3 DEF Tables
  <2>5. CellAdded(h, ibfc, -row, icl, noded, faced)
    BY <2>4 DEF CellAdded, map, cls, cnds, cfcs, corners
  <2> QED
    BY <1>3, <2>5 DEF h
<1> QED
  BY <1>1, <1>2, <1>4 DEF NodesOver, FacesOver, noded, faced

-----------------------------------------------------------------------------
(* The faces lie on the cells that have them.                              *)

\* Two lists of the same length without repetition have the same items when
\* one has those of the other.
LEMMA SameLengthSameItems ==
    ASSUME NEW S, NEW s \in Seq(S), NEW t \in Seq(S),
           IsInjective(s), IsInjective(t), Len(s) = Len(t), Range(t) \subseteq Range(s)
    PROVE  Range(s) = Range(t)
<1>1. /\ Cardinality(Range(s)) = Len(s) /\ IsFiniteSet(Range(s)) /\ Cardinality(Range(t)) = Len(t)
  BY ItemsAreCounted
<1>2. Range(t) \in SUBSET Range(s)
  OBVIOUS
<1> QED
  BY <1>1, <1>2, FS_Subset

\* What goes by the number f is the same face as what was kept for it.
LEMMA TwinsHaveTheSameNodes ==
    ASSUME IsGrid(grid), NodesAsGiven, NEW i \in 1 .. Len(Populated)
    PROVE  /\ NumberOf[i] \in 0 .. Len(KeptFaces) - 1
           /\ Range(Populated[KeptFaces[NumberOf[i] + 1]].nodes) = Range(Populated[i].nodes)
<1> DEFINE n == Len(Populated)
           On(j) == Populated[j].nodes
           a == FirstTwin[i]
           b == FirstTwin[a]
<1>1. n \in Nat /\ DOMAIN Populated = 1 .. n /\ \A j \in 1 .. n : Populated[j] \in RawFace
  BY PopulatedIsListed
<1>2. FirstOfAll(Populated, FirstTwin, n)
  BY <1>1, FirstsAreFound DEF FirstTwin
<1>3. \A j \in 1 .. n : /\ On(j) \in Seq(DOMAIN grid.crd) /\ On(j) # <<>> /\ IsInjective(On(j))
                        /\ Head(On(j)) \in Range(On(j))
  <2>1. ASSUME NEW j \in 1 .. n
        PROVE  On(j) \in Seq(DOMAIN grid.crd) /\ On(j) # <<>> /\ IsInjective(On(j))
    <3>1. Populated[j] \in RawFace
      BY <1>1
    <3> QED
      BY <3>1 DEF RawFace
  <2> HIDE DEF On
  <2>2. ASSUME NEW j \in 1 .. n
        PROVE  Head(On(j)) \in Range(On(j))
    <3>1. 1 \in DOMAIN On(j) /\ Head(On(j)) = On(j)[1]
      BY <2>1, LenProperties, EmptySeq
    <3> QED
      BY <3>1 DEF Range
  <2> QED
    BY <2>1, <2>2
<1>4. \A j \in 1 .. n : /\ FirstTwin[j] \in 1 .. j
                        /\ \A k \in 1 .. j : k = j \/ Twins(Populated, k, j) => FirstTwin[j] <= k
  BY <1>2 DEF FirstOfAll
<1> HIDE DEF n
\* A twin has the same nodes.
<1>5. ASSUME NEW j \in 1 .. n, NEW k \in 1 .. n, Twins(Populated, k, j)
      PROVE  Len(On(k)) = Len(On(j)) /\ Range(On(k)) = Range(On(j))
  <2>1. Len(On(k)) = Len(On(j)) /\ Range(On(j)) \subseteq Range(On(k))
    BY <1>5 DEF Twins, SameFace
  <2>2. /\ On(k) \in Seq(DOMAIN grid.crd) /\ On(j) \in Seq(DOMAIN grid.crd)
        /\ IsInjective(On(k)) /\ IsInjective(On(j))
    BY <1>3
  <2> HIDE DEF On
  <2> QED
    BY <2>1, <2>2, SameLengthSameItems
<1>6. ASSUME NEW j \in 1 .. n
      PROVE  /\ FirstTwin[j] \in 1 .. n
             /\ Len(On(FirstTwin[j])) = Len(On(j)) /\ Range(On(FirstTwin[j])) = Range(On(j))
  <2>1. FirstTwin[j] \in 1 .. n /\ FirstTwin[j] \in 1 .. j
    BY <1>1, <1>4
  <2>2. FirstTwin[j] = j \/ Twins(Populated, FirstTwin[j], j)
    BY <1>2 DEF FirstOfAll
  <2> HIDE DEF On
  <2> QED
    BY <1>5, <2>1, <2>2
<1>7. i \in 1 .. n
  BY DEF n
<1>8. a \in 1 .. n /\ b \in 1 .. n /\ b <= a /\ a <= i /\ b \in 1 .. i
  <2>1. a \in 1 .. n /\ a \in 1 .. i
    BY <1>1, <1>4, <1>6, <1>7
  <2>2. b \in 1 .. n /\ b \in 1 .. a
    BY <1>4, <1>6, <2>1
  <2> HIDE DEF a, b
  <2> QED
    BY <1>1, <1>7, <2>1, <2>2
<1>9. b = a
  <2>1. Len(On(a)) = Len(On(i)) /\ Range(On(a)) = Range(On(i))
    BY <1>6, <1>7
  <2>2. Len(On(b)) = Len(On(a)) /\ Range(On(b)) = Range(On(a))
    BY <1>6, <1>8
  <2>3. Head(On(b)) \in Range(On(b))
    BY <1>3, <1>8
  <2>4. Head(On(b)) \in Range(On(i)) /\ Len(On(b)) = Len(On(i)) /\ Range(On(i)) \subseteq Range(On(b))
    BY <2>1, <2>2, <2>3
  <2>5. Twins(Populated, b, i)
    BY <2>4 DEF Twins, SameFace
  <2>6. a <= b
    <3> HIDE DEF On, b
    <3> QED
      BY <1>4, <1>7, <1>8, <2>5
  <2>7. a \in Int /\ b \in Int
    BY <1>1, <1>8
  <2> HIDE DEF a, b
  <2> QED
    BY <1>8, <2>6, <2>7
<1>10. PICK f \in 0 .. Len(KeptFaces) - 1 : KeptFaces[f + 1] = a
  <2>1. FirstTwin[a] = a /\ a \in 1 .. n
    BY <1>8, <1>9
  <2> HIDE DEF a
  <2> QED
    BY <2>1, KeptAreNumbered DEF n
<1>11. NumberOf[a] = f
  BY <1>10, KeptAreNumbered DEF IsKept
<1>12. NumberOf[i] = NumberOf[a]
  <2>1. FirstTwin[i] = FirstTwin[a] /\ i \in 1 .. n /\ a \in 1 .. n
    BY <1>7, <1>8, <1>9
  <2> HIDE DEF a
  <2> QED
    BY <2>1, KeptAreNumbered DEF n
<1>13. Range(On(a)) = Range(On(i))
  BY <1>6, <1>7
<1> QED
  BY <1>10, <1>11, <1>12, <1>13

\* The nodes of a face are nodes of its first cell, and of every cell that lists it.
FacesLieOnCells ==
    /\ \A f \in 0 .. Len(KeptFaces) - 1 :
          Range(Populated[KeptFaces[f + 1]].nodes) \subseteq Range(clnds[Owners[f][1]])
    /\ \A c \in Cells : \A k \in DOMAIN Listing(c) :
          /\ Listing(c)[k] \in 0 .. Len(KeptFaces) - 1
          /\ Range(Populated[KeptFaces[Listing(c)[k] + 1]].nodes) \subseteq Range(clnds[c])

\* The tables of faces and cells agree on that.
LEMMA FacesLie ==
    ASSUME IsGrid(grid), NodesAsGiven
    PROVE  FacesLieOnCells
<1> DEFINE n == Len(Populated)
           Of(f) == Range(Populated[KeptFaces[f + 1]].nodes)
<1>1. n \in Nat /\ DOMAIN Populated = 1 .. n /\ \A j \in 1 .. n : Populated[j] \in RawFace
  BY PopulatedIsListed
<1>2. ASSUME NEW i \in 1 .. n
      PROVE  /\ NumberOf[i] \in 0 .. Len(KeptFaces) - 1 /\ Populated[i].cell \in Cells
             /\ Of(NumberOf[i]) \subseteq Range(clnds[Populated[i].cell])
  <2>1. NumberOf[i] \in 0 .. Len(KeptFaces) - 1 /\ Of(NumberOf[i]) = Range(Populated[i].nodes)
    BY TwinsHaveTheSameNodes
  <2>2. /\ Populated[i].cell \in Cells
        /\ Range(Populated[i].nodes) \subseteq Range(grid.cells[Populated[i].cell + 1].nodes)
    BY <1>1 DEF RawFace
  <2>3. clnds[Populated[i].cell] = grid.cells[Populated[i].cell + 1].nodes
    BY <2>2 DEF NodesAsGiven
  <2> QED
    BY <2>1, <2>2, <2>3
<1> HIDE DEF Of
<1>3. ASSUME NEW f \in 0 .. Len(KeptFaces) - 1
      PROVE  Of(f) \subseteq Range(clnds[Owners[f][1]])
  <2>1. PICK i \in 1 .. n : NumberOf[i] = f /\ Populated[i].cell = Owners[f][1]
    BY KeptAreNumbered DEF IsKept
  <2> QED
    BY <1>2, <2>1
<1>4. ASSUME NEW c \in Cells, NEW k \in DOMAIN Listing(c)
      PROVE  Listing(c)[k] \in 0 .. Len(KeptFaces) - 1 /\ Of(Listing(c)[k]) \subseteq Range(clnds[c])
  <2> DEFINE W == {i \in DOMAIN Populated : Populated[i].cell = c}
             places == Ascending(W)
  <2>1. Lists(places, W)
    <3>1. W \in SUBSET Int /\ W \in SUBSET (1 .. n)
      BY <1>1
    <3>2. IsFiniteSet(1 .. n)
      BY <1>1, FS_Interval
    <3> HIDE DEF W
    <3>3. IsFiniteSet(W)
      BY <3>1, <3>2, FS_Subset
    <3> QED
      BY <3>1, <3>3, AscendingLists
  <2>2. Listing(c) = [j \in DOMAIN places |-> NumberOf[places[j]]]
    BY DEF Listing, FacesFrom
  <2> HIDE DEF places
  <2>3. k \in DOMAIN places /\ Listing(c)[k] = NumberOf[places[k]]
    BY <2>2
  <2>4. places[k] \in W
    <3> HIDE DEF W
    <3> QED
      BY <2>1, <2>3 DEF Lists
  <2>5. places[k] \in 1 .. n /\ Populated[places[k]].cell = c
    BY <1>1, <2>4
  <2> QED
    BY <1>2, <2>3, <2>5
<1> QED
  BY <1>3, <1>4 DEF FacesLieOnCells, Of

-----------------------------------------------------------------------------
(* Rows of ghosts.                                                         *)

\* A table has ghosts in the first m rows below 0.
Filled(rows, m) ==
    DOMAIN rows \subseteq Int /\ m \in Nat /\ {i \in DOMAIN rows : i < 0} = -m .. -1

\* A row more, x at the place at.
RowMore(new, old, at, x) ==
    /\ at < 0 /\ at \notin DOMAIN old /\ DOMAIN new = DOMAIN old \cup {at}
    /\ new[at] = x /\ \A i \in DOMAIN old : new[i] = old[i]
    /\ {i \in DOMAIN new : i >= 0} = {i \in DOMAIN old : i >= 0}

\* The next ghost gets the first row that is free.
LEMMA NextIsFree ==
    ASSUME NEW rows, NEW m, Filled(rows, m), NEW x
    PROVE  /\ RowMore(Put(rows, NextGhost(rows), x), rows, NextGhost(rows), x)
           /\ Filled(Put(rows, NextGhost(rows), x), m + 1)
<1> DEFINE at == NextGhost(rows)
           new == Put(rows, at, x)
<1>1. m \in Nat /\ DOMAIN rows \subseteq Int /\ {i \in DOMAIN rows : i < 0} = -m .. -1
  BY DEF Filled
<1>2. at = -1 - m
  <2>1. Cardinality(-m .. -1) = m
    <3>1. -m \in Int /\ -1 \in Int
      BY <1>1
    <3>2. Cardinality(-m .. -1) = IF -m > -1 THEN 0 ELSE -1 - (-m) + 1
      BY <3>1, FS_Interval
    <3> QED
      BY <1>1, <3>2
  <2> QED
    BY <1>1, <2>1 DEF NextGhost
<1> HIDE DEF at
<1>3. at \in Int /\ at < 0 /\ at \notin DOMAIN rows
  BY <1>1, <1>2
<1>4. DOMAIN new = DOMAIN rows \cup {at} /\ new[at] = x /\ \A i \in DOMAIN rows : new[i] = rows[i]
  BY <1>3 DEF Put
<1> HIDE DEF new
<1>5. {i \in DOMAIN new : i >= 0} = {i \in DOMAIN rows : i >= 0}
  BY <1>3, <1>4
<1>6. RowMore(new, rows, at, x)
  BY <1>3, <1>4, <1>5 DEF RowMore
<1>7. Filled(new, m + 1)
  <2>1. {i \in DOMAIN new : i < 0} = {i \in DOMAIN rows : i < 0} \cup {at}
    BY <1>3, <1>4
  <2>2. (-m .. -1) \cup {at} = -(m + 1) .. -1
    BY <1>1, <1>2
  <2> QED
    BY <1>1, <1>3, <1>4, <2>1, <2>2 DEF Filled
<1> QED
  BY <1>6, <1>7 DEF new, at

\* How many of the first k items of s there are that P leaves out.
LeftOut(s, P, k) == Cardinality({j \in 1 .. k : s[j] \notin P})

\* Of no item none is left out.
LEMMA LeftOutNone == ASSUME NEW s, NEW P PROVE LeftOut(s, P, 0) = 0
<1>1. {j \in 1 .. 0 : s[j] \notin P} = {}
  OBVIOUS
<1> QED
  BY <1>1, FS_EmptySet DEF LeftOut

\* One item more counts when it is left out.
LEMMA LeftOutMore ==
    ASSUME NEW s, NEW P, NEW k \in Nat, k > 0
    PROVE  /\ LeftOut(s, P, k - 1) \in Nat
           /\ LeftOut(s, P, k) = IF s[k] \in P THEN LeftOut(s, P, k - 1) ELSE LeftOut(s, P, k - 1) + 1
<1> DEFINE S(n) == {j \in 1 .. n : s[j] \notin P}
<1>1. IsFiniteSet(S(k - 1))
  <2>1. 1 \in Int /\ k - 1 \in Int
    OBVIOUS
  <2>2. IsFiniteSet(1 .. k - 1)
    BY <2>1, FS_Interval
  <2>3. S(k - 1) \in SUBSET (1 .. k - 1)
    OBVIOUS
  <2> HIDE DEF S
  <2> QED
    BY <2>2, <2>3, FS_Subset
<1>2. S(k) = IF s[k] \in P THEN S(k - 1) ELSE S(k - 1) \cup {k}
  OBVIOUS
<1>3. k \notin S(k - 1)
  OBVIOUS
<1> HIDE DEF S
<1>4. Cardinality(S(k)) = IF s[k] \in P THEN Cardinality(S(k - 1)) ELSE Cardinality(S(k - 1)) + 1
  BY <1>1, <1>2, <1>3, FS_AddElement
<1>5. Cardinality(S(k - 1)) \in Nat
  BY <1>1, FS_CardinalityType
<1> QED
  BY <1>4, <1>5 DEF LeftOut, S

-----------------------------------------------------------------------------
(* The ghosts of the nodes of a cell.                                      *)

\* The tables h after k of the nodes of the cell icl, that were g before them.
NodesDone(h, g, ibfc, icl, m, k) ==
    /\ DOMAIN h = Tables
    /\ h.cnds = g.cnds /\ h.cfcs = g.cfcs /\ h.nds = g.nds /\ h.cls = g.cls /\ h.sides = g.sides
    /\ Filled(h.crd, m + LeftOut(clnds[icl], Range(fcnds[ibfc]), k))
    /\ DOMAIN g.crd \subseteq DOMAIN h.crd
    /\ {i \in DOMAIN h.crd : i >= 0} = {i \in DOMAIN g.crd : i >= 0}
    /\ DOMAIN h.map = {clnds[icl][j] : j \in 1 .. k} \ Range(fcnds[ibfc])
    /\ \A n \in DOMAIN h.map : h.map[n] \in DOMAIN h.crd \ DOMAIN g.crd /\ h.map[n] < 0

\* Each node of the cell that is not on the face gets a ghost that is new.
LEMMA NodesAreDone ==
    ASSUME NEW g, DOMAIN g = Tables, DOMAIN g.map = {}, NEW m, Filled(g.crd, m),
           NEW ibfc, NEW icl, Len(clnds[icl]) \in Nat, NEW p, NodesOver(p, ibfc, icl, g)
    PROVE  NodesDone(p[Len(clnds[icl])], g, ibfc, icl, m, Len(clnds[icl]))
<1> DEFINE C == clnds[icl]
           N == Len(C)
           F == Range(fcnds[ibfc])
           Has == {k \in 0 .. N : NodesDone(p[k], g, ibfc, icl, m, k)}
<1>1. p[0] = g /\ \A k \in 1 .. N : p[k] = GhostNode(ibfc, p[k - 1], C[k])
  BY DEF NodesOver, NodeGhosts
<1>2. N \in Nat
  OBVIOUS
<1> HIDE DEF N
<1>3. 0 \in Has
  <2>1. LeftOut(C, F, 0) = 0
    BY LeftOutNone
  <2>2. m + LeftOut(C, F, 0) = m
    BY <2>1 DEF Filled
  <2>3. {C[j] : j \in 1 .. 0} = {}
    OBVIOUS
  <2>4. NodesDone(g, g, ibfc, icl, m, 0)
    BY <2>2, <2>3 DEF NodesDone
  <2> QED
    BY <1>1, <1>2, <2>4
<1>4. ASSUME NEW k \in 1 .. N, k - 1 \in Has
      PROVE  k \in Has
  <2> DEFINE old == p[k - 1]
             new == p[k]
             n == C[k]
             c == m + LeftOut(C, F, k - 1)
  <2>1. NodesDone(old, g, ibfc, icl, m, k - 1)
    BY <1>4
  <2>2. NodeAdded(new, ibfc, old, n)
    <3>1. DOMAIN old = Tables /\ new = GhostNode(ibfc, old, n)
      BY <1>1, <2>1 DEF NodesDone
    <3> HIDE DEF old, n
    <3> QED
      BY <3>1, GhostNodeAdds
  <2>3. LeftOut(C, F, k) = IF n \in F THEN LeftOut(C, F, k - 1) ELSE LeftOut(C, F, k - 1) + 1
    <3>1. k \in Nat /\ k > 0
      BY <1>2
    <3> QED
      BY <3>1, LeftOutMore
  <2>4. {C[j] : j \in 1 .. k} = {C[j] : j \in 1 .. k - 1} \cup {n}
    BY <1>2
  <2>5. /\ Filled(old.crd, c) /\ DOMAIN g.crd \subseteq DOMAIN old.crd
        /\ {i \in DOMAIN old.crd : i >= 0} = {i \in DOMAIN g.crd : i >= 0}
        /\ DOMAIN old.map = {C[j] : j \in 1 .. k - 1} \ F
        /\ \A x \in DOMAIN old.map : old.map[x] \in DOMAIN old.crd \ DOMAIN g.crd /\ old.map[x] < 0
    BY <2>1 DEF NodesDone
  <2>6. /\ new.cnds = g.cnds /\ new.cfcs = g.cfcs /\ new.nds = g.nds /\ new.cls = g.cls
        /\ new.sides = g.sides /\ DOMAIN new = Tables
    BY <2>1, <2>2 DEF NodesDone, NodeAdded
  <2>7. CASE n \in F
    <3>1. new.map = old.map /\ new.crd = old.crd
      BY <2>2, <2>7 DEF NodeAdded
    <3>2. DOMAIN new.map = {C[j] : j \in 1 .. k} \ F
      BY <2>4, <2>5, <2>7, <3>1
    <3>3. m + LeftOut(C, F, k) = c
      BY <2>3, <2>7
    <3> HIDE DEF old, new, n, c
    <3>4. NodesDone(new, g, ibfc, icl, m, k)
      BY <2>5, <2>6, <3>1, <3>2, <3>3 DEF NodesDone
    <3> QED
      BY <1>2, <3>4 DEF new
  <2>8. CASE n \notin F
    <3> DEFINE at == NextGhost(old.crd)
    <3>1. new.map = Put(old.map, n, at) /\ new.crd = Put(old.crd, at, Mirrored(ndcrd[n], ibfc))
      BY <2>2, <2>8 DEF NodeAdded
    <3> HIDE DEF old, new, n, c
    <3>2. RowMore(new.crd, old.crd, at, Mirrored(ndcrd[n], ibfc)) /\ Filled(new.crd, c + 1)
      BY <2>5, <3>1, NextIsFree
    <3>3. m + LeftOut(C, F, k) = c + 1
      <4>1. m \in Nat /\ LeftOut(C, F, k - 1) \in Nat
        <5>1. k \in Nat /\ k > 0
          BY <1>2
        <5> QED
          BY <5>1, LeftOutMore DEF Filled
      <4> QED
        BY <2>3, <2>8, <4>1 DEF c
    <3>4. DOMAIN new.map = DOMAIN old.map \cup {n}
      BY <3>1 DEF Put
    <3>5. \A x \in DOMAIN new.map : new.map[x] = at \/ (x \in DOMAIN old.map /\ new.map[x] = old.map[x])
      BY <3>1 DEF Put
    <3> HIDE DEF at
    <3>6. at \in DOMAIN new.crd \ DOMAIN g.crd /\ at < 0 /\ DOMAIN old.crd \subseteq DOMAIN new.crd
      BY <2>5, <3>2 DEF RowMore
    <3>7. \A x \in DOMAIN new.map : new.map[x] \in DOMAIN new.crd \ DOMAIN g.crd /\ new.map[x] < 0
      BY <2>5, <3>5, <3>6
    <3>8. DOMAIN new.map = {C[j] : j \in 1 .. k} \ F
      BY <2>4, <2>5, <2>8, <3>4
    <3>9. {i \in DOMAIN new.crd : i >= 0} = {i \in DOMAIN g.crd : i >= 0}
      BY <2>5, <3>2 DEF RowMore
    <3>10. NodesDone(new, g, ibfc, icl, m, k)
      BY <2>5, <2>6, <3>2, <3>3, <3>6, <3>7, <3>8, <3>9 DEF NodesDone
    <3> QED
      BY <1>2, <3>10 DEF new
  <2> QED
    BY <2>7, <2>8
<1>5. N \in Has
  <2> HIDE DEF Has
  <2>1. Inductive(Has, N)
    BY <1>2, <1>3, <1>4 DEF Inductive
  <2> QED
    BY <2>1, Induction
<1> QED
  BY <1>5 DEF N

-----------------------------------------------------------------------------
(* The ghosts of the faces of a cell.                                      *)

\* The side of the ghost cell igcl for the face f of its cell: the boundary
\* face itself, or a face that is new, between the ghosts of the nodes of f.
SideOf(h, noded, ibfc, igcl, f, side) ==
    IF f = ibfc THEN side = ibfc
    ELSE LET To(n) == IF n \in DOMAIN noded.map THEN noded.map[n] ELSE n
         IN  /\ side \in DOMAIN h.nds /\ side \notin DOMAIN noded.nds /\ side < 0
             /\ h.cls[side] = <<igcl, -1>>
             /\ h.nds[side] = [k \in DOMAIN fcnds[f] |-> To(fcnds[f][k])]

\* The tables h after k of the faces of the cell icl, that were noded before them.
FacesDone(h, noded, ibfc, igcl, icl, m, k) ==
    /\ DOMAIN h = Tables
    /\ h.cnds = noded.cnds /\ h.cfcs = noded.cfcs /\ h.crd = noded.crd /\ h.map = noded.map
    /\ Filled(h.nds, m + LeftOut(clfcs[icl], {ibfc}, k))
    /\ DOMAIN h.cls = DOMAIN h.nds
    /\ {s \in DOMAIN h.nds : s >= 0} = {s \in DOMAIN noded.nds : s >= 0}
    /\ \A s \in DOMAIN noded.nds :
          s \in DOMAIN h.nds /\ h.nds[s] = noded.nds[s] /\ h.cls[s] = noded.cls[s]
    /\ h.sides \in Seq(Int) /\ Len(h.sides) = k
    /\ \A j \in 1 .. k : SideOf(h, noded, ibfc, igcl, clfcs[icl][j], h.sides[j])

\* Each face of the cell but the boundary face gets a ghost that is new.
LEMMA FacesAreDone ==
    ASSUME NEW noded, DOMAIN noded = Tables, DOMAIN noded.cls = DOMAIN noded.nds, noded.sides = <<>>,
           NEW m, Filled(noded.nds, m), NEW ibfc \in Int, NEW igcl, NEW icl,
           Len(clfcs[icl]) \in Nat, NEW q, FacesOver(q, ibfc, igcl, icl, noded)
    PROVE  FacesDone(q[Len(clfcs[icl])], noded, ibfc, igcl, icl, m, Len(clfcs[icl]))
<1> DEFINE L == clfcs[icl]
           N == Len(L)
           Has == {k \in 0 .. N : FacesDone(q[k], noded, ibfc, igcl, icl, m, k)}
<1>1. q[0] = noded /\ \A k \in 1 .. N : q[k] = GhostFace(ibfc, igcl, q[k - 1], L[k])
  BY DEF FacesOver, FaceGhosts
<1>2. N \in Nat
  OBVIOUS
<1> HIDE DEF N
<1>3. 0 \in Has
  <2>1. LeftOut(L, {ibfc}, 0) = 0
    BY LeftOutNone
  <2>2. m + LeftOut(L, {ibfc}, 0) = m
    BY <2>1 DEF Filled
  <2>3. <<>> \in Seq(Int) /\ Len(<<>>) = 0
    BY EmptySeq
  <2>4. FacesDone(noded, noded, ibfc, igcl, icl, m, 0)
    BY <2>2, <2>3 DEF FacesDone
  <2> QED
    BY <1>1, <1>2, <2>4
<1>4. ASSUME NEW k \in 1 .. N, k - 1 \in Has
      PROVE  k \in Has
  <2> DEFINE old == q[k - 1]
             new == q[k]
             f == L[k]
             c == m + LeftOut(L, {ibfc}, k - 1)
             at == NextGhost(old.nds)
             To(n) == IF n \in DOMAIN noded.map THEN noded.map[n] ELSE n
             corners == [i \in DOMAIN fcnds[f] |-> To(fcnds[f][i])]
  <2>0. k \in Nat /\ k > 0 /\ k - 1 \in Nat /\ (k - 1) + 1 = k
    BY <1>2
  <2>1. FacesDone(old, noded, ibfc, igcl, icl, m, k - 1)
    BY <1>4
  <2>2. FaceAdded(new, ibfc, igcl, old, f)
    <3>1. DOMAIN old = Tables /\ new = GhostFace(ibfc, igcl, old, f)
      BY <1>1, <2>1 DEF FacesDone
    <3> HIDE DEF old, f
    <3> QED
      BY <3>1, GhostFaceAdds
  <2>3. LeftOut(L, {ibfc}, k) =
          IF f \in {ibfc} THEN LeftOut(L, {ibfc}, k - 1) ELSE LeftOut(L, {ibfc}, k - 1) + 1
    BY <2>0, LeftOutMore
  <2>4. /\ Filled(old.nds, c) /\ DOMAIN old.cls = DOMAIN old.nds
        /\ {s \in DOMAIN old.nds : s >= 0} = {s \in DOMAIN noded.nds : s >= 0}
        /\ \A s \in DOMAIN noded.nds :
              s \in DOMAIN old.nds /\ old.nds[s] = noded.nds[s] /\ old.cls[s] = noded.cls[s]
        /\ old.sides \in Seq(Int) /\ Len(old.sides) = k - 1
        /\ \A j \in 1 .. k - 1 : SideOf(old, noded, ibfc, igcl, L[j], old.sides[j])
        /\ old.map = noded.map
    BY <2>1 DEF FacesDone
  <2>5. /\ new.cnds = noded.cnds /\ new.cfcs = noded.cfcs /\ new.crd = noded.crd
        /\ new.map = noded.map /\ DOMAIN new = Tables
    BY <2>1, <2>2 DEF FacesDone, FaceAdded
  <2>6. ASSUME NEW x \in Int
        PROVE  /\ Append(old.sides, x) \in Seq(Int) /\ Len(Append(old.sides, x)) = k
               /\ Append(old.sides, x)[k] = x
               /\ \A j \in 1 .. k - 1 : Append(old.sides, x)[j] = old.sides[j]
    <3> HIDE DEF old
    <3> QED
      BY <2>0, <2>4, AppendProperties
  <2>7. \A j \in 1 .. k : j = k \/ j \in 1 .. k - 1
    BY <2>0
  <2>8. CASE f = ibfc
    <3>1. new.nds = old.nds /\ new.cls = old.cls /\ new.sides = Append(old.sides, ibfc)
      BY <2>2, <2>8 DEF FaceAdded
    <3>2. m + LeftOut(L, {ibfc}, k) = c
      BY <2>3, <2>8
    <3> HIDE DEF old, new, f, c
    <3>3. ASSUME NEW j \in 1 .. k
          PROVE  SideOf(new, noded, ibfc, igcl, L[j], new.sides[j])
      <4>1. CASE j = k
        <5>1. L[j] = ibfc /\ new.sides[j] = ibfc
          BY <2>6, <2>8, <3>1, <4>1 DEF f
        <5> QED
          BY <5>1 DEF SideOf
      <4>2. CASE j \in 1 .. k - 1
        <5>1. new.sides[j] = old.sides[j]
          BY <2>6, <3>1, <4>2
        <5>2. SideOf(old, noded, ibfc, igcl, L[j], old.sides[j])
          BY <2>4, <4>2
        <5> QED
          BY <3>1, <5>1, <5>2 DEF SideOf
      <4> QED
        BY <2>7, <4>1, <4>2
    <3>4. new.sides \in Seq(Int) /\ Len(new.sides) = k
      BY <2>6, <3>1
    <3>5. FacesDone(new, noded, ibfc, igcl, icl, m, k)
      BY <2>4, <2>5, <3>1, <3>2, <3>3, <3>4 DEF FacesDone
    <3> QED
      BY <1>2, <3>5 DEF new
  <2>9. CASE f # ibfc
    <3>1. new.nds = Put(old.nds, at, corners) /\ new.cls = Put(old.cls, at, <<igcl, -1>>)
          /\ new.sides = Append(old.sides, at)
      BY <2>2, <2>4, <2>9 DEF FaceAdded
    <3>2. m + LeftOut(L, {ibfc}, k) = c + 1
      <4>1. m \in Nat /\ LeftOut(L, {ibfc}, k - 1) \in Nat
        BY <2>0, LeftOutMore DEF Filled
      <4> QED
        BY <2>3, <2>9, <4>1
    <3> HIDE DEF old, new, c, corners
    <3>3. RowMore(new.nds, old.nds, at, corners) /\ Filled(new.nds, c + 1)
      BY <2>4, <3>1, NextIsFree
    <3>4. /\ DOMAIN new.cls = DOMAIN old.cls \cup {at} /\ new.cls[at] = <<igcl, -1>>
          /\ \A s \in DOMAIN old.cls : s # at => new.cls[s] = old.cls[s]
      BY <3>1 DEF Put
    <3> HIDE DEF at
    <3>5. /\ at < 0 /\ at \notin DOMAIN old.nds /\ DOMAIN new.nds = DOMAIN old.nds \cup {at}
          /\ new.nds[at] = corners /\ \A s \in DOMAIN old.nds : new.nds[s] = old.nds[s]
          /\ {s \in DOMAIN new.nds : s >= 0} = {s \in DOMAIN old.nds : s >= 0}
      BY <3>3 DEF RowMore
    <3>6. at \in Int
      BY <3>3, <3>5 DEF Filled
    <3>7. \A s \in DOMAIN old.nds : s \in DOMAIN new.nds /\ new.nds[s] = old.nds[s] /\ new.cls[s] = old.cls[s]
      BY <2>4, <3>4, <3>5
    <3>8. ASSUME NEW j \in 1 .. k
          PROVE  SideOf(new, noded, ibfc, igcl, L[j], new.sides[j])
      <4>1. CASE j = k
        <5>1. L[j] = f /\ new.sides[j] = at
          BY <2>6, <3>1, <3>6, <4>1
        <5>2. at \notin DOMAIN noded.nds
          BY <2>4, <3>5
        <5>3. SideOf(new, noded, ibfc, igcl, f, at)
          <6> HIDE DEF f
          <6> QED
            BY <2>9, <3>4, <3>5, <5>2 DEF SideOf, corners
        <5> QED
          BY <5>1, <5>3
      <4>2. CASE j \in 1 .. k - 1
        <5>1. new.sides[j] = old.sides[j]
          BY <2>6, <3>1, <3>6, <4>2
        <5>2. SideOf(old, noded, ibfc, igcl, L[j], old.sides[j])
          BY <2>4, <4>2
        <5> QED
          BY <3>7, <5>1, <5>2 DEF SideOf
      <4> QED
        BY <2>7, <4>1, <4>2
    <3>9. new.sides \in Seq(Int) /\ Len(new.sides) = k
      BY <2>6, <3>1, <3>6
    <3>10. DOMAIN new.cls = DOMAIN new.nds
      BY <2>4, <3>4, <3>5
    <3>11. \A s \in DOMAIN noded.nds :
              s \in DOMAIN new.nds /\ new.nds[s] = noded.nds[s] /\ new.cls[s] = noded.cls[s]
      BY <2>4, <3>7
    <3>12. FacesDone(new, noded, ibfc, igcl, icl, m, k)
      BY <2>4, <2>5, <3>2, <3>3, <3>5, <3>8, <3>9, <3>10, <3>11 DEF FacesDone
    <3> QED
      BY <1>2, <3>12 DEF new
  <2> QED
    BY <2>8, <2>9
<1>5. N \in Has
  <2> HIDE DEF Has
  <2>1. Inductive(Has, N)
    BY <1>2, <1>3, <1>4 DEF Inductive
  <2> QED
    BY <2>1, Induction
<1> QED
  BY <1>5 DEF N

-----------------------------------------------------------------------------
(* The ghost of a boundary face.                                           *)

\* The face and the cell that the row-th ghost cell is made from.
FaceAt(row) == bndfcs[row].face
CellAt(row) == fccls[FaceAt(row)][1]

\* The face is open, and the cell, its first, has the nodes of all its faces.
RowIsGiven(row) ==
    /\ FaceAt(row) \in Open /\ FaceAt(row) \in Int /\ FaceAt(row) >= 0
    /\ CellAt(row) \in Cells
    /\ clnds[CellAt(row)] \in Seq(DOMAIN grid.crd) /\ Len(clnds[CellAt(row)]) \in Nat
    /\ IsInjective(clnds[CellAt(row)])
    /\ Range(fcnds[FaceAt(row)]) \subseteq Range(clnds[CellAt(row)])
    /\ Len(clfcs[CellAt(row)]) \in Nat
    /\ \A j \in 1 .. Len(clfcs[CellAt(row)]) :
          /\ clfcs[CellAt(row)][j] \in Faces
          /\ Range(fcnds[clfcs[CellAt(row)][j]]) \subseteq Range(clnds[CellAt(row)])
    /\ \A h \in 1 .. nbound : FaceAt(h) = FaceAt(row) => h = row

\* The boundary is made of such rows.
LEMMA RowsAreGiven ==
    ASSUME MeshIInv, NEW row \in 1 .. nbound
    PROVE  RowIsGiven(row)
<1> DEFINE f == FaceAt(row)
           c == CellAt(row)
<1>1. /\ IsGrid(grid) /\ NodesAsGiven /\ CellsListFaces /\ FaceRows /\ nbound \in Nat
      /\ IsSplit(bcs, bndfcs, Open) /\ nbound = Len(bndfcs)
  BY DEF MeshIInv, BoundaryRows
<1>2. DOMAIN bndfcs = 1 .. nbound /\ bndfcs \in Seq(BndRow)
  BY <1>1, LenProperties DEF IsSplit
<1>3. f \in Open /\ f \in Faces
  <2>1. f \in {bndfcs[k].face : k \in DOMAIN bndfcs}
    BY <1>2 DEF FaceAt
  <2> HIDE DEF f
  <2> QED
    BY <1>1, <2>1 DEF IsSplit, Open
<1>4. \A h \in 1 .. nbound : FaceAt(h) = f => h = row
  BY <1>1, <1>2 DEF IsSplit, IsInjective, FaceAt
<1>5. f \in Int /\ f >= 0
  BY <1>1, <1>3 DEF FaceRows, Faces
<1>6. /\ f \in 0 .. Len(KeptFaces) - 1 /\ Faces = 0 .. Len(KeptFaces) - 1
      /\ \A h \in Faces : FaceIsBuilt(h)
  BY <1>1, <1>3 DEF FaceRows
<1>7. FacesLieOnCells
  BY <1>1, FacesLie
<1>8. c = Owners[f][1] /\ c \in Cells
  <2>1. c = Owners[f][1]
    BY <1>3, <1>6 DEF FaceIsBuilt, CellAt
  <2>2. IsKept(f)
    BY <1>1, <1>6, KeptAreNumbered
  <2> QED
    BY <2>1, <2>2 DEF IsKept
<1>9. \A h \in Faces : Range(fcnds[h]) = Range(Populated[KeptFaces[h + 1]].nodes)
  BY <1>6 DEF FaceIsBuilt
<1> HIDE DEF f, c
<1>10. Range(fcnds[f]) \subseteq Range(clnds[c])
  BY <1>3, <1>6, <1>7, <1>8, <1>9 DEF FacesLieOnCells
<1>11. clnds[c] \in Seq(DOMAIN grid.crd) /\ IsInjective(clnds[c])
  <2>1. clnds[c] = grid.cells[c + 1].nodes
    BY <1>1, <1>8 DEF NodesAsGiven
  <2> QED
    BY <1>1, <1>8, <2>1, CellsAreTyped
<1>12. Len(clnds[c]) \in Nat
  BY <1>11, LenProperties
<1>13. /\ Len(clfcs[c]) \in Nat
       /\ \A j \in 1 .. Len(clfcs[c]) :
            clfcs[c][j] \in Faces /\ Range(fcnds[clfcs[c][j]]) \subseteq Range(clnds[c])
  <2>1. CASE clfcs[c] = <<>>
    BY <2>1
  <2>2. CASE clfcs[c] = Listing(c)
    <3>1. Len(Listing(c)) \in Nat /\ DOMAIN Listing(c) = 1 .. Len(Listing(c))
      BY <1>1, ListingIsList
    <3>2. ASSUME NEW j \in 1 .. Len(Listing(c))
          PROVE  /\ Listing(c)[j] \in Faces
                 /\ Range(fcnds[Listing(c)[j]]) \subseteq Range(clnds[c])
      <4>1. /\ Listing(c)[j] \in 0 .. Len(KeptFaces) - 1
            /\ Range(Populated[KeptFaces[Listing(c)[j] + 1]].nodes) \subseteq Range(clnds[c])
        BY <1>7, <1>8, <3>1 DEF FacesLieOnCells
      <4> QED
        BY <1>6, <1>9, <4>1
    <3> QED
      BY <2>2, <3>1, <3>2
  <2> QED
    BY <1>1, <1>8, <2>1, <2>2 DEF CellsListFaces
<1> QED
  BY <1>3, <1>4, <1>5, <1>8, <1>10, <1>11, <1>12, <1>13 DEF RowIsGiven, f, c

\* The interior is as it was, but for the ghosts behind its open faces.
InteriorKept(g) ==
    /\ DOMAIN g = Tables /\ DOMAIN g.cls = DOMAIN g.nds
    /\ {f \in DOMAIN g.nds : f >= 0} = Faces
    /\ \A f \in Faces : /\ g.nds[f] = fcnds[f] /\ g.cls[f] = <<g.cls[f][1], g.cls[f][2]>>
                        /\ g.cls[f][1] = fccls[f][1] /\ (g.cls[f][2] < 0 <=> fccls[f][2] < 0)
    /\ \A c \in Cells : c \in DOMAIN g.cfcs /\ g.cnds[c] = clnds[c] /\ g.cfcs[c] = clfcs[c]
    /\ {i \in DOMAIN g.crd : i >= 0} = {i \in DOMAIN ndcrd : i >= 0}

\* The ghost cell behind a face shares with the interior the nodes of the face
\* and with the ghosts before it none, and its sides are the face and faces of
\* its own.
CellFits(g, row) ==
    /\ g.cls[FaceAt(row)][2] = -row
    /\ {n \in Range(g.cnds[-row]) : n >= 0} = Range(fcnds[FaceAt(row)])
    /\ \A n \in Range(g.cnds[-row]) : n < 0 => n \in DOMAIN g.crd
    /\ \A h \in 1 .. row - 1 : {n \in Range(g.cnds[-row]) \cap Range(g.cnds[-h]) : n < 0} = {}
SidesFit(g, row) ==
    \A k \in DOMAIN g.cfcs[-row] :
        LET side == g.cfcs[-row][k]
        IN  /\ side \in DOMAIN g.nds /\ Range(g.nds[side]) \subseteq Range(g.cnds[-row])
            /\ side = FaceAt(row) \/ (side < 0 /\ g.cls[side][1] = -row)

\* The tables g with the ghosts of the first r boundary faces.
GhostsDone(g, r, mn, mf) ==
    /\ InteriorKept(g)
    /\ DOMAIN g.cnds = -r .. Len(grid.cells) - 1
    /\ Filled(g.crd, mn) /\ Filled(g.nds, mf)
    /\ DOMAIN g.map = {} /\ g.sides = <<>>
    /\ \A row \in 1 .. r : CellFits(g, row) /\ SidesFit(g, row) /\ -row \in DOMAIN g.cfcs

\* One ghost cell more.
LEMMA RowIsDone ==
    ASSUME MeshIInv, NEW row \in 1 .. nbound, NEW g, NEW mn, NEW mf, GhostsDone(g, row - 1, mn, mf),
           NEW F, NEW C, NEW L, F = Range(fcnds[FaceAt(row)]), C = clnds[CellAt(row)], L = clfcs[CellAt(row)]
    PROVE  GhostsDone(GhostCell(g, row), row, mn + LeftOut(C, F, Len(C)),
                      mf + LeftOut(L, {FaceAt(row)}, Len(L)))
<1> DEFINE f == FaceAt(row)
           c == CellAt(row)
           h == GhostCell(g, row)
<1>1. RowIsGiven(row) /\ nbound \in Nat /\ row \in Nat /\ -row < 0 /\ -row \in Int
  <2>1. nbound \in Nat
    BY DEF MeshIInv, BoundaryRows
  <2> QED
    BY <2>1, RowsAreGiven
<1>2. /\ f \in Open /\ f \in Faces /\ f \in Int /\ f >= 0 /\ c \in Cells
      /\ C \in Seq(DOMAIN grid.crd) /\ Len(C) \in Nat /\ DOMAIN C = 1 .. Len(C)
      /\ F \subseteq Range(C) /\ Len(L) \in Nat
      /\ \A j \in 1 .. Len(L) : L[j] \in Faces /\ Range(fcnds[L[j]]) \subseteq Range(C)
  BY <1>1, LenProperties DEF RowIsGiven, Open
<1>3. \A n \in Range(C) : n \in Nat
  <2>1. DOMAIN grid.crd \subseteq Nat
    BY NodesAreNumbered DEF MeshIInv
  <2>2. \A k \in 1 .. Len(C) : C[k] \in DOMAIN grid.crd
    BY <1>2, ElementOfSeq
  <2> QED
    BY <1>2, <2>1, <2>2 DEF Range
<1>4. /\ InteriorKept(g) /\ DOMAIN g.cnds = -(row - 1) .. Len(grid.cells) - 1
      /\ Filled(g.crd, mn) /\ Filled(g.nds, mf) /\ DOMAIN g.map = {} /\ g.sides = <<>>
      /\ \A r \in 1 .. row - 1 : CellFits(g, r) /\ SidesFit(g, r) /\ -r \in DOMAIN g.cfcs
      /\ DOMAIN g = Tables /\ DOMAIN g.cls = DOMAIN g.nds
  BY DEF GhostsDone, InteriorKept
<1>5. PICK p, q :
        LET noded == p[Len(C)]
            faced == q[Len(L)]
        IN  /\ NodesOver(p, f, c, g) /\ FacesOver(q, f, -row, c, noded)
            /\ DOMAIN faced = Tables => CellAdded(h, f, -row, c, noded, faced)
  <2>1. f = bndfcs[row].face /\ c = fccls[f][1] /\ Len(clnds[c]) \in Nat /\ Len(clfcs[c]) \in Nat
    BY <1>2 DEF FaceAt, CellAt
  <2> HIDE DEF f, c, h
  <2> QED
    BY <2>1, GhostCellAdds DEF c, h
<1> DEFINE noded == p[Len(C)]
           faced == q[Len(L)]
<1> HIDE DEF h
<1>6. NodesDone(noded, g, f, c, mn, Len(C))
  BY <1>2, <1>4, <1>5, NodesAreDone
<1>7. /\ DOMAIN noded = Tables /\ noded.cnds = g.cnds /\ noded.cfcs = g.cfcs /\ noded.nds = g.nds
      /\ noded.cls = g.cls /\ noded.sides = <<>>
      /\ Filled(noded.crd, mn + LeftOut(C, F, Len(C))) /\ DOMAIN g.crd \subseteq DOMAIN noded.crd
      /\ {i \in DOMAIN noded.crd : i >= 0} = {i \in DOMAIN g.crd : i >= 0}
      /\ DOMAIN noded.map = Range(C) \ F
      /\ \A n \in DOMAIN noded.map : noded.map[n] \in DOMAIN noded.crd \ DOMAIN g.crd /\ noded.map[n] < 0
  <2>1. Range(C) = {C[j] : j \in 1 .. Len(C)}
    BY <1>2 DEF Range
  <2> HIDE DEF noded
  <2> QED
    BY <1>4, <1>6, <2>1 DEF NodesDone
<1> HIDE DEF noded
<1>8. FacesDone(faced, noded, f, -row, c, mf, Len(L))
  <2>1. FacesOver(q, f, -row, c, noded)
    BY <1>5 DEF noded
  <2> HIDE DEF f, c
  <2> QED
    BY <1>2, <1>4, <1>7, <2>1, FacesAreDone DEF c
<1>9. /\ DOMAIN faced = Tables /\ faced.cnds = g.cnds /\ faced.cfcs = g.cfcs
      /\ faced.crd = noded.crd /\ faced.map = noded.map
      /\ Filled(faced.nds, mf + LeftOut(L, {f}, Len(L))) /\ DOMAIN faced.cls = DOMAIN faced.nds
      /\ {s \in DOMAIN faced.nds : s >= 0} = Faces
      /\ \A s \in DOMAIN g.nds : s \in DOMAIN faced.nds /\ faced.nds[s] = g.nds[s] /\ faced.cls[s] = g.cls[s]
      /\ faced.sides \in Seq(Int) /\ Len(faced.sides) = Len(L)
      /\ \A j \in 1 .. Len(L) : SideOf(faced, noded, f, -row, L[j], faced.sides[j])
  <2> HIDE DEF faced
  <2> QED
    BY <1>4, <1>7, <1>8 DEF FacesDone, InteriorKept
<1>10. CellAdded(h, f, -row, c, noded, faced)
  BY <1>5, <1>9 DEF noded
<1> HIDE DEF faced
<1> DEFINE To(n) == IF n \in F THEN n ELSE noded.map[n]
           own == [k \in DOMAIN C |-> To(C[k])]
<1>11. /\ DOMAIN h = Tables /\ h.crd = noded.crd /\ h.nds = faced.nds
       /\ h.cnds = Put(g.cnds, -row, own) /\ h.cfcs = Put(g.cfcs, -row, faced.sides)
       /\ h.cls = [faced.cls EXCEPT ![f][2] = -row]
       /\ DOMAIN h.map = {} /\ h.sides = <<>>
  <2>1. DOMAIN faced.map \ Range(C) = {}
    BY <1>7, <1>9
  <2> QED
    BY <1>9, <1>10, <2>1 DEF CellAdded
\* The nodes of the new cell.
<1>12. /\ Range(own) = {To(n) : n \in Range(C)}
       /\ \A n \in Range(C) : To(n) = n \/ (n \in DOMAIN noded.map /\ To(n) = noded.map[n])
       /\ \A n \in F : To(n) = n
  <2>1. Range(own) = {To(n) : n \in Range(C)}
    <3> HIDE DEF To
    <3>1. ASSUME NEW k \in DOMAIN C
          PROVE  own[k] \in {To(n) : n \in Range(C)}
      BY DEF Range
    <3>2. ASSUME NEW k \in DOMAIN C
          PROVE  To(C[k]) \in Range(own)
      BY DEF Range
    <3>3. DOMAIN own = DOMAIN C
      OBVIOUS
    <3> HIDE DEF own
    <3>4. Range(own) \subseteq {To(n) : n \in Range(C)}
      BY <3>1, <3>3 DEF Range
    <3>5. ASSUME NEW n \in Range(C)
          PROVE  To(n) \in Range(own)
      <4>1. PICK k \in DOMAIN C : n = C[k]
        BY DEF Range
      <4> QED
        BY <3>2, <4>1
    <3> QED
      BY <3>4, <3>5
  <2> QED
    BY <1>7, <2>1
<1>13. /\ {n \in Range(own) : n >= 0} = F
       /\ \A n \in Range(own) : n < 0 => n \in DOMAIN h.crd \ DOMAIN g.crd
  <2>1. ASSUME NEW n \in Range(C), n \notin F
        PROVE  To(n) = noded.map[n] /\ To(n) < 0 /\ To(n) \in Int /\ To(n) \in DOMAIN h.crd \ DOMAIN g.crd
    <3>1. n \in DOMAIN noded.map /\ To(n) = noded.map[n]
      BY <1>7, <2>1
    <3>2. To(n) \in DOMAIN noded.crd /\ DOMAIN noded.crd \subseteq Int
      BY <1>7, <3>1 DEF Filled
    <3> HIDE DEF To
    <3> QED
      BY <1>7, <1>11, <3>1, <3>2
  <2>2. ASSUME NEW n \in F
        PROVE  To(n) = n /\ n \in Nat /\ n \in Range(C)
    BY <1>2, <1>3
  <2> HIDE DEF To, own
  <2> QED
    BY <1>2, <1>12, <2>1, <2>2
<1>14. /\ DOMAIN h.cnds = -row .. Len(grid.cells) - 1 /\ h.cnds[-row] = own
       /\ \A i \in DOMAIN g.cnds : i # -row => h.cnds[i] = g.cnds[i]
       /\ h.cfcs[-row] = faced.sides /\ -row \in DOMAIN h.cfcs
       /\ \A i \in DOMAIN g.cfcs : i # -row => h.cfcs[i] = g.cfcs[i] /\ i \in DOMAIN h.cfcs
  <2> HIDE DEF own
  <2>1. /\ DOMAIN h.cnds = {-row} \cup DOMAIN g.cnds /\ h.cnds[-row] = own
        /\ \A i \in DOMAIN g.cnds : i # -row => h.cnds[i] = g.cnds[i]
        /\ h.cfcs[-row] = faced.sides /\ -row \in DOMAIN h.cfcs
        /\ \A i \in DOMAIN g.cfcs : i # -row => h.cfcs[i] = g.cfcs[i] /\ i \in DOMAIN h.cfcs
    BY <1>11 DEF Put
  <2>2. Len(grid.cells) \in Nat
    BY LenProperties DEF MeshIInv, IsGrid
  <2>3. {-row} \cup (-(row - 1) .. Len(grid.cells) - 1) = -row .. Len(grid.cells) - 1
    BY <1>1, <2>2
  <2> QED
    BY <1>4, <2>1, <2>3
<1>15. /\ DOMAIN h.cls = DOMAIN h.nds
       /\ h.cls[f] = <<g.cls[f][1], -row>>
       /\ \A s \in DOMAIN g.nds : s # f => h.cls[s] = g.cls[s]
       /\ \A s \in DOMAIN faced.cls : s # f => h.cls[s] = faced.cls[s]
       /\ \A s \in DOMAIN g.nds : s \in DOMAIN h.nds /\ h.nds[s] = g.nds[s]
  <2>1. f \in DOMAIN g.nds /\ g.cls[f] = <<g.cls[f][1], g.cls[f][2]>>
    BY <1>2, <1>4 DEF InteriorKept
  <2>2. faced.cls[f] = g.cls[f] /\ f \in DOMAIN faced.cls
    BY <1>9, <2>1
  <2>3. h.cls[f] = [g.cls[f] EXCEPT ![2] = -row]
    BY <1>11, <2>2
  <2>4. h.cls[f] = <<g.cls[f][1], -row>>
    BY <2>1, <2>3
  <2> QED
    BY <1>9, <1>11, <2>4
<1> HIDE DEF own, To
<1>16. InteriorKept(h)
  <2>1. {s \in DOMAIN h.nds : s >= 0} = Faces
    BY <1>9, <1>11
  <2>2. ASSUME NEW s \in Faces
        PROVE  /\ h.nds[s] = fcnds[s] /\ h.cls[s] = <<h.cls[s][1], h.cls[s][2]>>
               /\ h.cls[s][1] = fccls[s][1] /\ (h.cls[s][2] < 0 <=> fccls[s][2] < 0)
    <3>1. /\ s \in DOMAIN g.nds /\ g.nds[s] = fcnds[s] /\ g.cls[s] = <<g.cls[s][1], g.cls[s][2]>>
          /\ g.cls[s][1] = fccls[s][1] /\ (g.cls[s][2] < 0 <=> fccls[s][2] < 0)
      BY <1>4 DEF InteriorKept
    <3>2. h.nds[s] = fcnds[s]
      BY <1>15, <3>1
    <3>3. CASE s = f
      <4>1. fccls[s][2] < 0
        BY <1>2, <3>3 DEF Open
      <4> QED
        BY <1>1, <1>15, <3>1, <3>2, <3>3, <4>1
    <3>4. CASE s # f
      BY <1>15, <3>1, <3>2, <3>4
    <3> QED
      BY <3>3, <3>4
  <2>3. ASSUME NEW i \in Cells
        PROVE  i \in DOMAIN h.cfcs /\ h.cnds[i] = clnds[i] /\ h.cfcs[i] = clfcs[i]
    <3>1. i \in DOMAIN g.cfcs /\ g.cnds[i] = clnds[i] /\ g.cfcs[i] = clfcs[i]
      BY <1>4 DEF InteriorKept
    <3>2. i # -row /\ i \in DOMAIN g.cnds
      <4>1. Len(grid.cells) \in Nat
        BY LenProperties DEF MeshIInv, IsGrid
      <4> QED
        BY <1>1, <1>4, <4>1 DEF Cells
    <3> QED
      BY <1>14, <3>1, <3>2
  <2>4. {i \in DOMAIN h.crd : i >= 0} = {i \in DOMAIN ndcrd : i >= 0}
    BY <1>4, <1>7, <1>11 DEF InteriorKept
  <2> QED
    BY <1>11, <1>15, <2>1, <2>2, <2>3, <2>4 DEF InteriorKept
\* What the earlier rows have stays.
<1>17. ASSUME NEW r \in 1 .. row - 1
       PROVE  CellFits(h, r) /\ SidesFit(h, r) /\ -r \in DOMAIN h.cfcs
  <2>1. CellFits(g, r) /\ SidesFit(g, r) /\ -r \in DOMAIN g.cnds /\ -r # -row /\ -r \in DOMAIN g.cfcs
    <3>1. Len(grid.cells) \in Nat
      BY LenProperties DEF MeshIInv, IsGrid
    <3>2. CellFits(g, r) /\ SidesFit(g, r) /\ -r \in DOMAIN g.cfcs
      BY <1>4
    <3>3. -r \in -(row - 1) .. Len(grid.cells) - 1 /\ -r # -row
      BY <1>1, <3>1
    <3> QED
      BY <1>4, <3>2, <3>3
  <2>2. FaceAt(r) # f /\ FaceAt(r) \in DOMAIN g.nds /\ FaceAt(r) \in Faces
    <3>1. r \in 1 .. nbound /\ r # row
      BY <1>1
    <3>2. FaceAt(r) \in Faces
      BY <3>1, RowsAreGiven DEF RowIsGiven, Open
    <3> QED
      BY <1>1, <1>4, <3>1, <3>2 DEF RowIsGiven, InteriorKept
  <2>3. h.cnds[-r] = g.cnds[-r]
    BY <1>14, <2>1
  <2>4. CellFits(h, r)
    <3>1. h.cls[FaceAt(r)][2] = -r
      BY <1>15, <2>1, <2>2 DEF CellFits
    <3>2. \A n \in Range(h.cnds[-r]) : n < 0 => n \in DOMAIN h.crd
      BY <1>7, <1>11, <2>1, <2>3 DEF CellFits
    <3>3. \A i \in 1 .. r - 1 : {n \in Range(h.cnds[-r]) \cap Range(h.cnds[-i]) : n < 0} = {}
      <4>1. ASSUME NEW i \in 1 .. r - 1
            PROVE  h.cnds[-i] = g.cnds[-i]
        <5>1. Len(grid.cells) \in Nat
          BY LenProperties DEF MeshIInv, IsGrid
        <5>2. -i \in DOMAIN g.cnds /\ -i # -row
          BY <1>1, <1>4, <5>1
        <5> QED
          BY <1>14, <5>2
      <4> QED
        BY <2>1, <2>3, <4>1 DEF CellFits
    <3> QED
      BY <2>1, <2>3, <3>1, <3>2, <3>3 DEF CellFits
  <2>5. SidesFit(h, r)
    <3>1. h.cfcs[-r] = g.cfcs[-r]
      BY <1>14, <2>1
    <3>2. ASSUME NEW k \in DOMAIN g.cfcs[-r]
          PROVE  LET side == g.cfcs[-r][k]
                 IN  /\ side \in DOMAIN h.nds /\ Range(h.nds[side]) \subseteq Range(h.cnds[-r])
                     /\ side = FaceAt(r) \/ (side < 0 /\ h.cls[side][1] = -r)
      <4> DEFINE side == g.cfcs[-r][k]
      <4>1. /\ side \in DOMAIN g.nds /\ Range(g.nds[side]) \subseteq Range(g.cnds[-r])
            /\ side = FaceAt(r) \/ (side < 0 /\ g.cls[side][1] = -r)
        BY <2>1 DEF SidesFit
      <4> HIDE DEF side
      <4>2. side \in DOMAIN h.nds /\ h.nds[side] = g.nds[side]
        BY <1>15, <4>1
      <4>3. side < 0 => side # f
        BY <1>2
      <4>4. side = FaceAt(r) \/ (side < 0 /\ h.cls[side][1] = -r)
        BY <1>15, <4>1, <4>3
      <4>5. /\ side \in DOMAIN h.nds /\ Range(h.nds[side]) \subseteq Range(h.cnds[-r])
            /\ side = FaceAt(r) \/ (side < 0 /\ h.cls[side][1] = -r)
        BY <2>3, <4>1, <4>2, <4>4
      <4> QED
        BY <4>5 DEF side
    <3> QED
      BY <3>1, <3>2 DEF SidesFit
  <2> QED
    BY <1>14, <2>1, <2>4, <2>5
<1>18. CellFits(h, row)
  <2>1. ASSUME NEW r \in 1 .. row - 1, NEW n \in Range(own) \cap Range(h.cnds[-r]), n < 0
        PROVE  FALSE
    <3>1. Len(grid.cells) \in Nat
      BY LenProperties DEF MeshIInv, IsGrid
    <3>2. -r \in DOMAIN g.cnds /\ -r # -row
      BY <1>1, <1>4, <3>1
    <3>3. h.cnds[-r] = g.cnds[-r]
      BY <1>14, <3>2
    <3>4. n \in DOMAIN g.crd
      BY <1>4, <2>1, <3>3 DEF CellFits
    <3> QED
      BY <1>13, <2>1, <3>4
  <2> QED
    BY <1>13, <1>14, <1>15, <2>1 DEF CellFits
<1>19. SidesFit(h, row)
  <2>1. DOMAIN faced.sides = 1 .. Len(L)
    BY <1>9, LenProperties
  <2>2. ASSUME NEW k \in 1 .. Len(L)
        PROVE  LET side == faced.sides[k]
               IN  /\ side \in DOMAIN h.nds /\ Range(h.nds[side]) \subseteq Range(own)
                   /\ side = f \/ (side < 0 /\ h.cls[side][1] = -row)
    <3> DEFINE side == faced.sides[k]
               e == L[k]
               Ghost(n) == IF n \in DOMAIN noded.map THEN noded.map[n] ELSE n
    <3>1. SideOf(faced, noded, f, -row, e, side)
      BY <1>9
    <3>2. e \in Faces /\ Range(fcnds[e]) \subseteq Range(C)
      BY <1>2
    <3>3. CASE e = f
      <4>1. side = f
        BY <3>1, <3>3 DEF SideOf
      <4>2. f \in DOMAIN g.nds /\ g.nds[f] = fcnds[f]
        BY <1>2, <1>4 DEF InteriorKept
      <4>3. Range(h.nds[f]) = F
        BY <1>15, <4>2
      <4>4. F \subseteq Range(own)
        BY <1>13
      <4> QED
        BY <1>15, <4>1, <4>2, <4>3, <4>4
    <3>4. CASE e # f
      <4>1. /\ side \in DOMAIN faced.nds /\ side < 0 /\ faced.cls[side] = <<-row, -1>>
            /\ faced.nds[side] = [i \in DOMAIN fcnds[e] |-> Ghost(fcnds[e][i])]
        BY <3>1, <3>4 DEF SideOf
      <4>2. ASSUME NEW n \in Range(C)
            PROVE  Ghost(n) \in Range(own)
        <5>1. Ghost(n) = To(n)
          BY <1>7 DEF To
        <5> HIDE DEF Ghost
        <5> QED
          BY <1>12, <5>1
      <4> HIDE DEF side, e
      <4>3. ASSUME NEW x \in Range(faced.nds[side])
            PROVE  x \in Range(own)
        <5>1. PICK i \in DOMAIN fcnds[e] : x = Ghost(fcnds[e][i])
          BY <4>1 DEF Range
        <5>2. fcnds[e][i] \in Range(C)
          BY <3>2 DEF Range
        <5> HIDE DEF Ghost
        <5> QED
          BY <4>2, <5>1, <5>2
      <4>4. side # f /\ side \in DOMAIN faced.cls
        BY <1>2, <1>9, <4>1
      <4>5. h.cls[side] = <<-row, -1>>
        BY <1>15, <4>1, <4>4
      <4>6. /\ side \in DOMAIN h.nds /\ Range(h.nds[side]) \subseteq Range(own)
            /\ side < 0 /\ h.cls[side][1] = -row
        BY <1>11, <4>1, <4>3, <4>5
      <4> QED
        BY <4>6 DEF side
    <3> QED
      BY <3>3, <3>4
  <2> QED
    BY <1>14, <2>1, <2>2 DEF SidesFit
<1>20. \A r \in 1 .. row : r = row \/ r \in 1 .. row - 1
  BY <1>1
<1>21. /\ Filled(h.crd, mn + LeftOut(C, F, Len(C)))
       /\ Filled(h.nds, mf + LeftOut(L, {f}, Len(L)))
  BY <1>7, <1>9, <1>11
<1>22. \A r \in 1 .. row : CellFits(h, r) /\ SidesFit(h, r) /\ -r \in DOMAIN h.cfcs
  BY <1>14, <1>17, <1>18, <1>19, <1>20
<1>23. DOMAIN h.cnds = -row .. Len(grid.cells) - 1
  BY <1>14
<1> HIDE DEF f, c
<1>24. GhostsDone(h, row, mn + LeftOut(C, F, Len(C)), mf + LeftOut(L, {f}, Len(L)))
  BY <1>11, <1>16, <1>21, <1>22, <1>23 DEF GhostsDone
<1> QED
  BY <1>24 DEF h, f

-----------------------------------------------------------------------------
(* All the ghosts.                                                         *)

\* The tables before there is a ghost, and what each boundary face asks for.
Ghostless == [crd |-> Body(ndcrd), cnds |-> Body(clnds), cfcs |-> Body(clfcs),
              nds |-> Body(fcnds), cls |-> Body(fccls), map |-> <<>>, sides |-> <<>>]
BndRows == [row \in 1 .. nbound |-> row]
NodesLeft(row) ==
    LeftOut(clnds[CellAt(row)], Range(fcnds[FaceAt(row)]), Len(clnds[CellAt(row)]))
FacesLeft(row) == LeftOut(clfcs[CellAt(row)], {FaceAt(row)}, Len(clfcs[CellAt(row)]))
NodesAsked == [row \in 1 .. nbound |-> NodesLeft(row)]
FacesAsked == [row \in 1 .. nbound |-> FacesLeft(row)]

\* The rows of the interior, and no others.
LEMMA BodyRows ==
    ASSUME NEW table
    PROVE  /\ DOMAIN Body(table) = {i \in DOMAIN table : i >= 0}
           /\ \A i \in DOMAIN Body(table) : Body(table)[i] = table[i]
BY DEF Body

\* Without ghosts the tables are done for no boundary face.
LEMMA GhostlessIsDone ==
    ASSUME MeshIInv
    PROVE  GhostsDone(Ghostless, 0, 0, 0)
<1> DEFINE g == Ghostless
<1>1. /\ DOMAIN g = Tables /\ g.crd = Body(ndcrd) /\ g.cnds = Body(clnds) /\ g.cfcs = Body(clfcs)
      /\ g.nds = Body(fcnds) /\ g.cls = Body(fccls) /\ g.map = <<>> /\ g.sides = <<>>
  BY DEF Ghostless, Tables
<1> HIDE DEF g
<1>2. /\ IsGrid(grid) /\ NodesAsGiven /\ GivenRows /\ CellsListFaces /\ FaceRows
  BY DEF MeshIInv
<1>3. /\ DOMAIN g.nds = Faces /\ DOMAIN g.cls = Faces
      /\ \A f \in Faces : g.nds[f] = fcnds[f] /\ g.cls[f] = fccls[f]
  BY <1>1, <1>2, BodyRows DEF FaceRows, Faces
<1>4. Faces \subseteq Int /\ {f \in Faces : f >= 0} = Faces /\ {f \in Faces : f < 0} = {}
  BY <1>2 DEF FaceRows, Faces
<1>5. \A f \in Faces : fccls[f] = <<fccls[f][1], fccls[f][2]>>
  BY <1>2 DEF FaceRows, FaceIsBuilt
<1>6. DOMAIN g.cnds = Cells /\ \A c \in Cells : g.cnds[c] = clnds[c]
  BY <1>1, <1>2, BodyRows DEF GivenRows
<1>7. \A c \in Cells : c \in DOMAIN g.cfcs /\ g.cfcs[c] = clfcs[c]
  <2>1. \A c \in Cells : c >= 0 /\ c \in DOMAIN clfcs
    BY <1>2 DEF NodesAsGiven, Cells
  <2> QED
    BY <1>1, <2>1, BodyRows
<1>8. {i \in DOMAIN g.crd : i >= 0} = {i \in DOMAIN ndcrd : i >= 0}
  BY <1>1, BodyRows
<1>9. Len(grid.cells) \in Nat
  BY <1>2, LenProperties DEF IsGrid
<1>10. DOMAIN g.cnds = -0 .. Len(grid.cells) - 1
  BY <1>6, <1>9 DEF Cells
<1>11. Filled(g.crd, 0)
  <2>1. DOMAIN g.crd \subseteq Int /\ \A i \in DOMAIN g.crd : i >= 0
    BY <1>1, <1>2, BodyRows DEF GivenRows
  <2>2. {i \in DOMAIN g.crd : i < 0} = {}
    BY <2>1
  <2> QED
    BY <2>1, <2>2 DEF Filled
<1>12. Filled(g.nds, 0)
  BY <1>3, <1>4 DEF Filled
<1>13. InteriorKept(g)
  BY <1>1, <1>3, <1>4, <1>5, <1>6, <1>7, <1>8 DEF InteriorKept
<1>14. DOMAIN g.map = {} /\ g.sides = <<>>
  BY <1>1
<1>15. GhostsDone(g, 0, 0, 0)
  BY <1>10, <1>11, <1>12, <1>13, <1>14 DEF GhostsDone
<1> QED
  BY <1>15 DEF g

\* Boundary face by boundary face, the tables get the ghosts these ask for.
LEMMA GhostsAreDone ==
    ASSUME MeshIInv
    PROVE  GhostsDone(AllCellGhosts(Ghostless, BndRows), nbound,
                      AllSums(0, NodesAsked), AllSums(0, FacesAsked))
<1>1. /\ nbound \in Nat /\ Len(BndRows) = nbound /\ Len(NodesAsked) = nbound /\ Len(FacesAsked) = nbound
      /\ \A row \in 1 .. nbound : /\ BndRows[row] = row /\ NodesAsked[row] = NodesLeft(row)
                                  /\ FacesAsked[row] = FacesLeft(row)
  <2>1. nbound \in Nat
    BY DEF MeshIInv, BoundaryRows
  <2> QED
    BY <2>1 DEF BndRows, NodesAsked, FacesAsked
<1>2. PICK g : /\ CellGhosts(g, Ghostless, BndRows)
               /\ AllCellGhosts(Ghostless, BndRows) = g[nbound]
  BY <1>1, CellGhostsRun
<1>3. PICK mn : Sums(mn, 0, NodesAsked) /\ AllSums(0, NodesAsked) = mn[nbound]
  BY <1>1, SumsRun
<1>4. PICK mf : Sums(mf, 0, FacesAsked) /\ AllSums(0, FacesAsked) = mf[nbound]
  BY <1>1, SumsRun
<1> DEFINE Has == {k \in 0 .. nbound : GhostsDone(g[k], k, mn[k], mf[k])}
<1>5. 0 \in Has
  <2>1. g[0] = Ghostless /\ mn[0] = 0 /\ mf[0] = 0
    BY <1>2, <1>3, <1>4 DEF CellGhosts, Sums
  <2> QED
    BY <1>1, <2>1, GhostlessIsDone
<1>6. ASSUME NEW row \in 1 .. nbound, row - 1 \in Has
      PROVE  row \in Has
  <2>1. GhostsDone(g[row - 1], row - 1, mn[row - 1], mf[row - 1])
    BY <1>6
  <2>2. g[row] = GhostCell(g[row - 1], row)
    BY <1>1, <1>2 DEF CellGhosts
  <2>3. mn[row] = mn[row - 1] + NodesLeft(row) /\ mf[row] = mf[row - 1] + FacesLeft(row)
    BY <1>1, <1>3, <1>4 DEF Sums
  <2>4. GhostsDone(GhostCell(g[row - 1], row), row, mn[row - 1] + NodesLeft(row), mf[row - 1] + FacesLeft(row))
    <3> DEFINE C == clnds[CellAt(row)]
               L == clfcs[CellAt(row)]
               F == Range(fcnds[FaceAt(row)])
    <3>1. GhostsDone(GhostCell(g[row - 1], row), row, mn[row - 1] + LeftOut(C, F, Len(C)),
                     mf[row - 1] + LeftOut(L, {FaceAt(row)}, Len(L)))
      BY <2>1, RowIsDone
    <3> QED
      BY <3>1 DEF NodesLeft, FacesLeft
  <2> QED
    BY <1>1, <2>2, <2>3, <2>4
<1> HIDE DEF Has
<1>7. Inductive(Has, nbound)
  BY <1>1, <1>5, <1>6, Zenon DEF Inductive
<1>8. nbound \in Has
  BY <1>1, <1>7, Induction
<1> QED
  BY <1>2, <1>3, <1>4, <1>8 DEF Has

-----------------------------------------------------------------------------
(* How many ghosts a boundary face asks for.                               *)

\* A list without repetition loses the items that are taken from it.
LEMMA LeftOutIsTheRest ==
    ASSUME NEW S, NEW s \in Seq(S), IsInjective(s), NEW P \in SUBSET Range(s)
    PROVE  /\ LeftOut(s, P, Len(s)) = Len(s) - Cardinality(P)
           /\ Len(s) \in Nat /\ Cardinality(P) \in Nat
<1> DEFINE n == Len(s)
           Out == {j \in 1 .. n : s[j] \notin P}
           Within == {j \in 1 .. n : s[j] \in P}
           h == [j \in Within |-> s[j]]
<1>1. n \in Nat /\ DOMAIN s = 1 .. n /\ IsFiniteSet(1 .. n) /\ Cardinality(1 .. n) = n
  <2>1. n \in Nat /\ DOMAIN s = 1 .. n
    BY LenProperties
  <2>2. 1 \in Int /\ n \in Int
    BY <2>1
  <2>3. IsFiniteSet(1 .. n) /\ Cardinality(1 .. n) = IF 1 > n THEN 0 ELSE n - 1 + 1
    BY <2>2, FS_Interval
  <2> QED
    BY <2>1, <2>3
<1>2. \A i, j \in 1 .. n : s[i] = s[j] => i = j
  BY <1>1 DEF IsInjective
<1>3. \A x \in P : \E j \in 1 .. n : s[j] = x
  BY <1>1 DEF Range
<1> HIDE DEF n
<1>4. h \in Bijection(Within, P)
  <2>1. h \in [Within -> P] /\ \A i, j \in Within : h[i] = h[j] => i = j
    BY <1>2
  <2>2. \A x \in P : \E j \in Within : h[j] = x
    BY <1>3
  <2> HIDE DEF h, Within
  <2> QED
    BY <2>1, <2>2, Zenon DEF Bijection, Injection, Surjection, IsInjective, Range
<1>5. Within \in SUBSET (1 .. n) /\ Out = (1 .. n) \ Within
  OBVIOUS
<1> HIDE DEF Out, Within, h
<1>6. IsFiniteSet(Within) /\ Cardinality(Within) \in Nat
  BY <1>1, <1>5, FS_Subset, FS_CardinalityType
<1>7. Cardinality(P) = Cardinality(Within)
  <2>1. ExistsBijection(Within, P)
    BY <1>4 DEF ExistsBijection
  <2> QED
    BY <1>6, <2>1, FS_Bijection
<1>8. Cardinality(Out) = n - Cardinality(Within)
  <2>1. Cardinality((1 .. n) \ Within) = Cardinality(1 .. n) - Cardinality((1 .. n) \cap Within)
    BY <1>1, <1>6, FS_Difference
  <2>2. (1 .. n) \cap Within = Within
    BY <1>5
  <2> QED
    BY <1>1, <1>5, <2>1, <2>2
<1> QED
  BY <1>1, <1>6, <1>7, <1>8 DEF LeftOut, n, Out

\* The faces of a type differ in their nodes, and there are as many of them as
\* the type says.
LEMMA TypesAreRight ==
    ASSUME NEW t \in DOMAIN CellType
    PROVE  /\ Len(CellType[t].faces) = CellType[t].nface
           /\ \A k, l \in DOMAIN CellType[t].faces :
                 k # l => Range(CellType[t].faces[k]) # Range(CellType[t].faces[l])
<1> DEFINE Differ(F) == \A k, l \in DOMAIN F : k # l => Range(F[k]) # Range(F[l])
<1>1. Differ(LineFaces) /\ Len(LineFaces) = 2
  BY DEF LineFaces, Range
<1>2. Differ(TriangleFaces) /\ Len(TriangleFaces) = 3
  BY DEF TriangleFaces, Range
<1>3. Differ(QuadrilateralFaces) /\ Len(QuadrilateralFaces) = 4
  BY DEF QuadrilateralFaces, Range
<1>4. Differ(HexahedronFaces) /\ Len(HexahedronFaces) = 6
  BY DEF HexahedronFaces, Range
<1>5. Differ(TetrahedronFaces) /\ Len(TetrahedronFaces) = 4
  BY DEF TetrahedronFaces, Range
<1>6. Differ(PrismFaces) /\ Len(PrismFaces) = 5
  BY DEF PrismFaces, Range
<1>7. Differ(PyramidFaces) /\ Len(PyramidFaces) = 5
  BY DEF PyramidFaces, Range
<1> HIDE DEF Differ
<1>8. Differ(CellType[t].faces) /\ Len(CellType[t].faces) = CellType[t].nface
  <2> DEFINE F == CellType[t].faces
             n == CellType[t].nface
  <2>1. \/ F = LineFaces /\ n = 2
        \/ F = TriangleFaces /\ n = 3
        \/ F = QuadrilateralFaces /\ n = 4
        \/ F = HexahedronFaces /\ n = 6
        \/ F = TetrahedronFaces /\ n = 4
        \/ F = PrismFaces /\ n = 5
        \/ F = PyramidFaces /\ n = 5
    BY DEF CellType
  <2> HIDE DEF F, n
  <2>2. Differ(F) /\ Len(F) = n
    BY <1>1, <1>2, <1>3, <1>4, <1>5, <1>6, <1>7, <2>1
  <2> QED
    BY <2>2 DEF F, n
<1> QED
  BY <1>8 DEF Differ

\* So do the faces of a cell, whose nodes are all different.
LEMMA FacesOfCellDiffer ==
    ASSUME IsGrid(grid), NodesAsGiven, NEW c \in Cells,
           NEW k \in DOMAIN TypeOf(c).faces, NEW l \in DOMAIN TypeOf(c).faces, k # l
    PROVE  Range(FacesOfCell(c)[k].nodes) # Range(FacesOfCell(c)[l].nodes)
<1> DEFINE F == TypeOf(c).faces
           nds == clnds[c]
           On(j) == FacesOfCell(c)[j].nodes
<1>1. Range(F[k]) # Range(F[l])
  BY CellsAreTyped, TypesAreRight DEF TypeOf
<1>2. \A j \in DOMAIN F : On(j) = [n \in DOMAIN F[j] |-> nds[F[j][n]]]
  BY CellHasFaces DEF FacesListed
<1>3. \A j \in DOMAIN F : F[j] \in Range(F)
  BY DEF Range
<1>4. DOMAIN nds = UNION {Range(face) : face \in Range(F)} /\ \A x, y \in DOMAIN nds : nds[x] = nds[y] => x = y
  <2>1. nds = grid.cells[c + 1].nodes
    BY DEF NodesAsGiven
  <2>2. IsInjective(nds) /\ DOMAIN nds = UNION {Range(face) : face \in Range(F)}
    BY <2>1, CellsAreTyped
  <2> HIDE DEF nds, F
  <2> QED
    BY <2>2 DEF IsInjective
<1> HIDE DEF F, nds, On
<1>5. \A j \in DOMAIN F : \A x \in Range(F[j]) : x \in DOMAIN nds
  BY <1>3, <1>4
<1>6. ASSUME NEW j \in DOMAIN F, NEW x \in Range(F[j])
      PROVE  nds[x] \in Range(On(j))
  <2>1. PICK n \in DOMAIN F[j] : F[j][n] = x
    BY DEF Range
  <2>2. n \in DOMAIN On(j) /\ On(j)[n] = nds[x]
    BY <1>2, <2>1
  <2> QED
    BY <2>2 DEF Range
<1>7. ASSUME NEW j \in DOMAIN F, NEW y \in Range(On(j))
      PROVE  \E x \in Range(F[j]) : nds[x] = y
  <2>1. PICK n \in DOMAIN On(j) : On(j)[n] = y
    BY DEF Range
  <2>2. n \in DOMAIN F[j] /\ nds[F[j][n]] = y
    BY <1>2, <2>1
  <2> QED
    BY <2>2 DEF Range
<1>8. ASSUME NEW i \in DOMAIN F, NEW j \in DOMAIN F, Range(On(i)) = Range(On(j)), NEW x \in Range(F[i])
      PROVE  x \in Range(F[j])
  <2>1. nds[x] \in Range(On(j))
    BY <1>6, <1>8
  <2>2. PICK y \in Range(F[j]) : nds[y] = nds[x]
    BY <1>7, <2>1
  <2> QED
    BY <1>4, <1>5, <2>2
<1>9. k \in DOMAIN F /\ l \in DOMAIN F
  BY DEF F
<1>10. ASSUME Range(On(k)) = Range(On(l))
       PROVE  FALSE
  <2>1. \A x \in Range(F[k]) : x \in Range(F[l])
    BY <1>8, <1>9, <1>10
  <2>2. \A x \in Range(F[l]) : x \in Range(F[k])
    BY <1>8, <1>9, <1>10
  <2>3. Range(F[k]) = Range(F[l])
    BY <2>1, <2>2
  <2> QED
    BY <1>1, <2>3
<1> QED
  BY <1>10 DEF On

\* Where the faces of the cell c are in the list of all.
LEMMA PlacesOfCell ==
    ASSUME IsGrid(grid), NodesAsGiven, NEW c \in Cells
    PROVE  \E p \in Nat :
             /\ {i \in DOMAIN Populated : Populated[i].cell = c} = p + 1 .. p + TypeOf(c).nface
             /\ TypeOf(c).nface \in Nat /\ DOMAIN TypeOf(c).faces = 1 .. TypeOf(c).nface
             /\ \A j \in 1 .. TypeOf(c).nface : Populated[p + j] = FacesOfCell(c)[j]
<1> DEFINE m == TypeOf(c).nface
           N == Len(grid.cells)
<1>1. /\ AllFaces \in Seq(Seq(RawFace)) /\ Len(AllFaces) = N /\ N \in Nat
      /\ \A d \in 1 .. N : d - 1 \in Cells
  BY AllFacesAreListed
<1>2. Populated = Concatenated(AllFaces)
  BY DEF Populated, AllFaces
<1>3. PICK P : Offsets(P, AllFaces) /\ LaidOut(Populated, P, AllFaces)
  BY <1>1, <1>2, ConcatenatedPlaces
<1>4. /\ c \in Nat /\ c + 1 \in 1 .. N /\ (c + 1) - 1 = c
  BY CellsAreTyped
<1>5. m \in Nat /\ DOMAIN TypeOf(c).faces = 1 .. m
  <2>1. /\ Len(TypeOf(c).faces) = m /\ Len(TypeOf(c).faces) \in Nat
        /\ DOMAIN TypeOf(c).faces = 1 .. Len(TypeOf(c).faces)
    BY CellsAreTyped, TypesAreRight, FacesHavePositions DEF TypeOf, FacesOfType
  <2> QED
    BY <2>1
<1>6. ASSUME NEW d \in 1 .. N
      PROVE  /\ AllFaces[d] = FacesOfCell(d - 1)
             /\ \A j \in 1 .. Len(AllFaces[d]) : AllFaces[d][j].cell = d - 1
  <2>1. AllFaces[d] = FacesOfCell(d - 1)
    BY DEF AllFaces
  <2>2. FacesListed(d - 1)
    BY <1>1, CellHasFaces
  <2>3. DOMAIN FacesOfCell(d - 1) = 1 .. Len(FacesOfCell(d - 1))
    BY <2>2, LenProperties DEF FacesListed
  <2> QED
    BY <2>1, <2>2, <2>3 DEF FacesListed
<1>7. AllFaces[c + 1] = FacesOfCell(c) /\ Len(FacesOfCell(c)) = m
  <2>1. FacesListed(c)
    BY CellHasFaces
  <2>2. DOMAIN FacesOfCell(c) = 1 .. Len(FacesOfCell(c)) /\ Len(FacesOfCell(c)) \in Nat
        /\ DOMAIN FacesOfCell(c) = 1 .. m
    BY <1>5, <2>1, LenProperties DEF FacesListed
  <2>3. Len(FacesOfCell(c)) = m
    BY <1>5, <2>2
  <2> QED
    BY <1>4, <1>6, <2>3
<1> HIDE DEF m, N
<1>8. P[c] \in Nat /\ DOMAIN Populated = 1 .. Len(Populated)
  <2>1. P[c] \in Nat
    BY <1>1, <1>3, <1>4 DEF Offsets
  <2> QED
    BY <2>1, PopulatedIsListed
<1>9. \A j \in 1 .. m : P[c] + j \in 1 .. Len(Populated) /\ Populated[P[c] + j] = FacesOfCell(c)[j]
  <2>1. \A j \in 1 .. Len(AllFaces[c + 1]) :
           P[(c + 1) - 1] + j \in 1 .. Len(Populated) /\ Populated[P[(c + 1) - 1] + j] = AllFaces[c + 1][j]
    BY <1>1, <1>3, <1>4 DEF LaidOut
  <2> QED
    BY <1>4, <1>7, <2>1
<1>10. \A j \in 1 .. m : Populated[P[c] + j].cell = c
  <2>1. \A j \in 1 .. Len(AllFaces[c + 1]) : AllFaces[c + 1][j].cell = (c + 1) - 1
    BY <1>4, <1>6
  <2> QED
    BY <1>4, <1>7, <1>9, <2>1
<1>11. ASSUME NEW i \in 1 .. Len(Populated), Populated[i].cell = c
       PROVE  \E j \in 1 .. m : i = P[c] + j
  <2>1. PICK d \in 1 .. N : \E j \in 1 .. Len(AllFaces[d]) : i = P[d - 1] + j
    BY <1>1, <1>3 DEF LaidOut
  <2>2. PICK j \in 1 .. Len(AllFaces[d]) : i = P[d - 1] + j
    BY <2>1
  <2>3. Populated[i] = AllFaces[d][j]
    BY <1>1, <1>3, <2>2 DEF LaidOut
  <2>4. d - 1 = c
    BY <1>6, <1>11, <2>3
  <2>5. d = c + 1
    BY <1>1, <1>4, <2>4
  <2> QED
    BY <1>7, <2>2, <2>4, <2>5
<1>12. {i \in DOMAIN Populated : Populated[i].cell = c} = P[c] + 1 .. P[c] + m
  <2>1. ASSUME NEW i \in P[c] + 1 .. P[c] + m
        PROVE  i \in DOMAIN Populated /\ Populated[i].cell = c
    <3>1. i - P[c] \in 1 .. m /\ i = P[c] + (i - P[c])
      BY <1>5, <1>8 DEF m
    <3> QED
      BY <1>8, <1>9, <1>10, <3>1
  <2>2. ASSUME NEW i \in DOMAIN Populated, Populated[i].cell = c
        PROVE  i \in P[c] + 1 .. P[c] + m
    <3>1. PICK j \in 1 .. m : i = P[c] + j
      BY <1>8, <1>11, <2>2
    <3>2. m \in Nat
      BY <1>5 DEF m
    <3> QED
      BY <1>8, <3>1, <3>2
  <2> QED
    BY <2>1, <2>2
<1> DEFINE p == P[c]
<1>13. /\ {i \in DOMAIN Populated : Populated[i].cell = c} = p + 1 .. p + TypeOf(c).nface
       /\ TypeOf(c).nface \in Nat /\ DOMAIN TypeOf(c).faces = 1 .. TypeOf(c).nface
       /\ \A j \in 1 .. TypeOf(c).nface : Populated[p + j] = FacesOfCell(c)[j]
  BY <1>5, <1>9, <1>12 DEF m
<1> HIDE DEF p
<1>14. p \in Nat
  BY <1>8 DEF p
<1> QED
  BY <1>13, <1>14

\* A cell lists as many faces as its type has, each once, and among them those
\* whose first cell it is.
LEMMA CellListsItsFaces ==
    ASSUME IsGrid(grid), NodesAsGiven, NEW c \in Cells
    PROVE  /\ Len(Listing(c)) = TypeOf(c).nface /\ TypeOf(c).nface \in Nat
           /\ Listing(c) \in Seq(Range(Listing(c))) /\ IsInjective(Listing(c))
           /\ \A f \in 0 .. Len(KeptFaces) - 1 : Owners[f][1] = c => f \in Range(Listing(c))
<1> DEFINE W == {i \in DOMAIN Populated : Populated[i].cell = c}
           places == Ascending(W)
           m == TypeOf(c).nface
<1>1. /\ Len(Populated) \in Nat /\ DOMAIN Populated = 1 .. Len(Populated)
      /\ \A i \in W : i \in 1 .. Len(Populated) /\ Populated[i].cell = c
  BY PopulatedIsListed
<1>2. PICK p \in Nat :
        /\ W = p + 1 .. p + m
        /\ m \in Nat /\ DOMAIN TypeOf(c).faces = 1 .. m
        /\ \A j \in 1 .. m : Populated[p + j] = FacesOfCell(c)[j]
  BY PlacesOfCell
<1>3. Listing(c) = [k \in DOMAIN places |-> NumberOf[places[k]]]
  BY DEF Listing, FacesFrom
<1>4. \A f \in 0 .. Len(KeptFaces) - 1 : Owners[f][1] = c => \E i \in W : NumberOf[i] = f
  <2>1. \A f \in 0 .. Len(KeptFaces) - 1 :
          \E i \in 1 .. Len(Populated) : NumberOf[i] = f /\ Populated[i].cell = Owners[f][1]
    BY KeptAreNumbered DEF IsKept
  <2> QED
    BY <1>1, <2>1
<1> HIDE DEF W, m
<1>5. Cardinality(W) = m /\ IsFiniteSet(W) /\ W \in SUBSET Int
  <2>1. p + 1 \in Int /\ p + m \in Int /\ m \in Nat /\ p \in Nat
    BY <1>2
  <2>2. /\ IsFiniteSet(p + 1 .. p + m)
        /\ Cardinality(p + 1 .. p + m) = IF p + 1 > p + m THEN 0 ELSE (p + m) - (p + 1) + 1
    BY <2>1, FS_Interval
  <2> QED
    BY <1>2, <2>1, <2>2
<1>6. Lists(places, W)
  BY <1>5, AscendingLists
<1> HIDE DEF places
<1>7. /\ Len(places) = m /\ m \in Nat /\ DOMAIN places = 1 .. m
      /\ \A k \in 1 .. m : places[k] \in W
      /\ \A i, j \in 1 .. m : i < j => places[i] < places[j]
      /\ \A x \in W : \E k \in 1 .. m : places[k] = x
  BY <1>2, <1>5, <1>6 DEF Lists
<1>8. DOMAIN Listing(c) = 1 .. m /\ \A k \in 1 .. m : Listing(c)[k] = NumberOf[places[k]]
  BY <1>3, <1>7
<1>9. Len(Listing(c)) = m
  <2>1. Len(Listing(c)) \in Nat /\ DOMAIN Listing(c) = 1 .. Len(Listing(c))
    BY ListingIsList
  <2> QED
    BY <1>7, <1>8, <2>1
<1>10. Listing(c) \in Seq(Range(Listing(c)))
  <2>1. \A k \in 1 .. m : Listing(c)[k] \in Range(Listing(c))
    BY <1>8 DEF Range
  <2>2. Listing(c) = [k \in 1 .. m |-> NumberOf[places[k]]]
    BY <1>3, <1>7
  <2>3. Listing(c) \in [1 .. m -> Range(Listing(c))]
    BY <1>8, <2>1, <2>2
  <2> QED
    BY <1>7, <2>3, FunctionIsSequence
\* Two places with the same number hold faces of the same nodes.
<1>11. ASSUME NEW i \in W, NEW j \in W, NumberOf[i] = NumberOf[j]
       PROVE  i = j
  <2>1. Range(Populated[i].nodes) = Range(Populated[j].nodes)
    <3>1. i \in 1 .. Len(Populated) /\ j \in 1 .. Len(Populated)
      BY <1>1
    <3>2. /\ Range(Populated[KeptFaces[NumberOf[i] + 1]].nodes) = Range(Populated[i].nodes)
          /\ Range(Populated[KeptFaces[NumberOf[j] + 1]].nodes) = Range(Populated[j].nodes)
      BY <3>1, TwinsHaveTheSameNodes
    <3> QED
      BY <1>11, <3>2
  <2> DEFINE k == i - p
             l == j - p
  <2>2. /\ k \in 1 .. m /\ l \in 1 .. m /\ i = p + k /\ j = p + l
    <3>1. i \in p + 1 .. p + m /\ j \in p + 1 .. p + m /\ m \in Nat
      BY <1>2
    <3> QED
      BY <3>1
  <2> HIDE DEF k, l
  <2>3. Range(FacesOfCell(c)[k].nodes) = Range(FacesOfCell(c)[l].nodes)
    BY <1>2, <2>1, <2>2
  <2>4. k = l
    BY <1>2, <2>2, <2>3, FacesOfCellDiffer
  <2> QED
    BY <2>2, <2>4
<1>12. IsInjective(Listing(c))
  <2>1. ASSUME NEW a \in 1 .. m, NEW b \in 1 .. m, Listing(c)[a] = Listing(c)[b]
        PROVE  a = b
    <3>1. places[a] = places[b]
      BY <1>7, <1>8, <1>11, <2>1
    <3>2. places[a] \in Int /\ places[b] \in Int
      BY <1>5, <1>7
    <3> QED
      BY <1>7, <3>1, <3>2
  <2> QED
    BY <1>8, <2>1 DEF IsInjective
<1>13. ASSUME NEW f \in 0 .. Len(KeptFaces) - 1, Owners[f][1] = c
       PROVE  f \in Range(Listing(c))
  <2>1. PICK i \in W : NumberOf[i] = f
    BY <1>4, <1>13
  <2>2. PICK k \in 1 .. m : places[k] = i
    BY <1>7, <2>1
  <2>3. k \in DOMAIN Listing(c) /\ Listing(c)[k] = f
    BY <1>8, <2>1, <2>2
  <2> QED
    BY <2>3 DEF Range
<1> QED
  BY <1>7, <1>9, <1>10, <1>12, <1>13 DEF m

\* So a boundary face asks for as many ghosts as count_ghost() counts for it.
LEMMA RowsAreCounted ==
    ASSUME MeshIInv, NEW row \in 1 .. nbound
    PROVE  /\ NodesLeft(row) = Len(clnds[CellAt(row)]) - Len(fcnds[FaceAt(row)])
           /\ FacesLeft(row) = TypeOf(CellAt(row)).nface - 1
<1> DEFINE f == FaceAt(row)
           c == CellAt(row)
           C == clnds[c]
           F == Range(fcnds[f])
           L == clfcs[c]
<1>1. /\ f \in Open /\ f \in Faces /\ c \in Cells /\ C \in Seq(DOMAIN grid.crd) /\ IsInjective(C)
      /\ F \subseteq Range(C)
  BY RowsAreGiven DEF RowIsGiven, Open
<1>2. IsGrid(grid) /\ NodesAsGiven /\ CellsListFaces /\ FaceRows
  BY DEF MeshIInv
<1>3. FaceIsBuilt(f) /\ f \in 0 .. Len(KeptFaces) - 1
  BY <1>1, <1>2 DEF FaceRows
<1> DEFINE on == Populated[KeptFaces[f + 1]].nodes
<1>4. on \in Seq(DOMAIN grid.crd) /\ IsInjective(on)
  <2>1. KeptFaces[f + 1] \in 1 .. Len(Populated)
    BY <1>2, <1>3, KeptAreNumbered DEF IsKept
  <2>2. Populated[KeptFaces[f + 1]] \in RawFace
    BY <1>2, <2>1, PopulatedIsListed
  <2> QED
    BY <2>2 DEF RawFace
<1>5. F = Range(on) /\ Len(fcnds[f]) = Len(on) /\ c = Owners[f][1]
  BY <1>3 DEF FaceIsBuilt, CellAt
<1>6. L = Listing(c)
  BY <1>1, <1>2 DEF CellsListFaces
<1>7. NodesLeft(row) = LeftOut(C, F, Len(C)) /\ FacesLeft(row) = LeftOut(L, {f}, Len(L))
  BY DEF NodesLeft, FacesLeft
<1> HIDE DEF C, F, L, on
<1>8. Cardinality(F) = Len(on)
  BY <1>4, <1>5, ItemsAreCounted
<1>9. LeftOut(C, F, Len(C)) = Len(C) - Cardinality(F)
  BY <1>1, LeftOutIsTheRest
<1> HIDE DEF c, f
<1>10. LeftOut(L, {f}, Len(L)) = Len(L) - 1 /\ Len(L) = TypeOf(c).nface
  <2>1. /\ L \in Seq(Range(L)) /\ IsInjective(L) /\ Len(L) = TypeOf(c).nface /\ f \in Range(L)
    BY <1>1, <1>2, <1>3, <1>5, <1>6, CellListsItsFaces
  <2>2. {f} \in SUBSET Range(L) /\ Cardinality({f}) = 1
    BY <2>1, FS_Singleton
  <2>3. LeftOut(L, {f}, Len(L)) = Len(L) - Cardinality({f})
    BY <2>1, <2>2, LeftOutIsTheRest
  <2> QED
    BY <2>1, <2>2, <2>3
<1> QED
  BY <1>5, <1>7, <1>8, <1>9, <1>10 DEF C, f, c

-----------------------------------------------------------------------------
(* build_ghost().                                                          *)

\* The tables that build_ghost() makes, and the ghosts that it counts.
Ghosts == AllCellGhosts(Ghostless, BndRows)
NodeCount == AllSums(0, NodesAsked)
FaceCount == AllSums(0, FacesAsked)

\* Its steps go over the boundary faces as the lemmas above do.
LEMMA GhostIsBuilt ==
    ASSUME MeshIInv, BuildGhost
    PROVE  /\ ndcrd' = Ghosts.crd /\ clnds' = Ghosts.cnds /\ clfcs' = Ghosts.cfcs
           /\ fcnds' = Ghosts.nds /\ fccls' = Ghosts.cls /\ torn' = FALSE
           /\ UNCHANGED <<grid, bcs, bndfcs, nbound>>
           /\ nbound > 0 => ngst' = [node |-> NodeCount, face |-> FaceCount, cell |-> nbound]
           /\ ngst'.cell = nbound
<1> DEFINE start == [crd |-> Body(ndcrd), cnds |-> Body(clnds), cfcs |-> Body(clfcs),
                     nds |-> Body(fcnds), cls |-> Body(fccls), map |-> <<>>, sides |-> <<>>]
           g == Accumulate(GhostCell, start, [row \in 1 .. nbound |-> row])
<1>1. /\ ndcrd' = g.crd /\ clnds' = g.cnds /\ clfcs' = g.cfcs
      /\ fcnds' = g.nds /\ fccls' = g.cls /\ torn' = FALSE
      /\ UNCHANGED <<grid, bcs, bndfcs, nbound>> /\ ngst' = CountGhost
  BY DEF BuildGhost
<1>2. g = Ghosts
  BY DEF Ghosts, AllCellGhosts, Ghostless, BndRows
<1> DEFINE NodesHere == [k \in DOMAIN bndfcs |-> Len(clnds[fccls[bndfcs[k].face][1]]) - Len(fcnds[bndfcs[k].face])]
           FacesHere == [k \in DOMAIN bndfcs |-> TypeOf(fccls[bndfcs[k].face][1]).nface - 1]
<1>3. CountGhost = [node |-> Accumulate(+, 0, NodesHere), face |-> Accumulate(+, 0, FacesHere), cell |-> nbound]
  BY DEF CountGhost
<1>4. CountGhost = [node |-> AllSums(0, NodesHere), face |-> AllSums(0, FacesHere), cell |-> nbound]
  BY <1>3 DEF AllSums
<1>5. ASSUME nbound > 0
      PROVE  NodesHere = NodesAsked /\ FacesHere = FacesAsked
  <2>1. DOMAIN bndfcs = 1 .. nbound
    <3>1. IsSplit(bcs, bndfcs, Open) /\ nbound = Len(bndfcs) /\ nbound \in Nat
      BY <1>5 DEF MeshIInv, BoundaryRows
    <3> QED
      BY <3>1, LenProperties DEF IsSplit
  <2>2. ASSUME NEW row \in 1 .. nbound
        PROVE  /\ NodesLeft(row) = Len(clnds[fccls[bndfcs[row].face][1]]) - Len(fcnds[bndfcs[row].face])
               /\ FacesLeft(row) = TypeOf(fccls[bndfcs[row].face][1]).nface - 1
    BY RowsAreCounted DEF CellAt, FaceAt
  <2> QED
    BY <2>1, <2>2 DEF NodesAsked, FacesAsked
<1> HIDE DEF NodesHere, FacesHere, g
<1>6. ngst'.cell = nbound
  BY <1>1, <1>4
<1>7. nbound > 0 => ngst' = [node |-> NodeCount, face |-> FaceCount, cell |-> nbound]
  BY <1>1, <1>4, <1>5 DEF NodeCount, FaceCount
<1> QED
  BY <1>1, <1>2, <1>6, <1>7

\* The invariant stays.
LEMMA GhostKeeps ==
    ASSUME MeshIInv, BuildGhost
    PROVE  MeshIInv' /\ Faces' = Faces /\ Cells' = Cells
<1> DEFINE g == Ghosts
<1>1. /\ ndcrd' = g.crd /\ clnds' = g.cnds /\ clfcs' = g.cfcs /\ fcnds' = g.nds /\ fccls' = g.cls
      /\ UNCHANGED <<grid, bcs, bndfcs, nbound>>
  BY GhostIsBuilt
<1>2. GhostsDone(g, nbound, NodeCount, FaceCount)
  BY GhostsAreDone DEF Ghosts, NodeCount, FaceCount
<1> HIDE DEF g
<1>3. /\ InteriorKept(g) /\ DOMAIN g.cnds = -nbound .. Len(grid.cells) - 1
      /\ Filled(g.crd, NodeCount) /\ Filled(g.nds, FaceCount)
  BY <1>2 DEF GhostsDone
<1>4. IsGrid(grid) /\ NodesAsGiven /\ GivenRows /\ CellsListFaces /\ FaceRows /\ BoundaryRows
  BY DEF MeshIInv
<1>5. /\ Populated' = Populated /\ KeptFaces' = KeptFaces /\ Owners' = Owners /\ Cells' = Cells
      /\ \A c \in Cells : Listing(c)' = Listing(c)
  <2>1. \A c \in Cells : clnds'[c] = clnds[c]
    BY <1>1, <1>3 DEF InteriorKept
  <2> QED
    BY <1>1, <1>4, <2>1, TablesStay
<1>6. Faces' = Faces
  <2>1. Faces' = {f \in DOMAIN g.nds : f >= 0}
    BY <1>1 DEF Faces
  <2> QED
    BY <1>3, <2>1 DEF InteriorKept
<1>7. nbound \in Nat /\ Len(grid.cells) \in Nat
  BY <1>4, LenProperties DEF BoundaryRows, IsGrid
<1>8. IsGrid(grid)' /\ NodesAsGiven'
  <2>1. ASSUME NEW c \in Cells
        PROVE  c \in DOMAIN clnds' /\ c \in DOMAIN clfcs' /\ clnds'[c] = grid.cells[c + 1].nodes
    <3>1. c \in DOMAIN g.cfcs /\ g.cnds[c] = clnds[c]
      BY <1>3 DEF InteriorKept
    <3>2. c \in DOMAIN g.cnds
      BY <1>3, <1>7 DEF Cells
    <3> QED
      BY <1>1, <1>4, <3>1, <3>2 DEF NodesAsGiven
  <2> QED
    BY <1>1, <1>4, <1>5, <2>1 DEF NodesAsGiven
<1>9. GivenRows'
  <2>1. {n \in DOMAIN g.crd : n >= 0} = DOMAIN grid.crd
    BY <1>3, <1>4 DEF InteriorKept, GivenRows
  <2>2. DOMAIN g.crd \subseteq Int
    BY <1>3 DEF Filled
  <2>3. DOMAIN g.cnds \subseteq Int /\ {c \in DOMAIN g.cnds : c >= 0} = Cells
    BY <1>3, <1>7 DEF Cells
  <2> QED
    BY <1>1, <1>5, <2>1, <2>2, <2>3 DEF GivenRows
<1>10. CellsListFaces'
  <2>1. \A c \in Cells : g.cfcs[c] = clfcs[c]
    BY <1>3 DEF InteriorKept
  <2> QED
    BY <1>1, <1>4, <1>5, <1>6, <2>1 DEF CellsListFaces
<1>11. FaceRows'
  <2>1. DOMAIN g.cls = DOMAIN g.nds /\ DOMAIN g.nds \subseteq Int /\ FaceCount \in Nat
        /\ {f \in DOMAIN g.nds : f < 0} = -FaceCount .. -1 /\ {f \in DOMAIN g.nds : f >= 0} = Faces
    BY <1>3 DEF InteriorKept, Filled
  <2>2. IsFiniteSet(DOMAIN g.nds)
    <3>1. DOMAIN g.nds = (-FaceCount .. -1) \cup Faces
      BY <2>1
    <3>2. IsFiniteSet(-FaceCount .. -1)
      <4>1. -FaceCount \in Int /\ -1 \in Int
        BY <2>1
      <4> QED
        BY <4>1, FS_Interval
    <3>3. IsFiniteSet(Faces)
      <4>1. Faces \in SUBSET DOMAIN fcnds
        BY DEF Faces
      <4> QED
        BY <1>4, <4>1, FS_Subset DEF FaceRows
    <3> QED
      BY <3>1, <3>2, <3>3, FS_Union
  <2>3. ASSUME NEW f \in Faces, FaceIsBuilt(f)
        PROVE  FaceIsBuilt(f)'
    <3>1. /\ g.nds[f] = fcnds[f] /\ g.cls[f] = <<g.cls[f][1], g.cls[f][2]>>
          /\ g.cls[f][1] = fccls[f][1] /\ (g.cls[f][2] < 0 <=> fccls[f][2] < 0)
      BY <1>3 DEF InteriorKept
    <3> QED
      BY <1>1, <1>5, <2>3, <3>1 DEF FaceIsBuilt
  <2> QED
    BY <1>1, <1>4, <1>5, <1>6, <2>1, <2>2, <2>3 DEF FaceRows
<1>12. BoundaryRows'
  BY <1>1, <1>4, <1>5, <1>6, <1>11, BoundaryRowsStay
<1> QED
  BY <1>5, <1>6, <1>8, <1>9, <1>10, <1>11, <1>12 DEF MeshIInv

\* The ghosts fill the rows that were counted for them, and fit their faces.
LEMMA GhostFits ==
    ASSUME MeshIInv, BuildGhost
    PROVE  GhostsFit'
<1> DEFINE g == Ghosts
<1>1. /\ ndcrd' = g.crd /\ clnds' = g.cnds /\ clfcs' = g.cfcs /\ fcnds' = g.nds /\ fccls' = g.cls
      /\ UNCHANGED <<grid, bcs, bndfcs, nbound>> /\ ngst'.cell = nbound
      /\ nbound > 0 => ngst' = [node |-> NodeCount, face |-> FaceCount, cell |-> nbound]
  BY GhostIsBuilt
<1>2. GhostsDone(g, nbound, NodeCount, FaceCount)
  BY GhostsAreDone DEF Ghosts, NodeCount, FaceCount
<1>3. Faces' = Faces /\ Cells' = Cells
  BY GhostKeeps
<1> HIDE DEF g
<1>4. /\ InteriorKept(g) /\ DOMAIN g.cnds = -nbound .. Len(grid.cells) - 1
      /\ Filled(g.crd, NodeCount) /\ Filled(g.nds, FaceCount)
      /\ \A row \in 1 .. nbound : CellFits(g, row) /\ SidesFit(g, row)
  BY <1>2 DEF GhostsDone
<1>5. IsGrid(grid) /\ GivenRows /\ FaceRows /\ nbound \in Nat /\ Len(grid.cells) \in Nat
  BY LenProperties DEF MeshIInv, BoundaryRows, IsGrid
<1>6. ASSUME nbound > 0
      PROVE  /\ ngst'.node = NodeCount /\ ngst'.face = FaceCount /\ ngst'.cell = nbound
             /\ DOMAIN g.crd = -NodeCount .. Cardinality(DOMAIN grid.crd) - 1
             /\ DOMAIN g.nds = -FaceCount .. Cardinality(Faces) - 1
             /\ DOMAIN g.cnds = -nbound .. Cardinality(Cells) - 1
  <2>1. /\ DOMAIN g.crd \subseteq Int /\ NodeCount \in Nat /\ {i \in DOMAIN g.crd : i < 0} = -NodeCount .. -1
        /\ DOMAIN g.nds \subseteq Int /\ FaceCount \in Nat /\ {i \in DOMAIN g.nds : i < 0} = -FaceCount .. -1
    BY <1>4 DEF Filled
  <2>2. DOMAIN g.crd = -NodeCount .. Cardinality(DOMAIN grid.crd) - 1
    <3>1. {i \in DOMAIN g.crd : i >= 0} = DOMAIN grid.crd
      BY <1>4, <1>5 DEF InteriorKept, GivenRows
    <3>2. DOMAIN grid.crd = 0 .. Cardinality(DOMAIN grid.crd) - 1 /\ Cardinality(DOMAIN grid.crd) \in Nat
      BY <1>5, NodesAreNumbered
    <3>3. DOMAIN g.crd = {i \in DOMAIN g.crd : i < 0} \cup {i \in DOMAIN g.crd : i >= 0}
      BY <2>1
    <3>4. DOMAIN g.crd = (-NodeCount .. -1) \cup (0 .. Cardinality(DOMAIN grid.crd) - 1)
      BY <2>1, <3>1, <3>2, <3>3
    <3>5. (-NodeCount .. -1) \cup (0 .. Cardinality(DOMAIN grid.crd) - 1)
            = -NodeCount .. Cardinality(DOMAIN grid.crd) - 1
      BY <2>1, <3>2
    <3> QED
      BY <3>4, <3>5
  <2>3. DOMAIN g.nds = -FaceCount .. Cardinality(Faces) - 1
    <3>1. Faces = 0 .. Len(KeptFaces) - 1
      <4>1. 1 \in 1 .. nbound
        BY <1>5, <1>6
      <4>2. FaceAt(1) \in Faces
        BY <4>1, RowsAreGiven DEF RowIsGiven, Open
      <4> QED
        BY <1>5, <4>2 DEF FaceRows
    <3>2. Len(KeptFaces) \in Nat
      BY KeptAreNumbered DEF MeshIInv
    <3>3. Cardinality(Faces) = Len(KeptFaces)
      <4>1. 0 \in Int /\ Len(KeptFaces) - 1 \in Int
        BY <3>2
      <4>2. Cardinality(0 .. Len(KeptFaces) - 1) = IF 0 > Len(KeptFaces) - 1 THEN 0 ELSE (Len(KeptFaces) - 1) - 0 + 1
        BY <4>1, FS_Interval
      <4> QED
        BY <3>1, <3>2, <4>2
    <3>4. DOMAIN g.nds = {i \in DOMAIN g.nds : i < 0} \cup {i \in DOMAIN g.nds : i >= 0}
      BY <2>1
    <3>5. DOMAIN g.nds = (-FaceCount .. -1) \cup (0 .. Len(KeptFaces) - 1)
      BY <1>4, <2>1, <3>1, <3>4 DEF InteriorKept
    <3>6. (-FaceCount .. -1) \cup (0 .. Len(KeptFaces) - 1) = -FaceCount .. Len(KeptFaces) - 1
      BY <2>1, <3>2
    <3> QED
      BY <3>3, <3>5, <3>6
  <2>4. Cardinality(Cells) = Len(grid.cells)
    <3>1. 0 \in Int /\ Len(grid.cells) - 1 \in Int
      BY <1>5
    <3>2. Cardinality(0 .. Len(grid.cells) - 1) =
            IF 0 > Len(grid.cells) - 1 THEN 0 ELSE (Len(grid.cells) - 1) - 0 + 1
      BY <3>1, FS_Interval
    <3> QED
      BY <1>5, <3>2 DEF Cells
  <2>5. ngst'.node = NodeCount /\ ngst'.face = FaceCount /\ ngst'.cell = nbound
    BY <1>1, <1>6
  <2> QED
    BY <1>4, <2>2, <2>3, <2>4, <2>5
<1>7. ASSUME NEW row \in 1 .. nbound
      PROVE  LET f == bndfcs[row].face
                 c == -row
             IN  /\ g.cls[f][2] = c
                 /\ {n \in Range(g.cnds[c]) : n >= 0} = Range(g.nds[f])
                 /\ \A h \in 1 .. row - 1 : {n \in Range(g.cnds[c]) \cap Range(g.cnds[-h]) : n < 0} = {}
                 /\ \A k \in DOMAIN g.cfcs[c] :
                     /\ Range(g.nds[g.cfcs[c][k]]) \subseteq Range(g.cnds[c])
                     /\ g.cfcs[c][k] = f \/ g.cls[g.cfcs[c][k]][1] = c
  <2>1. FaceAt(row) \in Faces /\ CellFits(g, row) /\ SidesFit(g, row)
    BY <1>4, RowsAreGiven DEF RowIsGiven, Open
  <2>2. g.nds[FaceAt(row)] = fcnds[FaceAt(row)]
    BY <1>4, <2>1 DEF InteriorKept
  <2> QED
    BY <2>1, <2>2 DEF CellFits, SidesFit, FaceAt
<1> SUFFICES ASSUME HasGhosts'
             PROVE  /\ DOMAIN ndcrd' = -ngst'.node .. Cardinality(DOMAIN grid'.crd) - 1
                    /\ DOMAIN fcnds' = -ngst'.face .. Cardinality(Faces') - 1
                    /\ DOMAIN clnds' = -ngst'.cell .. Cardinality(Cells') - 1
                    /\ \A row \in 1 .. nbound' :
                        LET f == bndfcs'[row].face
                            c == -row
                        IN  /\ fccls'[f][2] = c
                            /\ {n \in Range(clnds'[c]) : n >= 0} = Range(fcnds'[f])
                            /\ \A h \in 1 .. row - 1 : {n \in Range(clnds'[c]) \cap Range(clnds'[-h]) : n < 0} = {}
                            /\ \A k \in DOMAIN clfcs'[c] :
                                /\ Range(fcnds'[clfcs'[c][k]]) \subseteq Range(clnds'[c])
                                /\ clfcs'[c][k] = f \/ fccls'[clfcs'[c][k]][1] = c
  BY DEF GhostsFit
<1>8. nbound > 0
  BY <1>1 DEF HasGhosts
<1> QED
  BY <1>1, <1>3, <1>6, <1>7, <1>8

-----------------------------------------------------------------------------
(* The tables agree.                                                       *)

\* There are ghosts only behind a boundary that was built.
MeshInv == MeshIInv /\ ngst.cell \in Nat /\ (nbound = 0 => ngst.cell = 0) /\ GhostsFit

\* The faces that are kept differ, in whatever order their nodes are.
LEMMA BuiltFacesDiffer == ASSUME MeshIInv PROVE FacesDiffer
<1>1. IsGrid(grid) /\ NodesAsGiven /\ FaceRows
  BY DEF MeshIInv
<1>2. ASSUME NEW f \in Faces, NEW h \in Faces, f < h
      PROVE  Range(fcnds[f]) # Range(fcnds[h])
  <2>1. f \in 0 .. Len(KeptFaces) - 1 /\ h \in 0 .. Len(KeptFaces) - 1 /\ FaceIsBuilt(f) /\ FaceIsBuilt(h)
    BY <1>1 DEF FaceRows
  <2>2. Range(Populated[KeptFaces[f + 1]].nodes) # Range(Populated[KeptFaces[h + 1]].nodes)
    BY <1>1, <1>2, <2>1, KeptDiffer
  <2> QED
    BY <2>1, <2>2 DEF FaceIsBuilt
<1>3. Faces \subseteq Int
  BY <1>1 DEF FaceRows, Faces
<1> QED
  BY <1>2, <1>3 DEF FacesDiffer

\* The boundary is split when it is built.
LEMMA BuiltBoundaryIsSplit == ASSUME MeshIInv PROVE BoundaryIsSplit
<1>1. ASSUME nbound > 0
      PROVE  IsSplit(bcs, bndfcs, Open) /\ nbound = Len(bndfcs)
  BY <1>1 DEF MeshIInv, BoundaryRows
<1> QED
  BY <1>1 DEF BoundaryIsSplit, IsSplit, Open

\* Every call keeps all that.
LEMMA MeshInvStays ==
    ASSUME MeshInv, [StaticMeshNext]_staticMeshVars
    PROVE  MeshInv'
<1>1. MeshIInv /\ ngst.cell \in Nat /\ (nbound = 0 => ngst.cell = 0) /\ GhostsFit
  BY DEF MeshInv
<1>2. ASSUME NEW g \in Grids, NewMesh(g)
      PROVE  MeshInv'
  <2>1. MeshIInv'
    BY <1>2, NewMeshKeeps
  <2>2. ngst'.cell = 0
    BY <1>2 DEF NewMesh
  <2> QED
    BY <2>1, <2>2 DEF MeshInv, GhostsFit, HasGhosts
<1>3. ASSUME NEW doMetric \in BOOLEAN, NEW doEdge \in BOOLEAN, BuildInterior(doMetric, doEdge)
      PROVE  MeshInv'
  <2>1. MeshIInv'
    BY <1>1, <1>3, InteriorKeeps
  <2>2. ngst' = ngst /\ nbound' = nbound /\ torn' = (ngst.cell > 0)
    BY <1>3 DEF BuildInterior
  <2> QED
    BY <1>1, <2>1, <2>2 DEF MeshInv, GhostsFit, HasGhosts
<1>4. ASSUME NEW name \in BcNames, NEW faces \in grid.patches, AddBc(name, faces)
      PROVE  MeshInv'
  <2>1. MeshIInv'
    BY <1>1, <1>4, AddBcKeeps
  <2>2. nbound = 0 /\ ngst' = ngst
    BY <1>4 DEF AddBc, Accepts
  <2> QED
    BY <1>1, <2>1, <2>2 DEF MeshInv, GhostsFit, HasGhosts
<1>5. ASSUME BuildBoundary
      PROVE  MeshInv'
  <2>1. MeshIInv'
    BY <1>1, <1>5, BoundaryKeeps
  <2>2. nbound = 0 /\ ngst' = ngst
    BY <1>5 DEF BuildBoundary
  <2> QED
    BY <1>1, <2>1, <2>2 DEF MeshInv, GhostsFit, HasGhosts
<1>6. ASSUME BuildGhost
      PROVE  MeshInv'
  <2>1. MeshIInv' /\ GhostsFit'
    BY <1>1, <1>6, GhostKeeps, GhostFits
  <2>2. ngst'.cell = nbound /\ nbound' = nbound /\ nbound \in Nat
    BY <1>1, <1>6, GhostIsBuilt DEF MeshIInv, BoundaryRows
  <2> QED
    BY <2>1, <2>2 DEF MeshInv
<1>7. ASSUME UNCHANGED staticMeshVars
      PROVE  MeshInv'
  <2>1. MeshIInv'
    BY <1>1, <1>7, MeshStutters
  <2>2. UNCHANGED <<grid, ndcrd, clnds, fcnds, fccls, clfcs, bndfcs, nbound, ngst, torn>>
    BY <1>7 DEF staticMeshVars, interiorVars
  <2>3. Faces' = Faces /\ Cells' = Cells /\ HasGhosts' = HasGhosts
    BY <2>2 DEF Faces, Cells, HasGhosts
  <2>4. GhostsFit'
    BY <1>1, <2>2, <2>3 DEF GhostsFit
  <2> QED
    BY <1>1, <2>1, <2>2, <2>4 DEF MeshInv
<1>8. StaticMeshCalls => MeshInv'
  BY <1>3, <1>4, <1>5, <1>6 DEF StaticMeshCalls
<1> QED
  BY <1>2, <1>7, <1>8 DEF StaticMeshNext

\* Whatever the order of the calls on a mesh, the hash of faces misses no twin,
\* the boundary is split once and for all, and fill_ghost() fills the rows that
\* count_ghost() counted, for every grid.
THEOREM MeshTablesAgree == StaticMeshSpec => []TablesAgree
<1>1. StaticMeshInit => MeshInv
  <2>1. StaticMeshInit => MeshIInv
    BY MeshStarts
  <2>2. StaticMeshInit => ngst.cell = 0
    BY DEF StaticMeshInit
  <2> QED
    BY <2>1, <2>2 DEF MeshInv, GhostsFit, HasGhosts
<1>2. MeshInv /\ [StaticMeshNext]_staticMeshVars => MeshInv'
  BY MeshInvStays
<1>3. MeshInv => TablesAgree
  BY BuiltFacesDiffer, BuiltBoundaryIsSplit DEF MeshInv, TablesAgree
<1> QED
  BY <1>1, <1>2, <1>3, PTL DEF StaticMeshSpec
=============================================================================
