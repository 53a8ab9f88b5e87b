----------------------------- MODULE Accumulate -----------------------------
(***************************************************************************)
(* FoldLeft and FlattenSeq of SequencesExt as recursive functions.  TLC    *)
(* evaluates a bound variable once and a parameter whenever it is applied  *)
(* to an argument: the CHOOSE bind s and the value so far, so that the     *)
(* time is linear in the length of the sequence.  A loop that picks items  *)
(* of an array is Ascending of their indices.                              *)
(***************************************************************************)
EXTENDS Integers, Sequences, FiniteSets

Accumulate(Op(_, _), base, s) ==
    LET Along(t) ==
            LET upto[k \in 0 .. Len(t)] ==
                    IF k = 0 THEN base
                    ELSE CHOOSE r \in {Op(v, t[k]) : v \in {upto[k - 1]}} : TRUE
            IN  upto[Len(t)]
    IN  CHOOSE r \in {Along(t) : t \in {s}} : TRUE

Concatenated(ss) == Accumulate(\o, <<>>, ss)

\* The numbers in S, the smallest first.
Ascending(S) ==
    [k \in 1 .. Cardinality(S) |-> CHOOSE x \in S : Cardinality({y \in S : y < x}) = k - 1]

\* The table f with x in row i, a new one or one that was there.
Put(f, i, x) == [k \in {i} \cup DOMAIN f |-> IF k = i THEN x ELSE f[k]]

\* The sequence s as a tuple: TLC evaluates each of its elements once.
AsTuple(s) == SubSeq(s, 1, Len(s))
=============================================================================
