-------------------------- MODULE CompilationProofs --------------------------
(***************************************************************************)
(* Proofs about Compilation for every number of sources and items, and     *)
(* whatever the members' filters, the rules and the items are.             *)
(***************************************************************************)
EXTENDS Compilation, FiniteSetTheorems, WellFoundedInduction, SequenceTheorems, TLAPS

-----------------------------------------------------------------------------
(* Induction over the natural numbers, by sets. *)

LEMMA Least ==
  ASSUME NEW T, T \subseteq Nat, T # {}
  PROVE  \E x \in T : \A y \in T : x <= y
<1>1. PICK x \in T : \A y \in T : ~ (<<y, x>> \in OpToRel(<, Nat))
  BY NatLessThanWellFounded, WFMin, Zenon
<1>2. \A y \in T : ~ (<<y, x>> \in {ss \in Nat \X Nat : ss[1] < ss[2]})
  BY <1>1, Zenon DEF OpToRel
<1>3. \A y \in T : ~ (y < x)
  BY <1>2
<1>4. QED
  BY <1>3

LEMMA Counting ==
  ASSUME NEW T, 0 \in T, \A n \in Nat : n \in T => n + 1 \in T
  PROVE  Nat \subseteq T
<1>1. SUFFICES ASSUME Nat \ T # {} PROVE FALSE
  OBVIOUS
<1>2. PICK n \in Nat \ T : \A m \in Nat \ T : n <= m
  BY <1>1, Least
<1>3. n - 1 \in Nat /\ ~ (n <= n - 1) /\ (n - 1) + 1 = n
  BY <1>2
<1>4. n - 1 \in T
  BY <1>2, <1>3
<1>5. QED
  BY <1>2, <1>3, <1>4

-----------------------------------------------------------------------------
(* Sorting and filtering. *)

\* What comes before each element of S makes a strict total order of S.
IsOrder(S, before) ==
  /\ before \in [S -> SUBSET S]
  /\ \A x \in S : x \notin before[x]
  /\ \A x, y \in S : y \in before[x] => before[y] \subseteq before[x]
  /\ \A x, y \in S : x = y \/ x \in before[y] \/ y \in before[x]

\* A sorted set has each of its elements once, and in order.
LEMMA Sorted ==
  ASSUME NEW S, IsFiniteSet(S), NEW before, IsOrder(S, before)
  PROVE  /\ Cardinality(S) \in Nat
         /\ InOrder(S, before) \in [1..Cardinality(S) -> S]
         /\ \A x \in S : \E i \in 1..Cardinality(S) : InOrder(S, before)[i] = x
         /\ \A i, j \in 1..Cardinality(S) :
              i < j <=> InOrder(S, before)[i] \in before[InOrder(S, before)[j]]
<1> DEFINE n == Cardinality(S)
           rank == [x \in S |-> Cardinality(before[x]) + 1]
<1>1. n \in Nat
  BY FS_CardinalityType
<1>2. \A x \in S : IsFiniteSet(before[x]) /\ Cardinality(before[x]) \in Nat
  BY FS_Subset, FS_CardinalityType DEF IsOrder
<1>3. \A x \in S : Cardinality(before[x]) <= n /\ Cardinality(before[x]) # n
  BY FS_Subset DEF IsOrder
<1>4. ASSUME NEW x \in S, NEW y \in S, y \in before[x]
      PROVE  Cardinality(before[y]) < Cardinality(before[x])
  <2>1. before[y] \in SUBSET before[x] /\ before[y] # before[x]
    BY <1>4 DEF IsOrder
  <2>2. QED
    BY <1>2, <2>1, FS_Subset
<1>5. rank \in Injection(S, 1..n)
  <2>1. rank \in [S -> 1..n]
    BY <1>1, <1>2, <1>3
  <2>2. \A x, y \in S : rank[x] = rank[y] => x = y
    BY <1>2, <1>4 DEF IsOrder
  <2>3. QED
    BY <2>1, <2>2 DEF Injection, IsInjective
<1>6. rank \in Surjection(S, 1..n)
  BY <1>1, <1>5, FS_Interval, FS_Injection
<1>7. ASSUME NEW i \in 1..n PROVE \E x \in S : Cardinality(before[x]) = i - 1
  <2>1. PICK x \in S : rank[x] = i
    BY <1>6 DEF Surjection
  <2>2. QED
    BY <1>1, <1>2, <2>1
<1>8. \A i \in 1..n : /\ InOrder(S, before)[i] \in S
                      /\ Cardinality(before[InOrder(S, before)[i]]) = i - 1
  BY <1>7 DEF InOrder
<1>9. InOrder(S, before) \in [1..n -> S]
  BY <1>8 DEF InOrder
<1>10. ASSUME NEW x \in S PROVE \E i \in 1..n : InOrder(S, before)[i] = x
  <2>1. rank[x] \in 1..n
    BY <1>5 DEF Injection
  <2>2. rank[InOrder(S, before)[rank[x]]] = rank[x]
    BY <1>1, <1>2, <1>8, <2>1
  <2>3. \A y \in S : rank[y] = rank[x] => y = x
    BY <1>5 DEF Injection, IsInjective
  <2>4. InOrder(S, before)[rank[x]] = x
    BY <1>8, <2>1, <2>2, <2>3
  <2>5. QED
    BY <2>1, <2>4
<1>11. ASSUME NEW i \in 1..n, NEW j \in 1..n
       PROVE  i < j <=> InOrder(S, before)[i] \in before[InOrder(S, before)[j]]
  <2> DEFINE x == InOrder(S, before)[i]
             y == InOrder(S, before)[j]
  <2>1. x \in S /\ y \in S /\ Cardinality(before[x]) = i - 1 /\ Cardinality(before[y]) = j - 1
    BY <1>8
  <2>2. x \in before[y] => i - 1 < j - 1
    BY <1>4, <2>1
  <2>3. y \in before[x] => j - 1 < i - 1
    BY <1>4, <2>1
  <2>4. x = y => i - 1 = j - 1
    BY <2>1
  <2>5. x = y \/ x \in before[y] \/ y \in before[x]
    BY <2>1 DEF IsOrder
  <2>6. QED
    BY <1>1, <2>2, <2>3, <2>4, <2>5
<1>12. QED
  BY <1>1, <1>9, <1>10, <1>11

\* The places kept are at[1], at[2] and so on.
KeptAt(seq, P, at) ==
  /\ at \in [1..Cardinality(P) -> P]
  /\ Keep(seq, P) = [k \in 1..Cardinality(P) |-> seq[at[k]]]
  /\ \A i \in P : \E k \in 1..Cardinality(P) : at[k] = i
  /\ \A j, k \in 1..Cardinality(P) : j < k <=> at[j] < at[k]

\* A filtered sequence has what stood at the places kept, in the same order.
LEMMA Kept ==
  ASSUME NEW seq, NEW n \in Nat, NEW P \in SUBSET (1..n)
  PROVE  Cardinality(P) \in 0..n /\ \E at : KeptAt(seq, P, at)
<1> DEFINE before == [i \in P |-> {j \in P : j < i}]
<1>1. IsFiniteSet(1..n) /\ Cardinality(1..n) = n
  BY FS_Interval
<1>2. IsFiniteSet(P) /\ Cardinality(P) <= n
  BY <1>1, FS_Subset
<1>3. IsOrder(P, before)
  <2>1. before \in [P -> SUBSET P] /\ \A i, j \in P : j \in before[i] <=> j < i
    OBVIOUS
  <2>2. \A i \in P : i \in Nat
    OBVIOUS
  <2> HIDE DEF before
  <2>3. \A i \in P : i \notin before[i]
    BY <2>1, <2>2
  <2>4. ASSUME NEW i \in P, NEW j \in before[i], NEW k \in before[j] PROVE k \in before[i]
    <3>1. j \in P /\ k \in P
      BY <2>1
    <3>2. QED
      BY <2>1, <2>2, <3>1
  <2>5. \A i, j \in P : i = j \/ i \in before[j] \/ j \in before[i]
    BY <2>1, <2>2
  <2>6. QED
    BY <2>1, <2>3, <2>4, <2>5 DEF IsOrder
<1>4. /\ Cardinality(P) \in Nat
      /\ InOrder(P, before) \in [1..Cardinality(P) -> P]
      /\ \A x \in P : \E i \in 1..Cardinality(P) : InOrder(P, before)[i] = x
      /\ \A i, j \in 1..Cardinality(P) :
           i < j <=> InOrder(P, before)[i] \in before[InOrder(P, before)[j]]
  BY <1>2, <1>3, Sorted
<1>5. DOMAIN InOrder(P, before) = 1..Cardinality(P)
  BY <1>4
<1>6. Keep(seq, P) = [k \in 1..Cardinality(P) |-> seq[InOrder(P, before)[k]]]
  BY <1>5 DEF Keep
<1>7. \A j, k \in 1..Cardinality(P) : j < k <=> InOrder(P, before)[j] < InOrder(P, before)[k]
  BY <1>4
<1>8. KeptAt(seq, P, InOrder(P, before))
  BY <1>4, <1>6, <1>7 DEF KeptAt
<1>9. QED
  BY <1>2, <1>4, <1>8

-----------------------------------------------------------------------------
(* Merging. *)

\* The sequences seqs[1] to seqs[n] one after the other, as flat[n] for each n.
Flattens(flat, seqs, n) ==
  flat = [i \in 1..n |-> IF i = 1 THEN seqs[i] ELSE flat[i - 1] \o seqs[i]]

LEMMA FlatExists ==
  ASSUME NEW seqs, NEW n \in Nat
  PROVE  \E flat : Flattens(flat, seqs, n)
<1> DEFINE T == {m \in Nat : \E flat : Flattens(flat, seqs, m)}
<1>1. 0 \in T
  <2>1. Flattens([i \in 1..0 |-> 0], seqs, 0)
    BY DEF Flattens
  <2>2. QED
    BY <2>1
<1>2. ASSUME NEW m \in Nat, m \in T PROVE m + 1 \in T
  <2>1. PICK flat : Flattens(flat, seqs, m)
    BY <1>2
  <2> DEFINE next == [i \in 1..(m + 1) |->
                        IF i = 1 THEN seqs[i]
                        ELSE IF i = m + 1 THEN flat[m] \o seqs[i] ELSE flat[i]]
  <2>2. ASSUME NEW i \in 1..(m + 1), i # 1 PROVE next[i] = next[i - 1] \o seqs[i]
    <3>1. i - 1 \in 1..m /\ i - 1 \in 1..(m + 1) /\ i - 1 # m + 1
      BY <2>2
    <3>2. next[i - 1] = flat[i - 1]
      BY <2>1, <3>1 DEF Flattens
    <3>3. CASE i = m + 1
      <4>1. next[i] = flat[m] \o seqs[i]
        BY <2>2, <3>3
      <4>2. i - 1 = m
        BY <3>3
      <4>3. next[i - 1] = flat[m]
        BY <3>2, <4>2, Zenon
      <4>4. QED
        BY <4>1, <4>3, Zenon
    <3>4. CASE i # m + 1
      <4>1. i \in 1..m
        BY <3>4
      <4>2. flat[i] = flat[i - 1] \o seqs[i]
        BY <2>1, <2>2, <4>1 DEF Flattens
      <4>3. QED
        BY <2>2, <3>2, <3>4, <4>2
    <3>5. QED
      BY <3>3, <3>4
  <2>3. Flattens(next, seqs, m + 1)
    <3>1. \A i \in 1..(m + 1) : next[i] = IF i = 1 THEN seqs[i] ELSE next[i - 1] \o seqs[i]
      BY <2>2
    <3>2. next = [i \in 1..(m + 1) |-> next[i]]
      OBVIOUS
    <3> HIDE DEF next
    <3>3. QED
      BY <3>1, <3>2 DEF Flattens
  <2>4. QED
    BY <2>3
<1>3. QED
  BY <1>1, <1>2, Counting, Zenon

\* An element of one of the sequences stands after all those of the ones before it.
InSequence(all, seqs, n) ==
  /\ \A p \in 1..Len(all) :
       \E k \in 1..n : \E i \in 1..Len(seqs[k]) :
         /\ all[p] = seqs[k][i]
         /\ \A l \in 1..(k - 1) : \A j \in 1..Len(seqs[l]) :
              \E q \in 1..(p - 1) : all[q] = seqs[l][j]
  /\ \A k \in 1..n : \A i \in 1..Len(seqs[k]) : \E p \in 1..Len(all) : all[p] = seqs[k][i]

LEMMA Appended ==
  ASSUME NEW S, NEW n \in Nat, NEW seqs, \A k \in 1..(n + 1) : seqs[k] \in Seq(S),
         NEW all \in Seq(S), InSequence(all, seqs, n)
  PROVE  /\ all \o seqs[n + 1] \in Seq(S)
         /\ InSequence(all \o seqs[n + 1], seqs, n + 1)
<1> DEFINE last == seqs[n + 1]
           both == all \o last
<1>1. last \in Seq(S) /\ Len(last) \in Nat /\ Len(all) \in Nat
  BY LenProperties
<1>2. /\ both \in Seq(S) /\ Len(both) = Len(all) + Len(last)
      /\ \A p \in 1..Len(all) : both[p] = all[p]
      /\ \A i \in 1..Len(last) : both[Len(all) + i] = last[i]
  BY <1>1, ConcatProperties
<1> HIDE DEF both
<1>3. ASSUME NEW l \in 1..n, NEW j \in 1..Len(seqs[l])
      PROVE  \E q \in 1..Len(all) : both[q] = seqs[l][j]
  BY <1>2 DEF InSequence
<1>4. ASSUME NEW p \in 1..Len(both)
      PROVE  \E k \in 1..(n + 1) : \E i \in 1..Len(seqs[k]) :
               /\ both[p] = seqs[k][i]
               /\ \A l \in 1..(k - 1) : \A j \in 1..Len(seqs[l]) :
                    \E q \in 1..(p - 1) : both[q] = seqs[l][j]
  <2>1. CASE p <= Len(all)
    <3>1. p \in 1..Len(all)
      BY <1>1, <2>1
    <3>2. PICK k \in 1..n : \E i \in 1..Len(seqs[k]) :
             /\ all[p] = seqs[k][i]
             /\ \A l \in 1..(k - 1) : \A j \in 1..Len(seqs[l]) :
                  \E q \in 1..(p - 1) : all[q] = seqs[l][j]
      BY <3>1 DEF InSequence
    <3>3. PICK i \in 1..Len(seqs[k]) :
             /\ all[p] = seqs[k][i]
             /\ \A l \in 1..(k - 1) : \A j \in 1..Len(seqs[l]) :
                  \E q \in 1..(p - 1) : all[q] = seqs[l][j]
      BY <3>2
    <3>4. \A q \in 1..(p - 1) : both[q] = all[q]
      BY <1>1, <1>2, <3>1
    <3>5. \A l \in 1..(k - 1) : \A j \in 1..Len(seqs[l]) :
            \E q \in 1..(p - 1) : both[q] = seqs[l][j]
      BY <3>3, <3>4
    <3>6. both[p] = seqs[k][i] /\ k \in 1..(n + 1)
      BY <1>2, <3>1, <3>3
    <3>7. QED
      BY <3>5, <3>6
  <2>2. CASE ~ (p <= Len(all))
    <3>1. p - Len(all) \in 1..Len(last) /\ p = Len(all) + (p - Len(all))
      BY <1>1, <1>2, <2>2
    <3>2. both[p] = last[p - Len(all)]
      BY <1>2, <3>1
    <3>3. \A l \in 1..((n + 1) - 1) : \A j \in 1..Len(seqs[l]) :
            \E q \in 1..(p - 1) : both[q] = seqs[l][j]
      <4>1. SUFFICES ASSUME NEW l \in 1..((n + 1) - 1), NEW j \in 1..Len(seqs[l])
                     PROVE  \E q \in 1..(p - 1) : both[q] = seqs[l][j]
        OBVIOUS
      <4>2. l \in 1..n
        OBVIOUS
      <4>3. PICK q \in 1..Len(all) : both[q] = seqs[l][j]
        BY <1>3, <4>2
      <4>4. q \in 1..(p - 1)
        BY <1>1, <1>2, <2>2
      <4>5. QED
        BY <4>3, <4>4
    <3>4. n + 1 \in 1..(n + 1)
      OBVIOUS
    <3>5. QED
      BY <3>1, <3>2, <3>3, <3>4
  <2>3. QED
    BY <2>1, <2>2
<1>5. ASSUME NEW k \in 1..(n + 1), NEW i \in 1..Len(seqs[k])
      PROVE  \E p \in 1..Len(both) : both[p] = seqs[k][i]
  <2>1. CASE k = n + 1
    <3>1. Len(all) + i \in 1..Len(both) /\ both[Len(all) + i] = seqs[k][i]
      BY <1>1, <1>2, <2>1
    <3>2. QED
      BY <3>1
  <2>2. CASE k # n + 1
    <3>1. k \in 1..n
      BY <2>2
    <3>2. PICK q \in 1..Len(all) : both[q] = seqs[k][i]
      BY <1>3, <3>1
    <3>3. q \in 1..Len(both)
      BY <1>1, <1>2
    <3>4. QED
      BY <3>2, <3>3
  <2>3. QED
    BY <2>1, <2>2
<1>6. InSequence(both, seqs, n + 1)
  BY <1>4, <1>5 DEF InSequence
<1>7. QED
  BY <1>2, <1>6 DEF both

\* A flattened sequence of sequences has the elements of each in sequence.
LEMMA Flattened ==
  ASSUME NEW S, NEW seqs \in Seq(Seq(S))
  PROVE  /\ FlattenSeq(seqs) \in Seq(S)
         /\ InSequence(FlattenSeq(seqs), seqs, Len(seqs))
<1> DEFINE n == Len(seqs)
           flat == CHOOSE f : Flattens(f, seqs, n)
<1>1. n \in Nat /\ \A k \in 1..n : seqs[k] \in Seq(S)
  BY LenProperties
<1>2. CASE n = 0
  <2>1. seqs = <<>>
    BY <1>2, EmptySeq
  <2>2. FlattenSeq(seqs) = <<>>
    BY <1>2, <2>1 DEF FlattenSeq
  <2>3. <<>> \in Seq(S) /\ Len(<<>>) = 0
    BY EmptySeq
  <2>4. InSequence(<<>>, seqs, 0)
    BY <2>3 DEF InSequence
  <2>5. QED
    BY <1>2, <2>2, <2>3, <2>4
<1>3. CASE n # 0
  <2>1. FlattenSeq(seqs) = flat[n]
    BY <1>3, Zenon DEF FlattenSeq, Flattens
  <2>2. Flattens(flat, seqs, n)
    BY <1>1, FlatExists, Zenon
  <2> HIDE DEF flat
  <2> DEFINE T == {m \in Nat : m + 1 \in 1..n =>
                     flat[m + 1] \in Seq(S) /\ InSequence(flat[m + 1], seqs, m + 1)}
  <2>3. 0 \in T
    <3>1. flat[1] = seqs[1] /\ seqs[1] \in Seq(S)
      BY <1>1, <1>3, <2>2 DEF Flattens
    <3>2. InSequence(seqs[1], seqs, 1)
      BY DEF InSequence
    <3>3. QED
      BY <3>1, <3>2
  <2>4. ASSUME NEW m \in Nat, m \in T PROVE m + 1 \in T
    <3>1. SUFFICES ASSUME (m + 1) + 1 \in 1..n
                   PROVE  /\ flat[(m + 1) + 1] \in Seq(S)
                          /\ InSequence(flat[(m + 1) + 1], seqs, (m + 1) + 1)
      OBVIOUS
    <3>2. m + 1 \in 1..n /\ m + 1 \in Nat /\ (m + 1) + 1 # 1 /\ ((m + 1) + 1) - 1 = m + 1
      BY <1>1, <3>1
    <3>3. flat[(m + 1) + 1] = flat[m + 1] \o seqs[(m + 1) + 1]
      BY <2>2, <3>1, <3>2 DEF Flattens
    <3>4. flat[m + 1] \in Seq(S) /\ InSequence(flat[m + 1], seqs, m + 1)
      BY <2>4, <3>2
    <3>5. \A k \in 1..((m + 1) + 1) : seqs[k] \in Seq(S)
      BY <1>1, <3>1
    <3>6. QED
      BY <3>2, <3>3, <3>4, <3>5, Appended
  <2>5. Nat \subseteq T
    BY <2>3, <2>4, Counting
  <2>6. n - 1 \in Nat /\ (n - 1) + 1 = n /\ n \in 1..n
    BY <1>1, <1>3
  <2>7. n - 1 \in T
    BY <2>5, <2>6
  <2>8. flat[n] \in Seq(S) /\ InSequence(flat[n], seqs, n)
    BY <2>6, <2>7
  <2>9. QED
    BY <2>1, <2>8
<1>4. QED
  BY <1>2, <1>3

-----------------------------------------------------------------------------
(* What is kept. *)

LEMMA KeptElements ==
  ASSUME NEW seq, NEW n \in Nat, NEW P \in SUBSET (1..n)
  PROVE  /\ Cardinality(P) \in Nat
         /\ DOMAIN Keep(seq, P) = 1..Cardinality(P)
         /\ ToSet(Keep(seq, P)) = {seq[i] : i \in P}
         /\ Keep(seq, P) \in Seq(ToSet(Keep(seq, P)))
         /\ Len(Keep(seq, P)) = Cardinality(P)
<1> DEFINE c == Cardinality(P)
<1>1. c \in Nat
  BY Kept
<1>0. PICK at : KeptAt(seq, P, at)
  BY Kept
<1>2. /\ at \in [1..c -> P] /\ Keep(seq, P) = [k \in 1..c |-> seq[at[k]]]
      /\ \A i \in P : \E k \in 1..c : at[k] = i
  BY <1>0 DEF KeptAt
<1> HIDE DEF c
<1>3. DOMAIN Keep(seq, P) = 1..c
  BY <1>2
<1>4. ToSet(Keep(seq, P)) = {seq[i] : i \in P}
  <2>1. \A k \in 1..c : Keep(seq, P)[k] = seq[at[k]] /\ at[k] \in P
    BY <1>2
  <2>2. \A i \in P : \E k \in 1..c : Keep(seq, P)[k] = seq[i]
    BY <1>2, <2>1
  <2>3. ToSet(Keep(seq, P)) = {Keep(seq, P)[k] : k \in 1..c}
    BY <1>3 DEF ToSet
  <2>4. ASSUME NEW x \in ToSet(Keep(seq, P)) PROVE x \in {seq[i] : i \in P}
    <3>1. PICK k \in 1..c : x = Keep(seq, P)[k]
      BY <2>3
    <3>2. x = seq[at[k]] /\ at[k] \in P
      BY <2>1, <3>1
    <3>3. QED
      BY <3>2
  <2>5. \A i \in P : seq[i] \in ToSet(Keep(seq, P))
    BY <2>2, <2>3
  <2>6. QED
    BY <2>4, <2>5
<1>5. Keep(seq, P) \in [1..c -> ToSet(Keep(seq, P))]
  BY <1>2, <1>3 DEF ToSet
<1>6. Keep(seq, P) \in Seq(ToSet(Keep(seq, P)))
  BY <1>1, <1>5, SeqDef
<1>7. Len(Keep(seq, P)) = c
  <2>1. /\ Len(Keep(seq, P)) \in Nat
        /\ DOMAIN Keep(seq, P) = 1..Len(Keep(seq, P))
    BY <1>6, LenProperties
  <2>2. 1..c = 1..Len(Keep(seq, P))
    BY <1>3, <2>1
  <2>3. c \in 1..c \/ c = 0
    BY <1>1
  <2>4. Len(Keep(seq, P)) \in 1..Len(Keep(seq, P)) \/ Len(Keep(seq, P)) = 0
    BY <2>1
  <2> DEFINE l == Len(Keep(seq, P))
  <2> HIDE DEF l
  <2>5. l \in Nat /\ 1..c = 1..l /\ (l \in 1..l \/ l = 0)
    BY <2>1, <2>2, <2>4 DEF l
  <2>6. (c = 0 \/ c \in 1..l) /\ (l = 0 \/ l \in 1..c)
    BY <2>3, <2>5
  <2>7. l = c
    BY <1>1, <2>5, <2>6
  <2>8. QED
    BY <2>7 DEF l
<1>8. QED
  BY <1>1, <1>3, <1>4, <1>6, <1>7 DEF c

\* The last element kept stood at the last place kept.
LEMMA LastKept ==
  ASSUME NEW seq, NEW n \in Nat, NEW P \in SUBSET (1..n), P # {}
  PROVE  \E i \in P : Last(Keep(seq, P)) = seq[i] /\ \A j \in P : j <= i
<1> DEFINE c == Cardinality(P)
<1>1. c \in Nat /\ Len(Keep(seq, P)) = c
  BY KeptElements
<1>0. PICK at : KeptAt(seq, P, at)
  BY Kept
<1>2. /\ at \in [1..c -> P] /\ Keep(seq, P) = [k \in 1..c |-> seq[at[k]]]
      /\ \A i \in P : \E k \in 1..c : at[k] = i
      /\ \A j, k \in 1..c : j < k <=> at[j] < at[k]
  BY <1>0 DEF KeptAt
<1> HIDE DEF c
<1>3. c \in 1..c
  <2>1. PICK i \in P : TRUE
    OBVIOUS
  <2>2. PICK k \in 1..c : at[k] = i
    BY <1>2, <2>1
  <2>3. QED
    BY <1>1, <2>2
<1>4. Last(Keep(seq, P)) = seq[at[c]] /\ at[c] \in P
  BY <1>1, <1>2, <1>3 DEF Last
<1>5. ASSUME NEW j \in P PROVE j <= at[c]
  <2>1. PICK k \in 1..c : at[k] = j
    BY <1>2
  <2>2. ~ (c < k)
    BY <1>1
  <2>3. ~ (at[c] < at[k])
    BY <1>2, <1>3, <2>2
  <2>4. P \subseteq Nat
    OBVIOUS
  <2>5. at[c] \in Nat /\ j \in Nat
    BY <1>4, <2>4
  <2>6. QED
    BY <2>1, <2>3, <2>5
<1>6. QED
  BY <1>4, <1>5

\* Of the items with a key the first is kept, and no other.
LEMMA UniqueItems ==
  ASSUME NEW S, NEW items \in Seq(S)
  PROVE  LET u == Unique(items) IN
           /\ \A k \in DOMAIN u : \E p \in 1..Len(items) :
                /\ u[k] = items[p]
                /\ \A q \in 1..(p - 1) : items[q].key # items[p].key
           /\ \A p \in 1..Len(items) : \E k \in DOMAIN u : u[k].key = items[p].key
           /\ \A j, k \in DOMAIN u : u[j].key = u[k].key => j = k
<1> DEFINE n == Len(items)
           P == {i \in DOMAIN items : \A j \in 1..(i - 1) : items[j].key # items[i].key}
           c == Cardinality(P)
           u == Unique(items)
<1>1. n \in Nat /\ DOMAIN items = 1..n
  BY LenProperties
<1>2. P \in SUBSET (1..n)
  BY <1>1
<1>3. \A i \in P : i \in 1..n /\ \A j \in 1..(i - 1) : items[j].key # items[i].key
  BY <1>1
<1>4. u = Keep(items, P)
  BY DEF Unique
<1>5. c \in Nat
  <2> HIDE DEF P
  <2>1. c \in 0..n
    BY <1>1, <1>2, Kept
  <2>2. QED
    BY <1>1, <2>1
<1>0. PICK at : KeptAt(items, P, at)
  <2> HIDE DEF P
  <2> QED BY <1>1, <1>2, Kept
<1>6. /\ at \in [1..c -> P] /\ u = [k \in 1..c |-> items[at[k]]]
      /\ \A i \in P : \E k \in 1..c : at[k] = i
      /\ \A j, k \in 1..c : j < k <=> at[j] < at[k]
  <2> HIDE DEF P
  <2> QED BY <1>0, <1>4 DEF KeptAt
<1>7. ASSUME NEW p \in 1..n PROVE \E i \in P : items[i].key = items[p].key
  <2> DEFINE same == {q \in 1..n : items[q].key = items[p].key}
  <2>1. same \subseteq Nat /\ p \in same
    OBVIOUS
  <2>2. PICK i \in same : \A q \in same : i <= q
    BY <2>1, Least
  <2>3. \A j \in 1..(i - 1) : j \in 1..n /\ ~ (i <= j)
    BY <1>1, <2>2
  <2>4. i \in P /\ items[i].key = items[p].key
    BY <1>1, <2>2, <2>3
  <2>5. QED
    BY <2>4
<1> HIDE DEF P, c, u
<1>8. \A k \in 1..c : u[k] = items[at[k]] /\ at[k] \in P
  BY <1>6
<1>9. DOMAIN u = 1..c
  BY <1>6
<1>10. ASSUME NEW k \in DOMAIN u
       PROVE  \E p \in 1..n : /\ u[k] = items[p]
                              /\ \A q \in 1..(p - 1) : items[q].key # items[p].key
  BY <1>3, <1>8, <1>9
<1>11. ASSUME NEW p \in 1..n PROVE \E k \in DOMAIN u : u[k].key = items[p].key
  <2>1. PICK i \in P : items[i].key = items[p].key
    BY <1>7
  <2>2. PICK k \in 1..c : at[k] = i
    BY <1>6
  <2>3. QED
    BY <1>8, <1>9, <2>1, <2>2
<1>12. ASSUME NEW j \in 1..c, NEW k \in 1..c, j < k PROVE u[j].key # u[k].key
  <2>1. at[j] < at[k] /\ at[j] \in P /\ at[k] \in P
    BY <1>6, <1>12
  <2>2. at[j] \in 1..(at[k] - 1)
    BY <1>1, <1>3, <2>1
  <2>3. QED
    BY <1>3, <1>8, <2>1, <2>2
<1>13. \A j, k \in DOMAIN u : u[j].key = u[k].key => j = k
  <2>1. \A j, k \in 1..c : j = k \/ j < k \/ k < j
    BY <1>5
  <2>2. QED
    BY <1>9, <1>12, <2>1
<1>14. QED
  BY <1>10, <1>11, <1>13 DEF u

-----------------------------------------------------------------------------
(* The members and their items. *)

LEMMA DraftFacts ==
  ASSUME NEW ms \in Drafts
  PROVE  /\ DOMAIN ms \subseteq SourceIds /\ IsFiniteSet(DOMAIN ms)
         /\ \A s \in DOMAIN ms : ms[s] \in Memberships
<1>1. PICK M \in SUBSET SourceIds : ms \in [M -> Memberships]
  BY DEF Drafts
<1>2. IsFiniteSet(M)
  BY FS_Subset, CompilationAssumption
<1>3. QED
  BY <1>1, <1>2

\* What is kept of a sequence, by its domain.
LEMMA KeptItems ==
  ASSUME NEW items, items \in Seq(ToSet(items)), NEW P \in SUBSET (DOMAIN items)
  PROVE  /\ Keep(items, P) \in Seq(ToSet(Keep(items, P)))
         /\ ToSet(Keep(items, P)) = {items[i] : i \in P}
         /\ Keep(items, P) = <<>> <=> P = {}
<1>1. Len(items) \in Nat /\ DOMAIN items = 1..Len(items)
  BY LenProperties
<1>2. P \in SUBSET (1..Len(items))
  BY <1>1
<1>3. /\ Keep(items, P) \in Seq(ToSet(Keep(items, P)))
      /\ ToSet(Keep(items, P)) = {items[i] : i \in P}
      /\ Len(Keep(items, P)) = Cardinality(P)
  BY <1>1, <1>2, KeptElements
<1>4. Keep(items, P) = <<>> <=> P = {}
  <2>1. Keep(items, P) = <<>> <=> Cardinality(P) = 0
    BY <1>3, EmptySeq
  <2>2. IsFiniteSet(1..Len(items))
    BY <1>1, FS_Interval
  <2>3. IsFiniteSet(P)
    BY <1>2, <2>2, FS_Subset
  <2>4. QED
    BY <2>1, <2>3, FS_EmptySet
<1>5. QED
  BY <1>3, <1>4

\* A source's items of the languages of a membership.
LEMMA FilteredItems ==
  ASSUME NEW s \in SourceIds, NEW m
  PROVE  LET f == filtered(ItemsOf[s], m) IN
           /\ f \in Seq(ToSet(f))
           /\ ToSet(f) = {x \in ToSet(ItemsOf[s]) : m.languages = {} \/ x.language \in m.languages}
           /\ f = <<>> <=> ToSet(f) = {}
<1> DEFINE items == ItemsOf[s]
           P == {i \in DOMAIN items : m.languages = {} \/ items[i].language \in m.languages}
<1>1. items \in Seq(ToSet(items))
  BY CompilationAssumption
<1>2. /\ Keep(items, P) \in Seq(ToSet(Keep(items, P)))
      /\ ToSet(Keep(items, P)) = {items[i] : i \in P}
      /\ Keep(items, P) = <<>> <=> P = {}
  <2>1. P \in SUBSET (DOMAIN items)
    OBVIOUS
  <2> HIDE DEF P, items
  <2>2. QED
    BY <1>1, <2>1, KeptItems
<1>3. {items[i] : i \in P} =
        {x \in ToSet(items) : m.languages = {} \/ x.language \in m.languages}
  BY DEF ToSet
<1>4. P = {} <=> {items[i] : i \in P} = {}
  OBVIOUS
<1>5. filtered(items, m) = Keep(items, P)
  BY DEF filtered
<1> HIDE DEF P, items
<1>6. QED
  BY <1>2, <1>3, <1>4, <1>5 DEF items

LEMMA SelectedMembers ==
  ASSUME NEW ms \in Drafts
  PROVE  Selected(ms) =
           {s \in DOMAIN ms :
              ms[s].languages # {} => \E x \in ToSet(ItemsOf[s]) : x.language \in ms[s].languages}
<1>1. DOMAIN ms \subseteq SourceIds
  BY DraftFacts
<1>2. ASSUME NEW s \in DOMAIN ms, ms[s].languages # {}
      PROVE  filtered(ItemsOf[s], ms[s]) # <<>> <=>
               \E x \in ToSet(ItemsOf[s]) : x.language \in ms[s].languages
  BY <1>1, <1>2, FilteredItems
<1>3. QED
  BY <1>2 DEF Selected

\* The rule that decides is the last that applies.
LEMMA HidesBy ==
  ASSUME NEW rules \in RuleLists, NEW s, NEW x
  PROVE  LET Applies(k) == rules[k].source \in {0, s} /\ rules[k].match \in {x.key, x.id}
         IN  hides(s, rules, x) <=>
               \E k \in DOMAIN rules :
                 Applies(k) /\ rules[k].hide /\ \A l \in DOMAIN rules : Applies(l) => l <= k
<1> DEFINE M == {k \in DOMAIN rules :
                   rules[k].source \in {0, s} /\ rules[k].match \in {x.key, x.id}}
<1>1. Len(rules) \in Nat /\ DOMAIN rules = 1..Len(rules)
  BY CompilationAssumption, LenProperties
<1>2. M \in SUBSET (1..Len(rules))
  BY <1>1
<1>3. hides(s, rules, x) <=> M # {} /\ Last(Keep(rules, M)).hide
  BY DEF hides
<1>4. CASE M = {}
  BY <1>3, <1>4
<1>5. CASE M # {}
  <2>1. PICK i \in M : Last(Keep(rules, M)) = rules[i] /\ \A j \in M : j <= i
    <3> HIDE DEF M
    <3> QED BY <1>1, <1>2, <1>5, LastKept
  <2>2. hides(s, rules, x) <=> rules[i].hide
    BY <1>3, <1>5, <2>1
  <2>3. \A k \in M : (\A l \in M : l <= k) => k = i
    <3>1. \A k \in M : k \in Nat
      BY <1>1
    <3>2. QED
      BY <2>1, <3>1
  <2>4. (\E k \in M : rules[k].hide /\ \A l \in M : l <= k) <=> rules[i].hide
    BY <2>1, <2>3
  <2>5. QED
    BY <2>2, <2>4
<1>6. QED
  BY <1>4, <1>5

\* What the publication of a draft holds of a source is what the source offers.
LEMMA OfferedItems ==
  ASSUME NEW ms \in Drafts, NEW rules \in RuleLists, NEW s \in DOMAIN ms, NEW key,
         publication.members = ms, publication.rules = rules
  PROVE  /\ Items(s, ms[s], rules) \in Seq(ToSet(Items(s, ms[s], rules)))
         /\ Offers(s, key) <=> /\ s \in Selected(ms)
                               /\ \E x \in ToSet(Items(s, ms[s], rules)) : x.key = key
<1> DEFINE m == ms[s]
           all == ToSet(ItemsOf[s])
           f == filtered(ItemsOf[s], m)
           Applies(k, x) == rules[k].source \in {0, s} /\ rules[k].match \in {x.id, key}
           Hidden(x) == \E k \in DOMAIN rules :
                          /\ Applies(k, x) /\ rules[k].hide
                          /\ \A l \in DOMAIN rules : Applies(l, x) => l <= k
           In(x) == m.languages = {} \/ x.language \in m.languages
<1>1. s \in SourceIds /\ KindOf[s] \in {"m3u", "xmltv", "legado-book"} /\ ItemsOf[s] \in Seq(all)
  BY DraftFacts, CompilationAssumption
<1>2. f \in Seq(ToSet(f)) /\ ToSet(f) = {x \in all : In(x)}
  BY <1>1, FilteredItems
<1>3. \A x : x.key = key => (hides(s, rules, x) <=> Hidden(x))
  BY HidesBy
<1>4. s \in Selected(ms) <=> (m.languages # {} => \E x \in all : x.language \in m.languages)
  BY SelectedMembers
<1>5. Offers(s, key) <=>
        \E x \in all :
          /\ x.key = key
          /\ m.languages # {} =>
               \E y \in IF KindOf[s] = "xmltv" THEN all ELSE {x} : y.language \in m.languages
          /\ KindOf[s] = "legado-book" => x.http
          /\ KindOf[s] = "m3u" => ~Hidden(x)
  BY DEF Offers
<1>6. DOMAIN f = 1..Len(f) /\ ToSet(f) = {f[i] : i \in DOMAIN f}
  BY <1>2, LenProperties DEF ToSet
<1> HIDE DEF m, all, f, Hidden
<1>7. CASE KindOf[s] = "xmltv"
  <2>1. Items(s, m, rules) = ItemsOf[s]
    BY <1>7 DEF Items
  <2>2. Offers(s, key) <=>
          /\ m.languages # {} => \E y \in all : y.language \in m.languages
          /\ \E x \in all : x.key = key
    BY <1>5, <1>7
  <2>3. QED
    BY <1>1, <1>4, <2>1, <2>2 DEF m, all
<1>8. CASE KindOf[s] = "legado-book"
  <2> DEFINE P == {i \in DOMAIN f : f[i].http}
  <2>1. Items(s, m, rules) = Keep(f, P)
    BY <1>8 DEF Items, legadoBookSourceHTTP, f
  <2>2. Keep(f, P) \in Seq(ToSet(Keep(f, P))) /\ ToSet(Keep(f, P)) = {f[i] : i \in P}
    <3>1. P \in SUBSET (DOMAIN f)
      OBVIOUS
    <3> HIDE DEF P
    <3>2. QED
      BY <1>2, <3>1, KeptItems
  <2>3. {f[i] : i \in P} = {x \in all : In(x) /\ x.http}
    BY <1>2, <1>6
  <2>4. Offers(s, key) <=> \E x \in all : x.key = key /\ In(x) /\ x.http
    BY <1>5, <1>8
  <2> HIDE DEF P
  <2>5. QED
    BY <1>4, <2>1, <2>2, <2>3, <2>4 DEF m
<1>9. CASE KindOf[s] = "m3u"
  <2> DEFINE P == {i \in DOMAIN f : ~hides(s, rules, f[i])}
  <2>1. Items(s, m, rules) = Keep(f, P)
    BY <1>9 DEF Items, channelOverrides, f
  <2>2. Keep(f, P) \in Seq(ToSet(Keep(f, P))) /\ ToSet(Keep(f, P)) = {f[i] : i \in P}
    <3>1. P \in SUBSET (DOMAIN f)
      OBVIOUS
    <3> HIDE DEF P
    <3>2. QED
      BY <1>2, <3>1, KeptItems
  <2>3. {f[i] : i \in P} = {x \in all : In(x) /\ ~hides(s, rules, x)}
    BY <1>2, <1>6
  <2>4. Offers(s, key) <=> \E x \in all : x.key = key /\ In(x) /\ ~hides(s, rules, x)
    BY <1>3, <1>5, <1>9
  <2> HIDE DEF P
  <2>5. QED
    BY <1>4, <2>1, <2>2, <2>3, <2>4 DEF m
<1>10. QED
  BY <1>1, <1>7, <1>8, <1>9

-----------------------------------------------------------------------------
(* The order of the members. *)

LEMMA RankedIsOrder ==
  ASSUME NEW ms \in Drafts
  PROVE  LET S == Selected(ms)
         IN  IsOrder(S, [s \in S |-> {t \in S : Ranked(ms, t, s)}])
<1> DEFINE S == Selected(ms)
           before == [s \in S |-> {t \in S : Ranked(ms, t, s)}]
           place(s) == roleOrder(ms[s].role)
<1>1. \A s \in S : /\ s \in Nat /\ ms[s].priority \in Int
                   /\ ms[s].role \in {"primary", "backup", "auxiliary"}
  BY DraftFacts, CompilationAssumption DEF Selected
<1>2. /\ \A s \in S : place(s) \in {0, 1, 2}
      /\ \A s, t \in S : ms[s].role = ms[t].role <=> place(s) = place(t)
  BY <1>1 DEF roleOrder
<1>3. \A s, t \in S : Ranked(ms, s, t) <=>
        \/ ms[s].priority > ms[t].priority
        \/ ms[s].priority = ms[t].priority /\ place(s) < place(t)
        \/ ms[s].priority = ms[t].priority /\ place(s) = place(t) /\ s < t
  BY <1>2 DEF Ranked
<1> HIDE DEF place, S
<1>4. \A s \in S : ~Ranked(ms, s, s)
  BY <1>1, <1>2, <1>3
<1>5. ASSUME NEW s \in S, NEW t \in S, NEW u \in S, Ranked(ms, s, t), Ranked(ms, t, u)
      PROVE  Ranked(ms, s, u)
  BY <1>1, <1>2, <1>3, <1>5
<1>6. \A s, t \in S : s = t \/ Ranked(ms, s, t) \/ Ranked(ms, t, s)
  BY <1>1, <1>2, <1>3
<1>7. /\ before \in [S -> SUBSET S]
      /\ \A s, t \in S : t \in before[s] <=> Ranked(ms, t, s)
  OBVIOUS
<1> HIDE DEF before
<1>8. ASSUME NEW s \in S, NEW t \in before[s], NEW u \in before[t] PROVE u \in before[s]
  <2>1. t \in S /\ u \in S
    BY <1>7
  <2>2. QED
    BY <1>5, <1>7, <1>8, <2>1
<1>9. IsOrder(S, before)
  <2>1. \A s \in S : s \notin before[s]
    BY <1>4, <1>7
  <2>2. \A s, t \in S : t \in before[s] => before[t] \subseteq before[s]
    BY <1>8
  <2>3. \A s, t \in S : s = t \/ s \in before[t] \/ t \in before[s]
    BY <1>6, <1>7
  <2>4. QED
    BY <1>7, <2>1, <2>2, <2>3 DEF IsOrder
<1>10. QED
  BY <1>9 DEF before, S

\* The selected members, each once, those that rank before others before them.
LEMMA OrderedMembers ==
  ASSUME NEW ms \in Drafts
  PROVE  LET ordered == Ordered(ms) IN
           /\ ordered \in Seq(ToSet(ordered)) /\ ToSet(ordered) = Selected(ms)
           /\ \A i, j \in DOMAIN ordered : i < j => Ranked(ms, ordered[i], ordered[j])
<1> DEFINE S == Selected(ms)
           before == [s \in S |-> {t \in S : Ranked(ms, t, s)}]
           n == Cardinality(S)
<1>1. IsFiniteSet(S)
  BY DraftFacts, FS_Subset DEF Selected
<1>2. IsOrder(S, before)
  BY RankedIsOrder
<1>3. Ordered(ms) = InOrder(S, before)
  BY DEF Ordered
<1>4. \A s, t \in S : s \in before[t] => Ranked(ms, s, t)
  OBVIOUS
<1> HIDE DEF S, before
<1>5. /\ n \in Nat /\ Ordered(ms) \in [1..n -> S]
      /\ \A x \in S : \E i \in 1..n : Ordered(ms)[i] = x
      /\ \A i, j \in 1..n : i < j <=> Ordered(ms)[i] \in before[Ordered(ms)[j]]
  BY <1>1, <1>2, <1>3, Sorted
<1> HIDE DEF n
<1>6. DOMAIN Ordered(ms) = 1..n /\ \A i \in 1..n : Ordered(ms)[i] \in S
  BY <1>5
<1>7. ToSet(Ordered(ms)) = S
  BY <1>5, <1>6 DEF ToSet
<1>8. Ordered(ms) \in Seq(S)
  BY <1>5, SeqDef
<1>9. \A i, j \in 1..n : i < j => Ranked(ms, Ordered(ms)[i], Ordered(ms)[j])
  BY <1>4, <1>5, <1>6
<1>10. QED
  BY <1>6, <1>7, <1>8, <1>9 DEF S

\* Members that are left out change nothing in the order of the others.
LEMMA OrderedKept ==
  ASSUME NEW ms \in Drafts, NEW P \in SUBSET (DOMAIN Ordered(ms))
  PROVE  LET members == Keep(Ordered(ms), P) IN
           /\ members \in Seq(ToSet(members)) /\ ToSet(members) = {Ordered(ms)[i] : i \in P}
           /\ \A i, j \in DOMAIN members : i < j => Ranked(ms, members[i], members[j])
<1> DEFINE ordered == Ordered(ms)
           c == Cardinality(P)
<1>1. /\ ordered \in Seq(ToSet(ordered))
      /\ \A i, j \in DOMAIN ordered : i < j => Ranked(ms, ordered[i], ordered[j])
  BY OrderedMembers
<1> HIDE DEF ordered
<1>2. /\ Keep(ordered, P) \in Seq(ToSet(Keep(ordered, P)))
      /\ ToSet(Keep(ordered, P)) = {ordered[i] : i \in P}
  BY <1>1, KeptItems DEF ordered
<1>3. Len(ordered) \in Nat /\ DOMAIN ordered = 1..Len(ordered)
  BY <1>1, LenProperties
<1>4. P \in SUBSET (1..Len(ordered))
  BY <1>3 DEF ordered
<1>5. PICK at : KeptAt(ordered, P, at)
  BY <1>3, <1>4, Kept
<1>6. /\ at \in [1..c -> P] /\ Keep(ordered, P) = [k \in 1..c |-> ordered[at[k]]]
      /\ \A j, k \in 1..c : j < k <=> at[j] < at[k]
  BY <1>5 DEF KeptAt
<1> HIDE DEF c
<1>7. ASSUME NEW i \in DOMAIN Keep(ordered, P), NEW j \in DOMAIN Keep(ordered, P), i < j
      PROVE  Ranked(ms, Keep(ordered, P)[i], Keep(ordered, P)[j])
  <2>1. i \in 1..c /\ j \in 1..c
    BY <1>6
  <2>2. at[i] < at[j] /\ at[i] \in DOMAIN ordered /\ at[j] \in DOMAIN ordered
    BY <1>3, <1>4, <1>6, <1>7, <2>1
  <2>3. Keep(ordered, P)[i] = ordered[at[i]] /\ Keep(ordered, P)[j] = ordered[at[j]]
    BY <1>6, <2>1
  <2>4. QED
    BY <1>1, <2>2, <2>3
<1>8. QED
  BY <1>2, <1>7 DEF ordered

-----------------------------------------------------------------------------
(* The Bundle, the manifest and the artifacts of a draft. *)

LEMMA BundleMembers ==
  ASSUME NEW ms \in Drafts
  PROVE  ToSet(Providers(ms)) =
           {s \in DOMAIN ms :
              /\ KindOf[s] \in {"m3u", "xmltv"} \/ s \in RuntimeBound
              /\ ms[s].languages # {} =>
                   \E x \in ToSet(ItemsOf[s]) : x.language \in ms[s].languages}
<1> DEFINE ordered == Ordered(ms)
           P == {i \in DOMAIN ordered : KindOf[ordered[i]] = "legado-book" =>
                                          ordered[i] \in RuntimeBound}
<1>1. Providers(ms) = Keep(ordered, P)
  BY DEF Providers
<1>2. ToSet(Keep(ordered, P)) = {ordered[i] : i \in P}
  <2>1. P \in SUBSET (DOMAIN Ordered(ms))
    OBVIOUS
  <2> HIDE DEF P
  <2>2. QED
    BY <2>1, OrderedKept
<1>3. {ordered[i] : i \in DOMAIN ordered} = Selected(ms)
  BY OrderedMembers DEF ToSet
<1>4. {ordered[i] : i \in P} =
        {s \in Selected(ms) : KindOf[s] = "legado-book" => s \in RuntimeBound}
  BY <1>3
<1> HIDE DEF P, ordered
<1>5. \A s \in DOMAIN ms : KindOf[s] \in {"m3u", "xmltv", "legado-book"}
  BY DraftFacts, CompilationAssumption
<1>6. QED
  BY <1>1, <1>2, <1>4, <1>5, SelectedMembers

\* The sites of a book source whose first rule of the member's languages converts.
Converts(s) ==
  LET m == publication.members[s]
      left == {i \in DOMAIN ItemsOf[s] :
                 m.languages = {} \/ ItemsOf[s][i].language \in m.languages}
  IN  {ItemsOf[s][i].site :
         i \in {j \in left : /\ ItemsOf[s][j].converts
                              /\ \A k \in left : k < j => ItemsOf[s][k].site # ItemsOf[s][j].site}}

\* A book source's plugins are of the sites whose first rule left converts.
LEMMA ManifestSites ==
  ASSUME NEW ms \in Drafts, publication.members = ms,
         NEW s \in DOMAIN ms
  PROVE  {p[2] : p \in {q \in HubPlugins(ms) : q[1] = s}} =
           IF KindOf[s] = "legado-book" /\ ~ms[s].restricted THEN Converts(s) ELSE {}
<1> DEFINE items == ItemsOf[s]
           m == ms[s]
           left == {i \in DOMAIN items : m.languages = {} \/ items[i].language \in m.languages}
           c == Cardinality(left)
           f == filtered(items, m)
           rule(r) == filtered(ItemsOf[r[1]], ms[r[1]])[r[2]]
           first(r) == \A i \in 1..(r[2] - 1) : rule(<<r[1], i>>).site # rule(r).site
           Chosen(i) == f[i].converts /\ \A j \in 1..(i - 1) : f[j].site # f[i].site
           sites == {p[2] : p \in {q \in HubPlugins(ms) : q[1] = s}}
<1>1. /\ s \in SourceIds /\ items \in Seq(ToSet(items))
      /\ Len(items) \in Nat /\ DOMAIN items = 1..Len(items)
  BY DraftFacts, CompilationAssumption, LenProperties
<1>2. left \in SUBSET (1..Len(items)) /\ f = Keep(items, left)
  BY <1>1 DEF filtered
<1>3. c \in 0..Len(items) /\ \E at : KeptAt(items, left, at)
  <2> HIDE DEF left
  <2> QED BY <1>1, <1>2, Kept
<1>4. PICK at : KeptAt(items, left, at)
  BY <1>3
<1>5. /\ at \in [1..c -> left] /\ f = [k \in 1..c |-> items[at[k]]]
      /\ \A i \in left : \E k \in 1..c : at[k] = i
      /\ \A j, k \in 1..c : j < k <=> at[j] < at[k]
  <2> HIDE DEF left
  <2> QED BY <1>2, <1>4 DEF KeptAt
<1>6. Converts(s) =
        {items[i].site :
           i \in {j \in left : /\ items[j].converts
                               /\ \A k \in left : k < j => items[k].site # items[j].site}}
  BY DEF Converts
<1>7. HubPlugins(ms) =
        {<<r[1], rule(r).site>> : r \in {q \in HubRules(ms) : rule(q).converts /\ first(q)}}
  BY DEF HubPlugins
<1>8. \A i : <<s, i>> \in HubRules(ms) <=>
               /\ i \in UNION {DOMAIN ItemsOf[t] : t \in SourceIds}
               /\ s \in Selected(ms) /\ KindOf[s] = "legado-book" /\ ~m.restricted
               /\ i \in DOMAIN f
  BY <1>1 DEF HubRules
<1>9. \A r \in HubRules(ms) : r = <<r[1], r[2]>>
  BY DEF HubRules
<1>10. sites = {f[i].site : i \in {j \in DOMAIN f : <<s, j>> \in HubRules(ms) /\ Chosen(j)}}
  <2>1. \A i : rule(<<s, i>>) = f[i] /\ (first(<<s, i>>) <=> \A j \in 1..(i - 1) : f[j].site # f[i].site)
    OBVIOUS
  <2> HIDE DEF rule, first, f, left
  <2>2. ASSUME NEW x \in sites
        PROVE  \E i \in DOMAIN f : <<s, i>> \in HubRules(ms) /\ Chosen(i) /\ x = f[i].site
    <3>1. PICK p \in HubPlugins(ms) : p[1] = s /\ x = p[2]
      BY <2>2
    <3>2. PICK r \in HubRules(ms) : rule(r).converts /\ first(r) /\ p = <<r[1], rule(r).site>>
      BY <1>7, <3>1
    <3>3. r = <<s, r[2]>> /\ x = rule(r).site
      BY <1>9, <3>1, <3>2
    <3>4. r[2] \in DOMAIN f
      BY <1>8, <3>2, <3>3
    <3>5. Chosen(r[2]) /\ x = f[r[2]].site
      BY <2>1, <3>2, <3>3
    <3>6. QED
      BY <3>2, <3>3, <3>4, <3>5
  <2>3. ASSUME NEW i \in DOMAIN f, <<s, i>> \in HubRules(ms), Chosen(i)
        PROVE  f[i].site \in sites
    <3>1. <<s, f[i].site>> \in HubPlugins(ms)
      <4>1. rule(<<s, i>>).converts /\ first(<<s, i>>)
        BY <2>1, <2>3
      <4>2. <<s, i>>[1] = s /\ rule(<<s, i>>) = f[i]
        BY <2>1
      <4>3. QED
        BY <1>7, <2>3, <4>1, <4>2
    <3>2. QED
      BY <3>1
  <2> DEFINE chosen == {j \in DOMAIN f : <<s, j>> \in HubRules(ms) /\ Chosen(j)}
  <2>4. ASSUME NEW x \in sites PROVE x \in {f[i].site : i \in chosen}
    BY <2>2
  <2>5. \A i \in chosen : f[i].site \in sites
    BY <2>3
  <2> HIDE DEF sites, chosen
  <2>6. sites = {f[i].site : i \in chosen}
    BY <2>4, <2>5
  <2>7. QED
    BY <2>6 DEF chosen
<1> HIDE DEF left, c, f, sites
<1>11. DOMAIN f = 1..c /\ \A k \in 1..c : f[k] = items[at[k]] /\ at[k] \in left
  BY <1>5
<1>12. CASE ~ (KindOf[s] = "legado-book" /\ ~m.restricted)
  <2>1. sites = {}
    BY <1>8, <1>10, <1>12
  <2>2. QED
    BY <1>12, <2>1 DEF sites
<1>13. CASE KindOf[s] = "legado-book" /\ ~m.restricted
  <2>1. \A i \in DOMAIN f : <<s, i>> \in HubRules(ms)
    <3>1. SUFFICES ASSUME NEW i \in DOMAIN f PROVE <<s, i>> \in HubRules(ms)
      OBVIOUS
    <3>2. i \in DOMAIN ItemsOf[s]
      BY <1>1, <1>3, <1>11 DEF c, left
    <3>3. at[i] \in left
      BY <1>11
    <3>4. s \in Selected(ms)
      <4>1. items[at[i]] \in ToSet(items)
        BY <3>3 DEF left, ToSet
      <4>2. m.languages # {} => items[at[i]].language \in m.languages
        BY <3>3 DEF left
      <4>3. QED
        BY <4>1, <4>2, SelectedMembers
    <3>5. QED
      BY <1>1, <1>8, <1>13, <3>2, <3>4
  <2>2. \A i, j \in DOMAIN f : j \in 1..(i - 1) <=> at[j] < at[i]
    BY <1>3, <1>5, <1>11
  <2>3. ASSUME NEW i \in DOMAIN f
        PROVE  Chosen(i) <=> /\ items[at[i]].converts
                             /\ \A k \in left : k < at[i] => items[k].site # items[at[i]].site
    <3>1. i \in 1..c /\ f[i] = items[at[i]] /\ \A j \in 1..(i - 1) : j \in 1..c
      BY <1>3, <1>11
    <3>2. (\A j \in 1..(i - 1) : f[j].site # f[i].site) <=>
            \A k \in left : k < at[i] => items[k].site # items[at[i]].site
      <4>1. ASSUME NEW j \in 1..(i - 1)
            PROVE  at[j] \in left /\ at[j] < at[i] /\ f[j] = items[at[j]]
        BY <1>11, <2>2, <3>1
      <4>2. ASSUME NEW k \in left, k < at[i]
            PROVE  \E j \in 1..(i - 1) : f[j] = items[k]
        <5>1. PICK j \in 1..c : at[j] = k
          BY <1>5
        <5>2. j \in 1..(i - 1)
          BY <1>11, <2>2, <4>2, <5>1
        <5>3. QED
          BY <1>11, <5>1, <5>2
      <4>3. QED
        BY <3>1, <4>1, <4>2
    <3>3. QED
      BY <3>1, <3>2
  <2>4. sites = {f[i].site : i \in {j \in DOMAIN f : Chosen(j)}}
    BY <1>10, <2>1
  <2>5. ASSUME NEW x \in sites PROVE x \in Converts(s)
    <3>1. PICK i \in DOMAIN f : Chosen(i) /\ x = f[i].site
      BY <2>4
    <3>2. at[i] \in left /\ f[i] = items[at[i]]
      BY <1>11
    <3>3. QED
      BY <1>6, <2>3, <3>1, <3>2
  <2>6. ASSUME NEW x \in Converts(s) PROVE x \in sites
    <3>1. PICK j \in left : /\ items[j].converts /\ x = items[j].site
                            /\ \A k \in left : k < j => items[k].site # items[j].site
      BY <1>6
    <3>2. PICK i \in 1..c : at[i] = j
      BY <1>5
    <3>3. i \in DOMAIN f /\ f[i] = items[at[i]]
      BY <1>11
    <3>4. Chosen(i)
      BY <2>3, <3>1, <3>2, <3>3
    <3>5. QED
      BY <2>4, <3>1, <3>2, <3>3, <3>4
  <2>7. QED
    BY <1>13, <2>5, <2>6 DEF sites
<1>14. QED
  BY <1>12, <1>13

\* Such a site has a rule that converts, and a site whose rules all do is one.
LEMMA SupportedSites ==
  ASSUME NEW ms \in Drafts, publication.members = ms,
         NEW s \in DOMAIN ms
  PROVE  Converts(s) \subseteq Supported(s) /\ Supported(s) \ Unsupported(s) \subseteq Converts(s)
<1> DEFINE items == ItemsOf[s]
           m == ms[s]
           left == {i \in DOMAIN items : m.languages = {} \/ items[i].language \in m.languages}
<1>1. DOMAIN items = 1..Len(items) /\ Len(items) \in Nat
  BY DraftFacts, CompilationAssumption, LenProperties
<1>2. \A x : x \in Left(s) <=> \E i \in left : x = items[i]
  BY DEF Left, ToSet
<1>3. \A x : x \in Converts(s) <=>
             \E j \in left : /\ items[j].converts /\ x = items[j].site
                             /\ \A k \in left : k < j => items[k].site # items[j].site
  BY DEF Converts
<1>4. \A i \in left : i \in Nat
  BY <1>1
<1> HIDE DEF left, items
<1>5. ASSUME NEW x \in Converts(s) PROVE x \in Supported(s)
  BY <1>2, <1>3 DEF Supported
<1>6. ASSUME NEW x \in Supported(s), x \notin Unsupported(s) PROVE x \in Converts(s)
  <2> DEFINE at == {i \in left : items[i].site = x}
  <2>1. PICK i \in left : items[i].site = x
    BY <1>2, <1>6 DEF Supported
  <2>2. PICK j \in at : \A k \in at : j <= k
    <3>1. i \in at /\ at \in SUBSET Nat
      BY <1>4, <2>1
    <3> HIDE DEF at
    <3>2. QED
      BY <3>1, Least
  <2>3. items[j].converts
    BY <1>2, <1>6, <2>2 DEF Unsupported
  <2>4. \A k \in left : k < j => items[k].site # items[j].site
    BY <1>4, <2>2
  <2>5. QED
    BY <1>3, <2>2, <2>3, <2>4
<1>7. QED
  BY <1>5, <1>6

\* The unrestricted members of a kind that have something left.
Taking(kind, ms) == {s \in Selected(ms) : KindOf[s] = kind /\ ~ms[s].restricted}

\* An artifact u has one item of a key if a member that it takes from has one, and
\* then from the first of those members.
HasItem(s, key, ms, rules) == \E x \in ToSet(Items(s, ms[s], rules)) : x.key = key
TakesTheFirst(u, key, kind, ms, rules) ==
  /\ \A i, j \in DOMAIN u : u[i].key = key /\ u[j].key = key => i = j
  /\ \A i \in DOMAIN u : u[i].key = key =>
       /\ u[i].from \in Taking(kind, ms) /\ HasItem(u[i].from, key, ms, rules)
       /\ \A s \in Taking(kind, ms) :
            HasItem(s, key, ms, rules) => s = u[i].from \/ Ranked(ms, u[i].from, s)
  /\ \A s \in Taking(kind, ms) :
       HasItem(s, key, ms, rules) => \E i \in DOMAIN u : u[i].key = key

LEMMA MergedItems ==
  ASSUME NEW ms \in Drafts, NEW rules \in RuleLists, NEW kind, NEW key,
         \A s \in DOMAIN ms : Items(s, ms[s], rules) \in Seq(ToSet(Items(s, ms[s], rules)))
  PROVE  TakesTheFirst(Merged(kind, ms, rules), key, kind, ms, rules)
<1> DEFINE ordered == Ordered(ms)
           P == {i \in DOMAIN ordered : KindOf[ordered[i]] = kind /\ ~ms[ordered[i]].restricted}
           members == Keep(ordered, P)
           n == Len(members)
           its(s) == Items(s, ms[s], rules)
           tagged(s) == [i \in DOMAIN its(s) |-> [from |-> s, key |-> its(s)[i].key]]
           seqs == [i \in DOMAIN members |-> tagged(members[i])]
           S == UNION {ToSet(seqs[i]) : i \in DOMAIN members}
           all == FlattenSeq(seqs)
           u == Merged(kind, ms, rules)
           Has(s) == \E x \in ToSet(its(s)) : x.key = key
<1>1. u = Unique(all)
  BY DEF Merged
<1>2. /\ members \in Seq(ToSet(members)) /\ ToSet(members) = {ordered[i] : i \in P}
      /\ \A i, j \in DOMAIN members : i < j => Ranked(ms, members[i], members[j])
  <2>1. P \in SUBSET (DOMAIN Ordered(ms))
    OBVIOUS
  <2> HIDE DEF P
  <2>2. QED
    BY <2>1, OrderedKept
<1>3. ToSet(members) = Taking(kind, ms)
  <2>1. {ordered[i] : i \in DOMAIN ordered} = Selected(ms)
    BY OrderedMembers DEF ToSet
  <2>2. {ordered[i] : i \in P} = {s \in Selected(ms) : KindOf[s] = kind /\ ~ms[s].restricted}
    BY <2>1
  <2> HIDE DEF members, P
  <2>3. QED
    BY <1>2, <2>2 DEF Taking
<1> HIDE DEF members, P, ordered
<1>4. n \in Nat /\ DOMAIN members = 1..n /\ \A k \in 1..n : members[k] \in Taking(kind, ms)
  BY <1>2, <1>3, LenProperties DEF ToSet
<1>5. \A s \in Taking(kind, ms) : \E k \in 1..n : members[k] = s
  BY <1>3, <1>4 DEF ToSet
<1>6. ASSUME NEW s \in Taking(kind, ms)
      PROVE  /\ its(s) \in Seq(ToSet(its(s)))
             /\ Len(its(s)) \in Nat /\ DOMAIN its(s) = 1..Len(its(s))
             /\ Has(s) <=> \E i \in 1..Len(its(s)) : its(s)[i].key = key
  <2>1. s \in DOMAIN ms
    BY DEF Taking, Selected
  <2>2. /\ its(s) \in Seq(ToSet(its(s)))
        /\ Len(its(s)) \in Nat /\ DOMAIN its(s) = 1..Len(its(s))
    BY <2>1, LenProperties
  <2> HIDE DEF its
  <2>3. QED
    BY <2>2 DEF ToSet
<1> HIDE DEF n, its
<1>7. ASSUME NEW k \in 1..n
      PROVE  /\ seqs[k] \in Seq(S) /\ Len(seqs[k]) = Len(its(members[k]))
             /\ \A i \in 1..Len(seqs[k]) :
                  seqs[k][i] = [from |-> members[k], key |-> its(members[k])[i].key]
  <2> DEFINE l == Len(its(members[k]))
  <2>1. l \in Nat /\ DOMAIN its(members[k]) = 1..l
    BY <1>4, <1>6
  <2>2. seqs[k] = [i \in 1..l |-> [from |-> members[k], key |-> its(members[k])[i].key]]
    BY <1>4, <2>1
  <2>3. ToSet(seqs[k]) \subseteq S
    BY <1>4
  <2> HIDE DEF l, seqs, S
  <2>4. seqs[k] \in [1..l -> S]
    BY <2>2, <2>3 DEF ToSet
  <2>5. seqs[k] \in Seq(S) /\ Len(seqs[k]) = l
    BY <2>1, <2>2, <2>4, SeqDef, LenProperties
  <2>6. QED
    BY <2>2, <2>5 DEF l
<1>8. seqs \in Seq(Seq(S)) /\ Len(seqs) = n
  <2>1. seqs = [k \in 1..n |-> seqs[k]]
    BY <1>4
  <2> HIDE DEF seqs, S
  <2>2. seqs \in [1..n -> Seq(S)]
    BY <1>7, <2>1
  <2>3. QED
    BY <1>4, <2>1, <2>2, SeqDef, LenProperties
<1> HIDE DEF seqs, S
<1>9. ASSUME NEW k \in 1..n, NEW i \in 1..Len(seqs[k])
       PROVE  /\ i \in 1..Len(its(members[k]))
              /\ seqs[k][i].from = members[k] /\ seqs[k][i].key = its(members[k])[i].key
  <2>1. Len(seqs[k]) = Len(its(members[k]))
    BY <1>7
  <2>2. seqs[k][i] = [from |-> members[k], key |-> its(members[k])[i].key]
    BY <1>7
  <2>3. QED
    BY <2>1, <2>2
<1>10. ASSUME NEW k \in 1..n, NEW i \in 1..Len(its(members[k])), its(members[k])[i].key = key
       PROVE  i \in 1..Len(seqs[k]) /\ seqs[k][i].key = key
  <2>1. Len(seqs[k]) = Len(its(members[k]))
    BY <1>7
  <2>2. i \in 1..Len(seqs[k])
    BY <2>1
  <2>3. QED
    BY <1>9, <1>10, <2>2
<1>11. all \in Seq(S) /\ InSequence(all, seqs, n)
  BY <1>8, Flattened
<1> HIDE DEF all
<1>12. /\ \A i \in DOMAIN u : \E p \in 1..Len(all) :
            /\ u[i] = all[p]
            /\ \A q \in 1..(p - 1) : all[q].key # all[p].key
       /\ \A p \in 1..Len(all) : \E i \in DOMAIN u : u[i].key = all[p].key
       /\ \A i, j \in DOMAIN u : u[i].key = u[j].key => i = j
  BY <1>1, <1>11, UniqueItems
<1> HIDE DEF u
<1>13. ASSUME NEW i \in DOMAIN u, u[i].key = key
       PROVE  /\ u[i].from \in Taking(kind, ms) /\ Has(u[i].from)
              /\ \A s \in Taking(kind, ms) : Has(s) => s = u[i].from \/ Ranked(ms, u[i].from, s)
  <2>1. PICK p \in 1..Len(all) : u[i] = all[p] /\ \A q \in 1..(p - 1) : all[q].key # all[p].key
    BY <1>12
  <2>2. PICK k \in 1..n : \E y \in 1..Len(seqs[k]) :
          /\ all[p] = seqs[k][y]
          /\ \A l \in 1..(k - 1) : \A j \in 1..Len(seqs[l]) :
               \E q \in 1..(p - 1) : all[q] = seqs[l][j]
    BY <1>11 DEF InSequence
  <2>3. PICK x \in 1..Len(seqs[k]) :
          /\ all[p] = seqs[k][x]
          /\ \A l \in 1..(k - 1) : \A j \in 1..Len(seqs[l]) :
               \E q \in 1..(p - 1) : all[q] = seqs[l][j]
    BY <2>2
  <2>4. u[i].from = members[k] /\ its(members[k])[x].key = key /\ x \in 1..Len(its(members[k]))
    BY <1>13, <1>9, <2>1, <2>3
  <2>5. ASSUME NEW s \in Taking(kind, ms), Has(s) PROVE s = members[k] \/ Ranked(ms, members[k], s)
    <3>1. PICK l \in 1..n : members[l] = s
      BY <1>5
    <3>2. PICK j \in 1..Len(its(s)) : its(s)[j].key = key
      BY <1>6, <2>5
    <3>3. j \in 1..Len(seqs[l]) /\ seqs[l][j].key = key
      BY <1>10, <3>1, <3>2
    <3>4. ~ (l < k)
      <4>1. SUFFICES ASSUME l < k PROVE FALSE
        OBVIOUS
      <4>2. l \in 1..(k - 1)
        BY <1>4, <4>1
      <4>3. PICK q \in 1..(p - 1) : all[q] = seqs[l][j]
        BY <2>3, <3>3, <4>2
      <4>4. all[q].key = key /\ all[p].key = key
        BY <1>13, <2>1, <3>3, <4>3
      <4>5. QED
        BY <2>1, <4>4
    <3>5. l = k \/ k < l
      BY <1>4, <3>4
    <3>6. QED
      BY <1>2, <1>4, <3>1, <3>5
  <2>6. members[k] \in Taking(kind, ms) /\ Has(members[k])
    BY <1>4, <1>6, <2>4
  <2>7. QED
    BY <2>4, <2>5, <2>6
<1>14. ASSUME NEW s \in Taking(kind, ms), Has(s) PROVE \E i \in DOMAIN u : u[i].key = key
  <2>1. PICK k \in 1..n : members[k] = s
    BY <1>5
  <2>2. PICK j \in 1..Len(its(s)) : its(s)[j].key = key
    BY <1>6, <1>14
  <2>3. j \in 1..Len(seqs[k]) /\ seqs[k][j].key = key
    BY <1>10, <2>1, <2>2
  <2>4. PICK p \in 1..Len(all) : all[p] = seqs[k][j]
    BY <1>11, <2>3 DEF InSequence
  <2>5. QED
    BY <1>12, <2>3, <2>4
<1>15. \A i, j \in DOMAIN u : u[i].key = key /\ u[j].key = key => i = j
  BY <1>12
<1>16. QED
  <2>1. \A s : Has(s) <=> HasItem(s, key, ms, rules)
    BY DEF its, HasItem
  <2> HIDE DEF Has
  <2>2. TakesTheFirst(u, key, kind, ms, rules)
    BY <1>13, <1>14, <1>15, <2>1 DEF TakesTheFirst
  <2>3. QED
    BY <2>2 DEF u

-----------------------------------------------------------------------------
(* A publication, and what it is compiled from. *)

\* What the compilation of a draft under a set's rules publishes.
Compiled(ms, rules) ==
  [members |-> ms, rules |-> rules, bundle |-> Providers(ms), hub |-> Manifest(ms),
   artifacts |-> [k \in MergedKinds |-> Merged(k, ms, rules)]]

CompiledInv ==
  \/ publication = NoPublication
  \/ \E ms \in Drafts, rules \in RuleLists : publication = Compiled(ms, rules)

LEMMA CompiledAlways == CompilationSpec => []CompiledInv
<1>1. CompilationInit => CompiledInv
  BY DEF CompilationInit, CompiledInv
<1>2. ASSUME CompiledInv, [CompilationNext]_publication PROVE CompiledInv'
  <2>1. CASE UNCHANGED publication
    BY <1>2, <2>1 DEF CompiledInv
  <2>2. ASSUME NEW ms \in Drafts, NEW rules \in RuleLists, CompilePublication(ms, rules)
        PROVE  CompiledInv'
    BY <2>2 DEF CompilePublication, Compiled, CompiledInv
  <2>3. QED
    BY <1>2, <2>1, <2>2 DEF CompilationNext
<1>3. QED
  BY <1>1, <1>2, PTL DEF CompilationSpec

\* Of no publication there is nothing to say.
LEMMA NothingIsPublished ==
  ASSUME publication = NoPublication
  PROVE  CompilationTypeOK /\ PublishedFromTheBest
<1>1. /\ publication.members = <<>> /\ publication.rules = <<>> /\ publication.bundle = <<>>
      /\ publication.hub = {} /\ \A k \in MergedKinds : publication.artifacts[k] = <<>>
  BY DEF NoPublication
<1>2. ToSet(<<>>) = {} /\ DOMAIN <<>> = {}
  BY DEF ToSet
<1>3. <<>> \in Drafts
  <2>1. <<>> \in [{} -> Memberships]
    OBVIOUS
  <2>2. QED
    BY <2>1 DEF Drafts
<1>4. \A kind \in MergedKinds : \A key : Offering(kind, key) = {}
  BY <1>1, <1>2 DEF Offering
<1>5. QED
  BY <1>1, <1>2, <1>3, <1>4 DEF CompilationTypeOK, PublishedFromTheBest

LEMMA CompiledType ==
  ASSUME NEW ms \in Drafts, NEW rules \in RuleLists, publication = Compiled(ms, rules)
  PROVE  CompilationTypeOK
<1>1. publication.members = ms /\ publication.rules = rules /\ publication.bundle = Providers(ms)
  BY DEF Compiled
<1>2. ToSet(Providers(ms)) \subseteq DOMAIN ms
  BY BundleMembers
<1>3. QED
  BY <1>1, <1>2 DEF CompilationTypeOK

LEMMA CompiledFromTheBest ==
  ASSUME NEW ms \in Drafts, NEW rules \in RuleLists, publication = Compiled(ms, rules)
  PROVE  PublishedFromTheBest
<1> DEFINE Beats(s, t) ==
             \/ ms[s].priority > ms[t].priority
             \/ /\ ms[s].priority = ms[t].priority
                /\ \/ ms[s].role = "primary" /\ ms[t].role # "primary"
                   \/ ms[s].role = "backup" /\ ms[t].role = "auxiliary"
                   \/ ms[s].role = ms[t].role /\ s <= t
<1>1. /\ publication.members = ms /\ publication.rules = rules
      /\ publication.bundle = Providers(ms) /\ publication.hub = Manifest(ms)
      /\ \A k \in MergedKinds : publication.artifacts[k] = Merged(k, ms, rules)
  BY DEF Compiled
<1>2. \A s \in DOMAIN ms : /\ s \in Nat /\ ms[s].priority \in Int
                           /\ ms[s].role \in {"primary", "backup", "auxiliary"}
  BY DraftFacts, CompilationAssumption
<1>3. \A s, t \in DOMAIN ms : s = t \/ Ranked(ms, s, t) => Beats(s, t)
  BY <1>2 DEF Ranked, roleOrder
<1>4. ASSUME NEW plugins \in publication.hub, NEW s \in DOMAIN ms
      PROVE  /\ GivesPlugins(s) => Supported(s) \ Unsupported(s) \subseteq Sites(plugins, s)
             /\ Sites(plugins, s) \subseteq IF GivesPlugins(s) THEN Supported(s) ELSE {}
  <2>1. plugins = HubPlugins(ms)
    BY <1>1, <1>4 DEF Manifest
  <2>2. Sites(plugins, s) = IF GivesPlugins(s) THEN Converts(s) ELSE {}
    BY <1>1, <2>1, ManifestSites DEF Sites, GivesPlugins
  <2>3. QED
    BY <1>1, <2>2, SupportedSites
<1>5. ASSUME NEW kind \in MergedKinds, NEW key
      PROVE  LET u == publication.artifacts[kind]
                 places == {i \in DOMAIN u : u[i].key = key}
             IN  /\ Offering(kind, key) = {} => places = {}
                 /\ Offering(kind, key) # {} =>
                      \E i \in places :
                        /\ places = {i} /\ u[i].from \in Offering(kind, key)
                        /\ \A s \in Offering(kind, key) : Beats(u[i].from, s)
  <2> DEFINE u == Merged(kind, ms, rules)
             Has(s) == HasItem(s, key, ms, rules)
             places == {i \in DOMAIN u : u[i].key = key}
  <2>1. \A s \in DOMAIN ms : /\ Items(s, ms[s], rules) \in Seq(ToSet(Items(s, ms[s], rules)))
                             /\ Offers(s, key) <=> s \in Selected(ms) /\ Has(s)
    BY <1>1, OfferedItems DEF HasItem
  <2>2. Offering(kind, key) = {s \in Taking(kind, ms) : Has(s)}
    <3>1. Selected(ms) \subseteq DOMAIN ms
      BY DEF Selected
    <3>2. QED
      BY <1>1, <2>1, <3>1 DEF Offering, Taking
  <2>3. TakesTheFirst(u, key, kind, ms, rules)
    <3>1. \A s \in DOMAIN ms : Items(s, ms[s], rules) \in Seq(ToSet(Items(s, ms[s], rules)))
      BY <2>1
    <3>2. QED
      BY <3>1, MergedItems
  <2>4. publication.artifacts[kind] = u
    BY <1>1
  <2>5. Offering(kind, key) \subseteq DOMAIN ms
    BY <1>1 DEF Offering
  <2>6. \A s : Has(s) <=> HasItem(s, key, ms, rules)
    OBVIOUS
  <2> HIDE DEF u, Has, Beats
  <2>7. Offering(kind, key) = {} => places = {}
    BY <2>2, <2>3, <2>6 DEF TakesTheFirst
  <2>8. ASSUME Offering(kind, key) # {}
        PROVE  \E i \in places :
                 /\ places = {i} /\ u[i].from \in Offering(kind, key)
                 /\ \A s \in Offering(kind, key) : Beats(u[i].from, s)
    <3>1. PICK i \in DOMAIN u : u[i].key = key
      BY <2>2, <2>3, <2>6, <2>8 DEF TakesTheFirst
    <3>2. i \in places /\ places = {i}
      BY <2>3, <3>1 DEF TakesTheFirst
    <3>3. u[i].from \in Offering(kind, key)
      BY <2>2, <2>3, <2>6, <3>1 DEF TakesTheFirst
    <3>4. \A s \in Offering(kind, key) : s = u[i].from \/ Ranked(ms, u[i].from, s)
      BY <2>2, <2>3, <2>6, <3>1 DEF TakesTheFirst
    <3>5. \A s \in Offering(kind, key) : Beats(u[i].from, s)
      BY <1>3, <2>5, <3>3, <3>4
    <3>6. QED
      BY <3>2, <3>3, <3>5
  <2>9. QED
    BY <2>4, <2>7, <2>8
<1>6. ToSet(publication.bundle) =
        {s \in DOMAIN ms :
           /\ KindOf[s] \in {"m3u", "xmltv"} \/ s \in RuntimeBound
           /\ ms[s].languages # {} => \E x \in ToSet(ItemsOf[s]) : x.language \in ms[s].languages}
  BY <1>1, BundleMembers
<1>7. QED
  BY <1>1, <1>4, <1>5, <1>6 DEF PublishedFromTheBest

-----------------------------------------------------------------------------
(* Theorems. *)

\* A publication is compiled from some members of the sources under some of the
\* rules, and its Bundle lists only those members (CompilePublication).
THEOREM CompilationTypeCorrect == CompilationSpec => []CompilationTypeOK
<1>1. CompiledInv => CompilationTypeOK
  BY NothingIsPublished, CompiledType DEF CompiledInv
<1>2. QED
  BY <1>1, CompiledAlways, PTL

\* For any number of sources, items, languages, priorities and rules, every
\* publication has each key that an unrestricted member offers once, from the best
\* of those members, and no other; its manifest gives a Hub a plugin of each of those
\* members' sites whose rules all convert and of no site without a rule that does;
\* and its Bundle lists exactly the members a client can use that have something
\* left.
THEOREM PublishesTheBest == CompilationSpec => []PublishedFromTheBest
<1>1. CompiledInv => PublishedFromTheBest
  BY NothingIsPublished, CompiledFromTheBest DEF CompiledInv
<1>2. QED
  BY <1>1, CompiledAlways, PTL
=============================================================================
