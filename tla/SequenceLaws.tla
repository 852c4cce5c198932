---------------------------- MODULE SequenceLaws ----------------------------
(***************************************************************************)
(* Laws that the proofs about logs and files rest on: induction over the   *)
(* natural numbers in a form without an operator parameter, what           *)
(* FlattenSeq, a recursive function, makes of a sequence that is extended, *)
(* and what a recursion along a sequence makes of one more element.        *)
(***************************************************************************)
EXTENDS Integers, Sequences, SequencesExt, SequenceTheorems,
        WellFoundedInduction, TLAPS

\* A set that holds 0 and with every natural number the next one holds them all.
THEOREM NatSetInduction ==
  ASSUME NEW S, 0 \in S, \A n \in S : n \in Nat => n + 1 \in S
  PROVE  Nat \subseteq S
<1> DEFINE R == OpToRel(<, Nat)
<1> DEFINE T == Nat \ S
<1>1. IsWellFoundedOn(R, Nat)
  BY NatLessThanWellFounded, Zenon
<1>2. \A x, y \in Nat : y < x => <<y, x>> \in R
  BY Zenon DEF OpToRel
<1> HIDE DEF R
<1>3. SUFFICES ASSUME T # {} PROVE FALSE
  OBVIOUS
<1>4. PICK x \in T : \A y \in T : <<y, x>> \notin R
  <2>1. T \subseteq Nat /\ T # {}
     BY <1>3
  <2> HIDE DEF T
  <2> QED BY <1>1, <2>1, WFMin
<1>5. x \in Nat /\ x \notin S /\ x # 0
  OBVIOUS
<1>6. PICK y \in Nat : y + 1 = x
  <2>1. x - 1 \in Nat /\ (x - 1) + 1 = x
    BY <1>5
  <2> QED BY <2>1
<1>7. y \in T
  BY <1>5, <1>6
<1>8. y < x
  BY <1>5, <1>6
<1> QED BY <1>2, <1>4, <1>5, <1>7, <1>8

(* ---------------------------- FlattenSeq ------------------------------ *)

\* What the recursive function in FlattenSeq is to be, up to n.
Flattens(g, seqs, n) ==
  g = [i \in 1..n |-> IF i = 1 THEN seqs[i] ELSE g[i - 1] \o seqs[i]]

LEMMA FlattensAt ==
  ASSUME NEW g, NEW seqs, NEW n \in Nat, Flattens(g, seqs, n), NEW i \in 1..n
  PROVE  g[i] = IF i = 1 THEN seqs[i] ELSE g[i - 1] \o seqs[i]
<1> DEFINE G == [j \in 1..n |-> IF j = 1 THEN seqs[j] ELSE g[j - 1] \o seqs[j]]
<1>1. G[i] = IF i = 1 THEN seqs[i] ELSE g[i - 1] \o seqs[i]
  OBVIOUS
<1>2. g = G
  BY Zenon DEF Flattens
<1> HIDE DEF G
<1> QED BY <1>1, <1>2

LEMMA FlattensExists ==
  ASSUME NEW seqs, NEW n \in Nat
  PROVE  \E g : Flattens(g, seqs, n)
<1> DEFINE S == {m \in Nat : \E g : Flattens(g, seqs, m)}
<1>1. 0 \in S
  <2>1. Flattens(<<>>, seqs, 0)
    BY DEF Flattens
  <2> QED BY <2>1
<1>2. ASSUME NEW m \in S PROVE m + 1 \in S
  <2>1. PICK g : Flattens(g, seqs, m)
    OBVIOUS
  <2> DEFINE h == [i \in 1..(m + 1) |->
                     IF i <= m THEN g[i] ELSE IF i = 1 THEN seqs[i] ELSE g[m] \o seqs[i]]
  <2>2. \A i \in 1..(m + 1) : h[i] = IF i = 1 THEN seqs[i] ELSE h[i - 1] \o seqs[i]
    <3> TAKE i \in 1..(m + 1)
    <3>1. CASE i <= m
      <4>1. i \in 1..m /\ (i # 1 => i - 1 \in 1..m)
        BY <3>1
      <4>2. g[i] = IF i = 1 THEN seqs[i] ELSE g[i - 1] \o seqs[i]
        BY <2>1, <4>1, FlattensAt
      <4> QED BY <4>1, <4>2
    <3>2. CASE i = m + 1
      <4>1. i # 1 => m \in 1..(m + 1) /\ i - 1 = m
        BY <3>2
      <4>2. h[i] = IF i = 1 THEN seqs[i] ELSE g[m] \o seqs[i]
        BY <3>2
      <4>3. i # 1 => h[m] = g[m]
        BY <4>1
      <4> QED BY <4>1, <4>2, <4>3
    <3> QED BY <3>1, <3>2
  <2>3. Flattens(h, seqs, m + 1)
    <3> DEFINE G == [i \in 1..(m + 1) |-> IF i = 1 THEN seqs[i] ELSE h[i - 1] \o seqs[i]]
    <3>1. \A i \in 1..(m + 1) : h[i] = G[i]
      BY <2>2
    <3>2. \E X : h = [i \in X |-> h[i]] /\ G = [i \in X |-> G[i]] /\ X = 1..(m + 1)
      OBVIOUS
    <3> HIDE DEF h, G
    <3>3. h = G
      BY <3>1, <3>2
    <3> USE DEF G
    <3> QED BY <3>3 DEF Flattens
  <2> QED BY <2>3
<1>3. Nat \subseteq S
  <2> HIDE DEF S
  <2> QED BY <1>1, <1>2, NatSetInduction
<1> QED BY <1>3

SameUpTo(s, t, m) == \A i \in 1..m : s[i] = t[i]

\* Two such functions agree as far as their sequences do.
LEMMA FlattensAgree ==
  ASSUME NEW s, NEW t, NEW m \in Nat, NEW n \in Nat, NEW g, NEW h,
         Flattens(g, s, m), Flattens(h, t, n), m <= n, SameUpTo(s, t, m)
  PROVE  SameUpTo(g, h, m)
<1> USE DEF SameUpTo
<1> DEFINE S == {i \in Nat : i \in 1..m => g[i] = h[i]}
<1>1. 0 \in S
  OBVIOUS
<1>2. ASSUME NEW i \in S PROVE i + 1 \in S
  <2> SUFFICES ASSUME i + 1 \in 1..m PROVE g[i + 1] = h[i + 1]
    OBVIOUS
  <2>1. g[i + 1] = IF i = 0 THEN s[i + 1] ELSE g[i] \o s[i + 1]
    <3>1. i + 1 \in 1..m /\ (i + 1) - 1 = i
      OBVIOUS
    <3>2. g[i + 1] = IF i + 1 = 1 THEN s[i + 1] ELSE g[(i + 1) - 1] \o s[i + 1]
      BY <3>1, FlattensAt
    <3> QED BY <3>1, <3>2
  <2>2. h[i + 1] = IF i = 0 THEN t[i + 1] ELSE h[i] \o t[i + 1]
    <3>1. i + 1 \in 1..n /\ (i + 1) - 1 = i
      OBVIOUS
    <3>2. h[i + 1] = IF i + 1 = 1 THEN t[i + 1] ELSE h[(i + 1) - 1] \o t[i + 1]
      BY <3>1, FlattensAt
    <3> QED BY <3>1, <3>2
  <2>3. i # 0 => g[i] = h[i]
    OBVIOUS
  <2> QED BY <2>1, <2>2, <2>3
<1>3. Nat \subseteq S
  <2> HIDE DEF S
  <2> QED BY <1>1, <1>2, NatSetInduction
<1> QED BY <1>3

LEMMA FlattenSeqIs ==
  ASSUME NEW seqs, Len(seqs) \in Nat \ {0}
  PROVE  \E g : Flattens(g, seqs, Len(seqs)) /\ FlattenSeq(seqs) = g[Len(seqs)]
<1> DEFINE c == CHOOSE g : Flattens(g, seqs, Len(seqs))
<1>1. Flattens(c, seqs, Len(seqs))
  BY FlattensExists
<1>2. FlattenSeq(seqs) = c[Len(seqs)]
  BY Zenon DEF FlattenSeq, Flattens
<1> QED BY <1>1, <1>2, Zenon

\* Nothing flattens to nothing.
THEOREM FlattenEmpty == FlattenSeq(<<>>) = <<>>
BY DEF FlattenSeq

\* A flattened sequence of sequences is a sequence of their elements.
THEOREM FlattenType ==
  ASSUME NEW S, NEW seqs \in Seq(Seq(S))
  PROVE  FlattenSeq(seqs) \in Seq(S)
<1>1. CASE seqs = <<>>
  BY <1>1, FlattenEmpty, EmptySeq
<1>2. CASE seqs # <<>>
  <2>1. Len(seqs) \in Nat \ {0}
    BY <1>2
  <2>2. PICK g : Flattens(g, seqs, Len(seqs)) /\ FlattenSeq(seqs) = g[Len(seqs)]
    BY <2>1, FlattenSeqIs
  <2> DEFINE T == {i \in Nat : i \in 1..Len(seqs) => g[i] \in Seq(S)}
  <2>3. 0 \in T
    OBVIOUS
  <2>4. ASSUME NEW i \in T PROVE i + 1 \in T
    <3> SUFFICES ASSUME i + 1 \in 1..Len(seqs) PROVE g[i + 1] \in Seq(S)
      OBVIOUS
    <3>1. g[i + 1] = IF i = 0 THEN seqs[i + 1] ELSE g[i] \o seqs[i + 1]
      <4>1. i + 1 \in 1..Len(seqs) /\ (i + 1) - 1 = i /\ Len(seqs) \in Nat
        BY <2>1
      <4>2. g[i + 1] = IF i + 1 = 1 THEN seqs[i + 1] ELSE g[(i + 1) - 1] \o seqs[i + 1]
        BY <2>2, <4>1, FlattensAt
      <4> QED BY <4>1, <4>2
    <3>2. i # 0 => g[i] \in Seq(S)
      BY <2>1
    <3>3. seqs[i + 1] \in Seq(S)
      OBVIOUS
    <3> QED BY <3>1, <3>2, <3>3, ConcatProperties
  <2>5. Nat \subseteq T
    <3> HIDE DEF T
    <3> QED BY <2>3, <2>4, NatSetInduction
  <2> QED BY <2>1, <2>2, <2>5
<1> QED BY <1>1, <1>2

LEMMA FlattenExtended ==
  ASSUME NEW s, NEW t, NEW m \in Nat, Len(s) = m, Len(t) = m + 1,
         SameUpTo(s, t, m)
  PROVE  FlattenSeq(t) = IF m = 0 THEN t[m + 1] ELSE FlattenSeq(s) \o t[m + 1]
<1>1. PICK h : Flattens(h, t, m + 1) /\ FlattenSeq(t) = h[m + 1]
  BY FlattenSeqIs
<1>2. h[m + 1] = IF m = 0 THEN t[m + 1] ELSE h[m] \o t[m + 1]
  <2>1. h[m + 1] = IF m + 1 = 1 THEN t[m + 1] ELSE h[(m + 1) - 1] \o t[m + 1]
    BY <1>1, FlattensAt
  <2> QED BY <2>1
<1>3. m # 0 => FlattenSeq(s) = h[m]
  <2> SUFFICES ASSUME m # 0 PROVE FlattenSeq(s) = h[m]
    OBVIOUS
  <2>1. PICK g : Flattens(g, s, m) /\ FlattenSeq(s) = g[m]
    BY FlattenSeqIs
  <2>2. SameUpTo(g, h, m)
    BY <1>1, <2>1, FlattensAgree
  <2> QED BY <2>1, <2>2 DEF SameUpTo
<1> QED BY <1>1, <1>2, <1>3

\* One more sequence comes behind what the others flatten to.
THEOREM FlattenAppend ==
  ASSUME NEW S, NEW seqs \in Seq(Seq(S)), NEW e \in Seq(S)
  PROVE  FlattenSeq(Append(seqs, e)) = FlattenSeq(seqs) \o e
<1>1. /\ Len(seqs) \in Nat /\ Len(Append(seqs, e)) = Len(seqs) + 1
      /\ Append(seqs, e)[Len(seqs) + 1] = e
      /\ SameUpTo(seqs, Append(seqs, e), Len(seqs))
  BY DEF SameUpTo
<1>2. FlattenSeq(Append(seqs, e)) = IF Len(seqs) = 0 THEN e ELSE FlattenSeq(seqs) \o e
  BY <1>1, FlattenExtended
<1>3. Len(seqs) = 0 => FlattenSeq(seqs) \o e = e
  BY FlattenEmpty, ConcatEmptySeq
<1> QED BY <1>2, <1>3

(* ---------------------- Recursion along a sequence --------------------- *)

\* St is a step over X that reads an element of D.
IsStep(St, X, D) == St \in [X \X D -> X]

\* h is a recursion along l from a by the steps of St, as long as it stays in X.
Recurs(h, l, X, a, St) ==
  /\ h[0] = a
  /\ \A n \in 1..Len(l) : h[n - 1] \in X => h[n] = St[<<h[n - 1], l[n]>>]

\* Such a recursion never leaves X.
LEMMA RecursType ==
  ASSUME NEW X, NEW D, NEW a \in X, NEW St, IsStep(St, X, D), NEW l \in Seq(D), NEW h,
         Recurs(h, l, X, a, St)
  PROVE  \A n \in 0..Len(l) : h[n] \in X
<1> DEFINE S == {n \in Nat : n <= Len(l) => h[n] \in X}
<1>1. 0 \in S
  BY DEF Recurs
<1>2. ASSUME NEW n \in S PROVE n + 1 \in S
  <2> SUFFICES ASSUME n + 1 <= Len(l) PROVE h[n + 1] \in X
    OBVIOUS
  <2>1. n + 1 \in 1..Len(l) /\ (n + 1) - 1 = n /\ h[n] \in X
    OBVIOUS
  <2>2. h[n + 1] = St[<<h[n], l[n + 1]>>]
    BY <2>1 DEF Recurs
  <2>3. <<h[n], l[n + 1]>> \in X \X D
    BY <2>1
  <2> QED BY <2>2, <2>3 DEF IsStep
<1> HIDE DEF S
<1>3. Nat \subseteq S
  BY <1>1, <1>2, NatSetInduction
<1> QED BY <1>3 DEF S

\* Along sequences that begin alike, recursions go alike.
LEMMA RecursAgree ==
  ASSUME NEW X, NEW D, NEW a, NEW St, NEW l, NEW k, NEW m, NEW g, NEW h,
         a \in X, IsStep(St, X, D), l \in Seq(D), k \in Seq(D),
         m \in Nat, m <= Len(l), m <= Len(k), SameUpTo(l, k, m),
         Recurs(g, l, X, a, St), Recurs(h, k, X, a, St)
  PROVE  g[m] = h[m]
<1> DEFINE S == {n \in Nat : n <= m => g[n] = h[n]}
<1>1. 0 \in S
  BY DEF Recurs
<1>2. ASSUME NEW n \in S PROVE n + 1 \in S
  <2> SUFFICES ASSUME n + 1 <= m PROVE g[n + 1] = h[n + 1]
    OBVIOUS
  <2>1. /\ n + 1 \in 1..Len(l) /\ n + 1 \in 1..Len(k) /\ (n + 1) - 1 = n
        /\ n \in 0..Len(l) /\ n \in 0..Len(k) /\ g[n] = h[n] /\ l[n + 1] = k[n + 1]
    BY DEF SameUpTo
  <2>2. g[n] \in X /\ h[n] \in X
    BY <2>1, RecursType
  <2>3. g[n + 1] = St[<<g[n], l[n + 1]>>] /\ h[n + 1] = St[<<h[n], k[n + 1]>>]
    BY <2>1, <2>2 DEF Recurs
  <2> QED BY <2>1, <2>3
<1> HIDE DEF S
<1>3. Nat \subseteq S
  BY <1>1, <1>2, NatSetInduction
<1> QED BY <1>3 DEF S

\* There is a recursion along every sequence.
THEOREM RecursExists ==
  ASSUME NEW X, NEW D, NEW a \in X, NEW St, IsStep(St, X, D), NEW l \in Seq(D)
  PROVE  \E h \in [0..Len(l) -> X] : Recurs(h, l, X, a, St)
<1> DEFINE Upto(h, n) == h[0] = a /\ \A i \in 1..n : h[i] = St[<<h[i - 1], l[i]>>]
<1> DEFINE Some(n) == \E h \in [0..n -> X] : Upto(h, n)
<1> DEFINE S == {n \in Nat : n <= Len(l) => Some(n)}
<1>1. 0 \in S
  <2>1. [i \in 0..0 |-> a] \in [0..0 -> X] /\ Upto([i \in 0..0 |-> a], 0)
    OBVIOUS
  <2> QED BY <2>1
<1>2. ASSUME NEW n \in S PROVE n + 1 \in S
  <2> SUFFICES ASSUME n + 1 <= Len(l) PROVE Some(n + 1)
    <3> HIDE DEF Some
    <3> QED OBVIOUS
  <2>1. PICK g \in [0..n -> X] : Upto(g, n)
    <3> HIDE DEF Upto
    <3>1. n <= Len(l)
      OBVIOUS
    <3> QED BY <3>1
  <2> DEFINE h == [i \in 0..(n + 1) |-> IF i <= n THEN g[i] ELSE St[<<g[n], l[n + 1]>>]]
  <2>2. St[<<g[n], l[n + 1]>>] \in X
    <3>1. <<g[n], l[n + 1]>> \in X \X D
      OBVIOUS
    <3> QED BY <3>1 DEF IsStep
  <2>3. \A i \in 0..(n + 1) : h[i] \in X
    BY <2>2
  <2>4. h \in [0..(n + 1) -> X]
    BY <2>3
  <2>5. /\ \A i \in 0..n : h[i] = g[i]
        /\ h[n + 1] = St[<<g[n], l[n + 1]>>]
    OBVIOUS
  <2>6. Upto(h, n + 1)
    <3> HIDE DEF h
    <3>1. h[0] = a
      BY <2>1, <2>5
    <3>2. ASSUME NEW i \in 1..(n + 1) PROVE h[i] = St[<<h[i - 1], l[i]>>]
      <4>1. CASE i = n + 1
        <5>1. (n + 1) - 1 = n /\ n \in 0..n
          OBVIOUS
        <5> QED BY <4>1, <5>1, <2>5
      <4>2. CASE i # n + 1
        <5>1. i \in 1..n /\ i \in 0..n /\ i - 1 \in 0..n
          BY <4>2
        <5> QED BY <5>1, <2>1, <2>5
      <4> QED BY <4>1, <4>2
    <3> QED BY <3>1, <3>2
  <2> HIDE DEF h, Upto
  <2> QED BY <2>4, <2>6
<1> HIDE DEF S, Some
<1>3. Nat \subseteq S
  BY <1>1, <1>2, NatSetInduction
<1>4. PICK h \in [0..Len(l) -> X] : Upto(h, Len(l))
  <2>1. Some(Len(l))
    BY <1>3 DEF S
  <2> HIDE DEF Upto
  <2> QED BY <2>1 DEF Some
<1> QED BY <1>4 DEF Recurs

\* One element more is one step more.
THEOREM RecursAppend ==
  ASSUME NEW X, NEW D, NEW a \in X, NEW St, IsStep(St, X, D), NEW l \in Seq(D), NEW e \in D,
         NEW g, NEW h, Recurs(g, l, X, a, St), Recurs(h, Append(l, e), X, a, St)
  PROVE  g[Len(l)] \in X /\ h[Len(Append(l, e))] = St[<<g[Len(l)], e>>]
<1>1. PICK k \in Seq(D) : k = Append(l, e)
  BY AppendProperties
<1>2. PICK m \in Nat : m = Len(l)
  OBVIOUS
<1>3. Len(k) = m + 1 /\ SameUpTo(l, k, m) /\ k[m + 1] = e
  BY <1>1, <1>2 DEF SameUpTo
<1>4. Recurs(h, k, X, a, St)
  BY <1>1
<1>5. \A n \in 0..Len(l) : g[n] \in X
  BY RecursType, Zenon
<1>6. g[m] = h[m] /\ g[m] \in X
  <2>1. m <= Len(l) /\ m <= Len(k) /\ m \in 0..Len(l)
    BY <1>2, <1>3
  <2>2. m \in Nat /\ k \in Seq(D) /\ SameUpTo(l, k, m)
    BY <1>1, <1>2, <1>3
  <2>3. g[m] = h[m]
    BY <1>4, <2>1, <2>2, RecursAgree
  <2> QED BY <1>5, <2>1, <2>3
<1>7. h[m + 1] = St[<<h[m], k[m + 1]>>]
  <2>1. m + 1 \in 1..Len(k) /\ (m + 1) - 1 = m
    BY <1>3
  <2> QED BY <1>4, <1>6, <2>1 DEF Recurs
<1> QED BY <1>1, <1>2, <1>3, <1>6, <1>7
=============================================================================
