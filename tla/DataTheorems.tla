----------------------------- MODULE DataTheorems -----------------------------
(***************************************************************************)
(* Induction and recursion over the natural numbers, maxima, remainders    *)
(* and lists: what the proofs about more than one component need.          *)
(***************************************************************************)
EXTENDS Integers, SequencesExt, FiniteSetTheorems, WellFoundedInduction, TLAPS

-----------------------------------------------------------------------------
(* Numbers                                                                 *)

\* A set of numbers with 0 and the successor of each of its elements has all.
LEMMA AllNumbers ==
    ASSUME NEW P \in SUBSET Nat, 0 \in P, \A n \in P : n + 1 \in P
    PROVE  P = Nat
<1> SUFFICES ASSUME Nat \ P # {} PROVE FALSE
  OBVIOUS
<1>1. PICK n \in Nat \ P : \A m \in Nat \ P : ~(<<m, n>> \in OpToRel(<, Nat))
  BY NatLessThanWellFounded, WFMin
<1>2. \A m \in Nat \ P : ~(m < n)
  BY <1>1 DEF OpToRel
<1>3. n \in Nat /\ n \notin P
  OBVIOUS
<1> HIDE <1>1
<1>4. n # 0 /\ n - 1 \in Nat /\ (n - 1) + 1 = n
  BY <1>3
<1>5. n - 1 \in P
  BY <1>2, <1>4
<1> QED  BY <1>3, <1>4, <1>5

\* The same from one number up to another.
LEMMA Upwards ==
    ASSUME NEW a \in Nat, NEW b \in Nat, a <= b,
           NEW P \in SUBSET (a..b), a \in P,
           \A n \in P : n + 1 <= b => n + 1 \in P
    PROVE  P = a..b
<1> DEFINE Q == {k \in Nat : a + k <= b => a + k \in P}
<1>1. 0 \in Q
  OBVIOUS
<1>2. ASSUME NEW k \in Q PROVE k + 1 \in Q
  <2>1. k \in Nat /\ (a + k) + 1 = a + (k + 1)
    OBVIOUS
  <2> QED  BY <2>1
<1>3. Q = Nat
  BY <1>1, <1>2, AllNumbers
<1>4. ASSUME NEW n \in a..b PROVE n \in P
  <2>1. n - a \in Q /\ a + (n - a) = n
    <3> HIDE DEF Q
    <3> QED  BY <1>3
  <2> QED  BY <2>1
<1> QED  BY <1>4

\* A function whose values follow from the ones before, by a function G of the
\* value before and the argument.
RecursiveOn(f, a, b, T, base, G) ==
    /\ f \in [a..b -> T]
    /\ f[a] = base
    /\ \A i \in a..b : i # a => f[i] = G[<<f[i - 1], i>>]

\* Primitive recursion: there is such a function, and it stays in its range.
LEMMA Recursion ==
    ASSUME NEW a \in Nat, NEW b \in Nat, a <= b,
           NEW T, NEW base \in T, NEW G \in [T \X (a..b) -> T]
    PROVE  \E f : RecursiveOn(f, a, b, T, base, G)
<1> DEFINE Rec(f, n) == f[a] = base /\ \A i \in a..n : i # a => f[i] = G[<<f[i - 1], i>>]
           P == {n \in a..b : \E f \in [a..n -> T] : Rec(f, n)}
<1>1. a \in P
  <2>1. [i \in a..a |-> base] \in [a..a -> T] /\ Rec([i \in a..a |-> base], a)
    OBVIOUS
  <2>2. a \in a..b
    OBVIOUS
  <2> HIDE DEF Rec
  <2> QED  BY <2>1, <2>2
<1>2. ASSUME NEW n \in P, n + 1 <= b PROVE n + 1 \in P
  <2>1. n \in Nat /\ a <= n /\ n <= b
    OBVIOUS
  <2>2. PICK f \in [a..n -> T] : Rec(f, n)
    OBVIOUS
  <2> DEFINE g == [i \in a..(n + 1) |-> IF i = n + 1 THEN G[<<f[n], n + 1>>] ELSE f[i]]
  <2>3. G[<<f[n], n + 1>>] \in T
    <3>1. f[n] \in T /\ n + 1 \in a..b
      BY <1>2, <2>1
    <3> QED  BY <3>1
  <2>4. \A i \in a..(n + 1) : i = n + 1 \/ i \in a..n
    BY <2>1
  <2>5. g \in [a..(n + 1) -> T]
    BY <2>3, <2>4
  <2>6. \A i \in a..n : i \in a..(n + 1) /\ g[i] = f[i]
    BY <2>1
  <2>7. g[n + 1] = G[<<f[n], n + 1>>] /\ g[n] = f[n] /\ g[a] = f[a]
    BY <2>1, <2>6
  <2> HIDE DEF g
  <2>8. ASSUME NEW i \in a..(n + 1), i # a PROVE g[i] = G[<<g[i - 1], i>>]
    <3>1. CASE i = n + 1
      <4>1. i - 1 = n
        BY <2>1, <3>1
      <4> QED  BY <2>7, <3>1, <4>1
    <3>2. CASE i # n + 1
      <4>1. i \in a..n /\ i - 1 \in a..n
        BY <2>1, <2>8, <3>2
      <4> QED  BY <2>2, <2>6, <2>8, <4>1
    <3> QED  BY <3>1, <3>2
  <2>9. n + 1 \in a..b /\ Rec(g, n + 1)
    BY <1>2, <2>1, <2>2, <2>7, <2>8
  <2> HIDE DEF Rec
  <2> QED  BY <2>5, <2>9
<1>3. P = a..b
  <2>1. P \in SUBSET (a..b)
    OBVIOUS
  <2> HIDE DEF P
  <2> QED  BY <1>1, <1>2, <2>1, Upwards
<1>4. b \in P
  <2> HIDE DEF P
  <2> QED  BY <1>3
<1>5. PICK f \in [a..b -> T] : Rec(f, b)
  BY <1>4
<1>6. RecursiveOn(f, a, b, T, base, G)
  BY <1>5 DEF RecursiveOn
<1> QED  BY <1>6

\* A finite set of numbers that is not empty has a largest element.
LEMMA MaxIs ==
    ASSUME NEW S \in SUBSET Nat, IsFiniteSet(S), S # {}
    PROVE  Max(S) \in S /\ \A x \in S : x <= Max(S)
<1> DEFINE HasMax(T) == \E x \in T : \A y \in T : x >= y
           P == {n \in Nat : \A T \in SUBSET Nat :
                    IsFiniteSet(T) /\ Cardinality(T) = n /\ T # {} => HasMax(T)}
<1>1. 0 \in P
  BY FS_EmptySet
<1>2. ASSUME NEW n \in P PROVE n + 1 \in P
  <2>0. n \in Nat /\ n + 1 \in Nat
    BY <1>2
  <2> SUFFICES ASSUME NEW T \in SUBSET Nat, IsFiniteSet(T), Cardinality(T) = n + 1,
                      T # {}
               PROVE  HasMax(T)
    <3> HIDE DEF HasMax
    <3> QED  BY <2>0
  <2> PICK x \in T : TRUE
    OBVIOUS
  <2>1. IsFiniteSet(T \ {x}) /\ Cardinality(T \ {x}) = n
    <3> HIDE DEF P
    <3> QED  BY <2>0, FS_RemoveElement
  <2>2. CASE T \ {x} = {}
    <3>1. \A y \in T : x >= y
      BY <2>2
    <3> QED  BY <3>1
  <2>3. CASE T \ {x} # {}
    <3>1. T \ {x} \in SUBSET Nat
      OBVIOUS
    <3>2. HasMax(T \ {x})
      BY <2>1, <2>3, <3>1
    <3>3. PICK z \in T \ {x} : \A y \in T \ {x} : z >= y
      BY <3>2
    <3>4. CASE x >= z
      <4>1. \A y \in T : x >= y
        BY <3>3, <3>4
      <4> QED  BY <4>1
    <3>5. CASE ~(x >= z)
      <4>1. \A y \in T : z >= y
        BY <3>3, <3>5
      <4> QED  BY <4>1
    <3> QED  BY <3>4, <3>5
  <2> QED  BY <2>2, <2>3
<1>3. P = Nat
  BY <1>1, <1>2, AllNumbers
<1>4. Cardinality(S) \in Nat
  BY FS_CardinalityType
<1>5. HasMax(S)
  BY <1>3, <1>4
<1>6. Max(S) \in S /\ \A y \in S : Max(S) >= y
  BY <1>5 DEF Max
<1>7. \A y \in S : y \in Nat /\ Max(S) \in Nat
  BY <1>6
<1> QED  BY <1>6, <1>7

\* A quotient and a remainder are unique.
LEMMA DivisionUnique ==
    ASSUME NEW m \in Nat \ {0}, NEW p \in Int, NEW q \in Int,
           NEW r \in 0..(m - 1), NEW s \in 0..(m - 1), m * p + r = m * q + s
    PROVE  r = s
BY Z3

\* Going round once does not change the remainder.
LEMMA SameRemainder ==
    ASSUME NEW k \in Nat, NEW m \in Nat \ {0}
    PROVE  (k + m) % m = k % m
<1> DEFINE p == (k + m) \div m
           q == k \div m
           r == (k + m) % m
           s == k % m
<1>1. p \in Int /\ q \in Int /\ q + 1 \in Int
  BY Z3
<1>2. r \in 0..(m - 1) /\ s \in 0..(m - 1)
  BY Z3
<1>3. k + m = m * p + r /\ k = m * q + s
  BY Z3
<1> HIDE DEF p, q, r, s
<1>4. m * (q + 1) = m * q + m
  BY <1>1, Z3
<1>5. m * p + r = m * (q + 1) + s
  BY <1>1, <1>2, <1>3, <1>4, Z3
<1>6. r = s
  BY <1>1, <1>2, <1>5, DivisionUnique
<1> QED  BY <1>6 DEF r, s

\* Every number is within m of one, not above it, that leaves the remainder of 1.
LEMMA ChunkStart ==
    ASSUME NEW m \in Nat \ {0}, NEW j \in Nat \ {0}
    PROVE  \E k \in 1..j : k % m = 1 % m /\ j <= k + m - 1
<1> DEFINE Start(i) == \E k \in 1..i : k % m = 1 % m /\ i <= k + m - 1
           P == {n \in Nat : Start(n + 1)}
<1>1. 0 \in P
  OBVIOUS
<1>2. ASSUME NEW n \in P PROVE n + 1 \in P
  <2>1. n \in Nat
    OBVIOUS
  <2>2. PICK k \in 1..(n + 1) : k % m = 1 % m /\ n + 1 <= k + m - 1
    OBVIOUS
  <2>3. CASE n + 2 <= k + m - 1
    BY <2>1, <2>2, <2>3
  <2>4. CASE n + 2 = k + m
    <3>1. (k + m) % m = 1 % m
      <4>1. k \in Nat /\ k % m = 1 % m
        BY <2>1, <2>2
      <4> QED  BY <4>1, SameRemainder
    <3>2. n + 2 \in 1..(n + 2) /\ n + 2 <= (n + 2) + m - 1 /\ (n + 2) % m = 1 % m
      BY <2>1, <2>4, <3>1
    <3>3. Start(n + 2)
      BY <3>2
    <3>4. n + 1 \in Nat /\ (n + 1) + 1 = n + 2
      BY <2>1
    <3> HIDE DEF Start
    <3> QED  BY <3>3, <3>4
  <2>5. n + 2 <= k + m - 1 \/ n + 2 = k + m
    BY <2>1, <2>2
  <2> QED  BY <2>3, <2>4, <2>5
<1>3. P = Nat
  BY <1>1, <1>2, AllNumbers
<1>4. j - 1 \in P /\ (j - 1) + 1 = j
  <2> HIDE DEF P
  <2> QED  BY <1>3
<1> QED  BY <1>4

-----------------------------------------------------------------------------
(* Lists                                                                   *)

\* Putting two lists together.
LEMMA ConcatIs ==
    ASSUME NEW S, NEW s \in Seq(S), NEW r \in Seq(S)
    PROVE  s \o r \in Seq(S) /\ ToSet(s \o r) = ToSet(s) \cup ToSet(r)
<1>1. /\ s \o r \in Seq(S) /\ Len(s \o r) = Len(s) + Len(r)
      /\ \A i \in 1..(Len(s) + Len(r)) :
            (s \o r)[i] = IF i <= Len(s) THEN s[i] ELSE r[i - Len(s)]
  OBVIOUS
<1>2. /\ Len(s) \in Nat /\ Len(r) \in Nat /\ DOMAIN s = 1..Len(s) /\ DOMAIN r = 1..Len(r)
      /\ DOMAIN (s \o r) = 1..(Len(s) + Len(r))
  BY <1>1
<1>3. ASSUME NEW x \in ToSet(s \o r) PROVE x \in ToSet(s) \cup ToSet(r)
  <2>1. PICK i \in 1..(Len(s) + Len(r)) : x = (s \o r)[i]
    BY <1>2 DEF ToSet
  <2>2. CASE i <= Len(s)
    BY <1>1, <1>2, <2>1, <2>2 DEF ToSet
  <2>3. CASE i > Len(s)
    <3>1. i - Len(s) \in 1..Len(r) /\ x = r[i - Len(s)]
      BY <1>1, <1>2, <2>1, <2>3
    <3> QED  BY <1>2, <3>1 DEF ToSet
  <2> QED  BY <1>2, <2>2, <2>3
<1>4. ASSUME NEW x \in ToSet(s) PROVE x \in ToSet(s \o r)
  <2>1. PICK i \in 1..Len(s) : x = s[i]
    BY <1>2 DEF ToSet
  <2>2. i \in 1..(Len(s) + Len(r)) /\ (s \o r)[i] = x
    BY <1>1, <1>2, <2>1
  <2> QED  BY <1>2, <2>2 DEF ToSet
<1>5. ASSUME NEW x \in ToSet(r) PROVE x \in ToSet(s \o r)
  <2>1. PICK i \in 1..Len(r) : x = r[i]
    BY <1>2 DEF ToSet
  <2>2. /\ i + Len(s) \in 1..(Len(s) + Len(r)) /\ ~(i + Len(s) <= Len(s))
        /\ (i + Len(s)) - Len(s) = i
    BY <1>2, <2>1
  <2>3. (s \o r)[i + Len(s)] = x
    BY <1>1, <2>1, <2>2
  <2> QED  BY <1>2, <2>2, <2>3 DEF ToSet
<1> QED  BY <1>1, <1>3, <1>4, <1>5

\* What a function from 1 to n is, as a list, and with one more element.
LEMMA ListIs ==
    ASSUME NEW S, NEW n \in Nat, NEW v \in [1..n -> S]
    PROVE  v \in Seq(S) /\ Len(v) = n
OBVIOUS

LEMMA SeqIs ==
    ASSUME NEW S, NEW s \in Seq(S)
    PROVE  s \in [1..Len(s) -> S]
OBVIOUS

LEMMA AppendIs ==
    ASSUME NEW S, NEW n \in Nat, NEW v \in [1..n -> S], NEW x \in S
    PROVE  /\ Append(v, x) \in [1..(n + 1) -> S]
           /\ Append(v, x)[n + 1] = x /\ \A k \in 1..n : Append(v, x)[k] = v[k]
<1>1. v \in Seq(S) /\ Len(v) = n
  BY ListIs
<1>2. Append(v, x) \in Seq(S) /\ Len(Append(v, x)) = n + 1
  BY <1>1
<1>3. \A k \in 1..(n + 1) : Append(v, x)[k] = IF k = n + 1 THEN x ELSE v[k]
  BY <1>1
<1>4. Append(v, x) \in [1..(n + 1) -> S]
  <2>1. Append(v, x) \in [1..Len(Append(v, x)) -> S]
    BY <1>2, SeqIs
  <2> QED  BY <1>2, <2>1
<1>5. n + 1 \in 1..(n + 1) /\ \A k \in 1..n : k \in 1..(n + 1) /\ k # n + 1
  OBVIOUS
<1> QED  BY <1>3, <1>4, <1>5

\* A list of lists, one after the other, has the elements of all of them.
LEMMA FlattenIs ==
    ASSUME NEW S, NEW seqs \in Seq(Seq(S))
    PROVE  /\ FlattenSeq(seqs) \in Seq(S)
           /\ \A x : x \in ToSet(FlattenSeq(seqs))
                        <=> \E i \in 1..Len(seqs) : x \in ToSet(seqs[i])
<1> DEFINE L == Len(seqs)
           F(f) == f = [i \in 1..L |-> IF i = 1 THEN seqs[i] ELSE f[i - 1] \o seqs[i]]
<1>1. L \in Nat /\ \A i \in 1..L : seqs[i] \in Seq(S)
  OBVIOUS
<1>2. CASE L = 0
  <2>1. FlattenSeq(seqs) = seqs /\ seqs = <<>>
    BY <1>2 DEF FlattenSeq
  <2>2. ToSet(<<>>) = {}
    BY DEF ToSet
  <2> QED  BY <1>2, <2>1, <2>2
<1>3. CASE L # 0
  <2> DEFINE G == [p \in Seq(S) \X (1..L) |-> p[1] \o seqs[p[2]]]
  <2>1. 1 \in Nat /\ 1 <= L /\ seqs[1] \in Seq(S)
    BY <1>1, <1>3
  <2>2. G \in [Seq(S) \X (1..L) -> Seq(S)]
    BY <1>1, ConcatIs
  <2> HIDE DEF G
  <2>3. PICK f : RecursiveOn(f, 1, L, Seq(S), seqs[1], G)
    <3> HIDE DEF L
    <3> QED  BY <1>1, <2>1, <2>2, Recursion
  <2> USE DEF RecursiveOn
  <2>4. \A i \in 2..L : f[i] = f[i - 1] \o seqs[i]
    <3> SUFFICES ASSUME NEW i \in 2..L PROVE f[i] = f[i - 1] \o seqs[i]
      OBVIOUS
    <3>0. i \in 1..L /\ i # 1 /\ i - 1 \in 1..L
      BY <1>1
    <3>1. <<f[i - 1], i>> \in Seq(S) \X (1..L)
      BY <2>3, <3>0
    <3>2. G[<<f[i - 1], i>>] = f[i - 1] \o seqs[i]
      BY <3>1 DEF G
    <3> QED  BY <2>3, <3>0, <3>2
  <2>5. F(f)
    <3>1. \A i \in 1..L : i = 1 \/ i \in 2..L
      BY <1>1
    <3>2. \A i \in 1..L : f[i] = IF i = 1 THEN seqs[i] ELSE f[i - 1] \o seqs[i]
      BY <2>3, <2>4, <3>1
    <3> QED  BY <2>3, <3>2
  <2>6. FlattenSeq(seqs) = (CHOOSE g : F(g))[L]
    BY <1>3 DEF FlattenSeq
  <2>7. PICK g : F(g) /\ FlattenSeq(seqs) = g[L]
    BY <2>5, <2>6
  <2> DEFINE Sound(n) ==
                /\ g[n] \in Seq(S)
                /\ \A x : x \in ToSet(g[n]) <=> \E i \in 1..n : x \in ToSet(seqs[i])
             P == {n \in 1..L : Sound(n)}
  <2>8. 1 \in P
    <3>1. g[1] = seqs[1] /\ 1 \in 1..L
      BY <1>1, <1>3, <2>7
    <3>2. \A x : x \in ToSet(seqs[1]) <=> \E i \in 1..1 : x \in ToSet(seqs[i])
      OBVIOUS
    <3> QED  BY <1>1, <3>1, <3>2
  <2>9. ASSUME NEW n \in P, n + 1 <= L PROVE n + 1 \in P
    <3>1. n \in 1..L /\ n + 1 \in 1..L /\ n + 1 # 1 /\ (n + 1) - 1 = n
      BY <1>1, <2>9
    <3>2. g[n + 1] = g[n] \o seqs[n + 1]
      BY <2>7, <3>1
    <3>3. /\ g[n + 1] \in Seq(S)
          /\ ToSet(g[n + 1]) = ToSet(g[n]) \cup ToSet(seqs[n + 1])
      BY <1>1, <3>1, <3>2, ConcatIs
    <3>4. \A x : (\E i \in 1..(n + 1) : x \in ToSet(seqs[i]))
                <=> (\E i \in 1..n : x \in ToSet(seqs[i])) \/ x \in ToSet(seqs[n + 1])
      <4>1. \A i : i \in 1..(n + 1) <=> (i \in 1..n \/ i = n + 1)
        BY <3>1
      <4> QED  BY <4>1, Zenon
    <3>5. Sound(n + 1)
      BY <3>3, <3>4
    <3> HIDE DEF Sound
    <3> QED  BY <3>1, <3>5
  <2>10. P = 1..L
    <3>1. P \in SUBSET (1..L)
      OBVIOUS
    <3> HIDE DEF P
    <3> QED  BY <1>1, <2>1, <2>8, <2>9, <3>1, Upwards
  <2>11. Sound(L)
    <3>1. L \in P
      <4> HIDE DEF P
      <4> QED  BY <1>1, <2>1, <2>10
    <3> QED  BY <3>1
  <2> QED  BY <2>7, <2>11
<1> QED  BY <1>2, <1>3
=============================================================================
