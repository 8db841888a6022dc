--------------------------- MODULE SNMPTypes_proofs ---------------------------
(***************************************************************************)
(* Proofs about SNMPTypes, for any types, any values and any widths of the *)
(* two 64-bit types of Tango.                                              *)
(***************************************************************************)
EXTENDS SNMPTypes, DataTheorems

-----------------------------------------------------------------------------
(* Integers: the chain of range constraints                                *)

\* Ranges, and None for an intersection that is empty.
RangeOrNone == (Int \X Int) \cup {None}

\* The value is in the first n ranges of a chain.
Within(r, n, v) == \A i \in 1..n : r[i][1] <= v /\ v <= r[i][2]

\* An intersection is in both of its ranges and has all that is in both.
LEMMA IntersectionIs ==
    ASSUME NEW a \in RangeOrNone, NEW b \in Int \X Int
    PROVE  /\ RangeIntersection(a, b) \in RangeOrNone
           /\ \A v \in Int : (RangeIntersection(a, b) # None
                                /\ RangeIntersection(a, b)[1] <= v
                                /\ v <= RangeIntersection(a, b)[2])
                    <=> (a # None /\ a[1] <= v /\ v <= a[2] /\ b[1] <= v /\ v <= b[2])
<1>1. CASE a = None
  BY <1>1 DEF RangeIntersection, RangeOrNone
<1>2. CASE a # None
  <2> DEFINE start == IF a[1] >= b[1] THEN a[1] ELSE b[1]
             stop  == IF a[2] <= b[2] THEN a[2] ELSE b[2]
  <2>1. a[1] \in Int /\ a[2] \in Int /\ b[1] \in Int /\ b[2] \in Int
    BY <1>2 DEF RangeOrNone
  <2>2. start \in Int /\ stop \in Int
    BY <2>1
  <2>3. \A v \in Int : (start <= v /\ v <= stop)
                        <=> (a[1] <= v /\ v <= a[2] /\ b[1] <= v /\ v <= b[2])
    BY <2>1
  <2>4. RangeIntersection(a, b) = IF start > stop THEN None ELSE <<start, stop>>
    BY <1>2 DEF RangeIntersection
  <2> HIDE DEF start, stop
  <2>5. CASE start > stop
    <3>1. RangeIntersection(a, b) = None
      BY <2>4, <2>5
    <3>2. \A v \in Int : ~(start <= v /\ v <= stop)
      BY <2>2, <2>5
    <3> QED  BY <2>3, <3>1, <3>2 DEF RangeOrNone
  <2>6. CASE ~(start > stop)
    <3>1. RangeIntersection(a, b) = <<start, stop>>
      BY <2>4, <2>6
    <3>2. <<start, stop>> \in Int \X Int
      BY <2>2
    <3>3. <<start, stop>> # None
      BY <3>2, ConstantsAssumption
    <3>4. <<start, stop>>[1] = start /\ <<start, stop>>[2] = stop
      OBVIOUS
    <3> QED  BY <1>2, <2>3, <3>1, <3>2, <3>3, <3>4 DEF RangeOrNone
  <2> QED  BY <2>5, <2>6
<1> QED  BY <1>1, <1>2

\* functools.reduce() over a chain of ranges, step by step.
LEMMA ConstrainedIs ==
    ASSUME NEW t, t.ranges \in Seq(Int \X Int), t.ranges # <<>>
    PROVE  \E f : /\ f = [i \in DOMAIN t.ranges |->
                            IF i = 1 THEN t.ranges[1]
                            ELSE RangeIntersection(f[i - 1], t.ranges[i])]
                  /\ Constrained(t) = f[Len(t.ranges)]
<1> DEFINE r == t.ranges
           L == Len(t.ranges)
           Step(f, i) == IF i = 1 THEN r[1] ELSE RangeIntersection(f[i - 1], r[i])
           F(f) == f = [i \in DOMAIN r |-> IF i = 1 THEN r[1]
                                           ELSE RangeIntersection(f[i - 1], r[i])]
           P == {n \in Nat : n <= L =>
                    \E g : g = [i \in 1..n |-> Step(g, i)]}
<1>1. L \in Nat /\ DOMAIN r = 1..L
  OBVIOUS
<1>2. 0 \in P
  <2>1. PICK g : g = [i \in 1..0 |-> r[1]]
    OBVIOUS
  <2>2. g = [i \in 1..0 |-> Step(g, i)]
    BY <2>1
  <2> QED  BY <2>2
<1>3. ASSUME NEW n \in P PROVE n + 1 \in P
  <2>1. n \in Nat /\ n + 1 \in Nat
    OBVIOUS
  <2>2. SUFFICES ASSUME n + 1 <= L PROVE \E g : g = [i \in 1..(n + 1) |-> Step(g, i)]
    BY <2>1
  <2>3. PICK g : g = [i \in 1..n |-> Step(g, i)]
    BY <1>1, <2>1, <2>2
  <2> DEFINE h == [i \in 1..(n + 1) |-> Step(g, i)]
  <2>4. \A i \in 1..(n + 1) : i # 1 => i - 1 \in 1..n
    BY <2>1
  <2>5. \A i \in 1..n : g[i] = h[i]
    BY <2>1, <2>3
  <2>6. \A i \in 1..(n + 1) : Step(g, i) = Step(h, i)
    <3> HIDE DEF h
    <3> QED  BY <2>4, <2>5
  <2>7. h = [i \in 1..(n + 1) |-> Step(h, i)]
    <3> HIDE DEF Step
    <3> QED  BY <2>6
  <2> QED  BY <2>7
<1>4. P = Nat
  BY <1>2, <1>3, AllNumbers
<1>5. \E f : F(f)
  <2>1. L \in P /\ L <= L
    <3> HIDE DEF P
    <3> QED  BY <1>1, <1>4
  <2>2. PICK g : g = [i \in 1..L |-> Step(g, i)]
    BY <2>1
  <2>3. F(g)
    BY <1>1, <2>2
  <2> HIDE DEF F
  <2> QED  BY <2>3
<1>6. Constrained(t) = (CHOOSE f : F(f))[L]
  BY DEF Constrained
<1> QED  BY <1>5, <1>6

\* Whatever the chain of its constraints, the intersection is a range that has
\* the values that all of them allow, or None when there are none.
LEMMA ConstrainedExactly ==
    ASSUME NEW t, t.ranges \in Seq(Int \X Int), t.ranges # <<>>
    PROVE  /\ Constrained(t) \in RangeOrNone
           /\ \A v \in Int : (Constrained(t) # None /\ Constrained(t)[1] <= v
                                                   /\ v <= Constrained(t)[2])
                    <=> Within(t.ranges, Len(t.ranges), v)
<1> DEFINE r == t.ranges
           L == Len(t.ranges)
           In(c, v) == c # None /\ c[1] <= v /\ v <= c[2]
<1>1. L \in Nat \ {0} /\ DOMAIN r = 1..L /\ \A i \in 1..L : r[i] \in Int \X Int
  OBVIOUS
<1>2. PICK f : /\ f = [i \in 1..L |-> IF i = 1 THEN r[1]
                                      ELSE RangeIntersection(f[i - 1], r[i])]
               /\ Constrained(t) = f[L]
  BY <1>1, ConstrainedIs
<1> DEFINE Exact(n) == f[n] \in RangeOrNone /\ \A v \in Int : In(f[n], v) <=> Within(r, n, v)
           P == {n \in Nat : n + 1 <= L => Exact(n + 1)}
<1>3. 0 \in P
  <2>0. 1 \in 1..L
    BY <1>1
  <2>1. f[1] = r[1] /\ r[1] \in Int \X Int /\ r[1] # None
    <3>1. r[1] \in Int \X Int /\ None \notin Int \X Int
      BY <1>1, <2>0, ConstantsAssumption
    <3>2. f[1] = r[1]
      BY <1>2, <2>0
    <3> QED  BY <3>1, <3>2
  <2>2. \A v : Within(r, 1, v) <=> (r[1][1] <= v /\ v <= r[1][2])
    BY DEF Within
  <2>3. Exact(1)
    BY <2>1, <2>2 DEF RangeOrNone
  <2> QED  BY <2>3
<1>4. ASSUME NEW n \in P PROVE n + 1 \in P
  <2>1. n \in Nat /\ n + 1 \in Nat /\ n + 2 \in Nat /\ (n + 1) + 1 = n + 2
    OBVIOUS
  <2>2. SUFFICES ASSUME n + 2 <= L PROVE Exact(n + 2)
    BY <2>1
  <2>3. Exact(n + 1)
    <3>1. n + 1 <= L
      BY <1>1, <2>1, <2>2
    <3> HIDE DEF Exact
    <3> QED  BY <3>1
  <2>4. f[n + 2] = RangeIntersection(f[n + 1], r[n + 2])
    <3>1. n + 2 \in 1..L /\ n + 2 # 1 /\ (n + 2) - 1 = n + 1
      BY <1>1, <2>1, <2>2, SMTT(20)
    <3> QED  BY <1>2, <3>1
  <2>5. r[n + 2] \in Int \X Int
    BY <1>1, <2>1, <2>2
  <2>6. \A v \in Int : Within(r, n + 2, v)
            <=> (Within(r, n + 1, v) /\ r[n + 2][1] <= v /\ v <= r[n + 2][2])
    <3>1. 1..(n + 2) = 1..(n + 1) \cup {n + 2}
      BY <2>1
    <3> QED  BY <3>1 DEF Within
  <2> HIDE DEF P
  <2>7. f[n + 1] \in RangeOrNone
    BY <2>3
  <2>8. /\ f[n + 2] \in RangeOrNone
        /\ \A v \in Int : In(f[n + 2], v)
                <=> (In(f[n + 1], v) /\ r[n + 2][1] <= v /\ v <= r[n + 2][2])
    <3>1. /\ RangeIntersection(f[n + 1], r[n + 2]) \in RangeOrNone
          /\ \A v \in Int : In(RangeIntersection(f[n + 1], r[n + 2]), v)
                <=> (In(f[n + 1], v) /\ r[n + 2][1] <= v /\ v <= r[n + 2][2])
      <4> HIDE DEF r
      <4> QED  BY <2>5, <2>7, IntersectionIs
    <3> QED  BY <2>4, <3>1
  <2> QED  BY <2>3, <2>6, <2>8
<1>5. P = Nat
  BY <1>3, <1>4, AllNumbers
<1>6. Exact(L)
  <2>1. L - 1 \in P /\ (L - 1) + 1 = L
    <3> HIDE DEF P
    <3> QED  BY <1>1, <1>5
  <2> QED  BY <1>1, <2>1
<1> QED  BY <1>2, <1>6

-----------------------------------------------------------------------------
(* What the constants are                                                  *)

LEMMA TypeIs ==
    ASSUME NEW t \in Types
    PROVE  /\ t.kind \in {"bits", "enum", "int"}
           /\ t.names \in SUBSET Nat /\ IsFiniteSet(t.names)
           /\ t.kind = "int" => t.ranges \in Seq(Int \X Int) /\ t.ranges # <<>>
           /\ t.kind # "int" => t.names # {}
<1>1. t \in SNMPType
  BY ConstantsAssumption
<1> QED  BY <1>1, ConstantsAssumption DEF SNMPType

\* The entries of an enum are the numbers up to its last named value.
LEMMA EntriesAre ==
    ASSUME NEW t \in Types, t.kind # "int"
    PROVE  /\ Max(t.names) \in Nat
           /\ t.names \subseteq 0..Max(t.names)
           /\ DOMAIN EnumFromNamedValues(t.names) = 0..Max(t.names)
           /\ \A x \in 0..Max(t.names) :
                EnumFromNamedValues(t.names)[x] = "named" <=> x \in t.names
<1>1. Max(t.names) \in t.names /\ \A x \in t.names : x <= Max(t.names)
  BY TypeIs, MaxIs
<1>2. t.names \in SUBSET Nat
  BY TypeIs
<1> QED  BY <1>1, <1>2 DEF EnumFromNamedValues

-----------------------------------------------------------------------------
(* What can be written                                                     *)

\* On both sides of the 63-bit boundary, the type and the limits that Tango is
\* given for a chain of ranges let through what the ranges allow, and no more.
LEMMA AcceptsTheRange ==
    ASSUME NEW t \in Types, t.kind = "int", t.others = {}, Buildable(t), NEW v \in Int
    PROVE  TangoAccepts(t, v) <=> Legal(t, v)
<1> DEFINE c == Constrained(t)
<1>1. t.ranges \in Seq(Int \X Int) /\ t.ranges # <<>>
  BY TypeIs
<1>2. c # None /\ c \in Int \X Int
  BY <1>1, ConstrainedExactly DEF Buildable, RangeOrNone
<1>3. c[1] \in Int /\ c[2] \in Int
  BY <1>2
<1>4. \A w \in Int : (c[1] <= w /\ w <= c[2]) <=> Legal(t, w)
  <2>1. \A w : Legal(t, w) <=> Within(t.ranges, Len(t.ranges), w)
    BY DEF Legal, Within
  <2> QED  BY <1>1, <1>2, <2>1, ConstrainedExactly
<1>5. PICK i \in 1..Len(t.ranges) :
        /\ t.ranges[i][2] <= UnsignedMax
        /\ \/ t.ranges[i][1] >= 0
           \/ t.ranges[i][1] >= -SignedMax - 1 /\ t.ranges[i][2] <= SignedMax
  <2>1. DOMAIN t.ranges = 1..Len(t.ranges)
    BY <1>1
  <2> QED  BY <2>1, FlavoursAssumption
<1>6. t.ranges[i] \in Int \X Int /\ t.ranges[i][1] \in Int /\ t.ranges[i][2] \in Int
  BY <1>1
<1>7. \A w \in Int : c[1] <= w /\ w <= c[2]
                        => t.ranges[i][1] <= w /\ w <= t.ranges[i][2]
  BY <1>4 DEF Legal
<1>8. TangoAccepts(t, v) <=>
        /\ v >= c[1]
        /\ c[2] # UnsignedMax => v <= c[2]
        /\ v \in IF c[2] > SignedMax THEN 0..UnsignedMax ELSE (-SignedMax - 1)..SignedMax
  BY <1>3, ConstantsAssumption DEF TangoAccepts, IntegerArgs, RangeArgs
<1> HIDE DEF c
<1>9. SignedMax \in Nat /\ UnsignedMax \in Nat /\ SignedMax < UnsignedMax
  BY ConstantsAssumption
<1>10. CASE v < c[1] \/ v > c[2]
  <2>1. ~Legal(t, v)
    <3>1. ~(c[1] <= v /\ v <= c[2])
      BY <1>3, <1>10
    <3> QED  BY <1>4, <3>1
  <2>2. CASE v < c[1]
    BY <1>3, <1>8, <2>1, <2>2
  <2>3. CASE v > c[2] /\ c[2] # UnsignedMax
    BY <1>3, <1>8, <2>1, <2>3
  <2>4. CASE v > c[2] /\ c[2] = UnsignedMax
    <3>1. ~(v \in IF c[2] > SignedMax THEN 0..UnsignedMax ELSE (-SignedMax - 1)..SignedMax)
      BY <1>9, <2>4
    <3> QED  BY <1>8, <2>1, <3>1
  <2> QED  BY <1>10, <2>2, <2>3, <2>4
<1>11. CASE c[1] <= v /\ v <= c[2]
  <2> DEFINE lo == t.ranges[i][1]
             hi == t.ranges[i][2]
  <2>1. lo <= c[1] /\ c[2] <= hi
    BY <1>3, <1>7, <1>11
  <2>2. c[2] <= UnsignedMax /\ (lo >= 0 \/ (lo >= -SignedMax - 1 /\ hi <= SignedMax))
    BY <1>3, <1>5, <1>6, <1>9, <2>1
  <2> HIDE DEF lo, hi
  <2>3. lo \in Int /\ hi \in Int
    BY <1>6 DEF lo, hi
  <2>4. v \in IF c[2] > SignedMax THEN 0..UnsignedMax ELSE (-SignedMax - 1)..SignedMax
    BY <1>3, <1>9, <1>11, <2>1, <2>2, <2>3
  <2> QED  BY <1>3, <1>4, <1>8, <1>9, <1>11, <2>4
<1> QED  BY <1>3, <1>10, <1>11

\* The values explored of an integer or an enum are integers, those of bits are
\* sets of its entries.
LEMMA CandidateIs ==
    ASSUME NEW t \in Types, NEW v \in Candidates(t)
    PROVE  /\ t.kind # "bits" => v \in Int
           /\ t.kind = "bits" => v \subseteq 0..Max(t.names)
BY EntriesAre, ConstantsAssumption DEF Candidates

\* A legal value of an integer whose ranges stay within DevLong64 is a DevLong64.
LEMMA LegalIsLong ==
    ASSUME NEW t \in Types, t.kind = "int", FitsLong(t), NEW v \in Int, Legal(t, v)
    PROVE  v \in (-SignedMax - 1)..SignedMax
<1>1. t.ranges \in Seq(Int \X Int) /\ t.ranges # <<>>
  BY TypeIs
<1>2. Within(t.ranges, Len(t.ranges), v)
  BY DEF Legal, Within
<1>3. Constrained(t) # None /\ Constrained(t) \in Int \X Int /\ v <= Constrained(t)[2]
  BY <1>1, <1>2, ConstrainedExactly DEF RangeOrNone
<1>4. SignedMax \in Nat /\ v <= SignedMax
  BY <1>3, ConstantsAssumption DEF FitsLong
<1>5. PICK i \in DOMAIN t.ranges :
        t.ranges[i][1] >= 0 \/ t.ranges[i][1] >= -SignedMax - 1
  BY FlavoursAssumption
<1>6. i \in 1..Len(t.ranges) /\ t.ranges[i][1] \in Int
  BY <1>1
<1>7. t.ranges[i][1] <= v
  BY <1>2, <1>6 DEF Within
<1> QED  BY <1>4, <1>5, <1>6, <1>7

\* Such an attribute is a DevLong64, with limits that let it through.
LEMMA AcceptsTheLegal ==
    ASSUME NEW t \in Types, t.kind = "int", Buildable(t), FitsLong(t),
           NEW v \in Int, Legal(t, v)
    PROVE  TangoAccepts(t, v) /\ PythonToSnmp(t, v) = v
<1>1. v \in (-SignedMax - 1)..SignedMax
  BY LegalIsLong
<1>2. CASE t.others # {}
  <2>1. IntegerArgs(t) = PlainInt
    BY <1>2 DEF IntegerArgs
  <2> QED  BY <1>1, <2>1 DEF PlainInt, TangoAccepts, PythonToSnmp
<1>3. CASE t.others = {}
  <2>1. TangoAccepts(t, v)
    BY <1>3, AcceptsTheRange
  <2>2. Constrained(t) # None
    BY <1>3 DEF Buildable
  <2>3. Constrained(t) \in Int \X Int /\ Constrained(t)[2] <= SignedMax
    BY <2>2, TypeIs, ConstrainedExactly DEF RangeOrNone, FitsLong
  <2> DEFINE top == Constrained(t)[2]
  <2>4. IntegerArgs(t).unsigned <=> top > SignedMax
    BY <1>3 DEF IntegerArgs, RangeArgs
  <2>5. top \in Int /\ top <= SignedMax
    BY <2>3
  <2> HIDE DEF top
  <2>6. ~IntegerArgs(t).unsigned
    BY <2>4, <2>5, ConstantsAssumption
  <2> QED  BY <2>1, <2>6 DEF PythonToSnmp
<1> QED  BY <1>2, <1>3

\* Nothing that the MIB allows is refused, up to the 63-bit boundary: neither by
\* the types and limits that _attr_args_from_integer_type() gives Tango, whatever
\* constraints the object has, nor by the labels of an enum, nor by
\* python_to_snmp().
THEOREM LegalIsWritableAlways == Spec => []LegalIsWritable
<1> DEFINE Inv == type \in Types /\ Buildable(type)
<1>1. Init => Inv
  BY DEF Init
<1>2. Inv /\ [Next]_vars => Inv'
  BY DEF Next, Write, AgentSets, Poll, vars
<1>3. Inv => LegalIsWritable
  <2> SUFFICES ASSUME Inv, NEW v \in Candidates(type), FitsLong(type), Legal(type, v)
               PROVE  TangoAccepts(type, v) /\ PythonToSnmp(type, v) # None
    BY DEF LegalIsWritable
  <2>1. CASE type.kind = "int"
    <3>1. v \in Int /\ v # None
      BY <2>1, CandidateIs, ConstantsAssumption
    <3> QED  BY <2>1, <3>1, AcceptsTheLegal
  <2>2. CASE type.kind = "enum"
    <3>1. v \in Int /\ v # None
      BY <2>2, CandidateIs, ConstantsAssumption
    <3>2. v \in type.names
      BY <2>2 DEF Legal
    <3>3. v \in 0..Max(type.names) /\ EnumFromNamedValues(type.names)[v] = "named"
      BY <2>2, <3>2, EntriesAre
    <3>4. TangoAccepts(type, v)
      BY <2>2, <3>3, EntriesAre DEF TangoAccepts
    <3> QED  BY <2>2, <3>1, <3>3, <3>4 DEF PythonToSnmp
  <2>3. CASE type.kind = "bits"
    <3>1. v \in SUBSET DOMAIN EnumFromNamedValues(type.names)
      BY <2>3, CandidateIs, EntriesAre
    <3>2. TangoAccepts(type, v)
      BY <2>3, <3>1 DEF TangoAccepts
    <3> QED  BY <2>3, <3>1, <3>2, BytesAssumption DEF PythonToSnmp
  <2> QED  BY <2>1, <2>2, <2>3, TypeIs
<1> QED  BY <1>1, <1>2, <1>3, PTL DEF Spec

\* Bits that clients may write have a name each: python_to_snmp() does not look
\* for the entries that fill gaps.
NoGapsWhenWritten ==
    \A t \in Types : t.kind = "bits" /\ t.writable => t.names = 0..Max(t.names)

\* Of types with no other constraints than ranges, nothing but what the MIB allows
\* gets into a request: what Tango lets through by the limits and labels that it
\* was given, python_to_snmp() stops.
THEOREM OnlyLegalIsWrittenAlways ==
    ASSUME NoGapsWhenWritten
    PROVE  Spec => []OnlyLegalIsWritten
<1> DEFINE Inv == type \in Types /\ Buildable(type) /\ OnlyLegalIsWritten
<1>1. Init => Inv
  BY DEF Init, OnlyLegalIsWritten
<1>2. Inv /\ [Next]_vars => Inv'
  <2> SUFFICES ASSUME Inv, [Next]_vars PROVE Inv'
    OBVIOUS
  <2>1. ASSUME NEW v \in Candidates(type), Write(v) PROVE Inv'
    <3>1. ASSUME type.others = {} PROVE Legal(type, v)
      <4>1. type.writable /\ TangoAccepts(type, v) /\ PythonToSnmp(type, v) # None
        BY <2>1 DEF Write
      <4>2. CASE type.kind = "int"
        BY <3>1, <4>1, <4>2, CandidateIs, AcceptsTheRange
      <4>3. CASE type.kind = "enum"
        <5>1. v \in 0..Max(type.names) /\ EnumFromNamedValues(type.names)[v] = "named"
          BY <4>1, <4>3, EntriesAre DEF TangoAccepts, PythonToSnmp
        <5> QED  BY <4>3, <5>1, EntriesAre DEF Legal
      <4>4. CASE type.kind = "bits"
        <5>1. v \subseteq type.names
          BY <4>1, <4>4, CandidateIs DEF NoGapsWhenWritten
        <5> QED  BY <4>4, <5>1 DEF Legal
      <4> QED  BY <4>2, <4>3, <4>4, TypeIs
    <3> QED  BY <2>1, <3>1 DEF Write, OnlyLegalIsWritten
  <2>2. ASSUME NEW v \in Candidates(type), AgentSets(v) PROVE Inv'
    BY <2>2 DEF AgentSets, OnlyLegalIsWritten
  <2>3. CASE Poll
    BY <2>3 DEF Poll, OnlyLegalIsWritten
  <2>4. CASE UNCHANGED vars
    BY <2>4 DEF vars, OnlyLegalIsWritten
  <2> QED  BY <2>1, <2>2, <2>3, <2>4 DEF Next
<1>3. Inv => OnlyLegalIsWritten
  OBVIOUS
<1> QED  BY <1>1, <1>2, <1>3, PTL DEF Spec

-----------------------------------------------------------------------------
(* What is read back                                                       *)

\* Bits that clients may write fit into a byte: python_to_snmp() shifts its mask
\* by the whole number of a bit.
OneByteWhenWritten ==
    \A t \in Types : t.kind = "bits" /\ t.writable => t.names \subseteq 0..7

\* Up to eight bits come back from the byte that they are put into.
LEMMA OneByteBack ==
    ASSUME NEW labels \in 1..8, NEW bits \in SUBSET (0..7)
    PROVE  DecodeBits(EncodeBits(labels, bits)) = bits
<1> DEFINE bytes == EncodeBits(labels, bits)
<1>1. (labels + 7) \div 8 = 1
  OBVIOUS
<1>2. \A b \in bits : b \div 8 = 0 /\ Mask(b) = {b}
  BY DEF Mask
<1>3. DOMAIN bytes = {0} /\ bytes[0] = bits
  <2>1. {b \in bits : b \div 8 = 0} = bits
    BY <1>2
  <2>2. UNION {Mask(b) : b \in bits} = bits
    <3>1. UNION {Mask(b) : b \in bits} = UNION {{b} : b \in bits}
      BY <1>2
    <3> QED  BY <3>1
  <2>3. 0..(1 - 1) = {0}
    OBVIOUS
  <2>4. bytes = [k \in {0} |-> UNION {Mask(bit) : bit \in {b \in bits : b \div 8 = k}}]
    BY <1>1, <2>3 DEF EncodeBits
  <2> QED  BY <2>1, <2>2, <2>4
<1> HIDE DEF bytes
<1>4. \A b : b \in DecodeBits(bytes) <=>
            \E q \in {0} \X (0..7) : q[2] \in bits /\ b = 8 * q[1] + q[2]
  BY <1>3 DEF DecodeBits
<1>5. \A q \in {0} \X (0..7) : q[1] = 0 /\ q[2] \in 0..7 /\ 8 * q[1] + q[2] = q[2]
  OBVIOUS
<1>6. \A b \in bits : <<0, b>> \in {0} \X (0..7) /\ <<0, b>>[2] = b
  OBVIOUS
<1>7. DecodeBits(bytes) = bits
  <2>1. \A b \in DecodeBits(bytes) : b \in bits
    BY <1>4, <1>5
  <2>2. ASSUME NEW b \in bits PROVE b \in DecodeBits(bytes)
    <3>1. 8 * <<0, b>>[1] + <<0, b>>[2] = b
      BY <1>5, <1>6
    <3> QED  BY <1>4, <1>6, <3>1
  <2> QED  BY <2>1, <2>2
<1> QED  BY <1>7 DEF bytes

\* Bits of any number come back from the bytes that the agent lays them out in.
LEMMA AgentsBitsBack ==
    ASSUME NEW t \in Types, t.kind = "bits", NEW v, v \subseteq 0..Max(t.names)
    PROVE  DecodeBits(OnTheWire(t, v)) = v
<1> DEFINE M == Max(t.names)
           bytes == OnTheWire(t, v)
<1>1. M \in Nat
  BY EntriesAre
<1> HIDE DEF M
<1>2. Bytes(t) - 1 = M \div 8
  BY <1>1 DEF Bytes, M
<1>3. bytes = [k \in 0..(M \div 8) |-> {b % 8 : b \in {c \in v : c \div 8 = k}}]
  BY <1>2 DEF OnTheWire
<1>4. ASSUME NEW b \in v
      PROVE  b \in Nat /\ b \div 8 \in 0..(M \div 8) /\ b % 8 \in 0..7
                /\ b = 8 * (b \div 8) + (b % 8)
  <2>1. b \in Nat /\ b <= M
    BY <1>1 DEF M
  <2> HIDE DEF bytes
  <2>2. b \div 8 \in Nat /\ b % 8 \in 0..7
    BY <2>1
  <2>4. b = 8 * (b \div 8) + (b % 8)
    BY <2>1
  <2>3. M \div 8 \in Nat /\ b \div 8 <= M \div 8
    BY <1>1, <2>1
  <2> QED  BY <2>1, <2>2, <2>3, <2>4
<1> HIDE DEF bytes
<1>5. ASSUME NEW b \in v PROVE b \in DecodeBits(bytes)
  <2>1. b % 8 \in bytes[b \div 8]
    BY <1>3, <1>4
  <2>2. <<b \div 8, b % 8>> \in {q \in (DOMAIN bytes) \X (0..7) : q[2] \in bytes[q[1]]}
    BY <1>3, <1>4, <2>1
  <2> QED  BY <1>4, <2>2 DEF DecodeBits
<1>6. ASSUME NEW b \in DecodeBits(bytes) PROVE b \in v
  <2>1. PICK q \in (DOMAIN bytes) \X (0..7) : q[2] \in bytes[q[1]] /\ b = 8 * q[1] + q[2]
    BY <1>6 DEF DecodeBits
  <2>2. q[1] \in 0..(M \div 8) /\ q[2] \in 0..7
    BY <1>3, <2>1
  <2>3. PICK c \in v : c \div 8 = q[1] /\ c % 8 = q[2]
    BY <1>3, <2>1, <2>2
  <2>4. c = b
    BY <1>4, <2>1, <2>3
  <2> QED  BY <2>4
<1>7. DecodeBits(bytes) = v
  BY <1>5, <1>6
<1> QED  BY <1>7 DEF bytes

\* What the object holds stands for what was put into it, and what was read is
\* what the object held then.
BackInv ==
    /\ type \in Types
    /\ held # None /\ type.scale = None => SnmpToPython(type, held) = meant
    /\ read # None => held # None /\ read = SnmpToPython(type, held)

\* What is put into an object, by a client or by the agent, is what the next poll
\* reads: snmp_to_python() undoes python_to_snmp() and the agent's own encoding.
THEOREM ReadsBackAlways ==
    ASSUME OneByteWhenWritten
    PROVE  Spec => []ReadsBack
<1>1. Init => BackInv
  BY DEF Init, BackInv
<1>2. BackInv /\ [Next]_vars => BackInv'
  <2> SUFFICES ASSUME BackInv, [Next]_vars PROVE BackInv'
    OBVIOUS
  <2> USE DEF BackInv
  <2>1. ASSUME NEW v \in Candidates(type), Write(v) PROVE BackInv'
    <3>1. /\ type.writable /\ held' = PythonToSnmp(type, v) /\ meant' = v
          /\ read' = None /\ type' = type /\ PythonToSnmp(type, v) # None
      BY <2>1 DEF Write
    <3>2. ASSUME type.scale = None PROVE SnmpToPython(type, PythonToSnmp(type, v)) = v
      <4>1. CASE type.kind = "bits"
        <5>1. v \subseteq 0..Max(type.names) /\ Max(type.names) \in Nat
          BY <4>1, CandidateIs, EntriesAre
        <5>2. Max(type.names) \in 0..7
          BY <3>1, <4>1, TypeIs, MaxIs DEF OneByteWhenWritten
        <5>3. Max(type.names) + 1 \in 1..8 /\ v \in SUBSET (0..7)
          BY <5>1, <5>2
        <5> QED  BY <4>1, <5>3, OneByteBack DEF PythonToSnmp, SnmpToPython
      <4>2. CASE type.kind # "bits"
        <5>1. PythonToSnmp(type, v) = v
          BY <3>1, <4>2 DEF PythonToSnmp
        <5> QED  BY <3>2, <4>2, <5>1 DEF SnmpToPython, Scaled
      <4> QED  BY <4>1, <4>2
    <3> QED  BY <3>1, <3>2
  <2>2. ASSUME NEW v \in Candidates(type), AgentSets(v) PROVE BackInv'
    <3>1. held' = OnTheWire(type, v) /\ meant' = v /\ read' = None /\ type' = type
      BY <2>2 DEF AgentSets
    <3>2. ASSUME type.scale = None PROVE SnmpToPython(type, OnTheWire(type, v)) = v
      <4>1. CASE type.kind = "bits"
        BY <4>1, CandidateIs, AgentsBitsBack DEF SnmpToPython
      <4>2. CASE type.kind # "bits"
        BY <3>2, <4>2 DEF SnmpToPython, Scaled, OnTheWire
      <4> QED  BY <4>1, <4>2
    <3> QED  BY <3>1, <3>2
  <2>3. CASE Poll
    BY <2>3 DEF Poll
  <2>4. CASE UNCHANGED vars
    BY <2>4 DEF vars
  <2> QED  BY <2>1, <2>2, <2>3, <2>4 DEF Next
<1>3. BackInv => ReadsBack
  BY DEF BackInv, ReadsBack
<1> QED  BY <1>1, <1>2, <1>3, PTL DEF Spec
====
