------------------------ MODULE DeviceDefinition_proofs ------------------------
(***************************************************************************)
(* Proofs about DeviceDefinition, for any number of devices, any library   *)
(* and any number of initialisations.                                      *)
(*                                                                         *)
(* Three parts: the working directory that the devices share while they    *)
(* load, the parser, and the chunks of a poll.  What names a template      *)
(* makes is left open: FormattedName and Parseable are never expanded.     *)
(***************************************************************************)
EXTENDS DeviceDefinition, DataTheorems

Stages == Loading \cup {"new", "parse", "ready", "failed"}

\* A device has its own attributes, as parsed from its own file.
Parsed(d) ==
    /\ file[d] \in DOMAIN Library /\ Library[file[d]] # Broken
    /\ Parseable(Library[file[d]])
    /\ attributes[d] = ParseDeviceDefinition(Library[file[d]])

-----------------------------------------------------------------------------
(* The invariant of loading                                                *)

LoadType ==
    /\ stage \in [Device -> Stages]
    /\ file \in [Device -> DOMAIN Library \cup {NoFile}]
    /\ overlapped \in [Device -> BOOLEAN]
    /\ DOMAIN definition = Device /\ DOMAIN attributes = Device /\ DOMAIN polled = Device

\* Two devices that are loading at the same time both know.
LoadsMeet ==
    \A d, e \in Device : d # e /\ stage[d] \in Loading /\ stage[e] \in Loading
                            => overlapped[d]

\* Alone, a device finds itself in the library when it opens its file.
InLibrary ==
    \A d \in Device : stage[d] = "open" /\ ~overlapped[d] => cwd = "library"

\* Alone, it has its own file to parse.
HasItsFile ==
    \A d \in Device : stage[d] \in {"restore", "parse"} /\ ~overlapped[d] =>
        /\ file[d] \in DOMAIN Library /\ Library[file[d]] # Broken
        /\ definition[d] = Library[file[d]]

\* Alone, it becomes ready with what its own file is parsed to.
LoadedAlone ==
    \A d \in Device : stage[d] = "ready" /\ ~overlapped[d] => Parsed(d)

LoadInv ==
    /\ LoadType /\ LoadsMeet /\ InLibrary /\ HasItsFile /\ LoadedAlone
    /\ OnlyOwnMistakesFail

LEMMA LoadInvInit == Init => LoadInv
BY DEF Init, LoadInv, LoadType, LoadsMeet, InLibrary, HasItsFile, LoadedAlone,
       OnlyOwnMistakesFail, Stages, Loading, device

LEMMA LoadTypeStep == LoadType /\ [Next]_vars => LoadType'
<1> SUFFICES ASSUME LoadType, [Next]_vars PROVE LoadType'
  OBVIOUS
<1> USE DEF LoadType, Stages, Loading, Moves, device
<1>1. ASSUME NEW d \in Device, Step(d) PROVE LoadType'
  <2>1. CASE BeginInit(d)
    BY <2>1 DEF BeginInit
  <2>2. CASE GetCwd(d) \/ Chdir(d) \/ ReadFile(d) \/ Restore(d)
    BY <2>2 DEF GetCwd, Chdir, ReadFile, Restore
  <2>3. CASE Parse(d) \/ Poll(d)
    BY <2>3 DEF Parse, Poll
  <2> QED  BY <1>1, <2>1, <2>2, <2>3 DEF Step
<1>2. CASE UNCHANGED vars
  BY <1>2 DEF vars
<1> QED  BY <1>1, <1>2 DEF Next

\* A step of one device leaves the others alone, but for the working directory,
\* and unless it begins to load.
LEMMA OthersStay ==
    ASSUME LoadType, NEW d \in Device, Step(d), ~BeginInit(d)
    PROVE  /\ file' = file /\ overlapped' = overlapped /\ authority' = authority
           /\ \A e \in Device \ {d} :
                /\ stage'[e] = stage[e]
                /\ definition'[e] = definition[e] /\ attributes'[e] = attributes[e]
BY DEF Step, GetCwd, Chdir, ReadFile, Restore, Parse, Poll, Moves, device, LoadType

\* Only a device that is loading changes the working directory.
LEMMA DirectoryStays ==
    ASSUME NEW d \in Device, Step(d), cwd' # cwd
    PROVE  stage[d] \in {"chdir", "restore"} /\ ~BeginInit(d)
BY DEF Step, BeginInit, GetCwd, Chdir, ReadFile, Restore, Parse, Poll, Moves, device

\* Who begins to load meets all who are loading.
LEMMA BeginInitMeets ==
    ASSUME LoadInv, NEW d \in Device, BeginInit(d)
    PROVE  LoadInv'
<1> USE DEF LoadInv
<1>1. LoadType'
  BY LoadTypeStep DEF Next, Step
<1>2. /\ stage[d] \notin Loading /\ stage' = [stage EXCEPT ![d] = "getcwd"]
      /\ overlapped'[d] = (\E e \in Device \ {d} : stage[e] \in Loading)
      /\ \A e \in Device \ {d} :
            overlapped'[e] = (overlapped[e] \/ stage[e] \in Loading)
      /\ UNCHANGED <<cwd, file, authority, definition, attributes>>
  <2>1. \A e \in Device : overlapped'[e] =
            IF e = d THEN {x \in Device \ {d} : stage[x] \in Loading} # {}
            ELSE overlapped[e] \/ e \in {x \in Device \ {d} : stage[x] \in Loading}
    BY DEF BeginInit
  <2> QED  BY <2>1 DEF BeginInit, Moves, LoadType, Loading
<1>3. stage'[d] = "getcwd" /\ \A e \in Device \ {d} : stage'[e] = stage[e]
  BY <1>2 DEF LoadType
<1>4. LoadsMeet'
  BY <1>2, <1>3 DEF LoadsMeet
<1>5. \A e \in Device : ~overlapped'[e] /\ e # d => ~overlapped[e]
  BY <1>2
<1>6. InLibrary' /\ HasItsFile' /\ LoadedAlone' /\ OnlyOwnMistakesFail'
  BY <1>2, <1>3, <1>5
     DEF InLibrary, HasItsFile, LoadedAlone, Parsed, OnlyOwnMistakesFail
<1> QED  BY <1>1, <1>4, <1>6

\* The other steps change no overlap, so that what one of them must show is about
\* the device that takes it.
LEMMA LoadInvIfOwn ==
    ASSUME LoadInv, NEW d \in Device, Step(d), ~BeginInit(d),
           stage'[d] \in Loading => stage[d] \in Loading,
           ~overlapped[d] => /\ stage'[d] = "open" => cwd' = "library"
                             /\ stage'[d] \in {"restore", "parse"} =>
                                   /\ file[d] \in DOMAIN Library
                                   /\ Library[file[d]] # Broken
                                   /\ definition'[d] = Library[file[d]]
                             /\ stage'[d] = "ready" => Parsed(d)'
                             /\ stage'[d] = "failed" =>
                                   \/ file[d] = NoFile
                                   \/ Library[file[d]] = Broken
                                   \/ ~Parseable(Library[file[d]])
                                   \/ authority[d] \notin {{"V2"}, {"V3"}}
    PROVE  LoadInv'
<1>1. LoadType'
  BY LoadTypeStep DEF LoadInv, Next
<1>2. /\ file' = file /\ overlapped' = overlapped /\ authority' = authority
      /\ \A e \in Device \ {d} :
            /\ stage'[e] = stage[e]
            /\ definition'[e] = definition[e] /\ attributes'[e] = attributes[e]
  BY OthersStay DEF LoadInv
<1>3. LoadsMeet'
  BY <1>2 DEF LoadInv, LoadsMeet
<1>4. InLibrary'
  <2> SUFFICES ASSUME NEW e \in Device, stage'[e] = "open", ~overlapped[e]
               PROVE  cwd' = "library"
    BY <1>2 DEF InLibrary
  <2>1. CASE e # d
    <3>1. stage[e] = "open" /\ cwd = "library"
      BY <1>2, <2>1 DEF LoadInv, InLibrary
    <3>2. ASSUME cwd' # cwd PROVE FALSE
      <4>1. stage[d] \in Loading /\ stage[e] \in Loading
        BY <3>1, <3>2, DirectoryStays DEF Loading
      <4> QED  BY <2>1, <4>1 DEF LoadInv, LoadsMeet
    <3> QED  BY <3>1, <3>2
  <2> QED  BY <2>1
<1>5. HasItsFile'
  BY <1>2 DEF LoadInv, HasItsFile
<1>6. LoadedAlone'
  BY <1>2 DEF LoadInv, LoadedAlone, Parsed
<1>7. OnlyOwnMistakesFail'
  BY <1>2 DEF LoadInv, OnlyOwnMistakesFail
<1> QED  BY <1>1, <1>3, <1>4, <1>5, <1>6, <1>7 DEF LoadInv

LEMMA LoadInvNext == LoadInv /\ [Next]_vars => LoadInv'
<1> SUFFICES ASSUME LoadInv, [Next]_vars PROVE LoadInv'
  OBVIOUS
<1>1. ASSUME NEW d \in Device, Step(d) PROVE LoadInv'
  <2> USE DEF LoadInv, LoadType, Moves
  <2>1. CASE BeginInit(d)
    BY <2>1, BeginInitMeets
  <2>2. CASE GetCwd(d)
    <3>1. stage[d] = "getcwd" /\ stage'[d] = "chdir"
      BY <2>2 DEF GetCwd
    <3> QED  BY <1>1, <3>1, LoadInvIfOwn DEF Loading, BeginInit
  <2>3. CASE Chdir(d)
    <3>1. stage[d] = "chdir" /\ stage'[d] = "open" /\ cwd' = "library"
      BY <2>3 DEF Chdir
    <3> QED  BY <1>1, <3>1, LoadInvIfOwn DEF Loading, BeginInit
  <2>4. CASE ReadFile(d)
    <3> DEFINE here == IF cwd = "library" THEN Library ELSE Home
               found == file[d] \in DOMAIN here /\ here[file[d]] # Broken
    <3>1. stage[d] = "open" /\ stage'[d] = IF found THEN "restore" ELSE "failed"
      BY <2>4 DEF ReadFile
    <3>2. found => definition'[d] = here[file[d]]
      BY <2>4 DEF ReadFile
    <3>3. ~overlapped[d] => here = Library
      BY <3>1 DEF InLibrary
    <3>4. file[d] \in DOMAIN Library \/ file[d] = NoFile
      OBVIOUS
    <3> QED  BY <1>1, <3>1, <3>2, <3>3, <3>4, LoadInvIfOwn DEF Loading, BeginInit
  <2>5. CASE Restore(d)
    <3>1. stage[d] = "restore" /\ stage'[d] = "parse" /\ definition' = definition
      BY <2>5 DEF Restore
    <3> QED  BY <1>1, <3>1, LoadInvIfOwn DEF Loading, BeginInit, HasItsFile
  <2>6. CASE Parse(d)
    <3> DEFINE parseable == Parseable(definition[d])
               allowed == authority[d] \in {{"V2"}, {"V3"}}
    <3>1. /\ stage[d] = "parse"
          /\ stage'[d] = IF parseable /\ allowed THEN "ready" ELSE "failed"
      BY <2>6 DEF Parse
    <3>2. parseable => attributes'[d] = ParseDeviceDefinition(definition[d])
      BY <2>6 DEF Parse
    <3>3. ~overlapped[d] => /\ file[d] \in DOMAIN Library /\ Library[file[d]] # Broken
                            /\ definition[d] = Library[file[d]]
      BY <3>1 DEF HasItsFile
    <3>4. file' = file
      BY <2>6 DEF Parse, device
    <3>5. ~overlapped[d] /\ stage'[d] = "ready" => Parsed(d)'
      BY <3>1, <3>2, <3>3, <3>4 DEF Parsed
    <3> QED  BY <1>1, <3>1, <3>3, <3>5, LoadInvIfOwn DEF Loading, BeginInit
  <2>7. CASE Poll(d)
    <3>1. stage[d] = "ready" /\ UNCHANGED <<stage, file, definition, attributes, cwd, overlapped>>
      BY <2>7 DEF Poll, device
    <3>2. UNCHANGED authority
      BY <2>7 DEF Poll, device
    <3> QED
      BY <3>1, <3>2, LoadTypeStep, <1>1
         DEF LoadsMeet, InLibrary, HasItsFile, LoadedAlone, Parsed, OnlyOwnMistakesFail, Next
  <2> QED  BY <1>1, <2>1, <2>2, <2>3, <2>4, <2>5, <2>6, <2>7 DEF Step
<1>2. CASE UNCHANGED vars
  BY <1>2 DEF vars, device, LoadInv, LoadType, LoadsMeet, InLibrary, HasItsFile,
              LoadedAlone, Parsed, OnlyOwnMistakesFail
<1> QED  BY <1>1, <1>2 DEF Next

\* An initialisation that no other overlaps fails for a mistake in its own file or
\* properties only, wherever an earlier one that failed has left the process.
THEOREM OnlyOwnMistakesFailAlways == Spec => []OnlyOwnMistakesFail
<1>1. LoadInv => OnlyOwnMistakesFail
  BY DEF LoadInv
<1> QED  BY <1>1, LoadInvInit, LoadInvNext, PTL DEF Spec

-----------------------------------------------------------------------------
(* The parser                                                              *)

\* Every vector with every number of the range.
LEMMA ExtendedIs ==
    ASSUME NEW vectors \in Seq(Seq(Nat)), NEW r \in Nat \X Nat
    PROVE  /\ Extended(vectors, r) \in Seq(Seq(Nat))
           /\ \A e : e \in ToSet(Extended(vectors, r))
                <=> \E v \in ToSet(vectors), x \in r[1]..r[2] : e = Append(v, x)
<1> DEFINE m == r[2] + 1 - r[1]
           Row(v) == [k \in 1..m |-> Append(vectors[v], r[1] + k - 1)]
           rows == [v \in DOMAIN vectors |-> Row(v)]
<1>1. r[1] \in Nat /\ r[2] \in Nat /\ m \in Int
  OBVIOUS
<1>2. DOMAIN vectors = 1..Len(vectors) /\ Len(vectors) \in Nat
  OBVIOUS
<1> HIDE DEF m
<1>3. ASSUME NEW v \in DOMAIN vectors, NEW k \in 1..m
      PROVE  Append(vectors[v], r[1] + k - 1) \in Seq(Nat)
  <2>1. vectors[v] \in Seq(Nat) /\ r[1] + k - 1 \in Nat
    BY <1>1
  <2> QED  BY <2>1
<1>4. ASSUME NEW v \in DOMAIN vectors PROVE Row(v) \in Seq(Seq(Nat))
  <2>1. Row(v) \in [1..m -> Seq(Nat)]
    BY <1>3
  <2>2. CASE m \in Nat
    BY <2>1, <2>2
  <2>3. CASE m \notin Nat
    <3>1. 1..m = 1..0
      BY <1>1, <2>3
    <3>2. Row(v) \in [1..0 -> Seq(Nat)]
      BY <2>1, <3>1
    <3> HIDE DEF Row
    <3> QED  BY <3>2, ListIs
  <2> QED  BY <2>2, <2>3
<1>5. rows \in Seq(Seq(Seq(Nat))) /\ Len(rows) = Len(vectors)
  BY <1>2, <1>4
<1>6. Extended(vectors, r) = FlattenSeq(rows)
  BY DEF Extended, m
<1>7. ASSUME NEW v \in DOMAIN vectors, NEW e
      PROVE  e \in ToSet(rows[v]) <=> \E x \in r[1]..r[2] : e = Append(vectors[v], x)
  <2>1. e \in ToSet(rows[v]) <=> \E k \in 1..m : e = Append(vectors[v], r[1] + k - 1)
    BY DEF ToSet
  <2>2. ASSUME NEW k \in 1..m PROVE r[1] + k - 1 \in r[1]..r[2]
    BY <1>1 DEF m
  <2>3. ASSUME NEW x \in r[1]..r[2]
        PROVE  x - r[1] + 1 \in 1..m /\ r[1] + (x - r[1] + 1) - 1 = x
    <3> DEFINE lo == r[1]
               hi == r[2]
    <3>1. lo \in Nat /\ hi \in Nat /\ m = hi + 1 - lo /\ x \in lo..hi
      BY <1>1 DEF m
    <3> HIDE DEF lo, hi
    <3>2. x - lo + 1 \in 1..m /\ lo + (x - lo + 1) - 1 = x
      BY <3>1
    <3> QED  BY <3>2 DEF lo
  <2> QED  BY <2>1, <2>2, <2>3
<1> HIDE DEF rows
<1>8. \A e : e \in ToSet(FlattenSeq(rows)) <=> \E v \in 1..Len(vectors) : e \in ToSet(rows[v])
  BY <1>5, FlattenIs
<1>9. FlattenSeq(rows) \in Seq(Seq(Nat))
  BY <1>5, FlattenIs
<1>10. \A e : e \in ToSet(Extended(vectors, r))
            <=> \E v \in DOMAIN vectors : \E x \in r[1]..r[2] : e = Append(vectors[v], x)
  <2> SUFFICES ASSUME NEW e
               PROVE  e \in ToSet(FlattenSeq(rows))
                        <=> \E v \in DOMAIN vectors : \E x \in r[1]..r[2] :
                                e = Append(vectors[v], x)
    BY <1>6
  <2>1. \A v \in DOMAIN vectors : e \in ToSet(rows[v])
            <=> \E x \in r[1]..r[2] : e = Append(vectors[v], x)
    BY <1>7
  <2>2. e \in ToSet(FlattenSeq(rows)) <=> \E v \in DOMAIN vectors : e \in ToSet(rows[v])
    BY <1>2, <1>8
  <2> QED  BY <2>1, <2>2, Zenon
<1>11. ToSet(vectors) = {vectors[v] : v \in DOMAIN vectors}
  BY DEF ToSet
<1> QED  BY <1>6, <1>9, <1>10, <1>11

\* The vectors of a product: one number from each range.
InProduct(indexes, n, e) ==
    e \in [1..n -> Nat] /\ \A k \in 1..n : indexes[k][1] <= e[k] /\ e[k] <= indexes[k][2]

\* One more range, one more number.
LEMMA InProductNext ==
    ASSUME NEW indexes \in Seq(Nat \X Nat), NEW n \in Nat, n + 1 <= Len(indexes), NEW e
    PROVE  InProduct(indexes, n + 1, e)
             <=> \E v, x : /\ InProduct(indexes, n, v)
                           /\ x \in indexes[n + 1][1]..indexes[n + 1][2]
                           /\ e = Append(v, x)
<1> DEFINE r == indexes[n + 1]
<1>1. r \in Nat \X Nat /\ r[1] \in Nat /\ r[2] \in Nat /\ n + 1 \in Nat
  OBVIOUS
<1> HIDE DEF r
<1>0. ASSUME NEW v \in [1..n -> Nat], NEW x \in Nat
      PROVE  /\ Append(v, x) \in [1..(n + 1) -> Nat]
             /\ Append(v, x)[n + 1] = x /\ \A k \in 1..n : Append(v, x)[k] = v[k]
  <2>1. Append(v, x) \in [1..(n + 1) -> Nat]
    BY AppendIs
  <2>2. Append(v, x)[n + 1] = x
    BY AppendIs
  <2>3. \A k \in 1..n : Append(v, x)[k] = v[k]
    BY AppendIs
  <2> QED  BY <2>1, <2>2, <2>3
<1>2. ASSUME NEW v, NEW x, InProduct(indexes, n, v), x \in r[1]..r[2]
      PROVE  InProduct(indexes, n + 1, Append(v, x))
  <2>1. v \in [1..n -> Nat]
    BY <1>2 DEF InProduct
  <2>2. x \in Nat /\ r[1] <= x /\ x <= r[2]
    BY <1>1, <1>2
  <2>3. /\ Append(v, x) \in [1..(n + 1) -> Nat]
        /\ Append(v, x)[n + 1] = x /\ \A k \in 1..n : Append(v, x)[k] = v[k]
    BY <1>0, <2>1, <2>2
  <2>5. \A k \in 1..n : indexes[k][1] <= v[k] /\ v[k] <= indexes[k][2]
    BY <1>2 DEF InProduct
  <2>4. \A k \in 1..(n + 1) : k \in 1..n \/ k = n + 1
    OBVIOUS
  <2>6. ASSUME NEW k \in 1..(n + 1)
        PROVE  indexes[k][1] <= Append(v, x)[k] /\ Append(v, x)[k] <= indexes[k][2]
    <3>1. CASE k = n + 1
      BY <2>2, <2>3, <3>1 DEF r
    <3>2. CASE k \in 1..n
      BY <2>3, <2>5, <3>2
    <3> QED  BY <2>4, <3>1, <3>2
  <2> QED  BY <2>3, <2>6 DEF InProduct
<1>3. ASSUME InProduct(indexes, n + 1, e)
      PROVE  \E v, x : InProduct(indexes, n, v) /\ x \in r[1]..r[2] /\ e = Append(v, x)
  <2> DEFINE v == [k \in 1..n |-> e[k]]
             x == e[n + 1]
  <2>1. e \in [1..(n + 1) -> Nat] /\ \A k \in 1..n : k \in 1..(n + 1)
    BY <1>3 DEF InProduct
  <2>2. v \in [1..n -> Nat] /\ x \in Nat
    BY <2>1
  <2>3. InProduct(indexes, n, v)
    BY <1>3, <2>1, <2>2 DEF InProduct
  <2>4. x \in r[1]..r[2]
    BY <1>1, <1>3, <2>2 DEF InProduct, r
  <2>5. e = Append(v, x)
    <3>2. Append(v, x) \in [1..(n + 1) -> Nat] /\ Append(v, x)[n + 1] = x
          /\ \A k \in 1..n : Append(v, x)[k] = v[k]
      <4> HIDE DEF v, x
      <4> QED  BY <1>0, <2>2
    <3>3. \A k \in 1..(n + 1) : k \in 1..n \/ k = n + 1
      OBVIOUS
    <3>4. \A k \in 1..(n + 1) : Append(v, x)[k] = e[k]
      BY <3>2, <3>3
    <3> QED  BY <2>1, <3>2, <3>4
  <2> QED  BY <2>3, <2>4, <2>5
<1> QED  BY <1>2, <1>3 DEF r

\* itertools.product() makes every vector of the product, and nothing else.
LEMMA ProductIs ==
    ASSUME NEW indexes \in Seq(Nat \X Nat)
    PROVE  /\ Product(indexes) \in Seq(Seq(Nat))
           /\ \A e : e \in ToSet(Product(indexes)) <=> InProduct(indexes, Len(indexes), e)
<1> DEFINE L == Len(indexes)
           T == Seq(Seq(Nat))
           G == [p \in T \X (0..L) |->
                    IF p[2] = 0 THEN <<<<>>>> ELSE Extended(p[1], indexes[p[2]])]
           F(f) == f = [n \in 0..L |-> IF n = 0 THEN <<<<>>>>
                                       ELSE Extended(f[n - 1], indexes[n])]
<1>1. L \in Nat /\ \A i \in 1..L : indexes[i] \in Nat \X Nat
  OBVIOUS
<1>2. <<<<>>>> \in T
  OBVIOUS
<1>3. \A vectors \in T, i \in 1..L : Extended(vectors, indexes[i]) \in T
  BY <1>1, ExtendedIs
<1> HIDE DEF T
<1>4. G \in [T \X (0..L) -> T]
  <2>1. ASSUME NEW p \in T \X (0..L), p[2] # 0 PROVE Extended(p[1], indexes[p[2]]) \in T
    <3>1. p[1] \in T /\ p[2] \in 1..L
      BY <1>1, <2>1
    <3> QED  BY <1>3, <3>1
  <2> QED  BY <1>2, <2>1
<1> HIDE DEF G
<1>5. PICK f : RecursiveOn(f, 0, L, T, <<<<>>>>, G)
  <2>1. 0 \in Nat /\ 0 <= L
    BY <1>1
  <2> HIDE DEF L
  <2> QED  BY <1>1, <1>2, <1>4, <2>1, Recursion
<1> USE DEF RecursiveOn
<1>6. ASSUME NEW i \in 1..L PROVE f[i] = Extended(f[i - 1], indexes[i])
  <2>0. i \in 0..L /\ i # 0 /\ i - 1 \in 0..L
    BY <1>1
  <2>1. <<f[i - 1], i>> \in T \X (0..L)
    BY <1>5, <2>0
  <2>2. G[<<f[i - 1], i>>] = Extended(f[i - 1], indexes[i])
    BY <2>0, <2>1 DEF G
  <2> QED  BY <1>5, <2>0, <2>2
<1>7. F(f)
  <2>1. \A n \in 0..L : n = 0 \/ n \in 1..L
    BY <1>1
  <2>2. \A n \in 0..L : f[n] = IF n = 0 THEN <<<<>>>> ELSE Extended(f[n - 1], indexes[n])
    BY <1>5, <1>6, <2>1
  <2> QED  BY <1>5, <2>2
<1>8. Product(indexes) = (CHOOSE g : F(g))[L]
  BY DEF Product
<1>9. PICK g : F(g) /\ Product(indexes) = g[L]
  BY <1>7, <1>8
<1> DEFINE Sound(n) == g[n] \in T /\ \A e : e \in ToSet(g[n]) <=> InProduct(indexes, n, e)
           P == {n \in 0..L : Sound(n)}
<1>10. 0 \in P
  <2>1. g[0] = <<<<>>>>
    BY <1>1, <1>9
  <2>2. ToSet(<<<<>>>>) = {<<>>}
    BY DEF ToSet
  <2>3. \A e : e \in [1..0 -> Nat] <=> e = <<>>
    <3>1. ASSUME NEW e \in [1..0 -> Nat] PROVE e = <<>>
      <4>1. e \in Seq(Nat) /\ Len(e) = 0
        BY ListIs
      <4> QED  BY <4>1
    <3>2. <<>> \in Seq(Nat) /\ Len(<<>>) = 0
      OBVIOUS
    <3>3. <<>> \in [1..0 -> Nat]
      BY <3>2, SeqIs
    <3> QED  BY <3>1, <3>3
  <2>4. \A e : InProduct(indexes, 0, e) <=> e = <<>>
    BY <2>3 DEF InProduct
  <2>5. Sound(0)
    BY <1>2, <2>1, <2>2, <2>4
  <2> HIDE DEF Sound
  <2> QED  BY <1>1, <2>5
<1>11. ASSUME NEW n \in P, n + 1 <= L PROVE n + 1 \in P
  <2>1. n \in Nat /\ n + 1 \in 1..L /\ n + 1 \in 0..L /\ n + 1 # 0 /\ (n + 1) - 1 = n
    BY <1>1, <1>11
  <2>2. g[n + 1] = Extended(g[n], indexes[n + 1])
    BY <1>9, <2>1
  <2>3. Sound(n)
    OBVIOUS
  <2>4. g[n] \in Seq(Seq(Nat)) /\ indexes[n + 1] \in Nat \X Nat
    BY <1>1, <2>1, <2>3 DEF T
  <2>5. g[n + 1] \in T
    BY <2>2, <2>4, ExtendedIs DEF T
  <2>6. \A e : e \in ToSet(g[n + 1])
            <=> \E v \in ToSet(g[n]), x \in indexes[n + 1][1]..indexes[n + 1][2] :
                    e = Append(v, x)
    <3> HIDE <1>9
    <3> DEFINE vectors == g[n]
               r == indexes[n + 1]
    <3>1. vectors \in Seq(Seq(Nat)) /\ r \in Nat \X Nat
      BY <2>4
    <3> HIDE DEF vectors, r
    <3>2. \A e : e \in ToSet(Extended(vectors, r))
            <=> \E v \in ToSet(vectors), x \in r[1]..r[2] : e = Append(v, x)
      BY <3>1, ExtendedIs
    <3> QED  BY <2>2, <3>2 DEF vectors, r
  <2>7. \A e : InProduct(indexes, n + 1, e)
            <=> \E v, x : /\ InProduct(indexes, n, v)
                          /\ x \in indexes[n + 1][1]..indexes[n + 1][2]
                          /\ e = Append(v, x)
    BY <1>11, <2>1, InProductNext
  <2>8. Sound(n + 1)
    BY <2>3, <2>5, <2>6, <2>7
  <2> HIDE DEF Sound
  <2> QED  BY <2>1, <2>8
<1>12. P = 0..L
  <2>1. P \in SUBSET (0..L) /\ 0 \in Nat /\ 0 <= L
    BY <1>1
  <2> HIDE DEF P
  <2> QED  BY <1>1, <1>10, <1>11, <2>1, Upwards
<1>13. Sound(L)
  <2>1. L \in P
    <3> HIDE DEF P
    <3> QED  BY <1>1, <1>12
  <2> QED  BY <2>1
<1> QED  BY <1>9, <1>13 DEF T

\* The elements of a template are the vectors of its product.
LEMMA ElementsAre ==
    ASSUME NEW t, t.indexes \in Seq(Nat \X Nat)
    PROVE  \A e : e \in Elements(t) <=> InProduct(t.indexes, Len(t.indexes), e)
<1> DEFINE L == Len(t.indexes)
           U == UNION {r[1]..r[2] : r \in ToSet(t.indexes)}
<1>1. L \in Nat /\ DOMAIN t.indexes = 1..L /\ \A k \in 1..L : t.indexes[k] \in Nat \X Nat
  OBVIOUS
<1>2. \A k \in 1..L : t.indexes[k][1] \in Nat /\ t.indexes[k][2] \in Nat
  BY <1>1
<1>3. \A k \in 1..L : t.indexes[k] \in ToSet(t.indexes)
  BY <1>1 DEF ToSet
<1>4. \A r \in ToSet(t.indexes) : r[1] \in Nat /\ r[2] \in Nat
  BY <1>1, <1>2 DEF ToSet
<1>5. Elements(t) = {e \in [1..L -> U] :
            \A k \in DOMAIN e : t.indexes[k][1] <= e[k] /\ e[k] <= t.indexes[k][2]}
  BY <1>1 DEF Elements
<1>6. U \in SUBSET Nat
  BY <1>4
<1>7. ASSUME NEW e \in Elements(t) PROVE InProduct(t.indexes, L, e)
  <2> HIDE DEF U
  <2>1. e \in [1..L -> U] /\ \A k \in 1..L : t.indexes[k][1] <= e[k] /\ e[k] <= t.indexes[k][2]
    BY <1>5
  <2> QED  BY <1>6, <2>1 DEF InProduct
<1>8. ASSUME NEW e, InProduct(t.indexes, L, e) PROVE e \in Elements(t)
  <2>1. /\ e \in [1..L -> Nat]
        /\ \A k \in 1..L : t.indexes[k][1] <= e[k] /\ e[k] <= t.indexes[k][2]
    BY <1>8 DEF InProduct
  <2>2. \A k \in 1..L : e[k] \in t.indexes[k][1]..t.indexes[k][2]
    BY <1>2, <2>1
  <2>3. \A k \in 1..L : e[k] \in U
    BY <1>3, <2>2
  <2> HIDE DEF U
  <2> QED  BY <1>5, <2>1, <2>3
<1> QED  BY <1>7, <1>8

\* The attribute of one element of a template.
AttributeOf(t, e) ==
    [name |-> FormattedName(t, e), identity |-> <<t.object>> \o t.suffix \o e]

\* _expand_attribute() makes the attributes of a template's elements.
LEMMA ExpandIs ==
    ASSUME NEW t, t.indexes \in Seq(Nat \X Nat), NEW S,
           \A e \in Elements(t) : AttributeOf(t, e) \in S
    PROVE  /\ ExpandAttribute(t) \in Seq(S)
           /\ ToSet(ExpandAttribute(t)) = {AttributeOf(t, e) : e \in Elements(t)}
<1> DEFINE vectors == Product(t.indexes)
<1>1. vectors \in Seq(Seq(Nat))
  BY ProductIs
<1>2. \A e : e \in ToSet(vectors) <=> InProduct(t.indexes, Len(t.indexes), e)
  BY ProductIs
<1>3. \A e : e \in ToSet(vectors) <=> e \in Elements(t)
  BY <1>2, ElementsAre
<1>4. ExpandAttribute(t) = [v \in DOMAIN vectors |-> AttributeOf(t, vectors[v])]
  BY DEF ExpandAttribute, AttributeOf
<1> HIDE DEF vectors
<1>5. DOMAIN vectors = 1..Len(vectors) /\ Len(vectors) \in Nat
  BY <1>1
<1>6. \A v \in DOMAIN vectors : AttributeOf(t, vectors[v]) \in S
  BY <1>3 DEF ToSet
<1>7. ExpandAttribute(t) \in [1..Len(vectors) -> S]
  BY <1>4, <1>5, <1>6
<1>8. ExpandAttribute(t) \in Seq(S)
  BY <1>5, <1>7, ListIs
<1>9. ToSet(ExpandAttribute(t)) = {AttributeOf(t, vectors[v]) : v \in DOMAIN vectors}
  BY <1>4 DEF ToSet
<1> QED  BY <1>3, <1>8, <1>9 DEF ToSet

\* All templates of a definition together make the attributes that it declares.
LEMMA AllExpandedAre ==
    ASSUME NEW def \in Contents
    PROVE  LET all == FlattenSeq([i \in DOMAIN def |-> ExpandAttribute(def[i])])
           IN  all \in Seq(Declared(def)) /\ ToSet(all) = Declared(def)
<1> DEFINE D == Declared(def)
           lists == [i \in DOMAIN def |-> ExpandAttribute(def[i])]
           Made(t) == {AttributeOf(t, e) : e \in Elements(t)}
<1>1. def \in Seq(ToSet(def)) /\ \A t \in ToSet(def) : t.indexes \in Seq(Nat \X Nat)
  BY ContentsAssumption
<1>2. DOMAIN def = 1..Len(def) /\ Len(def) \in Nat /\ \A i \in DOMAIN def : def[i] \in ToSet(def)
  BY <1>1 DEF ToSet
<1>3. D = UNION {Made(t) : t \in ToSet(def)}
  BY DEF Declared, AttributeOf
<1>4. ASSUME NEW i \in DOMAIN def
      PROVE  /\ ExpandAttribute(def[i]) \in Seq(D)
             /\ ToSet(ExpandAttribute(def[i])) = Made(def[i])
  <2>1. Made(def[i]) \subseteq D
    BY <1>2, <1>3
  <2>2. \A e \in Elements(def[i]) : AttributeOf(def[i], e) \in D
    BY <2>1
  <2>3. def[i].indexes \in Seq(Nat \X Nat)
    BY <1>1, <1>2
  <2> HIDE DEF D
  <2>4. ExpandAttribute(def[i]) \in Seq(D)
    BY <2>2, <2>3, ExpandIs
  <2>5. ToSet(ExpandAttribute(def[i])) = Made(def[i])
    BY <2>2, <2>3, ExpandIs
  <2> QED  BY <2>4, <2>5
<1>5. lists \in [1..Len(def) -> Seq(D)]
  BY <1>2, <1>4
<1>6. lists \in Seq(Seq(D)) /\ Len(lists) = Len(def)
  <2> DEFINE Lists == Seq(D)
  <2>1. lists \in [1..Len(def) -> Lists]
    BY <1>5
  <2> HIDE DEF Lists, lists
  <2>2. lists \in Seq(Lists) /\ Len(lists) = Len(def)
    BY <1>2, <2>1, ListIs
  <2> QED  BY <2>2 DEF Lists
<1>7. \A i \in 1..Len(def) : ToSet(lists[i]) = Made(def[i])
  BY <1>2, <1>4
<1> HIDE DEF lists, D
<1>8. FlattenSeq(lists) \in Seq(D)
  BY <1>6, FlattenIs
<1>9. \A x : x \in ToSet(FlattenSeq(lists)) <=> \E i \in 1..Len(lists) : x \in ToSet(lists[i])
  BY <1>6, FlattenIs
<1>10. ToSet(def) = {def[i] : i \in 1..Len(def)}
  BY <1>2 DEF ToSet
<1>11. \A x : x \in ToSet(FlattenSeq(lists)) <=> x \in D
  <2> HIDE DEF Made
  <2>1. \A x : x \in D <=> \E t \in ToSet(def) : x \in Made(t)
    BY <1>3
  <2>2. \A x : x \in D <=> \E i \in 1..Len(def) : x \in Made(def[i])
    BY <1>10, <2>1
  <2>3. \A x : x \in ToSet(FlattenSeq(lists)) <=> \E i \in 1..Len(def) : x \in Made(def[i])
    BY <1>6, <1>7, <1>9
  <2> QED  BY <2>2, <2>3
<1> QED  BY <1>8, <1>11 DEF lists, D

\* A dict has the names of its attributes as keys.
LEMMA KeysAre ==
    ASSUME NEW A, NEW attrs \in Seq(A)
    PROVE  LET names == {attrs[i].name : i \in 1..Len(attrs)}
           IN  Keys(attrs) \in Seq(names) /\ ToSet(Keys(attrs)) = names
<1> DEFINE L == Len(attrs)
           Names == {attrs[i].name : i \in 1..L}
           T == Seq(Names)
           G == [p \in T \X (0..L) |-> IF p[2] = 0 THEN <<>> ELSE WithKey(p[1], attrs[p[2]].name)]
           F(f) == f = [n \in 0..L |-> IF n = 0 THEN <<>>
                                       ELSE WithKey(f[n - 1], attrs[n].name)]
<1>1. L \in Nat /\ \A i \in 1..L : attrs[i].name \in Names
  OBVIOUS
<1> HIDE DEF Names
<1>2. <<>> \in T
  OBVIOUS
<1>3. ASSUME NEW keys \in T, NEW name \in Names
      PROVE  WithKey(keys, name) \in T /\ ToSet(WithKey(keys, name)) = ToSet(keys) \cup {name}
  <2>1. CASE Contains(keys, name)
    BY <2>1 DEF WithKey, Contains, ToSet
  <2>2. CASE ~Contains(keys, name)
    <3>1. WithKey(keys, name) = Append(keys, name)
      BY <2>2 DEF WithKey
    <3>2. Append(keys, name) = keys \o <<name>>
      OBVIOUS
    <3>3. ToSet(<<name>>) = {name}
      BY DEF ToSet
    <3>4. <<name>> \in Seq(Names)
      OBVIOUS
    <3>5. /\ keys \o <<name>> \in Seq(Names)
          /\ ToSet(keys \o <<name>>) = ToSet(keys) \cup ToSet(<<name>>)
      <4> DEFINE r == <<name>>
      <4>1. r \in Seq(Names) /\ keys \in Seq(Names)
        BY <3>4
      <4> HIDE DEF r
      <4>2. keys \o r \in Seq(Names)
        BY <4>1, ConcatIs
      <4>3. ToSet(keys \o r) = ToSet(keys) \cup ToSet(r)
        BY <4>1, ConcatIs
      <4> QED  BY <4>2, <4>3 DEF r
    <3> QED  BY <3>1, <3>2, <3>3, <3>4, <3>5
  <2> QED  BY <2>1, <2>2
<1> HIDE DEF T
<1>4. G \in [T \X (0..L) -> T]
  <2>1. ASSUME NEW p \in T \X (0..L), p[2] # 0 PROVE WithKey(p[1], attrs[p[2]].name) \in T
    <3>1. p[1] \in T /\ p[2] \in 1..L
      BY <1>1, <2>1
    <3> QED  BY <1>1, <1>3, <3>1
  <2> QED  BY <1>2, <2>1
<1> HIDE DEF G
<1>5. PICK f : RecursiveOn(f, 0, L, T, <<>>, G)
  <2>1. 0 \in Nat /\ 0 <= L
    BY <1>1
  <2> HIDE DEF L
  <2> QED  BY <1>1, <1>2, <1>4, <2>1, Recursion
<1> USE DEF RecursiveOn
<1>6. ASSUME NEW i \in 1..L PROVE f[i] = WithKey(f[i - 1], attrs[i].name)
  <2>0. i \in 0..L /\ i # 0 /\ i - 1 \in 0..L
    BY <1>1
  <2>1. <<f[i - 1], i>> \in T \X (0..L)
    BY <1>5, <2>0
  <2>2. G[<<f[i - 1], i>>] = WithKey(f[i - 1], attrs[i].name)
    BY <2>0, <2>1 DEF G
  <2> QED  BY <1>5, <2>0, <2>2
<1>7. F(f)
  <2>1. \A n \in 0..L : n = 0 \/ n \in 1..L
    BY <1>1
  <2>2. \A n \in 0..L : f[n] = IF n = 0 THEN <<>> ELSE WithKey(f[n - 1], attrs[n].name)
    BY <1>5, <1>6, <2>1
  <2> QED  BY <1>5, <2>2
<1>8. Keys(attrs) = (CHOOSE g : F(g))[L]
  BY DEF Keys
<1>9. PICK g : F(g) /\ Keys(attrs) = g[L]
  BY <1>7, <1>8
<1> DEFINE First(n) == {attrs[i].name : i \in 1..n}
           Sound(n) == g[n] \in T /\ ToSet(g[n]) = First(n)
           P == {n \in 0..L : Sound(n)}
<1>10. 0 \in P
  <2>1. g[0] = <<>>
    BY <1>1, <1>9
  <2>2. ToSet(<<>>) = {} /\ First(0) = {}
    BY DEF ToSet
  <2>3. Sound(0)
    BY <1>2, <2>1, <2>2
  <2> HIDE DEF Sound
  <2> QED  BY <1>1, <2>3
<1>11. ASSUME NEW n \in P, n + 1 <= L PROVE n + 1 \in P
  <2>1. n \in Nat /\ n + 1 \in 1..L /\ n + 1 \in 0..L /\ n + 1 # 0 /\ (n + 1) - 1 = n
    BY <1>1, <1>11
  <2>2. g[n + 1] = WithKey(g[n], attrs[n + 1].name)
    BY <1>9, <2>1
  <2>3. g[n] \in T /\ ToSet(g[n]) = First(n)
    OBVIOUS
  <2>4. attrs[n + 1].name \in Names
    BY <1>1, <2>1
  <2>5. g[n + 1] \in T /\ ToSet(g[n + 1]) = First(n) \cup {attrs[n + 1].name}
    BY <1>3, <2>2, <2>3, <2>4
  <2>6. First(n + 1) = First(n) \cup {attrs[n + 1].name}
    <3>1. \A i : i \in 1..(n + 1) <=> (i \in 1..n \/ i = n + 1)
      BY <2>1
    <3> QED  BY <3>1
  <2>7. Sound(n + 1)
    BY <2>5, <2>6
  <2> HIDE DEF Sound
  <2> QED  BY <2>1, <2>7
<1>12. P = 0..L
  <2>1. P \in SUBSET (0..L) /\ 0 \in Nat /\ 0 <= L
    BY <1>1
  <2> HIDE DEF P
  <2> QED  BY <1>1, <1>10, <1>11, <2>1, Upwards
<1>13. Sound(L)
  <2>1. L \in P
    <3> HIDE DEF P
    <3> QED  BY <1>1, <1>12
  <2> QED  BY <2>1
<1> QED  BY <1>9, <1>13 DEF T, Names

\* A list of attributes, as a dict, has one attribute of the list for every name.
LEMMA DictIs ==
    ASSUME NEW A, NEW attrs \in Seq(A)
    PROVE  LET dict == DynamicAttrs(attrs)
           IN  /\ dict \in Seq(ToSet(attrs))
               /\ {a.name : a \in ToSet(dict)} = {a.name : a \in ToSet(attrs)}
               /\ \A a, b \in ToSet(dict) : a.name = b.name => a = b
<1> DEFINE keys == Keys(attrs)
           names == {attrs[i].name : i \in 1..Len(attrs)}
           Winner(n) == SelectLastInSeq(attrs, LAMBDA a : a.name = n)
           dict == [i \in DOMAIN keys |-> attrs[Winner(keys[i])]]
<1>1. DynamicAttrs(attrs) = dict
  BY DEF DynamicAttrs
<1>2. DOMAIN attrs = 1..Len(attrs) /\ Len(attrs) \in Nat
  OBVIOUS
<1>3. ASSUME NEW n \in names PROVE Winner(n) \in DOMAIN attrs /\ attrs[Winner(n)].name = n
  <2> DEFINE I == {i \in 1..Len(attrs) : attrs[i].name = n}
  <2>1. I # {} /\ I \in SUBSET Nat
    OBVIOUS
  <2>2. IsFiniteSet(I)
    <3>1. IsFiniteSet(1..Len(attrs)) /\ I \in SUBSET (1..Len(attrs))
      BY <1>2, FS_Interval
    <3> HIDE DEF I
    <3> QED  BY <3>1, FS_Subset
  <2>3. Max(I) \in I
    BY <2>1, <2>2, MaxIs
  <2>4. Winner(n) = Max(I)
    BY <2>1 DEF SelectLastInSeq
  <2> QED  BY <1>2, <2>3, <2>4
<1>4. names = {a.name : a \in ToSet(attrs)}
  BY <1>2 DEF ToSet
<1>5. keys \in Seq(names)
  BY KeysAre
<1>6. ToSet(keys) = names
  BY KeysAre
<1> HIDE DEF keys, names, Winner
<1>7. DOMAIN keys = 1..Len(keys) /\ Len(keys) \in Nat
  BY <1>5
<1>8. \A i \in DOMAIN keys : keys[i] \in names
  BY <1>5
<1>9. \A i \in DOMAIN keys : dict[i] \in ToSet(attrs) /\ dict[i].name = keys[i]
  BY <1>3, <1>8 DEF ToSet
<1>10. dict \in Seq(ToSet(attrs))
  <2> DEFINE S == ToSet(attrs)
  <2>1. dict \in [1..Len(keys) -> S]
    BY <1>7, <1>9
  <2> HIDE DEF S, dict
  <2>2. dict \in Seq(S)
    BY <1>7, <2>1, ListIs
  <2> QED  BY <2>2 DEF S
<1>11. ToSet(dict) = {attrs[Winner(keys[i])] : i \in DOMAIN keys}
  BY DEF ToSet
<1>12. {a.name : a \in ToSet(dict)} = names
  <2>1. \A a \in ToSet(dict) : a.name \in names
    BY <1>8, <1>9, <1>11
  <2>2. \A n \in names : \E a \in ToSet(dict) : a.name = n
    BY <1>6, <1>9, <1>11 DEF ToSet
  <2> HIDE DEF dict
  <2> QED  BY <2>1, <2>2
<1>13. \A a, b \in ToSet(dict) : a.name = b.name => a = b
  <2>1. \A a \in ToSet(dict) : a = attrs[Winner(a.name)]
    BY <1>9, <1>11
  <2> HIDE DEF dict
  <2> QED  BY <2>1
<1> QED  BY <1>1, <1>4, <1>10, <1>12, <1>13

\* A sequence of attributes, each of which is a name and an identity.
Attributes(attrs) ==
    /\ attrs \in Seq(ToSet(attrs))
    /\ \A a \in ToSet(attrs) : a = [name |-> a.name, identity |-> a.identity]

\* parse_device_definition() makes the declared attributes of every definition, one
\* for every name.
THEOREM ParserIsRight ==
    ASSUME NEW def \in Contents
    PROVE  /\ AsDeclared(ParseDeviceDefinition(def), def)
           /\ Attributes(ParseDeviceDefinition(def))
<1> DEFINE all == FlattenSeq([i \in DOMAIN def |-> ExpandAttribute(def[i])])
           dict == DynamicAttrs(all)
           D == Declared(def)
<1>1. all \in Seq(D) /\ ToSet(all) = D
  BY AllExpandedAre
<1>2. ParseDeviceDefinition(def) = dict
  BY DEF ParseDeviceDefinition
<1>3. \A a \in D : a = [name |-> a.name, identity |-> a.identity]
  <2>1. \A t, e : AttributeOf(t, e) = [name |-> AttributeOf(t, e).name,
                                      identity |-> AttributeOf(t, e).identity]
    BY DEF AttributeOf
  <2>2. D = UNION {{AttributeOf(t, e) : e \in Elements(t)} : t \in ToSet(def)}
    BY DEF Declared, AttributeOf
  <2>3. \A a \in D : \E t, e : a = AttributeOf(t, e)
    <3> HIDE DEF D
    <3> QED  BY <2>2
  <2> QED  BY <2>1, <2>3
<1> HIDE DEF all, D
<1>4. dict \in Seq(D)
  BY <1>1, DictIs
<1>5. {a.name : a \in ToSet(dict)} = {a.name : a \in D}
  BY <1>1, DictIs
<1>6. \A a, b \in ToSet(dict) : a.name = b.name => a = b
  BY <1>1, DictIs
<1> HIDE DEF dict
<1>7. dict \in Seq(ToSet(dict)) /\ ToSet(dict) \subseteq D
  BY <1>4 DEF ToSet
<1>8. AsDeclared(dict, def)
  BY <1>5, <1>6, <1>7 DEF AsDeclared, D
<1>9. Attributes(dict)
  BY <1>3, <1>7 DEF Attributes
<1> QED  BY <1>2, <1>8, <1>9

\* A device that was loaded while no other was has the attributes that its own
\* file declares, whatever the others did before.
THEOREM LoadsItsDefinitionAlways == Spec => []LoadsItsDefinition
<1>1. LoadInv => LoadsItsDefinition
  <2> SUFFICES ASSUME LoadInv, NEW d \in Device, stage[d] = "ready", ~overlapped[d]
               PROVE  AsDeclared(attributes[d], Library[file[d]])
    BY DEF LoadsItsDefinition
  <2>1. Parsed(d)
    BY DEF LoadInv, LoadedAlone
  <2>2. Library[file[d]] \in Contents
    BY <2>1 DEF Parsed, Contents
  <2> QED  BY <2>1, <2>2, ParserIsRight DEF Parsed
<1> QED  BY <1>1, LoadInvInit, LoadInvNext, PTL DEF Spec

-----------------------------------------------------------------------------
(* The GETs of a poll                                                      *)

\* What oid_attr_map has for an object is an attribute of that identity, or none
\* where there is none.
LEMMA OwnerIs ==
    ASSUME NEW A, NEW chunk \in Seq(A), NEW oid
    PROVE  IF \E a \in ToSet(chunk) : a.identity = oid
           THEN Owner(chunk, oid) \in DOMAIN chunk /\ chunk[Owner(chunk, oid)].identity = oid
           ELSE Owner(chunk, oid) = 0
<1> DEFINE I == {i \in 1..Len(chunk) : chunk[i].identity = oid}
<1>1. DOMAIN chunk = 1..Len(chunk) /\ Len(chunk) \in Nat
  OBVIOUS
<1>2. I \in SUBSET Nat /\ (I # {} <=> \E a \in ToSet(chunk) : a.identity = oid)
  BY <1>1 DEF ToSet
<1>3. IsFiniteSet(I)
  <2>1. IsFiniteSet(1..Len(chunk)) /\ I \in SUBSET (1..Len(chunk))
    BY <1>1, FS_Interval
  <2> HIDE DEF I
  <2> QED  BY <2>1, FS_Subset
<1>4. I # {} => Max(I) \in I
  BY <1>2, <1>3, MaxIs
<1>5. Owner(chunk, oid) = IF I # {} THEN Max(I) ELSE 0
  BY DEF Owner, SelectLastInSeq
<1> QED  BY <1>1, <1>2, <1>4, <1>5

\* In a chunk without a KeyError, an answer is given to an attribute whose identity
\* names its object, and there is one for every attribute of the chunk.
LEMMA UpdatesAre ==
    ASSUME NEW A, NEW chunk \in Seq(A), KeyErrors(chunk) = {}
    PROVE  /\ \A u \in ChunkUpdates(chunk) :
                \E b \in ToSet(chunk) : u.name = b.name /\ u.from = b.identity
           /\ \A a \in ToSet(chunk) : \E u \in ChunkUpdates(chunk) :
                \E b \in ToSet(chunk) : u.name = b.name /\ b.identity = MibSymbolic(a.identity)
<1> DEFINE Own(a) == Owner(chunk, MibSymbolic(a.identity))
           Update(a) == [name |-> chunk[Own(a)].name, from |-> MibSymbolic(a.identity)]
<1>1. ChunkUpdates(chunk) = {Update(a) : a \in ToSet(chunk)}
  BY DEF ChunkUpdates
<1>2. \A a \in ToSet(chunk) :
            Own(a) \in DOMAIN chunk /\ chunk[Own(a)].identity = MibSymbolic(a.identity)
  <2> SUFFICES ASSUME NEW a \in ToSet(chunk)
               PROVE  Own(a) \in DOMAIN chunk
                      /\ chunk[Own(a)].identity = MibSymbolic(a.identity)
    OBVIOUS
  <2>1. Own(a) # 0
    BY DEF KeyErrors
  <2> QED  BY <2>1, OwnerIs
<1> HIDE DEF Own
<1>3. \A a \in ToSet(chunk) : \E b \in ToSet(chunk) :
            /\ Update(a).name = b.name /\ Update(a).from = b.identity
            /\ b.identity = MibSymbolic(a.identity)
  BY <1>2 DEF ToSet
<1> HIDE DEF Update
<1> QED  BY <1>1, <1>3

\* A KeyError is for an index that is written otherwise than it comes back.
LEMMA KeyErrorsAre ==
    ASSUME NEW A, NEW chunk \in Seq(A), NEW a \in KeyErrors(chunk)
    PROVE  a \in ToSet(chunk) /\ MibSymbolic(a.identity) # a.identity
<1>1. a \in ToSet(chunk) /\ Owner(chunk, MibSymbolic(a.identity)) = 0
  BY DEF KeyErrors
<1>2. ASSUME MibSymbolic(a.identity) = a.identity PROVE FALSE
  <2>1. Owner(chunk, a.identity) \in DOMAIN chunk
    BY <1>1, OwnerIs
  <2>2. DOMAIN chunk = 1..Len(chunk)
    OBVIOUS
  <2> QED  BY <1>1, <1>2, <2>1, <2>2
<1> QED  BY <1>1, <1>2

\* chunked() leaves no attribute out and makes none up.
LEMMA ChunksCover ==
    ASSUME NEW A, NEW attrs \in Seq(A)
    PROVE  /\ \A c \in Chunks(attrs) : c \in Seq(A) /\ ToSet(c) \subseteq ToSet(attrs)
           /\ \A a \in ToSet(attrs) : \E c \in Chunks(attrs) : a \in ToSet(c)
<1> DEFINE End(k) == IF k + MaxObjects - 1 < Len(attrs) THEN k + MaxObjects - 1
                     ELSE Len(attrs)
           Starts == {i \in DOMAIN attrs : i % MaxObjects = 1 % MaxObjects}
<1>1. DOMAIN attrs = 1..Len(attrs) /\ Len(attrs) \in Nat /\ MaxObjects \in Nat \ {0}
  BY ConstantsAssumption
<1>2. Chunks(attrs) = {SubSeq(attrs, k, End(k)) : k \in Starts}
  BY DEF Chunks
<1>3. ASSUME NEW k \in Starts
      PROVE  /\ k \in 1..Len(attrs) /\ End(k) \in k..Len(attrs)
             /\ SubSeq(attrs, k, End(k)) \in Seq(A)
             /\ DOMAIN SubSeq(attrs, k, End(k)) = 1..(End(k) - k + 1)
             /\ \A i \in 1..(End(k) - k + 1) : SubSeq(attrs, k, End(k))[i] = attrs[k + i - 1]
  <2>1. k \in 1..Len(attrs) /\ End(k) \in k..Len(attrs)
    BY <1>1
  <2> HIDE DEF End, Starts
  <2> QED  BY <1>1, <2>1
<1>4. ASSUME NEW c \in Chunks(attrs) PROVE c \in Seq(A) /\ ToSet(c) \subseteq ToSet(attrs)
  <2>1. PICK k \in Starts : c = SubSeq(attrs, k, End(k))
    BY <1>2
  <2> HIDE DEF End, Starts
  <2>2. \A i \in 1..(End(k) - k + 1) : k + i - 1 \in DOMAIN attrs
    BY <1>1, <1>3
  <2> QED  BY <1>3, <2>1, <2>2 DEF ToSet
<1>5. ASSUME NEW a \in ToSet(attrs) PROVE \E c \in Chunks(attrs) : a \in ToSet(c)
  <2>1. PICK j \in 1..Len(attrs) : a = attrs[j]
    BY <1>1 DEF ToSet
  <2>2. PICK k \in 1..j : k % MaxObjects = 1 % MaxObjects /\ j <= k + MaxObjects - 1
    <3>1. j \in Nat \ {0}
      BY <1>1
    <3> QED  BY <1>1, <3>1, ChunkStart
  <2>3. k \in Starts /\ j <= End(k)
    BY <1>1, <2>1, <2>2
  <2> HIDE DEF End, Starts
  <2>4. j - k + 1 \in 1..(End(k) - k + 1) /\ k + (j - k + 1) - 1 = j
    BY <1>1, <1>3, <2>1, <2>2, <2>3
  <2>5. a \in ToSet(SubSeq(attrs, k, End(k)))
    BY <1>3, <2>1, <2>3, <2>4 DEF ToSet
  <2> QED  BY <1>2, <2>3, <2>5
<1> QED  BY <1>4, <1>5

\* What a poll of all attributes comes to, whatever the size of its chunks.
LEMMA PollIsOwn ==
    ASSUME NEW attrs, Attributes(attrs)
    PROVE  IF Polled(attrs).raised
           THEN \E a \in ToSet(attrs) : MibSymbolic(a.identity) # a.identity
           ELSE OwnObjects(attrs, Polled(attrs).values)
<1> DEFINE all == UNION {ChunkUpdates(c) : c \in Chunks(attrs)}
           A == ToSet(attrs)
<1>1. attrs \in Seq(A)
  BY DEF Attributes
<1>2. \A c \in Chunks(attrs) : c \in Seq(A) /\ ToSet(c) \subseteq A
  BY <1>1, ChunksCover
<1>3. CASE \E c \in Chunks(attrs) : KeyErrors(c) # {}
  <2>1. Polled(attrs).raised
    BY <1>3 DEF Polled
  <2>2. PICK c \in Chunks(attrs) : KeyErrors(c) # {}
    BY <1>3
  <2>3. PICK a \in KeyErrors(c) : TRUE
    BY <2>2
  <2>4. a \in A /\ MibSymbolic(a.identity) # a.identity
    BY <1>2, <2>3, KeyErrorsAre
  <2> QED  BY <2>1, <2>4
<1>4. CASE \A c \in Chunks(attrs) : KeyErrors(c) = {}
  <2>1. ~Polled(attrs).raised /\ Polled(attrs).values = all
    BY <1>4 DEF Polled
  <2>2. ASSUME NEW u \in all
        PROVE  [name |-> u.name, identity |-> u.from] \in A
    <3>1. PICK c \in Chunks(attrs) : u \in ChunkUpdates(c)
      OBVIOUS
    <3>2. PICK b \in ToSet(c) : u.name = b.name /\ u.from = b.identity
      BY <1>2, <1>4, <3>1, UpdatesAre
    <3>3. b \in A /\ b = [name |-> b.name, identity |-> b.identity]
      BY <1>2 DEF Attributes
    <3> QED  BY <3>2, <3>3
  <2>3. ASSUME NEW a \in A,
               \A b \in A : b.identity = MibSymbolic(a.identity) => b = a
        PROVE  \E u \in all : u.name = a.name
    <3>1. PICK c \in Chunks(attrs) : a \in ToSet(c)
      BY <1>1, ChunksCover
    <3>2. PICK u \in ChunkUpdates(c) :
              \E b \in ToSet(c) : u.name = b.name /\ b.identity = MibSymbolic(a.identity)
      BY <1>2, <1>4, <3>1, UpdatesAre
    <3>3. u.name = a.name
      BY <1>2, <2>3, <3>2
    <3> QED  BY <3>3
  <2>4. OwnObjects(attrs, all)
    BY <2>2, <2>3 DEF OwnObjects
  <2> QED  BY <2>1, <2>4
<1> QED  BY <1>3, <1>4

\* What a device parses is what some file contains, and what it has polled are
\* all of its attributes.
PollInv ==
    /\ LoadType
    /\ \A d \in Device :
        /\ stage[d] \in {"restore", "parse"} => definition[d] \in Contents
        /\ stage[d] = "ready" => Attributes(attributes[d])
        /\ stage[d] = "ready" /\ polled[d] # NotPolled => polled[d] = Polled(attributes[d])

\* A poll whose GETs are answered gives every attribute the value of its own object,
\* however many of them go into one GET; it raises, and gives none, only where the
\* definition writes an index otherwise than it comes back in an answer.
THEOREM ReadsOwnObjectAlways == Spec => []ReadsOwnObject
<1>1. Init => PollInv
  BY LoadInvInit DEF Init, PollInv, LoadInv
<1>2. PollInv /\ [Next]_vars => PollInv'
  <2> SUFFICES ASSUME PollInv, [Next]_vars PROVE PollInv'
    OBVIOUS
  <2>1. LoadType'
    BY LoadTypeStep DEF PollInv
  <2> USE DEF PollInv, LoadType, Moves
  <2>2. ASSUME NEW d \in Device, BeginInit(d) \/ GetCwd(d) \/ Chdir(d) \/ Restore(d)
        PROVE  PollInv'
    BY <2>1, <2>2 DEF BeginInit, GetCwd, Chdir, Restore
  <2>3. ASSUME NEW d \in Device, ReadFile(d) PROVE PollInv'
    <3> DEFINE here == IF cwd = "library" THEN Library ELSE Home
               found == file[d] \in DOMAIN here /\ here[file[d]] # Broken
    <3>1. found => here[file[d]] \in Contents
      BY DEF Contents
    <3>2. stage' = [stage EXCEPT ![d] = IF found THEN "restore" ELSE "failed"]
      BY <2>3 DEF ReadFile
    <3>3. definition' = IF found THEN [definition EXCEPT ![d] = here[file[d]]]
                        ELSE definition
      BY <2>3 DEF ReadFile
    <3>4. UNCHANGED <<attributes, polled>>
      BY <2>3 DEF ReadFile
    <3> HIDE DEF found, here
    <3> QED  BY <2>1, <3>1, <3>2, <3>3, <3>4
  <2>4. ASSUME NEW d \in Device, Parse(d) PROVE PollInv'
    <3>1. stage[d] = "parse" /\ definition[d] \in Contents
      BY <2>4 DEF Parse
    <3>2. /\ stage'[d] \in {"ready", "failed"}
          /\ stage'[d] = "ready" => /\ Parseable(definition[d])
                                    /\ attributes'[d] = ParseDeviceDefinition(definition[d])
          /\ polled'[d] = NotPolled
          /\ \A e \in Device \ {d} :
                /\ stage'[e] = stage[e] /\ definition'[e] = definition[e]
                /\ attributes'[e] = attributes[e] /\ polled'[e] = polled[e]
      BY <2>4 DEF Parse
    <3>3. stage'[d] = "ready" => Attributes(attributes'[d])
      BY <3>1, <3>2, ParserIsRight
    <3> QED  BY <2>1, <3>2, <3>3
  <2>5. ASSUME NEW d \in Device, Poll(d) PROVE PollInv'
    <3>1. /\ UNCHANGED <<stage, definition, attributes>>
          /\ polled'[d] = Polled(attributes[d])
          /\ \A e \in Device \ {d} : polled'[e] = polled[e]
      BY <2>5 DEF Poll
    <3> QED  BY <2>1, <3>1
  <2>6. CASE UNCHANGED vars
    BY <2>1, <2>6 DEF vars
  <2> QED  BY <2>2, <2>3, <2>4, <2>5, <2>6 DEF Next, Step
<1>3. PollInv => ReadsOwnObject
  BY PollIsOwn DEF PollInv, ReadsOwnObject
<1> QED  BY <1>1, <1>2, <1>3, PTL DEF Spec
====
