----------------------------- MODULE StoresProofs -----------------------------
(***************************************************************************)
(* Proofs about Stores for every set of settings and any number of web     *)
(* threads, requests, installations and crashes: AppOpt.json ends up as    *)
(* what is in memory, and the UID map is up to date when it is used.       *)
(***************************************************************************)
EXTENDS Stores, SequenceTheorems, WellFoundedInduction, TLAPS

-----------------------------------------------------------------------------
(* Lines without those of some names *)

LEMMA SetInduction ==
  ASSUME NEW T, 0 \in T, \A n \in Nat : n \in T => n + 1 \in T
  PROVE  Nat \subseteq T
<1> SUFFICES ASSUME Nat \ T # {} PROVE FALSE
  OBVIOUS
<1>1. PICK x \in Nat \ T : \A y \in Nat \ T : ~ (<<y, x>> \in OpToRel(<, Nat))
  <2> DEFINE D == Nat \ T
             R == OpToRel(<, Nat)
  <2>1. D \subseteq Nat /\ D # {} /\ IsWellFoundedOn(R, Nat)
    BY NatLessThanWellFounded
  <2> HIDE DEF D, R
  <2>2. \E x \in D : \A y \in D : ~ (<<y, x>> \in R)
    BY <2>1, WFMin
  <2>3. QED  BY <2>2 DEF D, R
<1>2. x # 0 /\ x - 1 \in Nat
  OBVIOUS
<1>3. x - 1 \in T
  <2>1. <<x - 1, x>> \in OpToRel(<, Nat)
    BY <1>2 DEF OpToRel
  <2>2. QED  BY <1>1, <1>2, <2>1
<1>4. QED  BY <1>2, <1>3

\* Without as a recursion over the lines.
OneMore(kept, line, names) == IF line.of \in names THEN kept ELSE Append(kept, line)

IsKept(g, lines, names, n) ==
  g = [m \in 0 .. n |-> IF m = 0 THEN <<>> ELSE OneMore(g[m - 1], lines[m], names)]

Kept(lines, names) == CHOOSE g : IsKept(g, lines, names, Len(lines))

LEMMA WithoutIsKept == \A lines, names : Refresh!Without(lines, names) = Kept(lines, names)[Len(lines)]
BY DEF Refresh!Without, Kept, IsKept, OneMore

LEMMA KeptExists ==
  ASSUME NEW lines, NEW names
  PROVE  \A n \in Nat : \E g : IsKept(g, lines, names, n)
<1> DEFINE T == {n \in Nat : \E g : IsKept(g, lines, names, n)}
<1>1. 0 \in T
  <2> DEFINE g == [m \in 0 .. 0 |-> <<>>]
  <2>1. IsKept(g, lines, names, 0)
    BY DEF IsKept
  <2>2. QED  BY <2>1
<1>2. ASSUME NEW n \in Nat, n \in T PROVE n + 1 \in T
  <2>1. PICK g : IsKept(g, lines, names, n)
    BY <1>2
  <2> DEFINE h == [m \in 0 .. n + 1 |-> IF m \in 0 .. n THEN g[m] ELSE OneMore(g[n], lines[n + 1], names)]
  <2>2. \A m \in 0 .. n : g[m] = IF m = 0 THEN <<>> ELSE OneMore(g[m - 1], lines[m], names)
    BY <2>1 DEF IsKept
  <2>3. ASSUME NEW m \in 0 .. n + 1
        PROVE  h[m] = IF m = 0 THEN <<>> ELSE OneMore(h[m - 1], lines[m], names)
    <3>1. CASE m = 0
      BY <2>2, <3>1
    <3>2. CASE m \in 1 .. n
      <4>1. m - 1 \in 0 .. n /\ m \in 0 .. n /\ m # 0 /\ m - 1 \in 0 .. n + 1
        BY <3>2
      <4>2. h[m] = g[m] /\ h[m - 1] = g[m - 1]
        BY <4>1
      <4>3. QED  BY <4>1, <4>2, <2>2
    <3>3. CASE m = n + 1
      <4>1. m - 1 = n /\ m # 0 /\ m \notin 0 .. n /\ n \in 0 .. n /\ n \in 0 .. n + 1
        BY <3>3
      <4>2. h[m] = OneMore(g[n], lines[n + 1], names) /\ h[n] = g[n]
        BY <4>1
      <4>3. QED  BY <3>3, <4>1, <4>2
    <3>4. m = 0 \/ m \in 1 .. n \/ m = n + 1
      OBVIOUS
    <3>5. QED  BY <3>1, <3>2, <3>3, <3>4
  <2>4. h = [m \in 0 .. n + 1 |-> h[m]]
    OBVIOUS
  <2> HIDE DEF h
  <2>5. IsKept(h, lines, names, n + 1)
    BY <2>3, <2>4 DEF IsKept
  <2>6. QED  BY <2>5
<1> HIDE DEF T
<1>3. Nat \subseteq T
  BY <1>1, <1>2, SetInduction
<1>4. QED  BY <1>3 DEF T

LEMMA KeptSteps ==
  ASSUME NEW lines, NEW names, Len(lines) \in Nat
  PROVE  /\ Kept(lines, names)[0] = <<>>
         /\ \A n \in 0 .. Len(lines) - 1 :
              Kept(lines, names)[n + 1] = OneMore(Kept(lines, names)[n], lines[n + 1], names)
<1> DEFINE k == Kept(lines, names)
<1>1. IsKept(k, lines, names, Len(lines))
  BY KeptExists DEF Kept
<1> HIDE DEF k
<1>2. \A m \in 0 .. Len(lines) : k[m] = IF m = 0 THEN <<>> ELSE OneMore(k[m - 1], lines[m], names)
  BY <1>1 DEF IsKept
<1>3. \A n \in 0 .. Len(lines) - 1 : n + 1 \in 0 .. Len(lines) /\ n + 1 # 0 /\ n + 1 - 1 = n
  OBVIOUS
<1>4. QED  BY <1>2, <1>3 DEF k

LEMMA UpTo ==
  ASSUME NEW N \in Nat, NEW T, 0 \in T, \A n \in 0 .. N - 1 : n \in T => n + 1 \in T
  PROVE  0 .. N \subseteq T
<1> DEFINE U == {n \in Nat : n <= N => n \in T}
<1>1. 0 \in U /\ \A n \in Nat : n \in U => n + 1 \in U
  OBVIOUS
<1> HIDE DEF U
<1>2. Nat \subseteq U
  BY <1>1, SetInduction
<1>3. QED  BY <1>2 DEF U

LEMMA RangeOfOne == \A x : Range(<<x>>) = {x}
<1> SUFFICES ASSUME NEW x PROVE Range(<<x>>) = {x}
  OBVIOUS
<1>1. DOMAIN <<x>> = {1} /\ <<x>>[1] = x
  OBVIOUS
<1>2. QED  BY <1>1 DEF Range

Left(lines, names, n) == {lines[i] : i \in {j \in 1 .. n : lines[j].of \notin names}}

\* What is kept of the first n lines are those of other names.
LEMMA KeptLines ==
  ASSUME NEW S, NEW lines \in Seq(S), NEW names
  PROVE  \A n \in 0 .. Len(lines) :
           /\ Kept(lines, names)[n] \in Seq(S)
           /\ Range(Kept(lines, names)[n]) = Left(lines, names, n)
<1> DEFINE k == Kept(lines, names)
           T == {n \in 0 .. Len(lines) : k[n] \in Seq(S) /\ Range(k[n]) = Left(lines, names, n)}
<1>1. Len(lines) \in Nat
  OBVIOUS
<1>2. k[0] = <<>> /\ \A n \in 0 .. Len(lines) - 1 : k[n + 1] = OneMore(k[n], lines[n + 1], names)
  BY <1>1, KeptSteps
<1> HIDE DEF k
<1>3. 0 \in T
  <2>1. Range(<<>>) = {}
    BY DEF Range
  <2>2. Left(lines, names, 0) = {}
    BY DEF Left
  <2>3. <<>> \in Seq(S)
    OBVIOUS
  <2>4. k[0] \in Seq(S) /\ Range(k[0]) = Left(lines, names, 0)
    <3>1. QED  BY <1>2, <2>1, <2>2, <2>3
  <2>5. QED  BY <1>1, <2>4
<1>4. ASSUME NEW n \in 0 .. Len(lines) - 1, n \in T PROVE n + 1 \in T
  <2>1. n + 1 \in 1 .. Len(lines) /\ n + 1 \in 0 .. Len(lines) /\ lines[n + 1] \in S
    BY <1>1
  <2>2. k[n + 1] = OneMore(k[n], lines[n + 1], names) /\ k[n] \in Seq(S) /\ Range(k[n]) = Left(lines, names, n)
    BY <1>2, <1>4
  <2>3. 1 .. n + 1 = (1 .. n) \cup {n + 1}
    OBVIOUS
  <2>4. CASE lines[n + 1].of \in names
    <3>1. Left(lines, names, n + 1) = Left(lines, names, n)
      BY <2>3, <2>4 DEF Left
    <3>2. QED  BY <2>1, <2>2, <2>4, <3>1 DEF OneMore
  <2>5. CASE lines[n + 1].of \notin names
    <3>1. Left(lines, names, n + 1) = Left(lines, names, n) \cup {lines[n + 1]}
      BY <2>3, <2>5 DEF Left
    <3>2. k[n + 1] = Append(k[n], lines[n + 1]) /\ k[n + 1] \in Seq(S)
      BY <2>1, <2>2, <2>5 DEF OneMore
    <3>3. Range(k[n + 1]) = Range(k[n]) \cup {lines[n + 1]}
      <4>1. k[n + 1] = k[n] \o <<lines[n + 1]>>
        BY <2>1, <2>2, <3>2, AppendIsConcat
      <4>2. <<lines[n + 1]>> \in Seq(S)
        BY <2>1
      <4>3. Range(k[n] \o <<lines[n + 1]>>) = Range(k[n]) \cup Range(<<lines[n + 1]>>)
        <5>1. \A p, q \in Seq(S) : Range(p \o q) = Range(p) \cup Range(q)
          BY RangeConcatenation
        <5>2. QED  BY <2>2, <4>2, <5>1
      <4>4. QED  BY <4>1, <4>3, RangeOfOne
    <3>4. QED  BY <2>1, <2>2, <3>1, <3>2, <3>3
  <2>6. QED  BY <2>4, <2>5
<1> HIDE DEF T
<1>5. 0 .. Len(lines) \subseteq T
  BY <1>1, <1>3, <1>4, UpTo
<1>6. QED  BY <1>5 DEF T, k

LEMMA WithoutLines ==
  ASSUME NEW S, NEW lines \in Seq(S), NEW names
  PROVE  /\ Refresh!Without(lines, names) \in Seq(S)
         /\ Range(Refresh!Without(lines, names)) = {x \in Range(lines) : x.of \notin names}
<1>1. Len(lines) \in Nat /\ Len(lines) \in 0 .. Len(lines)
  OBVIOUS
<1>5. \A n \in 0 .. Len(lines) : Kept(lines, names)[n] \in Seq(S) /\ Range(Kept(lines, names)[n]) = Left(lines, names, n)
  BY KeptLines
<1>2. Kept(lines, names)[Len(lines)] \in Seq(S) /\ Range(Kept(lines, names)[Len(lines)]) = Left(lines, names, Len(lines))
  BY <1>1, <1>5
<1>3. Left(lines, names, Len(lines)) = {x \in Range(lines) : x.of \notin names}
  BY RangeEquality DEF Left
<1>4. QED  BY <1>2, <1>3, WithoutIsKept

\* Lines that differ only where both are of these names leave the same.
LEMMA SameRest ==
  ASSUME NEW S, NEW a \in Seq(S), NEW b \in Seq(S), NEW names, Len(a) = Len(b),
         \A i \in 1 .. Len(a) : a[i] = b[i] \/ (a[i].of \in names /\ b[i].of \in names)
  PROVE  Refresh!Without(a, names) = Refresh!Without(b, names)
<1> DEFINE k == Kept(a, names)
           l == Kept(b, names)
           T == {n \in Nat : k[n] = l[n]}
<1>1. Len(a) \in Nat
  OBVIOUS
<1>2. /\ k[0] = <<>> /\ \A n \in 0 .. Len(a) - 1 : k[n + 1] = OneMore(k[n], a[n + 1], names)
      /\ l[0] = <<>> /\ \A n \in 0 .. Len(a) - 1 : l[n + 1] = OneMore(l[n], b[n + 1], names)
  <2>1. k[0] = <<>> /\ \A n \in 0 .. Len(a) - 1 : k[n + 1] = OneMore(k[n], a[n + 1], names)
    BY <1>1, KeptSteps
  <2>2. l[0] = <<>> /\ \A n \in 0 .. Len(b) - 1 : l[n + 1] = OneMore(l[n], b[n + 1], names)
    BY <1>1, KeptSteps
  <2>3. QED  BY <2>1, <2>2
<1> HIDE DEF k, l
<1>3. 0 \in T
  BY <1>2
<1>4. ASSUME NEW n \in 0 .. Len(a) - 1, n \in T PROVE n + 1 \in T
  BY <1>1, <1>2, <1>4 DEF OneMore
<1> HIDE DEF T
<1>5. 0 .. Len(a) \subseteq T
  BY <1>1, <1>3, <1>4, UpTo
<1>6. k[Len(a)] = l[Len(a)]
  BY <1>1, <1>5 DEF T
<1>7. QED  BY <1>6, WithoutIsKept DEF k, l

\* Lines of these names at the end do not count.
LEMMA RestOfFront ==
  ASSUME NEW S, NEW a \in Seq(S), NEW b \in Seq(S), NEW names, \A i \in 1 .. Len(b) : b[i].of \in names
  PROVE  Refresh!Without(a \o b, names) = Refresh!Without(a, names)
<1> DEFINE c == a \o b
           k == Kept(a, names)
           l == Kept(c, names)
           T == {n \in Nat : IF n <= Len(a) THEN k[n] = l[n] ELSE l[n] = k[Len(a)]}
<1>1. /\ Len(a) \in Nat /\ Len(b) \in Nat /\ Len(c) = Len(a) + Len(b) /\ Len(c) \in Nat
      /\ \A i \in 1 .. Len(a) : c[i] = a[i]
      /\ \A i \in 1 .. Len(b) : c[Len(a) + i] = b[i]
  OBVIOUS
<1> HIDE DEF c
<1> HIDE DEF T
<1>2. /\ k[0] = <<>> /\ \A n \in 0 .. Len(a) - 1 : k[n + 1] = OneMore(k[n], a[n + 1], names)
      /\ l[0] = <<>> /\ \A n \in 0 .. Len(c) - 1 : l[n + 1] = OneMore(l[n], c[n + 1], names)
  <2>1. k[0] = <<>> /\ \A n \in 0 .. Len(a) - 1 : k[n + 1] = OneMore(k[n], a[n + 1], names)
    BY <1>1, KeptSteps
  <2>2. l[0] = <<>> /\ \A n \in 0 .. Len(c) - 1 : l[n + 1] = OneMore(l[n], c[n + 1], names)
    BY <1>1, KeptSteps
  <2>3. QED  BY <2>1, <2>2
<1> USE DEF T
<1> HIDE DEF k, l
<1>3. 0 \in T
  BY <1>1, <1>2
<1>4. ASSUME NEW n \in 0 .. Len(c) - 1, n \in T PROVE n + 1 \in T
  <2>1. n + 1 \in Nat /\ l[n + 1] = OneMore(l[n], c[n + 1], names)
    BY <1>1, <1>2
  <2>2. CASE n + 1 <= Len(a)
    <3>1. n <= Len(a) /\ n + 1 \in 1 .. Len(a) /\ n \in 0 .. Len(a) - 1
      BY <1>1, <2>2
    <3>2. l[n + 1] = k[n + 1]
      BY <1>1, <1>2, <1>4, <2>1, <3>1
    <3>3. QED  BY <2>1, <2>2, <3>2
  <2>3. CASE ~(n + 1 <= Len(a))
    <3>1. n + 1 - Len(a) \in 1 .. Len(b) /\ Len(a) + (n + 1 - Len(a)) = n + 1
      BY <1>1, <2>3
    <3>2. c[n + 1].of \in names
      BY <1>1, <3>1
    <3>3. l[n] = k[Len(a)]
      BY <1>1, <1>4, <2>3
    <3>4. QED  BY <2>1, <2>3, <3>2, <3>3 DEF OneMore
  <2>4. QED  BY <2>2, <2>3
<1> HIDE DEF T
<1>5. 0 .. Len(c) \subseteq T
  BY <1>1, <1>3, <1>4, UpTo
<1>6. l[Len(c)] = k[Len(a)]
  <2>1. Len(c) \in T
    BY <1>1, <1>5
  <2>2. CASE Len(b) = 0
    BY <1>1, <2>1, <2>2 DEF T
  <2>3. CASE Len(b) # 0
    BY <1>1, <2>1, <2>3 DEF T
  <2>4. QED  BY <2>2, <2>3
<1>7. QED  BY <1>6, WithoutIsKept DEF c, k, l

\* Lines of other names are all kept.
LEMMA RestOfRest ==
  ASSUME NEW S, NEW a \in Seq(S), NEW names, \A i \in 1 .. Len(a) : a[i].of \notin names
  PROVE  Refresh!Without(a, names) = a
<1> DEFINE k == Kept(a, names)
           T == {n \in Nat : k[n] = SubSeq(a, 1, n)}
<1>1. Len(a) \in Nat
  OBVIOUS
<1>2. k[0] = <<>> /\ \A n \in 0 .. Len(a) - 1 : k[n + 1] = OneMore(k[n], a[n + 1], names)
  BY <1>1, KeptSteps
<1> HIDE DEF k
<1>3. 0 \in T
  <2>1. SubSeq(a, 1, 0) = <<>>
    BY SubSeqEmpty
  <2>2. QED  BY <1>2, <2>1
<1>4. ASSUME NEW n \in 0 .. Len(a) - 1, n \in T PROVE n + 1 \in T
  <2>1. n + 1 \in 1 .. Len(a) /\ 1 \in 1 .. Len(a) /\ n + 1 - 1 = n /\ n + 1 \in Nat
    BY <1>1
  <2>2. SubSeq(a, 1, n + 1) = SubSeq(a, 1, n) \o <<a[n + 1]>>
    <3>1. n + 1 \in 1 .. Len(a)
      BY <2>1
    <3>2. QED  BY <2>1, <3>1, SubSeqRecursiveSecond
  <2>3. k[n + 1] = Append(SubSeq(a, 1, n), a[n + 1])
    BY <1>2, <1>4, <2>1 DEF OneMore
  <2>4. SubSeq(a, 1, n) \in Seq(S) /\ a[n + 1] \in S
    BY <1>1, <2>1
  <2>5. QED  BY <2>1, <2>2, <2>3, <2>4, AppendIsConcat
<1> HIDE DEF T
<1>5. 0 .. Len(a) \subseteq T
  BY <1>1, <1>3, <1>4, UpTo
<1>6. k[Len(a)] = SubSeq(a, 1, Len(a))
  BY <1>1, <1>5 DEF T
<1>7. QED  BY <1>6, WithoutIsKept, SubSeqFull DEF k

-----------------------------------------------------------------------------
(* What the loader reads *)

LEMMA MaxOf ==
  ASSUME NEW I, NEW N \in Nat, I \subseteq 1 .. N, I # {}
  PROVE  Refresh!Max(I) \in I
<1> DEFINE T == {n \in Nat : (I \cap (1 .. n) # {}) => \E x \in I \cap (1 .. n) : \A y \in I \cap (1 .. n) : x >= y}
<1>1. 0 \in T
  OBVIOUS
<1>2. ASSUME NEW n \in Nat, n \in T PROVE n + 1 \in T
  <2>1. 1 .. n + 1 = (1 .. n) \cup {n + 1}
    OBVIOUS
  <2>2. CASE n + 1 \in I
    <3>1. n + 1 \in I \cap (1 .. n + 1) /\ \A y \in I \cap (1 .. n + 1) : n + 1 >= y
      BY <2>2
    <3>2. QED  BY <3>1
  <2>3. CASE n + 1 \notin I
    <3>1. I \cap (1 .. n + 1) = I \cap (1 .. n)
      BY <2>1, <2>3
    <3>2. QED  BY <1>2, <3>1
  <2>4. QED  BY <2>2, <2>3
<1>3. N \in T
  <2> HIDE DEF T
  <2>1. QED  BY <1>1, <1>2, SetInduction
<1>4. \E x \in I : \A y \in I : x >= y
  <2>1. I \cap (1 .. N) = I
    OBVIOUS
  <2>2. QED  BY <1>3, <2>1
<1>5. QED  BY <1>4 DEF Refresh!Max

LEMMA MinOf ==
  ASSUME NEW I, I \subseteq Nat, I # {}
  PROVE  Refresh!Min(I) \in I
<1> DEFINE T == {n \in Nat : (\E x \in I : x <= n) => \E x \in I : \A y \in I : x =< y}
<1>1. 0 \in T
  OBVIOUS
<1>2. ASSUME NEW n \in Nat, n \in T PROVE n + 1 \in T
  <2>1. SUFFICES ASSUME NEW x \in I, x <= n + 1 PROVE \E z \in I : \A y \in I : z =< y
    OBVIOUS
  <2>2. CASE \E y \in I : y <= n
    BY <1>2, <2>2
  <2>3. CASE ~\E y \in I : y <= n
    <3>1. \A y \in I : x =< y
      BY <2>1, <2>3
    <3>2. QED  BY <3>1
  <2>4. QED  BY <2>2, <2>3
<1>3. PICK x : x \in I
  OBVIOUS
<1>4. x \in T
  <2> HIDE DEF T
  <2>1. x \in Nat
    BY <1>3
  <2>2. QED  BY <1>1, <1>2, <2>1, SetInduction
<1>5. \E z \in I : \A y \in I : z =< y
  BY <1>3, <1>4
<1>6. QED  BY <1>5 DEF Refresh!Min

LEMMA NamesOf ==
  ASSUME NEW S, NEW lines \in Seq(S)
  PROVE  Refresh!Names(lines) = {x.of : x \in Range(lines)}
<1>1. DOMAIN lines = 1 .. Len(lines)
  OBVIOUS
<1>2. QED  BY <1>1, RangeEquality DEF Refresh!Names

AllSay(lines, n, v) ==
  (\E x \in Range(lines) : x.of = n) /\ \A x \in Range(lines) : x.of = n => x.val = v

\* If all lines of a name say the same, this is what is read.
LEMMA LoadedIs ==
  ASSUME NEW S, NEW lines \in Seq(S), NEW n, NEW v, AllSay(lines, n, v)
  PROVE  Refresh!Loaded(lines, n) = {v}
<1> USE DEF AllSay
<1> DEFINE I == {i \in 1 .. Len(lines) : lines[i].of = n}
<1>1. Len(lines) \in Nat /\ Range(lines) = {lines[i] : i \in 1 .. Len(lines)}
  BY RangeEquality
<1>2. I # {} /\ I \subseteq 1 .. Len(lines) /\ \A i \in I : lines[i].val = v
  BY <1>1
<1>3. n \in Refresh!Names(lines)
  BY NamesOf
<1>4. Refresh!SelectLastInSeq(lines, LAMBDA l : l.of = n) = IF I # {} THEN Refresh!Max(I) ELSE 0
  BY DEF Refresh!SelectLastInSeq
<1>5. Refresh!Loaded(lines, n) = {lines[Refresh!SelectLastInSeq(lines, LAMBDA l : l.of = n)].val}
  BY <1>3 DEF Refresh!Loaded
<1> HIDE DEF I
<1>6. Refresh!Max(I) \in I
  BY <1>1, <1>2, MaxOf
<1>7. QED  BY <1>2, <1>4, <1>5, <1>6

LEMMA LoadedNone ==
  ASSUME NEW S, NEW lines \in Seq(S), NEW n, \A x \in Range(lines) : x.of # n
  PROVE  Refresh!Loaded(lines, n) = {}
<1>1. n \notin Refresh!Names(lines)
  BY NamesOf
<1>2. QED  BY <1>1 DEF Refresh!Loaded

-----------------------------------------------------------------------------
(* The edits of refresh_config.conf *)

Line == Refresh!Line

\* What an edit is to do: the lines of other names stay, and the loader reads what is wanted.
EditRight(old, new, want) ==
  /\ Refresh!Without(new, DOMAIN want) = Refresh!Without(old, DOMAIN want)
  /\ \A n \in DOMAIN want :
       n \notin Pkgs \/ want[n] = {} \/ Refresh!Once(old, n) => Refresh!Loaded(new, n) = want[n]

LEMMA LineType ==
  /\ Line = [of : Range(Keys) \cup Pkgs \cup {Note}, val : Rates]
  /\ \A n \in Range(Keys) \cup Pkgs, v \in Rates :
       Refresh!Setting(n, v) \in Line /\ Refresh!Setting(n, v).of = n /\ Refresh!Setting(n, v).val = v
<1>1. Refresh!Range(Keys) = Range(Keys)
  BY DEF Refresh!Range, Range
<1>2. QED  BY <1>1 DEF Line, Refresh!Line, Refresh!Setting

LEMMA InRange == \A S : \A s \in Seq(S) : \A i \in 1 .. Len(s) : s[i] \in Range(s) /\ s[i] \in S
BY RangeEquality

LEMMA SetConfigRight ==
  ASSUME Keys \in Seq(Range(Keys)), NEW lines \in Seq(Line), NEW vals \in [Range(Keys) -> Rates]
  PROVE  /\ Refresh!SetConfig(lines, vals) \in Seq(Line)
         /\ EditRight(lines, Refresh!SetConfig(lines, vals), [k \in Range(Keys) |-> {vals[k]}])
<1> DEFINE a == [i \in 1 .. Len(lines) |->
                   IF lines[i].of \in Range(Keys) THEN Refresh!Setting(lines[i].of, vals[lines[i].of])
                   ELSE lines[i]]
           all == [i \in 1 .. Len(Keys) |-> Refresh!Setting(Keys[i], vals[Keys[i]])]
           b == Refresh!Without(all, Refresh!Names(lines))
           want == [k \in Range(Keys) |-> {vals[k]}]
           new == Refresh!SetConfig(lines, vals)
<1>1. /\ Len(lines) \in Nat /\ DOMAIN lines = 1 .. Len(lines)
      /\ Len(Keys) \in Nat /\ DOMAIN Keys = 1 .. Len(Keys)
  OBVIOUS
<1>2. new = a \o b
  <2>1. Refresh!Range(Keys) = Range(Keys)
    BY DEF Refresh!Range, Range
  <2>2. QED  BY <1>1, <2>1 DEF Refresh!SetConfig
<1>3. /\ a \in Seq(Line) /\ Len(a) = Len(lines)
      /\ \A i \in 1 .. Len(lines) :
           IF lines[i].of \in Range(Keys)
           THEN a[i].of = lines[i].of /\ a[i].val = vals[lines[i].of] ELSE a[i] = lines[i]
  <2>1. \A i \in 1 .. Len(lines) : lines[i] \in Line
    BY InRange
  <2>2. \A i \in 1 .. Len(lines) :
          /\ a[i] \in Line
          /\ IF lines[i].of \in Range(Keys)
             THEN a[i].of = lines[i].of /\ a[i].val = vals[lines[i].of] ELSE a[i] = lines[i]
    BY <2>1, LineType
  <2>3. a \in [1 .. Len(lines) -> Line] /\ DOMAIN a = 1 .. Len(lines)
    BY <2>2
  <2> HIDE DEF a
  <2>4. a \in Seq(Line) /\ Len(a) = Len(lines)
    BY <1>1, <2>3
  <2>5. QED  BY <2>2, <2>4
<1>4. /\ all \in Seq(Line) /\ Len(all) = Len(Keys)
      /\ \A i \in 1 .. Len(Keys) : all[i].of = Keys[i] /\ all[i].val = vals[Keys[i]] /\ Keys[i] \in Range(Keys)
  <2>1. \A i \in 1 .. Len(Keys) : Keys[i] \in Range(Keys)
    BY InRange
  <2>2. \A i \in 1 .. Len(Keys) : all[i] \in Line /\ all[i].of = Keys[i] /\ all[i].val = vals[Keys[i]]
    BY <2>1, LineType
  <2>3. all \in [1 .. Len(Keys) -> Line] /\ DOMAIN all = 1 .. Len(Keys)
    BY <2>2
  <2> HIDE DEF all
  <2>4. all \in Seq(Line) /\ Len(all) = Len(Keys)
    BY <1>1, <2>3
  <2>5. QED  BY <2>1, <2>2, <2>4
<1> HIDE DEF a, all
<1>5. b \in Seq(Line) /\ Range(b) = {x \in Range(all) : x.of \notin Refresh!Names(lines)}
  BY <1>4, WithoutLines
<1>6. \A x \in Range(all) : x.of \in Range(Keys) /\ x.val = vals[x.of]
  BY <1>4, RangeEquality
<1> HIDE DEF b, new
<1>7. new \in Seq(Line) /\ Range(new) = Range(a) \cup Range(b)
  BY <1>2, <1>3, <1>5, ConcatProperties, RangeConcatenation
<1>8. Refresh!Without(new, Range(Keys)) = Refresh!Without(lines, Range(Keys))
  <2>1. \A i \in 1 .. Len(b) : b[i].of \in Range(Keys)
    BY <1>5, <1>6, InRange
  <2>2. Refresh!Without(new, Range(Keys)) = Refresh!Without(a, Range(Keys))
    BY <1>2, <1>3, <1>5, <2>1, RestOfFront
  <2>3. \A i \in 1 .. Len(a) : a[i] = lines[i] \/ (a[i].of \in Range(Keys) /\ lines[i].of \in Range(Keys))
    BY <1>3
  <2>4. QED  BY <1>3, <2>2, <2>3, SameRest
<1>9. ASSUME NEW k \in Range(Keys) PROVE Refresh!Loaded(new, k) = {vals[k]}
  <2>1. \A x \in Range(a) : x.of = k => x.val = vals[k]
    BY <1>3, RangeEquality
  <2>2. \A x \in Range(new) : x.of = k => x.val = vals[k]
    BY <1>5, <1>6, <1>7, <2>1
  <2>3. \E x \in Range(new) : x.of = k
    <3>1. CASE k \in Refresh!Names(lines)
      <4>1. PICK i \in 1 .. Len(lines) : lines[i].of = k
        BY <1>1, <3>1 DEF Refresh!Names
      <4>2. a[i].of = k /\ a[i] \in Range(a)
        BY <1>3, <4>1, InRange
      <4>3. QED  BY <1>7, <4>2
    <3>2. CASE k \notin Refresh!Names(lines)
      <4>1. PICK i \in 1 .. Len(Keys) : Keys[i] = k
        BY <1>1, RangeEquality
      <4>2. all[i].of = k /\ all[i] \in Range(all)
        BY <1>4, <4>1, InRange
      <4>3. QED  BY <1>5, <1>7, <3>2, <4>2
    <3>3. QED  BY <3>1, <3>2
  <2>4. new \in Seq(Line)
    BY <1>7
  <2>5. AllSay(new, k, vals[k])
    BY <2>2, <2>3 DEF AllSay
  <2>6. QED  BY <2>4, <2>5, LoadedIs
<1>10. DOMAIN want = Range(Keys) /\ \A n \in Range(Keys) : want[n] = {vals[n]}
  OBVIOUS
<1> HIDE DEF want
<1>11. EditRight(lines, new, want)
  BY <1>8, <1>9, <1>10 DEF EditRight
<1>12. QED  BY <1>7, <1>11 DEF new, want

LEMMA AddAppRight ==
  ASSUME NEW lines \in Seq(Line), NEW p \in Pkgs, NEW v \in Rates
  PROVE  /\ Refresh!AddApp(lines, p, v) \in Seq(Line)
         /\ EditRight(lines, Refresh!AddApp(lines, p, v), [q \in {p} |-> {v}])
<1> DEFINE x == Refresh!Setting(p, v)
           want == [q \in {p} |-> {v}]
           new == Refresh!AddApp(lines, p, v)
<1>1. x \in Line /\ x.of = p /\ x.val = v
  BY LineType
<1>2. DOMAIN want = {p} /\ want[p] = {v}
  OBVIOUS
<1>3. Len(lines) \in Nat /\ DOMAIN lines = 1 .. Len(lines) /\ \A i \in 1 .. Len(lines) : lines[i] \in Line
  BY InRange
<1>4. CASE p \in Refresh!Names(lines)
  <2> DEFINE I == {i \in 1 .. Len(lines) : lines[i].of = p}
             i == Refresh!SelectInSeq(lines, LAMBDA l : l.of = p)
  <2>1. I # {} /\ I \subseteq 1 .. Len(lines) /\ \A j \in I : lines[j].of = p
    BY <1>3, <1>4 DEF Refresh!Names
  <2>2. i = IF I # {} THEN Refresh!Min(I) ELSE 0
    BY DEF Refresh!SelectInSeq
  <2>3. new = [lines EXCEPT ![i] = x]
    BY <1>4 DEF Refresh!AddApp, Refresh!ReplaceAt
  <2>4. \A j \in 1 .. Len(lines) : lines[j].of = p => j \in I
    OBVIOUS
  <2> HIDE DEF I, i, x, new
  <2>5. i \in I
    <3>1. I \subseteq Nat
      BY <2>1
    <3>2. QED  BY <2>1, <2>2, <3>1, MinOf
  <2>6. i \in 1 .. Len(lines) /\ lines[i].of = p
    BY <2>1, <2>5
  <2>7. /\ new \in Seq(Line) /\ Len(new) = Len(lines)
        /\ \A j \in 1 .. Len(lines) : new[j] = IF j = i THEN x ELSE lines[j]
    BY <1>1, <2>3, <2>6, ExceptSeq
  <2>8. Refresh!Without(new, {p}) = Refresh!Without(lines, {p})
    <3>1. \A j \in 1 .. Len(new) : new[j] = lines[j] \/ (new[j].of \in {p} /\ lines[j].of \in {p})
      BY <1>1, <2>6, <2>7
    <3>2. QED  BY <2>7, <3>1, SameRest
  <2>9. ASSUME Refresh!Once(lines, p) PROVE Refresh!Loaded(new, p) = {v}
    <3>1. \A j \in 1 .. Len(lines) : lines[j].of = p => j = i
      BY <1>3, <2>6, <2>9 DEF Refresh!Once
    <3>2. \A j \in 1 .. Len(new) : new[j].of = p => new[j].val = v
      BY <1>1, <2>7, <3>1
    <3>3. \A y \in Range(new) : y.of = p => y.val = v
      BY <2>7, <3>2, RangeEquality
    <3>4. \E y \in Range(new) : y.of = p
      BY <1>1, <2>6, <2>7, InRange
    <3>5. AllSay(new, p, v)
      BY <3>3, <3>4 DEF AllSay
    <3>6. QED  BY <2>7, <3>5, LoadedIs
  <2>10. EditRight(lines, new, want)
    <3> HIDE DEF want
    <3>1. QED  BY <1>2, <2>8, <2>9 DEF EditRight
  <2>11. QED  BY <2>7, <2>10 DEF new
<1>5. CASE p \notin Refresh!Names(lines)
  <2>1. new = Append(lines, x)
    BY <1>5 DEF Refresh!AddApp
  <2>2. \A i \in 1 .. Len(lines) : lines[i].of # p
    BY <1>3, <1>5 DEF Refresh!Names
  <2> HIDE DEF x, new
  <2>3. <<x>> \in Seq(Line) /\ new = lines \o <<x>> /\ new \in Seq(Line)
    BY <1>1, <2>1, AppendIsConcat
  <2>4. Refresh!Without(new, {p}) = Refresh!Without(lines, {p})
    <3>1. \A i \in 1 .. Len(<<x>>) : <<x>>[i].of \in {p}
      BY <1>1
    <3>2. QED  BY <2>3, <3>1, RestOfFront
  <2>5. Range(new) = Range(lines) \cup {x}
    <3>1. \A a, b \in Seq(Line) : Range(a \o b) = Range(a) \cup Range(b)
      BY RangeConcatenation
    <3>2. QED  BY <2>3, <3>1, RangeOfOne
  <2>6. \A y \in Range(lines) : y.of # p
    BY <2>2, RangeEquality
  <2>7. Refresh!Loaded(new, p) = {v}
    <3>1. AllSay(new, p, v)
      BY <1>1, <2>5, <2>6 DEF AllSay
    <3>2. QED  BY <2>3, <3>1, LoadedIs
  <2>8. EditRight(lines, new, want)
    <3> HIDE DEF want
    <3>1. QED  BY <1>2, <2>4, <2>7 DEF EditRight
  <2>9. QED  BY <2>3, <2>8 DEF new
<1>6. QED  BY <1>4, <1>5

LEMMA DelAppRight ==
  ASSUME NEW lines \in Seq(Line), NEW p \in Pkgs
  PROVE  /\ Refresh!DelApp(lines, p) \in Seq(Line)
         /\ EditRight(lines, Refresh!DelApp(lines, p), [q \in {p} |-> {}])
<1> DEFINE want == [q \in {p} |-> {}]
           new == Refresh!DelApp(lines, p)
<1>1. DOMAIN want = {p} /\ want[p] = {}
  OBVIOUS
<1>2. new = Refresh!Without(lines, {p})
  BY DEF Refresh!DelApp
<1> HIDE DEF new, want
<1>3. new \in Seq(Line) /\ \A x \in Range(new) : x.of \notin {p}
  BY <1>2, WithoutLines
<1>4. Refresh!Without(new, {p}) = new
  <2>1. \A i \in 1 .. Len(new) : new[i].of \notin {p}
    BY <1>3, InRange
  <2>2. QED  BY <1>3, <2>1, RestOfRest
<1>5. Refresh!Loaded(new, p) = {}
  BY <1>3, LoadedNone
<1>6. EditRight(lines, new, want)
  BY <1>1, <1>2, <1>4, <1>5 DEF EditRight
<1>7. QED  BY <1>3, <1>6 DEF new, want

USE StoreAssumption

-----------------------------------------------------------------------------
(* packages.list and its map *)

\* Every write has a number; the first of the second of the last write is what the time of
\* the list tells.  A map that is not late and was noted with that time knows that write.
UidInv ==
  /\ list.no \in Nat /\ list.mtime \in Nat /\ list.first \in Nat /\ list.first <= list.no
  /\ map \in Nat /\ noted \in Int /\ noted <= list.mtime
  /\ obs.since \in Nat /\ obs.since <= list.first
  /\ ~late /\ noted = list.mtime => map >= list.first
  /\ obs.at \in {"stat", "store"} => obs.no \in Nat /\ obs.since <= obs.no
  /\ obs.at = "stat" /\ ~torn => obs.no >= list.first
  /\ obs.at = "store" => obs.mtime \in Int /\ obs.mtime <= list.mtime
  /\ obs.at = "store" /\ ~torn /\ obs.mtime = list.mtime => obs.no >= list.first
  /\ obs.at = "lookup" => map >= obs.since \/ late \/ obs.failed

Listing == [no : Nat, mtime : Nat, first : Nat]
Observation == [at : {"idle", "check", "read", "stat", "store", "lookup"}, no : Nat,
                mtime : Int, since : Nat, failed : BOOLEAN]

UidRecords ==
  /\ list \in Listing /\ obs \in Observation
  /\ torn \in BOOLEAN /\ late \in BOOLEAN

LEMMA WaitingType ==
  Waiting \in Observation /\ Waiting.at = "idle" /\ Waiting.since = 0 /\ ~Waiting.failed
BY DEF Waiting, NoTime, Observation

LEMMA UidInitHolds == Init => UidRecords /\ UidInv
<1> SUFFICES ASSUME Init PROVE UidRecords /\ UidInv
  OBVIOUS
<1>1. /\ list = [no |-> 1, mtime |-> 1, first |-> 1] /\ map = 1 /\ noted = 1 /\ obs = Waiting
      /\ torn = FALSE /\ late = FALSE
  BY DEF Init, UidInit
<1>2. UidRecords
  BY <1>1, WaitingType DEF UidRecords, Listing
<1>3. QED  BY <1>1, <1>2, WaitingType DEF UidInv

LEMMA UidStepKeeps ==
  ASSUME UidRecords, UidInv, System \/ UidStep
  PROVE  UidRecords' /\ UidInv'
<1> USE DEF UidRecords, Observation
<1>1. CASE Install
  <2>1. /\ list' \in Listing /\ list'.no = list.no + 1
        /\ \/ list'.mtime = list.mtime /\ list'.first = list.first
           \/ list'.mtime = list.mtime + 1 /\ list'.first = list.no + 1
    BY <1>1 DEF Install, Listing, UidInv
  <2>2. /\ UNCHANGED <<map, noted, obs, late>> /\ (torn => torn') /\ torn' \in BOOLEAN
        /\ obs.at = "stat" /\ list'.mtime # list.mtime => torn'
    BY <1>1 DEF Install
  <2>3. CASE list'.mtime = list.mtime /\ list'.first = list.first
    BY <2>1, <2>2, <2>3 DEF UidInv
  <2>4. CASE list'.mtime = list.mtime + 1 /\ list'.first = list.no + 1
    BY <2>1, <2>2, <2>4 DEF UidInv
  <2>5. QED  BY <2>1, <2>3, <2>4
<1>2. CASE FgChanged
  <2>1. obs' \in Observation /\ obs'.at = "check" /\ obs'.since = list.first
    <3>1. list.first \in Nat /\ obs' = [Waiting EXCEPT !.at = "check", !.since = list.first]
      BY <1>2 DEF FgChanged, UidInv
    <3>2. QED  BY <3>1, WaitingType
  <2>2. UNCHANGED <<list, map, noted, torn, late>>
    BY <1>2 DEF FgChanged
  <2>3. QED  BY <2>1, <2>2 DEF UidInv
<1>3. CASE CheckMtime
  <2>1. /\ UNCHANGED <<list, map, noted, torn, late>>
        /\ obs' \in Observation /\ obs'.since = obs.since
        /\ \/ obs'.at = "read"
           \/ obs'.at = "lookup" /\ (obs'.failed \/ noted = list.mtime)
    <3>1. PICK m \in Times :
            obs' = [obs EXCEPT !.at = IF noted = m THEN "lookup" ELSE "read",
                               !.failed = noted = m /\ m = NoTime]
      BY <1>3 DEF CheckMtime
    <3>2. m = list.mtime \/ m = NoTime
      BY <3>1 DEF Times
    <3>3. UNCHANGED <<list, map, noted, torn, late>>
      BY <1>3 DEF CheckMtime
    <3>4. (noted = m /\ m = NoTime) \in BOOLEAN
      OBVIOUS
    <3>5. QED  BY <3>1, <3>2, <3>3, <3>4
  <2>2. CASE obs'.at = "read"
    BY <2>1, <2>2 DEF UidInv
  <2>3. CASE obs'.at = "lookup" /\ (obs'.failed \/ noted = list.mtime)
    <3>1. map >= obs.since \/ late \/ obs'.failed
      BY <2>3 DEF UidInv
    <3>2. QED  BY <2>1, <2>3, <3>1 DEF UidInv
  <2>4. QED  BY <2>1, <2>2, <2>3
<1>4. CASE ReadList
  <2>1. UNCHANGED <<list, map, noted, late>> /\ obs.at = "read"
    BY <1>4 DEF ReadList
  <2>2. CASE obs' = [obs EXCEPT !.at = "stat", !.no = list.no] /\ torn' = FALSE
    <3>1. /\ obs' \in Observation /\ obs'.at = "stat" /\ obs'.no = list.no
          /\ obs'.since = obs.since
      BY <2>2 DEF UidInv
    <3>2. obs.since <= list.no /\ list.no >= list.first
      BY DEF UidInv
    <3>3. UidRecords'
      BY <2>1, <2>2, <3>1
    <3>4. QED  BY <2>1, <3>1, <3>2, <3>3 DEF UidInv
  <2>3. CASE obs' = [obs EXCEPT !.at = "lookup", !.failed = TRUE] /\ UNCHANGED torn
    BY <2>1, <2>3 DEF UidInv
  <2>4. QED  BY <1>4, <2>2, <2>3 DEF ReadList
<1>5. CASE StatList
  <2>1. /\ obs.at = "stat" /\ obs' \in Observation /\ obs'.at = "store"
        /\ obs'.no = obs.no /\ obs'.since = obs.since
        /\ obs'.mtime \in Int /\ obs'.mtime <= list.mtime
    <3>1. PICK m \in Times : obs' = [obs EXCEPT !.at = "store", !.mtime = m]
      BY <1>5 DEF StatList
    <3>2. m \in Int /\ m <= list.mtime
      BY <3>1 DEF Times, NoTime, UidInv
    <3>3. obs.at = "stat"
      BY <1>5 DEF StatList
    <3>4. QED  BY <3>1, <3>2, <3>3
  <2>2. UNCHANGED <<list, map, noted, torn, late>>
    BY <1>5 DEF StatList
  <2>3. QED  BY <2>1, <2>2 DEF UidInv
<1>6. CASE StoreMap
  <2>1. /\ obs.at = "store" /\ map' = obs.no /\ noted' = obs.mtime /\ late' = torn
        /\ UNCHANGED <<list, torn>> /\ obs' \in Observation /\ obs'.at = "lookup"
        /\ obs'.since = obs.since
    BY <1>6 DEF StoreMap
  <2>2. QED  BY <2>1 DEF UidInv
<1>7. CASE LookUp
  <2>1. obs' = Waiting /\ UNCHANGED <<list, map, noted, torn, late>>
    BY <1>7 DEF LookUp
  <2>2. QED  BY <2>1, WaitingType DEF UidInv
<1>8. QED  BY <1>1, <1>2, <1>3, <1>4, <1>5, <1>6, <1>7 DEF System, UidStep

LEMMA UidKeeps == UidRecords /\ UidInv /\ [Next]_vars => UidRecords' /\ UidInv'
<1> SUFFICES ASSUME UidRecords, UidInv, [Next]_vars PROVE UidRecords' /\ UidInv'
  OBVIOUS
<1>1. CASE Observer \/ Observe
  BY <1>1, UidStepKeeps DEF Observer, Observe
<1>2. CASE Kill
  <2>1. /\ list' = list /\ obs' = Waiting /\ torn' = FALSE /\ late' = FALSE
        /\ (map' = list.no /\ noted' = list.mtime) \/ (map' = 0 /\ noted' = -1)
    BY <1>2 DEF Kill, UidRestart, NoTime
  <2>2. UidRecords'
    BY <2>1, WaitingType DEF UidRecords
  <2>3. QED  BY <2>1, <2>2, WaitingType DEF UidInv
<1>3. CASE UNCHANGED uidVars
  BY <1>3 DEF uidVars, UidRecords, UidInv
<1>4. QED
  BY <1>1, <1>2, <1>3 DEF Next, Save, ConfigSet, RefreshSet, RefreshWrite, vars

-----------------------------------------------------------------------------
(* AppOpt.json *)

SaverRecord ==
  [at : {"idle", "set", "snap", "create", "write", "rename"}, req : PartialSettings,
   left : Seq(Names), snap : Settings, no : Nat]

Locked(t) == saver[t].at \in {"create", "write", "rename"}
Active(t) == At(t, "snap") \/ Locked(t)

\* One thread at a time is past the lock; its snapshot is complete, and is what it renames.
LockInv ==
  \A t \in Savers : /\ Locked(t) => holder = t /\ saver[t].left = <<>>
                    /\ At(t, "rename") => tmp = saver[t].snap

\* Each snapshot has a number of its own, and newest is the one of a save that has ended.
NumberInv ==
  /\ taken \in Nat /\ newest \in Nat /\ newest <= taken
  /\ \A t \in Savers : Active(t) => saver[t].no <= taken /\ saver[t].no # newest
  /\ \A t, u \in Savers : Active(t) /\ Active(u) /\ saver[t].no = saver[u].no => t = u

\* A snapshot that is as the memory is in all fields read so far.
Current(t) == \A f \in Names : f \in Range(saver[t].left) \/ saver[t].snap[f] = mem[f]

\* Somebody is going to take a snapshot, or the last one is right and on its way, or it has
\* arrived, and is there unless it failed or an older one came after it.
Covered ==
  \/ \E t \in Savers : At(t, "set")
  \/ \E t \in Savers : Active(t) /\ saver[t].no = taken /\ Current(t)
  \/ newest = taken /\ (disk = mem \/ behind)

StoreInv == StoreTypeOK /\ LockInv /\ NumberInv /\ Covered

LEMMA SaverType == StoreTypeOK => saver \in [Savers -> SaverRecord]
BY DEF StoreTypeOK, SaverRecord

LEMMA NoRequest == <<>> \in PartialSettings
<1> DEFINE none == [f \in {} |-> f]
<1>1. none \in [{} -> Values] /\ {} \in SUBSET Names
  OBVIOUS
<1>2. none \in PartialSettings
  BY <1>1 DEF PartialSettings
<1>3. none = <<>>
  OBVIOUS
<1>4. QED  BY <1>2, <1>3

\* A value that a request or a command line gives is one of a field.
LEMMA RequestType ==
  \A req \in PartialSettings : \A f \in Names : f \in DOMAIN req => req[f] \in Values
BY DEF PartialSettings

LEMMA IdleType == /\ Idle \in SaverRecord /\ [Idle EXCEPT !.at = "set"] \in SaverRecord
                  /\ Idle.at = "idle"
<1>1. Default \in Settings /\ <<>> \in Seq(Names) /\ 0 \in Nat
  OBVIOUS
<1>2. QED  BY <1>1, NoRequest DEF Idle, SaverRecord

LEMMA RestOf ==
  ASSUME NEW S, NEW q \in Seq(S), q # <<>>
  PROVE  \A g \in Range(q) : g = Head(q) \/ g \in Range(Tail(q))
<1>1. Len(q) \in Nat /\ DOMAIN q = 1..Len(q) /\ DOMAIN Tail(q) = 1..Len(q) - 1
  OBVIOUS
<1>2. \A i \in 1..Len(q) - 1 : Tail(q)[i] = q[i + 1]
  BY <1>1
<1>3. ASSUME NEW i \in DOMAIN q, i # 1 PROVE q[i] \in Range(Tail(q))
  <2>1. i - 1 \in DOMAIN Tail(q) /\ Tail(q)[i - 1] = q[i]
    BY <1>1, <1>2, <1>3
  <2>2. QED  BY <2>1 DEF Range
<1>4. QED  BY <1>1, <1>3 DEF Range

LEMMA StoreInitHolds == Init => StoreInv
<1> SUFFICES ASSUME Init PROVE StoreInv
  OBVIOUS
<1> USE DEF Init, StoreInit
<1>1. /\ mem \in Settings /\ disk \in Settings /\ tmp = None /\ holder = None /\ behind = FALSE
      /\ saver \in [Savers -> SaverRecord] /\ \A t \in Savers : saver[t].at = "idle"
  BY IdleType
<1>2. StoreTypeOK
  BY <1>1 DEF StoreTypeOK, SaverRecord
<1>3. LockInv /\ NumberInv
  BY <1>1 DEF LockInv, NumberInv, Active, Locked, At
<1>4. QED  BY <1>2, <1>3 DEF StoreInv, Covered

\* A step of one thread leaves the others as they were.
LEMMA OthersStand ==
  ASSUME StoreTypeOK, NEW t \in Savers, NEW r \in SaverRecord, saver' = [saver EXCEPT ![t] = r]
  PROVE  /\ saver' \in [Savers -> SaverRecord] /\ saver'[t] = r
         /\ \A u \in Savers : u # t => saver'[u] = saver[u]
BY SaverType

LEMMA RestartKeeps ==
  ASSUME StoreInv, NEW cli \in PartialSettings, Restart(cli)
  PROVE  StoreInv'
<1> DEFINE start == [Idle EXCEPT !.at = "set"]
<1>1. /\ saver' = [t \in Savers |-> IF t = Main THEN start ELSE Idle]
      /\ mem' = [f \in Names |-> IF f \in DOMAIN cli THEN cli[f] ELSE disk[f]]
      /\ holder' = None /\ taken' = 0 /\ newest' = 0 /\ behind' = FALSE
      /\ UNCHANGED <<disk, tmp>>
  BY DEF Restart, Starting
<1>2. start \in SaverRecord /\ Idle \in SaverRecord /\ start.at = "set" /\ Idle.at = "idle"
  BY IdleType DEF SaverRecord
<1> HIDE DEF start
<1>3. mem' \in Settings
  BY <1>1, RequestType DEF StoreInv, StoreTypeOK, Settings
<1>4. saver' \in [Savers -> SaverRecord] /\ \A t \in Savers : saver'[t].at \in {"idle", "set"}
  BY <1>1, <1>2
<1>5. StoreTypeOK'
  BY <1>1, <1>3, <1>4 DEF StoreInv, StoreTypeOK, SaverRecord
<1>6. LockInv' /\ NumberInv'
  BY <1>1, <1>4 DEF LockInv, NumberInv, Active, Locked, At
<1>7. Main \in Savers /\ saver'[Main].at = "set"
  BY <1>1, <1>2 DEF Savers
<1>8. QED  BY <1>5, <1>6, <1>7 DEF StoreInv, Covered, At

\* A free thread takes a request, stores a field, or begins its snapshot.
LEMMA SetKeeps ==
  ASSUME StoreInv, NEW t \in Savers,
         (\E req \in Requests : Request(t, req)) \/ SetField(t) \/ BeginSnapshot(t)
  PROVE  StoreInv'
<1> USE DEF StoreInv
<1>0. saver[t] \in SaverRecord /\ Fields \in Seq(Names)
  BY SaverType
<1>1. CASE (\E req \in Requests : Request(t, req)) \/ SetField(t)
  <2>1. PICK r \in SaverRecord : saver' = [saver EXCEPT ![t] = r] /\ r.at = "set"
    <3>1. CASE \E req \in Requests : Request(t, req)
      <4>1. PICK req \in Requests : Request(t, req)
        BY <3>1
      <4> DEFINE r == [Idle EXCEPT !.at = "set", !.req = req, !.left = Fields]
      <4>2. saver' = [saver EXCEPT ![t] = r]
        BY <4>1 DEF Request
      <4>3. req \in PartialSettings
        BY RequestAssumption
      <4>4. r \in SaverRecord /\ r.at = "set"
        BY <1>0, <4>3, IdleType DEF SaverRecord
      <4>5. QED  BY <4>2, <4>4
    <3>2. CASE SetField(t)
      <4> DEFINE r == [saver[t] EXCEPT !.left = Tail(saver[t].left)]
      <4>1. At(t, "set") /\ saver[t].left # <<>> /\ saver' = [saver EXCEPT ![t] = r]
        BY <3>2 DEF SetField
      <4>2. Tail(saver[t].left) \in Seq(Names)
        BY <1>0, <4>1 DEF SaverRecord
      <4>3. r \in SaverRecord /\ r.at = "set"
        BY <1>0, <4>1, <4>2 DEF SaverRecord, At
      <4>4. QED  BY <4>1, <4>3
    <3>3. QED  BY <1>1, <3>1, <3>2
  <2>2. At(t, "set") \/ At(t, "idle")
    BY <1>1 DEF Request, SetField
  <2>3. UNCHANGED <<disk, tmp, holder, taken, newest, behind>> /\ mem' \in Settings
    <3>1. CASE \E req \in Requests : Request(t, req)
      BY <3>1 DEF Request, StoreTypeOK
    <3>2. CASE SetField(t)
      <4> DEFINE f == Head(saver[t].left)
                 req == saver[t].req
                 v == IF f \in DOMAIN req THEN req[f] ELSE mem[f]
      <4>1. f \in Names /\ req \in PartialSettings /\ mem \in Settings
        BY <1>0, <3>2 DEF SetField, SaverRecord, StoreTypeOK
      <4>2. mem' = [mem EXCEPT ![f] = v]
        BY <3>2, <4>1 DEF SetField, Settings
      <4> HIDE DEF f, req
      <4>3. v \in Values
        BY <4>1, RequestType DEF Settings
      <4> HIDE DEF v
      <4>4. mem' \in Settings
        BY <4>1, <4>2, <4>3 DEF Settings
      <4>5. QED  BY <3>2, <4>4 DEF SetField
    <3>3. QED  BY <1>1, <3>1, <3>2
  <2>4. /\ saver' \in [Savers -> SaverRecord] /\ saver'[t] = r
        /\ \A u \in Savers : u # t => saver'[u] = saver[u]
    BY <2>1, OthersStand
  <2>5. StoreTypeOK'
    BY <2>3, <2>4 DEF StoreTypeOK, SaverRecord
  <2>6. LockInv' /\ NumberInv'
    BY <2>1, <2>3, <2>4 DEF LockInv, NumberInv, Active, Locked, At
  <2>7. Covered'
    BY <2>1, <2>4 DEF Covered, At
  <2>8. QED  BY <2>5, <2>6, <2>7
<1>2. CASE BeginSnapshot(t)
  <2> DEFINE r == [Idle EXCEPT !.at = "snap", !.left = Fields, !.no = taken + 1]
  <2>1. /\ At(t, "set") /\ taken' = taken + 1 /\ saver' = [saver EXCEPT ![t] = r]
        /\ UNCHANGED <<mem, disk, tmp, holder, newest, behind>>
    BY <1>2 DEF BeginSnapshot
  <2>2. r \in SaverRecord /\ r.at = "snap" /\ r.left = Fields /\ r.no = taken + 1
    <3>1. taken + 1 \in Nat
      BY DEF NumberInv
    <3>2. QED  BY <1>0, <3>1, IdleType DEF SaverRecord
  <2> HIDE DEF r
  <2>4. /\ saver' \in [Savers -> SaverRecord] /\ saver'[t] = r
        /\ \A u \in Savers : u # t => saver'[u] = saver[u]
    BY <2>1, <2>2, OthersStand
  <2>5. StoreTypeOK'
    BY <2>1, <2>4 DEF StoreTypeOK, SaverRecord
  <2>6. LockInv'
    BY <2>1, <2>2, <2>4 DEF LockInv, Locked, At
  <2>7. NumberInv'
    <3>1. \A u \in Savers : saver[u].no \in Nat
      BY SaverType DEF SaverRecord
    <3>2. QED  BY <2>1, <2>2, <2>4, <3>1 DEF NumberInv, Active, Locked, At
  <2>8. Covered'
    <3>1. Active(t)' /\ saver'[t].no = taken'
      BY <2>1, <2>2, <2>4 DEF Active, At
    <3>2. Current(t)'
      BY <2>2, <2>4 DEF Current, Names
    <3>3. QED  BY <3>1, <3>2 DEF Covered
  <2>9. QED  BY <2>5, <2>6, <2>7, <2>8
<1>3. QED  BY <1>1, <1>2

\* What one thread does to its own record between snapshot and rename.
Onward(t) == ReadField(t) \/ Lock(t) \/ Create(t) \/ Write(t)

LEMMA OnwardKeeps ==
  ASSUME StoreInv, NEW t \in Savers, Onward(t)
  PROVE  StoreInv'
<1> USE DEF StoreInv
<1>0. saver[t] \in SaverRecord /\ mem \in Settings
  BY SaverType DEF StoreTypeOK
<1>1. Active(t) /\ UNCHANGED <<mem, disk, taken, newest, behind>>
  <2>1. CASE ReadField(t)
    BY <2>1 DEF ReadField, Active
  <2>2. CASE Lock(t) \/ Create(t) \/ Write(t)
    BY <2>2 DEF Lock, Create, Write, Active, Locked, At
  <2>3. QED  BY <2>1, <2>2 DEF Onward
<1>2. PICK r \in SaverRecord :
        /\ saver' = [saver EXCEPT ![t] = r]
        /\ r.no = saver[t].no /\ r.at \in {"snap", "create", "write", "rename"}
        /\ r.at # "snap" => r.left = <<>>
        /\ Current(t) => \A f \in Names : f \in Range(r.left) \/ r.snap[f] = mem[f]
  <2>1. CASE ReadField(t)
    <3> DEFINE f == Head(saver[t].left)
               r == [saver[t] EXCEPT !.snap[f] = mem[f], !.left = Tail(saver[t].left)]
    <3>1. At(t, "snap") /\ saver[t].left # <<>> /\ saver[t].left \in Seq(Names) /\ f \in Names
      BY <1>0, <2>1 DEF ReadField, SaverRecord
    <3>2. saver' = [saver EXCEPT ![t] = r]
      BY <2>1 DEF ReadField
    <3>3. /\ r.no = saver[t].no /\ r.at = "snap"
          /\ r.snap = [saver[t].snap EXCEPT ![f] = mem[f]] /\ r.left = Tail(saver[t].left)
      BY <1>0, <3>1 DEF SaverRecord, At
    <3>4. [saver[t].snap EXCEPT ![f] = mem[f]] \in Settings /\ Tail(saver[t].left) \in Seq(Names)
      BY <1>0, <3>1 DEF SaverRecord, Settings
    <3>5. r \in SaverRecord
      BY <1>0, <3>4 DEF SaverRecord
    <3>6. \A g \in Range(saver[t].left) : g = f \/ g \in Range(Tail(saver[t].left))
      BY <3>1, RestOf
    <3>7. \A g \in Names : r.snap[g] = IF g = f THEN mem[f] ELSE saver[t].snap[g]
      BY <1>0, <3>3 DEF SaverRecord, Settings
    <3> HIDE DEF r, f
    <3>8. Current(t) => \A g \in Names : g \in Range(r.left) \/ r.snap[g] = mem[g]
      BY <3>3, <3>6, <3>7 DEF Current
    <3>9. QED  BY <3>2, <3>3, <3>5, <3>8
  <2>2. CASE Lock(t) \/ Create(t) \/ Write(t)
    <3>1. PICK place \in {"create", "write", "rename"} : saver' = [saver EXCEPT ![t].at = place]
      BY <2>2 DEF Lock, Create, Write
    <3> DEFINE r == [saver[t] EXCEPT !.at = place]
    <3>2. saver' = [saver EXCEPT ![t] = r]
      BY <3>1
    <3>3. saver[t].left = <<>>
      BY <2>2 DEF Lock, Create, Write, LockInv, Locked, At
    <3>4. /\ r \in SaverRecord /\ r.no = saver[t].no /\ r.at = place
          /\ r.snap = saver[t].snap /\ r.left = <<>>
      BY <1>0, <3>3 DEF SaverRecord
    <3> HIDE DEF r
    <3>5. Current(t) => \A f \in Names : f \in Range(r.left) \/ r.snap[f] = mem[f]
      BY <3>3, <3>4 DEF Current
    <3>6. QED  BY <3>2, <3>4, <3>5
  <2>3. QED  BY <2>1, <2>2 DEF Onward
<1>3. /\ saver' \in [Savers -> SaverRecord] /\ saver'[t] = r
      /\ \A u \in Savers : u # t => saver'[u] = saver[u]
  BY <1>2, OthersStand
<1>4. StoreTypeOK'
  <2>1. tmp' \in Settings \cup {None} /\ holder' \in Savers \cup {None}
    BY <1>0 DEF Onward, ReadField, Lock, Create, Write, SaverRecord, StoreTypeOK
  <2>2. QED  BY <1>1, <1>3, <2>1 DEF StoreTypeOK, SaverRecord
<1>5. NumberInv'
  BY <1>1, <1>2, <1>3 DEF NumberInv, Active, Locked, At
<1>6. LockInv'
  <2>1. CASE ReadField(t)
    BY <1>0, <1>3, <2>1 DEF ReadField, LockInv, Locked, At, SaverRecord
  <2>2. CASE Lock(t)
    BY <1>0, <1>3, <2>2 DEF Lock, LockInv, Locked, At, SaverRecord
  <2>3. CASE Create(t)
    BY <1>0, <1>3, <2>3 DEF Create, LockInv, Locked, At, SaverRecord
  <2>4. CASE Write(t)
    BY <1>0, <1>3, <2>4 DEF Write, LockInv, Locked, At, SaverRecord
  <2>5. QED  BY <2>1, <2>2, <2>3, <2>4 DEF Onward
<1>7. Covered'
  <2>1. \A u \in Savers : At(u, "set") => At(u, "set")'
    BY <1>1, <1>3 DEF Active, Locked, At
  <2>2. ASSUME NEW u \in Savers, Active(u), saver[u].no = taken, Current(u)
        PROVE  Active(u)' /\ saver'[u].no = taken' /\ Current(u)'
    <3>1. CASE u = t
      BY <1>1, <1>2, <1>3, <2>2, <3>1 DEF Active, Locked, At, Current
    <3>2. CASE u # t
      BY <1>1, <1>3, <2>2, <3>2 DEF Active, Locked, At, Current
    <3>3. QED  BY <3>1, <3>2
  <2>3. QED  BY <1>1, <2>1, <2>2 DEF Covered
<1>8. QED  BY <1>4, <1>5, <1>6, <1>7

\* A save ends, well or not.
LEMMA EndKeeps ==
  ASSUME StoreInv, NEW t \in Savers, Rename(t) \/ SaveFails(t)
  PROVE  StoreInv'
<1> USE DEF StoreInv
<1>1. /\ Locked(t) /\ Active(t) /\ saver' = [saver EXCEPT ![t] = Idle] /\ holder' = None
      /\ newest' = Larger(newest, saver[t].no) /\ UNCHANGED <<mem, taken>>
  BY DEF Rename, SaveFails, Active, Locked, At
<1>2. Idle \in SaverRecord /\ Idle.at = "idle"
  BY IdleType
<1>3. /\ saver' \in [Savers -> SaverRecord] /\ saver'[t] = Idle
      /\ \A u \in Savers : u # t => saver'[u] = saver[u]
  BY <1>1, <1>2, OthersStand
<1>4. saver[t] \in SaverRecord
  BY SaverType
<1>5. StoreTypeOK'
  <2>1. CASE Rename(t)
    <3>1. disk' = saver[t].snap /\ tmp' = None /\ behind' \in BOOLEAN
      BY <2>1 DEF Rename, LockInv
    <3>2. QED  BY <1>1, <1>3, <1>4, <3>1 DEF StoreTypeOK, SaverRecord
  <2>2. CASE SaveFails(t)
    <3>1. UNCHANGED <<disk, tmp>> /\ behind' \in BOOLEAN
      BY <2>2 DEF SaveFails
    <3>2. QED  BY <1>1, <1>3, <3>1 DEF StoreTypeOK, SaverRecord
  <2>3. QED  BY <2>1, <2>2
<1>6. LockInv'
  BY <1>1, <1>2, <1>3 DEF LockInv, Locked, At
<1>7. saver[t].no \in Nat /\ saver[t].no <= taken /\ saver[t].no # newest /\ taken \in Nat /\ newest \in Nat
  BY <1>1, <1>4 DEF NumberInv, SaverRecord
<1>8. NumberInv'
  BY <1>1, <1>2, <1>3, <1>7 DEF NumberInv, Larger, Active, Locked, At
<1>9. Covered'
  <2>1. \A u \in Savers : At(u, "set") => At(u, "set")'
    BY <1>1, <1>3 DEF Locked, At
  <2>2. ASSUME NEW u \in Savers, u # t, Active(u), saver[u].no = taken, Current(u)
        PROVE  Active(u)' /\ saver'[u].no = taken' /\ Current(u)'
    BY <1>1, <1>3, <2>2 DEF Active, Locked, At, Current
  <2>3. ASSUME saver[t].no = taken, Current(t) PROVE newest' = taken' /\ (disk' = mem' \/ behind')
    <3>1. newest' = taken' /\ newest < saver[t].no
      BY <1>1, <1>7, <2>3 DEF Larger, NumberInv
    <3>2. CASE Rename(t)
      <4>1. disk' = saver[t].snap /\ saver[t].left = <<>>
        BY <1>1, <3>2 DEF Rename, LockInv
      <4>2. \A f \in Names : saver[t].snap[f] = mem[f]
        BY <2>3, <4>1 DEF Current, Range
      <4>3. saver[t].snap = mem
        BY <1>4, <4>2 DEF SaverRecord, StoreTypeOK, Settings
      <4>4. QED  BY <1>1, <3>1, <4>1, <4>3
    <3>3. CASE SaveFails(t)
      BY <3>1, <3>3 DEF SaveFails
    <3>4. QED  BY <3>1, <3>2, <3>3
  <2>4. ASSUME newest = taken, disk = mem \/ behind PROVE newest' = taken' /\ (disk' = mem' \/ behind')
    <3>1. saver[t].no < newest /\ newest' = taken'
      BY <1>1, <1>7, <2>4 DEF Larger
    <3>2. QED  BY <1>1, <2>4, <3>1 DEF Rename, SaveFails
  <2>5. QED  BY <2>1, <2>2, <2>3, <2>4 DEF Covered
<1>10. QED  BY <1>5, <1>6, <1>8, <1>9

LEMMA StoreKeeps == StoreInv /\ [Next]_vars => StoreInv'
<1> SUFFICES ASSUME StoreInv, [Next]_vars PROVE StoreInv'
  OBVIOUS
<1>1. CASE Save
  BY <1>1, SetKeeps, OnwardKeeps, EndKeeps DEF Save, SaveStep, Onward
<1>2. CASE \E t \in Web : ConfigSet(t)
  BY <1>2, SetKeeps DEF ConfigSet, Savers
<1>3. CASE Kill
  BY <1>3, RestartKeeps, RequestAssumption DEF Kill
<1>4. CASE UNCHANGED <<mem, disk, tmp, holder, saver, taken, newest, behind>>
  BY <1>4 DEF StoreInv, StoreTypeOK, LockInv, NumberInv, Covered, Active, Locked, At, Current
<1>5. QED
  BY <1>1, <1>2, <1>3, <1>4
     DEF Next, Observer, Observe, RefreshSet, RefreshWrite, StoreSame, storeVars, vars

-----------------------------------------------------------------------------
(* refresh_config.conf *)

\* An edit that is alone is the only one, and finds the file as it has left it; what it is
\* going to write is right for what it has read.
EditInv ==
  /\ Refresh!EditTypeOK
  /\ \A t \in Web : Refresh!Editing(t) =>
       /\ EditRight(editor[t].old, editor[t].new, editor[t].want)
       /\ editor[t].alone => \A u \in Web : Refresh!Editing(u) => u = t
       /\ editor[t].alone /\ editor[t].at = "fill" => file = <<>>

Wants == UNION {[S -> SUBSET Rates] : S \in SUBSET (Range(Keys) \cup Pkgs)}

Edit == [at : {"idle", "truncate", "fill"}, new : Seq(Line), old : Seq(Line), want : Wants,
         alone : BOOLEAN]

LEMMA EditType == Refresh!EditTypeOK <=> file \in Seq(Line) /\ editor \in [Web -> Edit]
<1>1. Refresh!Range(Keys) = Range(Keys)
  BY DEF Refresh!Range, Range
<1>2. QED  BY <1>1 DEF Refresh!EditTypeOK, Edit, Wants, Line

LEMMA WantsType ==
  \A S \in SUBSET (Range(Keys) \cup Pkgs) : [S -> SUBSET Rates] \subseteq Wants
BY DEF Wants

LEMMA RestingType == Refresh!Resting \in Edit /\ Refresh!Resting.at = "idle"
<1> DEFINE none == [f \in {} |-> {}]
<1>1. none \in [{} -> SUBSET Rates] /\ none = <<>>
  OBVIOUS
<1>2. <<>> \in Wants
  BY <1>1, WantsType
<1>3. QED  BY <1>2 DEF Refresh!Resting, Edit

LEMMA EditInitHolds == Init => EditInv
<1> SUFFICES ASSUME Init PROVE EditInv
  OBVIOUS
<1>1. file \in Seq(Line)
  BY RequestAssumption DEF Init, Refresh!EditInit, Line, Refresh!Line, Range, Refresh!Range
<1>2. editor \in [Web -> Edit] /\ \A t \in Web : editor[t].at = "idle"
  BY RestingType DEF Init, Refresh!EditInit
<1>3. QED  BY <1>1, <1>2, EditType DEF EditInv, Refresh!Editing

\* A thread reads the file and edits its lines.
LEMMA ReadKeeps ==
  ASSUME EditInv, NEW t \in Web, NEW new \in Seq(Line), NEW want \in Wants,
         ~Refresh!Editing(t), EditRight(file, new, want), Refresh!ReadFile(t, new, want)
  PROVE  EditInv'
<1> DEFINE e == [at |-> "truncate", new |-> new, old |-> file, want |-> want,
                 alone |-> \A w \in Web : ~Refresh!Editing(w)]
<1>1. file' = file /\ file \in Seq(Line) /\ editor \in [Web -> Edit]
  BY EditType DEF Refresh!ReadFile, EditInv
<1>2. /\ e \in Edit /\ e.at = "truncate" /\ e.new = new /\ e.old = file /\ e.want = want
      /\ e.alone <=> \A w \in Web : ~Refresh!Editing(w)
  BY <1>1 DEF Edit
<1>3. editor' = [u \in Web |-> IF u = t THEN e ELSE [editor[u] EXCEPT !.alone = FALSE]]
  BY DEF Refresh!ReadFile
<1> HIDE DEF e
<1>4. \A u \in Web : LET f == [editor[u] EXCEPT !.alone = FALSE]
                     IN  /\ f \in Edit /\ f.at = editor[u].at /\ f.new = editor[u].new
                         /\ f.old = editor[u].old /\ f.want = editor[u].want /\ ~f.alone
  BY <1>1 DEF Edit
<1>5. /\ editor' \in [Web -> Edit] /\ editor'[t] = e
      /\ \A u \in Web : u # t => /\ editor'[u].at = editor[u].at /\ editor'[u].new = editor[u].new
                                 /\ editor'[u].old = editor[u].old /\ editor'[u].want = editor[u].want
                                 /\ ~editor'[u].alone
  BY <1>2, <1>3, <1>4
<1>6. Refresh!EditTypeOK'
  <2>1. file' \in Seq(Line)
    BY <1>1
  <2>2. Refresh!Range(Keys) = Range(Keys)
    BY DEF Refresh!Range, Range
  <2>3. QED  BY <1>5, <2>1, <2>2 DEF Refresh!EditTypeOK, Edit, Wants, Line
<1>7. ASSUME NEW u \in Web, Refresh!Editing(u)'
      PROVE  /\ EditRight(editor'[u].old, editor'[u].new, editor'[u].want)
             /\ editor'[u].alone => \A w \in Web : Refresh!Editing(w)' => w = u
             /\ editor'[u].alone /\ editor'[u].at = "fill" => file' = <<>>
  <2>1. CASE u = t
    <3>1. ASSUME e.alone PROVE \A w \in Web : Refresh!Editing(w)' => w = t
      BY <1>2, <1>5, <3>1 DEF Refresh!Editing
    <3>2. QED  BY <1>2, <1>5, <2>1, <3>1
  <2>2. CASE u # t
    BY <1>5, <1>7, <2>2 DEF EditInv, Refresh!Editing
  <2>3. QED  BY <2>1, <2>2
<1>8. QED  BY <1>6, <1>7 DEF EditInv, EditRight

\* The file is truncated, or written.
LEMMA WriteKeeps ==
  ASSUME EditInv, NEW t \in Web, Refresh!TruncateFile(t) \/ Refresh!FillFile(t)
  PROVE  EditInv'
<1>1. file \in Seq(Line) /\ editor \in [Web -> Edit] /\ editor[t] \in Edit
  BY EditType DEF EditInv
<1>2. Refresh!Range(Keys) = Range(Keys)
  BY DEF Refresh!Range, Range
<1>3. CASE Refresh!TruncateFile(t)
  <2> DEFINE e == [editor[t] EXCEPT !.at = "fill"]
  <2>1. file' = <<>> /\ editor[t].at = "truncate" /\ editor' = [editor EXCEPT ![t] = e]
    BY <1>3 DEF Refresh!TruncateFile
  <2>2. /\ e \in Edit /\ e.at = "fill" /\ e.new = editor[t].new /\ e.old = editor[t].old
        /\ e.want = editor[t].want /\ e.alone = editor[t].alone
    BY <1>1 DEF Edit
  <2> HIDE DEF e
  <2>3. editor' \in [Web -> Edit] /\ editor'[t] = e /\ \A u \in Web : u # t => editor'[u] = editor[u]
    BY <1>1, <2>1, <2>2
  <2>4. Refresh!EditTypeOK'
    <3>1. file' \in Seq(Line)
      BY <2>1
    <3>2. QED  BY <1>2, <2>3, <3>1 DEF Refresh!EditTypeOK, Edit, Wants, Line
  <2>5. QED  BY <2>1, <2>2, <2>3, <2>4 DEF EditInv, EditRight, Refresh!Editing
<1>4. CASE Refresh!FillFile(t)
  <2>1. /\ file' = editor[t].new \o SubSeq(file, Len(editor[t].new) + 1, Len(file))
        /\ editor[t].at = "fill" /\ editor' = [editor EXCEPT ![t] = Refresh!Resting]
    BY <1>4 DEF Refresh!FillFile
  <2>2. /\ editor' \in [Web -> Edit] /\ editor'[t] = Refresh!Resting
        /\ \A u \in Web : u # t => editor'[u] = editor[u]
    BY <1>1, <2>1, RestingType
  <2>3. Refresh!EditTypeOK'
    <3>1. editor[t].new \in Seq(Line) /\ Len(editor[t].new) \in Nat /\ Len(file) \in Nat
      BY <1>1 DEF Edit
    <3>2. SubSeq(file, Len(editor[t].new) + 1, Len(file)) \in Seq(Line)
      BY <1>1, <3>1
    <3>3. file' \in Seq(Line)
      BY <2>1, <3>1, <3>2
    <3>4. QED  BY <1>2, <2>2, <3>3 DEF Refresh!EditTypeOK, Edit, Wants, Line
  <2>4. ASSUME NEW u \in Web, Refresh!Editing(u)'
        PROVE  u # t /\ editor'[u] = editor[u] /\ Refresh!Editing(u) /\ ~editor[u].alone
    BY <2>1, <2>2, <2>4, RestingType DEF EditInv, Refresh!Editing
  <2>5. QED  BY <2>3, <2>4 DEF EditInv, EditRight
<1>5. QED  BY <1>3, <1>4

KillsInv == kills \in Nat

LEMMA KillsCounted == KillsInv /\ [Next]_vars => KillsInv'
<1> SUFFICES ASSUME kills \in Nat, [Next]_vars PROVE kills' \in Nat
  BY DEF KillsInv
<1>1. CASE Save
  BY <1>1 DEF Save, SaveStep, SetField, BeginSnapshot, ReadField, Lock, Create, Write, Rename, SaveFails
<1>2. CASE Kill
  BY <1>2 DEF Kill, Restart
<1>3. CASE UNCHANGED kills
  BY <1>3
<1>4. QED
  BY <1>1, <1>2, <1>3
     DEF Next, Observer, Observe, ConfigSet, Request, RefreshSet, RefreshWrite, StoreSame, storeVars, vars

LEMMA EditKeeps == EditInv /\ [Next]_vars => EditInv'
<1> SUFFICES ASSUME EditInv, [Next]_vars PROVE EditInv'
  OBVIOUS
<1>1. file \in Seq(Line) /\ editor \in [Web -> Edit]
  BY EditType DEF EditInv
<1>2. ASSUME NEW t \in Web, RefreshSet(t) PROVE EditInv'
  <2>1. ~Refresh!Editing(t)
    BY <1>2 DEF RefreshSet, Free
  <2>2. CASE \E vals \in [Range(Keys) -> Rates] : Refresh!SetGlobal(t, vals)
    <3>1. PICK vals \in [Range(Keys) -> Rates] : Refresh!SetGlobal(t, vals)
      BY <2>2
    <3> DEFINE new == Refresh!SetConfig(file, vals)
               want == [k \in Range(Keys) |-> {vals[k]}]
    <3>2. new \in Seq(Line) /\ EditRight(file, new, want)
      BY <1>1, RequestAssumption, SetConfigRight
    <3>3. want \in Wants
      <4>1. want \in [Range(Keys) -> SUBSET Rates]
        OBVIOUS
      <4> HIDE DEF want
      <4>2. QED  BY <4>1, WantsType
    <3>4. Refresh!ReadFile(t, new, want)
      <4>1. Refresh!Range(Keys) = Range(Keys)
        BY DEF Refresh!Range, Range
      <4>2. QED  BY <3>1, <4>1 DEF Refresh!SetGlobal
    <3> HIDE DEF new, want
    <3>5. QED  BY <2>1, <3>2, <3>3, <3>4, ReadKeeps
  <2>3. CASE \E p \in Pkgs, v \in Rates : Refresh!AddPkg(t, p, v)
    <3>1. PICK p \in Pkgs, v \in Rates : Refresh!AddPkg(t, p, v)
      BY <2>3
    <3> DEFINE new == Refresh!AddApp(file, p, v)
               want == [q \in {p} |-> {v}]
    <3>2. new \in Seq(Line) /\ EditRight(file, new, want)
      BY <1>1, AddAppRight
    <3>3. want \in Wants
      <4>1. want \in [{p} -> SUBSET Rates]
        OBVIOUS
      <4> HIDE DEF want
      <4>2. QED  BY <4>1, WantsType
    <3>4. Refresh!ReadFile(t, new, want)
      BY <3>1 DEF Refresh!AddPkg
    <3> HIDE DEF new, want
    <3>5. QED  BY <2>1, <3>2, <3>3, <3>4, ReadKeeps
  <2>4. CASE \E p \in Pkgs : Refresh!DelPkg(t, p)
    <3>1. PICK p \in Pkgs : Refresh!DelPkg(t, p)
      BY <2>4
    <3> DEFINE new == Refresh!DelApp(file, p)
               want == [q \in {p} |-> {}]
    <3>2. new \in Seq(Line) /\ EditRight(file, new, want)
      BY <1>1, DelAppRight
    <3>3. want \in Wants
      <4>1. want \in [{p} -> SUBSET Rates]
        OBVIOUS
      <4> HIDE DEF want
      <4>2. QED  BY <4>1, WantsType
    <3>4. Refresh!ReadFile(t, new, want)
      BY <3>1 DEF Refresh!DelPkg
    <3> HIDE DEF new, want
    <3>5. QED  BY <2>1, <3>2, <3>3, <3>4, ReadKeeps
  <2>5. QED  BY <1>2, <2>2, <2>3, <2>4 DEF RefreshSet
<1>3. CASE \E t \in Web : RefreshWrite(t)
  BY <1>3, WriteKeeps DEF RefreshWrite
<1>4. CASE Kill
  <2>1. file' \in Seq(Line) /\ editor' \in [Web -> Edit] /\ \A t \in Web : editor'[t].at = "idle"
    BY <1>1, <1>4, RestingType DEF Kill
  <2>2. Refresh!Range(Keys) = Range(Keys)
    BY DEF Refresh!Range, Range
  <2>3. Refresh!EditTypeOK'
    BY <2>1, <2>2 DEF Refresh!EditTypeOK, Edit, Wants, Line
  <2>4. QED  BY <2>1, <2>3 DEF EditInv, Refresh!Editing
<1>5. CASE UNCHANGED <<file, editor>>
  BY <1>5 DEF EditInv, Refresh!EditTypeOK, Refresh!Editing, EditRight
<1>6. QED
  BY <1>2, <1>3, <1>4, <1>5 DEF Next, Save, Observer, Observe, ConfigSet, vars

\* The step that ends an edit that was alone.
LEMMA EditEnds ==
  ASSUME EditInv, NEW t \in Web, editor[t].at = "fill", editor[t].alone, ~Refresh!Editing(t)',
         \E u \in Web : RefreshWrite(u) \/ RefreshSet(u)
  PROVE  file' = editor[t].new /\ EditRight(editor[t].old, file', editor[t].want)
<1>1. file \in Seq(Line) /\ editor \in [Web -> Edit] /\ editor[t].new \in Seq(Line)
  BY EditType DEF EditInv, Edit
<1>2. file = <<>> /\ EditRight(editor[t].old, editor[t].new, editor[t].want)
  BY DEF EditInv, Refresh!Editing
<1>3. Refresh!FillFile(t)
  <2>1. ASSUME NEW u \in Web, u # t, RefreshWrite(u) \/ RefreshSet(u) PROVE FALSE
    <3>1. editor[t] \in Edit
      BY <1>1
    <3>2. CASE RefreshWrite(u)
      <4>1. editor'[t] = editor[t]
        BY <1>1, <2>1, <3>2 DEF RefreshWrite, Refresh!TruncateFile, Refresh!FillFile
      <4>2. QED  BY <4>1 DEF Refresh!Editing
    <3>3. CASE RefreshSet(u)
      <4>1. PICK new, want : Refresh!ReadFile(u, new, want)
        BY <3>3 DEF RefreshSet, Refresh!SetGlobal, Refresh!AddPkg, Refresh!DelPkg
      <4>2. editor'[t] = [editor[t] EXCEPT !.alone = FALSE]
        BY <2>1, <4>1 DEF Refresh!ReadFile
      <4>3. QED  BY <3>1, <4>2 DEF Refresh!Editing, Edit
    <3>4. QED  BY <2>1, <3>2, <3>3
  <2>2. RefreshWrite(t) \/ RefreshSet(t)
    BY <2>1
  <2>3. QED  BY <2>2 DEF RefreshWrite, RefreshSet, Free, Refresh!TruncateFile, Refresh!Editing
<1>4. SubSeq(file, Len(editor[t].new) + 1, Len(file)) = <<>>
  <2>1. Len(file) = 0 /\ Len(editor[t].new) \in Nat
    BY <1>1, <1>2
  <2>2. QED  BY <2>1, SubSeqEmpty
<1>5. file' = editor[t].new
  <2>1. file' = editor[t].new \o <<>>
    BY <1>3, <1>4 DEF Refresh!FillFile
  <2>2. QED  BY <1>1, <2>1, ConcatEmptySeq
<1>6. QED  BY <1>2, <1>5

-----------------------------------------------------------------------------
(* Theorems *)

\* When an application has come to the foreground, the map that is used knows the first write
\* of the second in which the list had last been written, and all before that second (later
\* writes of that second, which the time does not tell, it need not know), unless the list was
\* written in a new second between its content and its time being read, or cannot be read.
THEOREM MapFreshWhenUsed == Spec => []LookupFresh
<1>1. UidInv => LookupFresh
  BY DEF UidInv, LookupFresh
<1>2. QED  BY <1>1, UidInitHolds, UidKeeps, PTL DEF Spec

\* Once no save is under way, AppOpt.json holds what is in memory, unless a write failed or
\* an older snapshot came last.
THEOREM SettingsSaved == Spec => []SavedWhenIdle
<1>1. StoreInv => SavedWhenIdle
  BY DEF StoreInv, Covered, Active, Locked, At, SavedWhenIdle
<1>2. QED  BY <1>1, StoreInitHolds, StoreKeeps, PTL DEF Spec

\* All variables keep their types; in particular AppOpt.json is never mutilated, whatever
\* overlaps or is killed, so that no start falls back on the default settings.
THEOREM StoresTypes == Spec => []TypeOK
<1>1. UidRecords /\ UidInv /\ StoreInv /\ EditInv => TypeOK
  BY DEF UidRecords, Listing, Observation, UidInv, StoreInv, EditInv, TypeOK, UidTypeOK
<1>2. QED
  BY <1>1, UidInitHolds, UidKeeps, StoreInitHolds, StoreKeeps, EditInitHolds, EditKeeps, PTL DEF Spec

\* A save of refresh_config.conf that no other overlaps and no crash cuts short leaves all
\* other lines as they were, and the loader reads the new values, but of a package written
\* down twice.
THEOREM RestIsKept == Spec => SaveKeepsRest
<1>1. EditInv /\ KillsInv /\ [Next]_vars => [kills' = kills => Refresh!KeepsRest]_vars
  <2>1. SUFFICES ASSUME EditInv, kills \in Nat, Next, kills' = kills PROVE Refresh!KeepsRest
    BY DEF KillsInv
  <2>2. SUFFICES ASSUME NEW t \in Web, editor[t].at = "fill", editor[t].alone, ~Refresh!Editing(t)'
                 PROVE  EditRight(editor[t].old, file', editor[t].want)
    BY DEF Refresh!KeepsRest, EditRight
  <2>3. CASE \E u \in Web : RefreshWrite(u) \/ RefreshSet(u)
    BY <2>1, <2>2, <2>3, EditEnds
  <2>4. CASE UNCHANGED editor
    BY <2>2, <2>4 DEF Refresh!Editing
  <2>5. CASE Kill
    BY <2>1, <2>5 DEF Kill, Restart
  <2>6. QED
    BY <2>1, <2>3, <2>4, <2>5 DEF Next, Save, Observer, Observe, ConfigSet
<1>2. Init => KillsInv
  BY DEF Init, StoreInit, KillsInv
<1>3. QED  BY <1>1, <1>2, KillsCounted, EditInitHolds, EditKeeps, PTL DEF Spec, SaveKeepsRest
===============================================================================
