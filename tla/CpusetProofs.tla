----------------------------- MODULE CpusetProofs -----------------------------
(***************************************************************************)
(* Proofs about CpuSpec and CpusetDirs, for words of any number and width, *)
(* any layers, rules, threads and bases: a set that is written is read as  *)
(* that set, and the directories are where they are looked for.            *)
(***************************************************************************)
EXTENDS CpusetDirs, WellFoundedInduction, TLAPS

-----------------------------------------------------------------------------
(* The scan of to_range_string *)

LEMMA SizeNat == CPU_SETSIZE \in Nat
BY SpecAssumption DEF CPU_SETSIZE

LEMMA SetInduction ==
  ASSUME NEW T, 0 \in T, \A n \in Nat : n \in T => n + 1 \in T
  PROVE  Nat \subseteq T
<1> SUFFICES ASSUME Nat \ T # {} PROVE FALSE
  OBVIOUS
<1>1. PICK x \in Nat \ T : \A y \in Nat \ T : ~ (<<y, x>> \in OpToRel(<, Nat))
  <2> DEFINE D == Nat \ T
             R == OpToRel(<, Nat)
  <2>1. D \subseteq Nat /\ D # {} /\ IsWellFoundedOn(R, Nat)
    BY NatLessThanWellFounded
  <2> HIDE DEF D, R
  <2>2. \E x \in D : \A y \in D : ~ (<<y, x>> \in R)
    BY <2>1, WFMin
  <2>3. QED  BY <2>2 DEF D, R
<1>2. x # 0 /\ x - 1 \in Nat
  OBVIOUS
<1>3. x - 1 \in T
  <2>1. <<x - 1, x>> \in OpToRel(<, Nat)
    BY <1>2 DEF OpToRel
  <2>2. QED  BY <1>1, <1>2, <2>1
<1>4. QED  BY <1>2, <1>3

Start == [out |-> <<>>, range |-> <<>>]

IsScan(g, set, n) ==
  g = [m \in 0 .. n |-> IF m = 0 THEN Start ELSE NextCpu(m - 1, set)[g[m - 1]]]

ScanOf(set) == CHOOSE g : IsScan(g, set, CPU_SETSIZE)

LEMMA StringIsScan == \A set : ToRangeString(set) = PushRange[ScanOf(set)[CPU_SETSIZE]].out
BY DEF ToRangeString, ScanOf, IsScan, Start

LEMMA ScanExists ==
  ASSUME NEW set
  PROVE  \A n \in Nat : \E g : IsScan(g, set, n)
<1> DEFINE T == {n \in Nat : \E g : IsScan(g, set, n)}
<1>1. 0 \in T
  <2> DEFINE g == [m \in 0 .. 0 |-> Start]
  <2>1. IsScan(g, set, 0)
    BY DEF IsScan
  <2>2. QED  BY <2>1
<1>2. ASSUME NEW n \in Nat, n \in T PROVE n + 1 \in T
  <2>1. PICK g : IsScan(g, set, n)
    BY <1>2
  <2> DEFINE h == [m \in 0 .. n + 1 |-> IF m \in 0 .. n THEN g[m] ELSE NextCpu(n, set)[g[n]]]
  <2>2. \A m \in 0 .. n : g[m] = IF m = 0 THEN Start ELSE NextCpu(m - 1, set)[g[m - 1]]
    BY <2>1 DEF IsScan
  <2>3. ASSUME NEW m \in 0 .. n + 1
        PROVE  h[m] = IF m = 0 THEN Start ELSE NextCpu(m - 1, set)[h[m - 1]]
    <3>1. CASE m = 0
      BY <2>2, <3>1
    <3>2. CASE m \in 1 .. n
      <4>1. m - 1 \in 0 .. n /\ m \in 0 .. n /\ m # 0 /\ m - 1 \in 0 .. n + 1
        BY <3>2
      <4>2. h[m] = g[m] /\ h[m - 1] = g[m - 1]
        BY <4>1
      <4>3. QED  BY <4>1, <4>2, <2>2
    <3>3. CASE m = n + 1
      <4>1. m - 1 = n /\ m # 0 /\ m \notin 0 .. n /\ n \in 0 .. n /\ n \in 0 .. n + 1
        BY <3>3
      <4>2. h[m] = NextCpu(n, set)[g[n]] /\ h[n] = g[n]
        BY <4>1
      <4>3. QED  BY <3>3, <4>1, <4>2
    <3>4. m = 0 \/ m \in 1 .. n \/ m = n + 1
      OBVIOUS
    <3>5. QED  BY <3>1, <3>2, <3>3, <3>4
  <2>4. h = [m \in 0 .. n + 1 |-> h[m]]
    OBVIOUS
  <2> HIDE DEF h
  <2>5. IsScan(h, set, n + 1)
    BY <2>3, <2>4 DEF IsScan
  <2>6. QED  BY <2>5
<1> HIDE DEF T
<1>3. Nat \subseteq T
  BY <1>1, <1>2, SetInduction
<1>4. QED  BY <1>3 DEF T

LEMMA ScanSteps ==
  ASSUME NEW set
  PROVE  /\ ScanOf(set)[0] = Start
         /\ \A n \in Cpus : ScanOf(set)[n + 1] = NextCpu(n, set)[ScanOf(set)[n]]
<1> DEFINE k == ScanOf(set)
<1>1. IsScan(k, set, CPU_SETSIZE)
  BY ScanExists, SizeNat DEF ScanOf
<1> HIDE DEF k
<1>2. \A m \in 0 .. CPU_SETSIZE : k[m] = IF m = 0 THEN Start ELSE NextCpu(m - 1, set)[k[m - 1]]
  BY <1>1 DEF IsScan
<1>3. \A n \in Cpus : n + 1 \in 0 .. CPU_SETSIZE /\ n + 1 # 0 /\ n + 1 - 1 = n
  BY SizeNat DEF Cpus
<1>4. ASSUME NEW n \in Cpus PROVE k[n + 1] = NextCpu(n, set)[k[n]]
  <2> DEFINE m == n + 1
  <2>1. m \in 0 .. CPU_SETSIZE /\ m # 0 /\ m - 1 = n
    BY SizeNat DEF Cpus
  <2> HIDE DEF m
  <2>2. k[m] = NextCpu(m - 1, set)[k[m - 1]]
    BY <1>2, <2>1
  <2>3. k[m] = NextCpu(n, set)[k[n]]
    BY <2>1, <2>2
  <2>4. QED  BY <2>3 DEF m
<1>5. k[0] = Start
  BY <1>2, SizeNat
<1>6. QED  BY <1>4, <1>5 DEF k

\* A text of numbers and ranges, each with its end in bounds, and with gaps between them.
Piece(p, n) == p.form \in {"number", "range"} /\ p.lo \in Nat /\ p.hi \in Nat /\ p.lo <= p.hi /\ p.hi < n
Pieces(text, n) ==
  /\ text \in Text
  /\ \A i \in DOMAIN text : Piece(text[i], n)
  /\ Canonical(text)
In(c, text) == \E i \in DOMAIN text : text[i].lo <= c /\ c <= text[i].hi
Before(text, n) == text # <<>> => text[Len(text)].hi + 1 < n

\* What a scan has when the first n CPUs of a set are behind it.
Held(s, set, n) ==
  /\ s \in Scan /\ Pieces(s.out, n)
  /\ s.range = <<>> => Before(s.out, n) /\ \A c \in 0 .. n - 1 : c \in set <=> In(c, s.out)
  /\ s.range # <<>> =>
       /\ s.range[1] <= s.range[2] /\ s.range[2] < n /\ Before(s.out, s.range[1])
       /\ \A c \in 0 .. n - 1 : c \in set <=> In(c, s.out) \/ (s.range[1] <= c /\ c <= s.range[2])

\* A range that is pushed goes into the text.
LEMMA Pushed ==
  ASSUME NEW set, NEW n \in Nat, NEW s, Held(s, set, n)
  PROVE  /\ PushRange[s] \in Scan /\ PushRange[s].range = <<>> /\ Pieces(PushRange[s].out, n)
         /\ \A c \in 0 .. n - 1 : c \in set <=> In(c, PushRange[s].out)
         /\ Before(PushRange[s].out, n + 1)
         /\ s.range = <<>> \/ n # s.range[2] + 1 => Before(PushRange[s].out, n)
<1>1. s \in Scan /\ s.out \in Text
  BY DEF Held, Scan
<1>2. CASE s.range = <<>>
  <2>1. PushRange[s] = s
    BY <1>1, <1>2 DEF PushRange
  <2>2. Before(s.out, n + 1)
    <3>1. s.out # <<>> => Len(s.out) \in DOMAIN s.out
      BY <1>1 DEF Text
    <3>2. s.out # <<>> => s.out[Len(s.out)].hi \in Nat
      BY <3>1 DEF Held, Pieces, Piece
    <3>3. QED  BY <1>2, <3>2 DEF Held, Before
  <2>3. QED  BY <1>1, <1>2, <2>1, <2>2 DEF Held
<1>3. CASE s.range # <<>>
  <2> DEFINE lo == s.range[1]
             hi == s.range[2]
             p == IF lo = hi THEN Number(lo) ELSE Span(lo, hi)
             text == Append(s.out, p)
  <2>1. lo \in Nat /\ hi \in Nat /\ lo <= hi /\ hi < n
    BY <1>1, <1>3 DEF Held, Scan, Cpus
  <2>2. PushRange[s] = [out |-> text, range |-> <<>>]
    BY <1>1, <1>3 DEF PushRange
  <2>3. p \in Part /\ Piece(p, n) /\ p.lo = lo /\ p.hi = hi
    BY <2>1 DEF Part, Forms, Piece, Number, Span
  <2> HIDE DEF p, lo, hi
  <2>4. /\ text \in Text /\ Len(s.out) \in Nat /\ Len(text) = Len(s.out) + 1
        /\ DOMAIN text = 1 .. Len(s.out) + 1 /\ DOMAIN s.out = 1 .. Len(s.out)
        /\ text[Len(s.out) + 1] = p /\ \A i \in 1 .. Len(s.out) : text[i] = s.out[i]
    BY <1>1, <2>3 DEF Text
  <2> HIDE DEF text
  <2>5. Canonical(text)
    <3> SUFFICES ASSUME NEW i \in 1 .. Len(text) - 1 PROVE text[i].hi + 1 < text[i + 1].lo
      BY DEF Canonical
    <3>1. CASE i = Len(s.out)
      <4>1. s.out # <<>> /\ text[i] = s.out[Len(s.out)] /\ text[i + 1] = p
        BY <2>4, <3>1
      <4>2. QED  BY <1>3, <2>3, <4>1 DEF Held, Before, lo
    <3>2. CASE i # Len(s.out)
      <4>1. i \in 1 .. Len(s.out) - 1 /\ text[i] = s.out[i] /\ text[i + 1] = s.out[i + 1]
        BY <2>4, <3>2
      <4>2. QED  BY <4>1 DEF Held, Pieces, Canonical
    <3>3. QED  BY <3>1, <3>2
  <2>6. Pieces(text, n)
    <3>1. \A i \in DOMAIN text : Piece(text[i], n)
      BY <2>3, <2>4 DEF Held, Pieces
    <3>2. QED  BY <2>4, <2>5, <3>1 DEF Pieces
  <2>7. ASSUME NEW c \in 0 .. n - 1 PROVE c \in set <=> In(c, text)
    <3>1. In(c, text) <=> In(c, s.out) \/ (lo <= c /\ c <= hi)
      BY <2>3, <2>4 DEF In
    <3>2. QED  BY <1>3, <3>1 DEF Held, lo, hi
  <2>8. Before(text, n + 1) /\ (n # hi + 1 => Before(text, n))
    BY <2>1, <2>3, <2>4 DEF Before
  <2>9. PushRange[s] \in Scan
    BY <2>2, <2>4 DEF Scan
  <2>10. QED  BY <1>3, <2>2, <2>6, <2>7, <2>8, <2>9 DEF hi
<1>4. QED  BY <1>2, <1>3

LEMMA HeldRested ==
  ASSUME NEW set, NEW n \in Nat, NEW s \in Scan, s.range = <<>>, Pieces(s.out, n), Before(s.out, n),
         \A c \in 0 .. n - 1 : c \in set <=> In(c, s.out)
  PROVE  Held(s, set, n)
BY DEF Held

LEMMA MorePieces ==
  ASSUME NEW text, NEW n \in Nat, Pieces(text, n)
  PROVE  Pieces(text, n + 1) /\ ~In(n, text)
BY DEF Pieces, Piece, In

\* One CPU more.
LEMMA HeldNext ==
  ASSUME NEW set, NEW n \in Cpus, NEW s, Held(s, set, n)
  PROVE  Held(NextCpu(n, set)[s], set, n + 1)
<1>1. s \in Scan /\ n \in Nat /\ s.out \in Text
  BY SizeNat DEF Held, Scan, Cpus
<1>2. \A c \in 0 .. n + 1 - 1 : c = n \/ c \in 0 .. n - 1
  BY <1>1
<1> DEFINE p == PushRange[s]
<1>3. /\ p \in Scan /\ p.range = <<>> /\ Pieces(p.out, n) /\ Before(p.out, n + 1)
      /\ \A c \in 0 .. n - 1 : c \in set <=> In(c, p.out)
      /\ s.range = <<>> \/ n # s.range[2] + 1 => Before(p.out, n)
  BY <1>1, Pushed
<1> HIDE DEF p
<1>4. Pieces(p.out, n + 1) /\ ~In(n, p.out)
  BY <1>1, <1>3, MorePieces
<1>5. Pieces(s.out, n + 1) /\ ~In(n, s.out)
  BY <1>1, MorePieces DEF Held
<1>6. CASE n \in set /\ s.range # <<>> /\ n = s.range[2] + 1
  <2>1. s.range \in Cpus \X Cpus
    BY <1>1, <1>6 DEF Scan
  <2> DEFINE r == [out |-> s.out, range |-> <<s.range[1], n>>]
  <2>2. NextCpu(n, set)[s] = r
    BY <1>1, <1>6 DEF NextCpu, NextBit
  <2>3. r \in Scan /\ r.out = s.out /\ r.range = <<s.range[1], n>> /\ r.range # <<>>
    BY <1>1, <2>1 DEF Scan
  <2> HIDE DEF r
  <2>4. s.range[1] \in Nat /\ s.range[2] \in Nat /\ r.range[1] = s.range[1] /\ r.range[2] = n
    BY <2>1, <2>3 DEF Cpus
  <2>5. /\ s.range[1] <= s.range[2] /\ s.range[2] < n /\ Before(s.out, s.range[1])
        /\ \A c \in 0 .. n - 1 : c \in set <=> In(c, s.out) \/ (s.range[1] <= c /\ c <= s.range[2])
    BY <1>6 DEF Held
  <2>6. \A c \in 0 .. n + 1 - 1 : c \in set <=> In(c, s.out) \/ (s.range[1] <= c /\ c <= n)
    BY <1>1, <1>2, <1>6, <2>4, <2>5
  <2>7. Held(r, set, n + 1)
    BY <1>1, <1>5, <2>3, <2>4, <2>5, <2>6 DEF Held
  <2>8. QED  BY <2>2, <2>7
<1>7. CASE n \in set /\ ~(s.range # <<>> /\ n = s.range[2] + 1)
  <2> DEFINE r == [out |-> p.out, range |-> <<n, n>>]
  <2>1. NextCpu(n, set)[s] = r
    BY <1>1, <1>7 DEF NextCpu, NextBit, p
  <2>2. r \in Scan /\ r.out = p.out /\ r.range # <<>> /\ r.range[1] = n /\ r.range[2] = n
    BY <1>3 DEF Scan
  <2> HIDE DEF r
  <2>3. Before(p.out, n)
    BY <1>3, <1>7
  <2>4. \A c \in 0 .. n + 1 - 1 : c \in set <=> In(c, p.out) \/ (n <= c /\ c <= n)
    BY <1>1, <1>2, <1>3, <1>7
  <2>5. Held(r, set, n + 1)
    BY <1>1, <1>4, <2>2, <2>3, <2>4 DEF Held
  <2>6. QED  BY <2>1, <2>5
<1>8. CASE n \notin set
  <2>1. NextCpu(n, set)[s] = p \/ NextCpu(n, set)[s] = s
    BY <1>1, <1>8 DEF NextCpu, p
  <2>2. Held(p, set, n + 1)
    <3>1. \A c \in 0 .. n + 1 - 1 : c \in set <=> In(c, p.out)
      BY <1>2, <1>3, <1>4, <1>8
    <3>2. p \in Scan /\ Pieces(p.out, n + 1)
      BY <1>3, <1>4
    <3>3. p.range = <<>> /\ Before(p.out, n + 1)
      BY <1>3
    <3>4. QED  BY <1>1, <3>1, <3>2, <3>3, HeldRested
  <2>3. CASE s.range = <<>>
    <3>1. p = s
      BY <1>1, <2>3 DEF PushRange, p
    <3>2. QED  BY <2>1, <2>2, <3>1
  <2>4. CASE s.range # <<>>
    <3>1. s.range[1] \in Nat /\ s.range[2] \in Nat
      BY <1>1, <2>4 DEF Scan, Cpus
    <3>2. /\ s.range[1] <= s.range[2] /\ s.range[2] < n /\ Before(s.out, s.range[1])
          /\ \A c \in 0 .. n - 1 : c \in set <=> In(c, s.out) \/ (s.range[1] <= c /\ c <= s.range[2])
      BY <2>4 DEF Held
    <3>3. \A c \in 0 .. n + 1 - 1 : c \in set <=> In(c, s.out) \/ (s.range[1] <= c /\ c <= s.range[2])
      BY <1>1, <1>2, <1>5, <1>8, <3>1, <3>2
    <3>4. s.range[2] < n + 1
      BY <1>1, <3>1, <3>2
    <3>5. Held(s, set, n + 1)
      BY <1>1, <1>5, <2>4, <3>2, <3>3, <3>4 DEF Held
    <3>6. QED  BY <2>1, <2>2, <3>5
  <2>5. QED  BY <2>3, <2>4
<1>9. QED  BY <1>6, <1>7, <1>8

\* The text of a set: its ranges are those of the set, and no two touch.
LEMMA StringOf ==
  ASSUME NEW set \in SUBSET Cpus
  PROVE  /\ Pieces(ToRangeString(set), CPU_SETSIZE)
         /\ \A c \in Cpus : c \in set <=> In(c, ToRangeString(set))
<1> DEFINE k == ScanOf(set)
           T == {n \in Nat : n <= CPU_SETSIZE => Held(k[n], set, n)}
<1>1. k[0] = Start /\ \A n \in Cpus : k[n + 1] = NextCpu(n, set)[k[n]]
  BY ScanSteps
<1> HIDE DEF k
<1>2. Held(Start, set, 0)
  <2>1. Start \in Scan /\ Start.out = <<>> /\ Start.range = <<>> /\ <<>> \in Text
    BY DEF Start, Scan, Text
  <2>2. Pieces(<<>>, 0)
    BY <2>1 DEF Pieces, Canonical
  <2>3. Before(<<>>, 0)
    BY DEF Before
  <2>4. \A c \in 0 .. 0 - 1 : FALSE
    OBVIOUS
  <2>5. QED  BY <2>1, <2>2, <2>3, <2>4 DEF Held
<1>3. 0 \in T
  BY <1>1, <1>2
<1>4. ASSUME NEW n \in Nat, n \in T PROVE n + 1 \in T
  <2> SUFFICES ASSUME n + 1 <= CPU_SETSIZE PROVE Held(k[n + 1], set, n + 1)
    OBVIOUS
  <2>1. n \in Cpus /\ Held(k[n], set, n)
    BY <1>4, SizeNat DEF Cpus
  <2>2. Held(NextCpu(n, set)[k[n]], set, n + 1)
    BY <2>1, HeldNext
  <2>3. QED  BY <1>1, <2>1, <2>2
<1>5. CPU_SETSIZE \in T
  <2> HIDE DEF T
  <2>1. QED  BY <1>3, <1>4, SetInduction, SizeNat
<1>6. Held(k[CPU_SETSIZE], set, CPU_SETSIZE)
  BY <1>5, SizeNat
<1>7. /\ Pieces(PushRange[k[CPU_SETSIZE]].out, CPU_SETSIZE)
      /\ \A c \in 0 .. CPU_SETSIZE - 1 : c \in set <=> In(c, PushRange[k[CPU_SETSIZE]].out)
  BY <1>6, Pushed, SizeNat
<1>8. QED  BY <1>7, StringIsScan DEF k, Cpus

-----------------------------------------------------------------------------
(* What is written is read *)

LEMMA CpusOfPiece ==
  ASSUME NEW p, Piece(p, CPU_SETSIZE)
  PROVE  CpusOf(p) = {c \in Cpus : p.lo <= c /\ c <= p.hi} /\ p.form \notin Layers
BY DEF Piece, CpusOf, Huge, Cpus, Layers

\* The kernel reads the text of a set as that set, and it is the only such text.
LEMMA WrittenIsRead ==
  ASSUME NEW set \in SUBSET Cpus
  PROVE  /\ ToRangeString(set) \in Text
         /\ Written(set, ToRangeString(set)) /\ Canonical(ToRangeString(set))
<1> DEFINE text == ToRangeString(set)
<1>1. Pieces(text, CPU_SETSIZE) /\ \A c \in Cpus : c \in set <=> In(c, text)
  BY StringOf
<1> HIDE DEF text
<1>2. \A i \in DOMAIN text : CpusOf(text[i]) = {c \in Cpus : text[i].lo <= c /\ c <= text[i].hi}
  BY <1>1, CpusOfPiece DEF Pieces
<1>3. ParseCpuRanges(text, Cpus) = {c \in Cpus : In(c, text)}
  BY <1>2 DEF ParseCpuRanges, In
<1>4. QED  BY <1>1, <1>3 DEF Written, Pieces, text

LEMMA LayersPresent == \A name \in Layers : LayerCpus(name) \subseteq PresentCpus
<1>1. \A f : CoresAt(f) \subseteq PresentCpus
  BY DirsAssumption DEF CoresAt
<1>2. ECores \subseteq PresentCpus /\ HpCores \subseteq PresentCpus /\ PCores \subseteq PresentCpus
  BY <1>1 DEF ECores, HpCores, PCores
<1>3. QED  BY <1>2 DEF LayerCpus, Layers

LEMMA ParsedPresent == \A text : ParseCpuSpec(text) \subseteq PresentCpus
BY LayersPresent DEF ParseCpuSpec, ParseCpuRanges

LEMMA PresentIsCpus == PresentCpus \subseteq Cpus
BY DEF PresentCpus, ParseCpuRanges

LEMMA ParseOne ==
  ASSUME NEW p
  PROVE  ParseCpuRanges(<<p>>, PresentCpus) = CpusOf(p) \cap PresentCpus
<1>1. DOMAIN <<p>> = {1} /\ <<p>>[1] = p
  OBVIOUS
<1>2. QED  BY <1>1 DEF ParseCpuRanges

\* What the web page shows of a set is a specification, and the parser reads it as the set.
LEMMA ShownIsRead ==
  ASSUME NEW set \in SUBSET PresentCpus, set # {}
  PROVE  SpecLike(SpecName(set)) /\ ParseCpuSpec(SpecName(set)) = set
<1> DEFINE order == <<"e-core", "p-core", "hp-core", "all-core">>
           fits(i) == set # {} /\ set = LayerCpus(order[i])
           first(i) == fits(i) /\ \A j \in 1 .. 4 : j < i => ~fits(j)
<1>1. CASE \E i \in 1 .. 4 : fits(i)
  <2>1. \E i \in 1 .. 4 : first(i)
    BY <1>1
  <2>2. PICK i \in 1 .. 4 : i = (CHOOSE j \in 1 .. 4 : first(j)) /\ fits(i)
    BY <2>1
  <2>3. SpecName(set) = <<Word(order[i])>>
    BY <1>1, <2>2 DEF SpecName
  <2>4. order[i] \in Layers /\ LayerCpus(order[i]) = set
    <3>1. i = 1 \/ i = 2 \/ i = 3 \/ i = 4
      OBVIOUS
    <3>2. order[i] \in Layers
      BY <3>1 DEF Layers
    <3>3. QED  BY <2>2, <3>2
  <2> HIDE DEF order
  <2> DEFINE p == Word(order[i])
  <2>5. p.form = order[i] /\ p.form # "empty" /\ p # Word("empty")
    BY <2>4 DEF Word, Layers
  <2> HIDE DEF p
  <2>6. DOMAIN <<p>> = {1} /\ <<p>>[1] = p
    OBVIOUS
  <2>7. SpecLike(<<p>>)
    BY <2>4, <2>5, <2>6 DEF SpecLike
  <2>8. ParseCpuSpec(<<p>>) = set
    BY <2>4, <2>5, <2>6 DEF ParseCpuSpec
  <2>9. QED  BY <2>3, <2>7, <2>8 DEF p
<1>2. CASE ~ \E i \in 1 .. 4 : fits(i)
  <2> DEFINE text == ToRangeString(set)
  <2>1. SpecName(set) = text
    BY <1>2 DEF SpecName
  <2>2. Pieces(text, CPU_SETSIZE) /\ \A c \in Cpus : c \in set <=> In(c, text)
    BY StringOf, PresentIsCpus
  <2> HIDE DEF text
  <2>3. \A i \in DOMAIN text : /\ CpusOf(text[i]) = {c \in Cpus : text[i].lo <= c /\ c <= text[i].hi}
                               /\ text[i].form \notin Layers
                               /\ text[i].form \in {"number", "range"}
    BY <2>2, CpusOfPiece DEF Pieces, Piece
  <2>4. ParseCpuSpec(text) = UNION {CpusOf(text[i]) \cap PresentCpus : i \in DOMAIN text}
    BY <2>3, ParseOne DEF ParseCpuSpec
  <2>5. ParseCpuSpec(text) = {c \in PresentCpus : In(c, text)}
    BY <2>3, <2>4, PresentIsCpus DEF In
  <2>6. ParseCpuSpec(text) = set
    BY <2>2, <2>5, PresentIsCpus
  <2>7. \E i \in DOMAIN text : TRUE
    BY <2>2, PresentIsCpus DEF In
  <2>8. \A i \in DOMAIN text : text[i] # Word("empty")
    BY <2>3 DEF Word
  <2>9. SpecLike(text)
    BY <2>3, <2>7, <2>8 DEF SpecLike
  <2>10. QED  BY <2>1, <2>6, <2>9
<1>3. QED  BY <1>1, <1>2

-----------------------------------------------------------------------------
(* The invariant *)

Rule == [isThread : BOOLEAN, pkg : SUBSET Threads, who : SUBSET Threads,
         cpus : (SUBSET PresentCpus) \ {{}}, dir : Text]
Entry == [cpus : SUBSET PresentCpus, dir : Text]

MainState ==
  [at : {"idle", "scan", "apply", "check"}, config : Seq(Rule), left : SUBSET Threads,
   tid : Threads \cup {Nobody}, result : Entry]

TypeInv ==
  /\ enabled \in BOOLEAN /\ {changed, force, updated} \subseteq BOOLEAN
  /\ base \in Bases /\ file \in Files
  /\ config \in Seq(Rule)
  /\ loader \in [at : {"idle", "load"}, lines : Seq(RuleLine), rules : Seq(Rule)]
  /\ web \in [Web -> {"idle", "mkdir", "force"}]
  /\ main \in MainState
  /\ main.at = "apply" => main.tid \in Threads
  /\ tasks \in [Threads -> SUBSET Entry]

\* A directory bears the text of the CPUs it was made for, ...
Named(r) == r.dir # NoDir => r.dir = ToRangeString(r.cpus)
NamesRight ==
  /\ \A i \in DOMAIN config : Named(config[i])
  /\ \A i \in DOMAIN loader.rules : Named(loader.rules[i])
  /\ \A i \in DOMAIN main.config : Named(main.config[i])
  /\ Named(main.result) /\ \A t \in Threads : \A e \in tasks[t] : Named(e)

\* ... has what its name says, and a base has every CPU.
Content(name) == IF name = NoDir THEN PresentCpus ELSE ParseCpuRanges(name, Cpus)
DirsRight(d) ==
  /\ d = [p \in DOMAIN d |-> d[p]]
  /\ \A p \in DOMAIN d : p[1] \in Bases => d[p] = Content(p[2])

\* The directory of the base is missing only until the thread that set it has made it.
BaseMade ==
  enabled /\ (\A h \in Web : web[h] # "mkdir") => Path(NoDir) \in DOMAIN dirs

\* Once the base is settled, what the loader and then the main thread have made or taken since
\* is under it; what is older will be replaced, as a reload or an update is to come.
Placed(r) == Path(r.dir) \in DOMAIN dirs
RulesPlaced ==
  enabled /\ ~force /\ (\A h \in Web : web[h] = "idle") =>
    /\ \A i \in DOMAIN loader.rules : Placed(loader.rules[i])
    /\ loader.at = "idle" => \A i \in DOMAIN config : Placed(config[i])
    /\ loader.at = "idle" /\ ~updated =>
         /\ \A i \in DOMAIN main.config : Placed(main.config[i])
         /\ main.at = "apply" => Placed(main.result)
         /\ \A t \in Threads : \A e \in tasks[t] : Placed(e)

PlaceInv == TypeInv /\ NamesRight /\ DirsRight(dirs) /\ BaseMade /\ RulesPlaced

-----------------------------------------------------------------------------
(* Directories that are made, rules that are used *)

LEMMA AddingRight ==
  ASSUME DirsRight(dirs), NEW name, NEW cpus, cpus = Content(name)
  PROVE  /\ DirsRight(Adding(name, cpus))
         /\ DOMAIN Adding(name, cpus) = DOMAIN dirs \cup {Path(name)}
<1> DEFINE d == Adding(name, cpus)
<1>1. /\ DOMAIN d = DOMAIN dirs \cup {Path(name)} /\ d = [p \in DOMAIN d |-> d[p]]
      /\ \A p \in DOMAIN d : d[p] = IF p = Path(name) THEN cpus ELSE dirs[p]
  BY DEF Adding
<1> HIDE DEF d
<1>2. Path(name)[2] = name
  BY DEF Path
<1>3. \A p \in DOMAIN d : p[1] \in Bases => d[p] = Content(p[2])
  BY <1>1, <1>2 DEF DirsRight
<1>4. DirsRight(d)
  BY <1>1, <1>3 DEF DirsRight
<1>5. QED  BY <1>1, <1>4 DEF d

LEMMA NameNotEmpty ==
  ASSUME NEW cpus \in SUBSET PresentCpus, cpus # {}
  PROVE  ToRangeString(cpus) # NoDir
<1>1. Written(cpus, ToRangeString(cpus))
  BY WrittenIsRead, PresentIsCpus
<1>2. ParseCpuRanges(NoDir, Cpus) = {}
  BY DEF NoDir, ParseCpuRanges
<1>3. QED  BY <1>1, <1>2 DEF Written

\* ensure_cpuset_dir: whatever it answers bears the right name and is there, if the base is.
LEMMA EnsureRight ==
  ASSUME NEW cpus \in SUBSET PresentCpus, DirsRight(dirs), NEW made \in EnsureCpusetDir(cpus)
  PROVE  /\ made.dir \in Text /\ (made.dir # NoDir => made.dir = ToRangeString(cpus))
         /\ DirsRight(made.dirs) /\ DOMAIN dirs \subseteq DOMAIN made.dirs
         /\ Path(NoDir) \in DOMAIN dirs => Path(made.dir) \in DOMAIN made.dirs
<1>1. CASE Makes(cpus)
  <2> DEFINE name == ToRangeString(cpus)
  <2>1. made.dir = name /\ made.dirs = Adding(name, ParseCpuRanges(name, Cpus))
    BY <1>1 DEF EnsureCpusetDir, WithDir
  <2>2. name \in Text
    BY WrittenIsRead, PresentIsCpus
  <2>3. ParseCpuRanges(name, Cpus) = Content(name)
    BY <1>1, NameNotEmpty DEF Content, Makes
  <2> HIDE DEF name
  <2>4. DirsRight(made.dirs) /\ DOMAIN made.dirs = DOMAIN dirs \cup {Path(name)}
    BY <2>1, <2>3, AddingRight
  <2>5. QED  BY <2>1, <2>2, <2>4 DEF name
<1>2. CASE ~Makes(cpus)
  <2>1. made.dir = NoDir /\ made.dirs = dirs
    BY <1>2 DEF EnsureCpusetDir, NotMade
  <2>2. NoDir \in Text
    BY DEF NoDir, Text
  <2>3. QED  BY <2>1, <2>2
<1>3. QED  BY <1>1, <1>2

\* thread_affinity: the CPUs of the rules used are present ones, and the directory of a single
\* rule is the one of these CPUs.
LEMMA UsedRight ==
  ASSUME NEW rules \in Seq(Rule), \A i \in DOMAIN rules : Named(rules[i]), NEW t
  PROVE  /\ UsedRules(rules, t) \subseteq DOMAIN rules
         /\ UsedCpus(rules, t) \in SUBSET PresentCpus
         /\ LET dir == RuleDir(rules, UsedRules(rules, t))
            IN  /\ dir \in Text /\ (dir # NoDir => dir = ToRangeString(UsedCpus(rules, t)))
                /\ dir = NoDir \/ \E i \in DOMAIN rules : dir = rules[i].dir
<1> DEFINE used == UsedRules(rules, t)
           dir == RuleDir(rules, used)
<1>1. used \subseteq DOMAIN rules
  BY DEF UsedRules
<1>2. \A i \in DOMAIN rules : rules[i] \in Rule
  OBVIOUS
<1> HIDE DEF used
<1>3. UsedCpus(rules, t) = IF used = {} THEN PresentCpus ELSE UNION {rules[i].cpus : i \in used}
  BY DEF UsedCpus, used
<1>4. UsedCpus(rules, t) \in SUBSET PresentCpus
  BY <1>1, <1>2, <1>3 DEF Rule
<1>5. CASE \E i \in used : used = {i}
  <2>1. PICK i \in used : used = {i}
    BY <1>5
  <2>2. dir = rules[i].dir
    BY <2>1 DEF RuleDir
  <2>3. UsedCpus(rules, t) = rules[i].cpus
    <3>1. {rules[j].cpus : j \in used} = {rules[i].cpus}
      BY <2>1
    <3>2. QED  BY <1>3, <2>1, <3>1
  <2>4. rules[i] \in Rule /\ Named(rules[i]) /\ i \in DOMAIN rules
    BY <1>1, <1>2, <2>1
  <2>5. QED  BY <1>1, <1>4, <2>2, <2>3, <2>4 DEF Rule, Named, used
<1>6. CASE ~ \E i \in used : used = {i}
  <2>1. dir = NoDir /\ NoDir \in Text
    BY <1>6 DEF RuleDir, NoDir, Text
  <2>2. QED  BY <1>1, <1>4, <2>1 DEF used
<1>7. QED  BY <1>5, <1>6

-----------------------------------------------------------------------------
(* PlaceInv is an invariant *)

LEMMA PlaceInit == Init => PlaceInv
<1> SUFFICES ASSUME Init PROVE PlaceInv
  OBVIOUS
<1> USE DEF Init
<1>1. TypeInv
  <2>1. <<>> \in Seq(Rule) /\ <<>> \in Seq(RuleLine) /\ Nothing \in Entry
    BY DEF Nothing, Entry, NoDir, Text
  <2>2. base \in Bases
    BY DirsAssumption
  <2>3. QED  BY <2>1, <2>2 DEF TypeInv, MainState, Rest
<1>2. NamesRight
  BY DEF NamesRight, Rest, Nothing, Named
<1>3. DirsRight(dirs)
  <2>1. /\ DOMAIN dirs = {<<g, NoDir>> : g \in DOMAIN Groups} \cup {q \in {Path(NoDir)} : enabled}
        /\ dirs = [p \in DOMAIN dirs |-> dirs[p]]
        /\ \A p \in DOMAIN dirs : dirs[p] = IF p[1] = base THEN PresentCpus ELSE Groups[p[1]]
    OBVIOUS
  <2>2. ASSUME NEW p \in DOMAIN dirs, p[1] \in Bases PROVE dirs[p] = Content(p[2])
    <3>1. p = Path(NoDir)
      <4>1. ASSUME NEW g \in DOMAIN Groups, p = <<g, NoDir>> PROVE FALSE
        BY <2>2, <4>1, DirsAssumption
      <4>2. QED  BY <2>1, <4>1
    <3>2. p[1] = base /\ p[2] = NoDir
      BY <3>1 DEF Path
    <3>3. QED  BY <2>1, <3>2 DEF Content
  <2>3. QED  BY <2>1, <2>2 DEF DirsRight
<1>4. BaseMade
  BY DEF BaseMade
<1>5. RulesPlaced
  BY DEF RulesPlaced, Rest
<1>6. QED  BY <1>1, <1>2, <1>3, <1>4, <1>5 DEF PlaceInv

LEMMA WebKeeps ==
  ASSUME PlaceInv, NEW h \in Web,
         MakeBase(h) \/ AskReload(h) \/ \E b \in Bases : SetBase(h, b)
  PROVE  PlaceInv'
<1> USE DEF PlaceInv
<1>1. CASE \E b \in Bases : SetBase(h, b)
  <2> USE <1>1 DEF SetBase
  <2>1. TypeInv' /\ web'[h] = "mkdir"
    BY DEF TypeInv
  <2>2. NamesRight'
    BY DEF NamesRight
  <2>3. DirsRight(dirs)'
    OBVIOUS
  <2>4. BaseMade' /\ RulesPlaced'
    BY <2>1 DEF BaseMade, RulesPlaced
  <2>5. QED  BY <2>1, <2>2, <2>3, <2>4
<1>2. CASE MakeBase(h)
  <2> USE <1>2 DEF MakeBase
  <2>1. TypeInv' /\ web'[h] = "force"
    BY DEF TypeInv
  <2>2. NamesRight'
    BY DEF NamesRight
  <2>3. /\ DirsRight(dirs')
        /\ enabled => Path(NoDir) \in DOMAIN dirs'
    BY AddingRight DEF Content
  <2>4. BaseMade' /\ RulesPlaced'
    BY <2>1, <2>3 DEF BaseMade, RulesPlaced, Path
  <2>5. QED  BY <2>1, <2>2, <2>3, <2>4
<1>3. CASE AskReload(h)
  <2> USE <1>3 DEF AskReload
  <2>1. TypeInv' /\ (\A g \in Web : web'[g] # "mkdir" => web[g] # "mkdir")
    BY DEF TypeInv
  <2>2. NamesRight'
    BY DEF NamesRight
  <2>3. BaseMade'
    BY <2>1 DEF BaseMade, Path
  <2>4. RulesPlaced'
    BY DEF RulesPlaced
  <2>5. QED  BY <2>1, <2>2, <2>3, <2>4
<1>4. QED  BY <1>1, <1>2, <1>3

LEMMA LoaderKeeps ==
  ASSUME PlaceInv, LoaderStep \/ \E f \in Files : EditFile(f)
  PROVE  PlaceInv'
<1> USE DEF PlaceInv
<1>1. CASE \E f \in Files : EditFile(f)
  <2>1. /\ UNCHANGED <<enabled, base, dirs, force, updated, config, loader, web, main, tasks>>
        /\ file' \in Files /\ changed' = TRUE
    BY <1>1 DEF EditFile
  <2>2. TypeInv' /\ NamesRight'
    BY <2>1 DEF TypeInv, NamesRight
  <2>3. BaseMade' /\ RulesPlaced'
    BY <2>1 DEF BaseMade, RulesPlaced, Placed, Path
  <2>4. QED  BY <2>1, <2>2, <2>3
<1>2. CASE Load
  <2>1. /\ UNCHANGED <<enabled, base, dirs, file, updated, config, web, main, tasks>>
        /\ force' = FALSE /\ changed' = FALSE
        /\ loader' = [at |-> "load", lines |-> file, rules |-> <<>>]
    BY <1>2 DEF Load
  <2>2. file \in Seq(RuleLine) /\ <<>> \in Seq(Rule)
    BY DirsAssumption DEF TypeInv
  <2>3. loader' \in [at : {"idle", "load"}, lines : Seq(RuleLine), rules : Seq(Rule)]
    BY <2>1, <2>2
  <2>4. TypeInv'
    BY <2>1, <2>3 DEF TypeInv
  <2>5. NamesRight' /\ BaseMade'
    BY <2>1 DEF NamesRight, BaseMade, Path
  <2>6. loader'.at = "load" /\ loader'.rules = <<>>
    BY <2>1
  <2>7. RulesPlaced'
    BY <2>6 DEF RulesPlaced
  <2>8. QED  BY <2>1, <2>4, <2>5, <2>7
<1>3. CASE AddRule
  <2> DEFINE line == Head(loader.lines)
             set == ParseCpuSpec(line.spec)
             rule(dir) == [isThread |-> line.isThread, pkg |-> line.pkg, who |-> line.who,
                           cpus |-> set, dir |-> dir]
  <2>1. PICK made \in IF line.isThread THEN {NotMade(NoDir)} ELSE EnsureCpusetDir(set) :
          IF SpecLike(line.spec) /\ set # {}
          THEN /\ loader' = [loader EXCEPT !.lines = Tail(@), !.rules = Append(@, rule(made.dir))]
               /\ dirs' = made.dirs
          ELSE loader' = [loader EXCEPT !.lines = Tail(@)] /\ dirs' = dirs
    BY <1>3 DEF AddRule
  <2>2. line \in RuleLine /\ Tail(loader.lines) \in Seq(RuleLine) /\ loader.rules \in Seq(Rule)
    BY <1>3 DEF AddRule, TypeInv
  <2>3. set \in SUBSET PresentCpus
    BY ParsedPresent
  <2> HIDE DEF line, set
  <2>4. /\ made.dir \in Text /\ (made.dir # NoDir => made.dir = ToRangeString(set))
        /\ DirsRight(made.dirs) /\ DOMAIN dirs \subseteq DOMAIN made.dirs
        /\ Path(NoDir) \in DOMAIN dirs => Path(made.dir) \in DOMAIN made.dirs
    <3>1. CASE line.isThread
      <4>1. made.dir = NoDir /\ made.dirs = dirs
        BY <2>1, <3>1 DEF NotMade
      <4>2. NoDir \in Text
        BY DEF NoDir, Text
      <4>3. QED  BY <4>1, <4>2
    <3>2. CASE ~line.isThread
      BY <2>1, <2>3, <3>2, EnsureRight
    <3>3. QED  BY <3>1, <3>2
  <2>5. UNCHANGED <<enabled, base, file, changed, force, updated, config, web, main, tasks>> /\ loader.at = "load"
    BY <1>3 DEF AddRule
  <2>6. CASE SpecLike(line.spec) /\ set # {}
    <3> DEFINE r == rule(made.dir)
    <3>1. r \in Rule /\ r.dir = made.dir /\ r.cpus = set
      BY <2>2, <2>3, <2>4, <2>6 DEF Rule, RuleLine
    <3> HIDE DEF r
    <3>2. loader' = [loader EXCEPT !.lines = Tail(@), !.rules = Append(@, r)] /\ dirs' = made.dirs
      BY <2>1, <2>6 DEF r
    <3>3. /\ loader' \in [at : {"idle", "load"}, lines : Seq(RuleLine), rules : Seq(Rule)]
          /\ loader'.at = loader.at
          /\ loader'.rules = Append(loader.rules, r)
      <4>1. Append(loader.rules, r) \in Seq(Rule)
        BY <2>2, <3>1
      <4>2. loader \in [at : {"idle", "load"}, lines : Seq(RuleLine), rules : Seq(Rule)]
        BY DEF TypeInv
      <4>3. QED  BY <2>2, <3>2, <4>1, <4>2
    <3>4. TypeInv'
      BY <2>5, <3>3 DEF TypeInv
    <3>5. \A i \in DOMAIN loader'.rules :
            loader'.rules[i] = r \/ (i \in DOMAIN loader.rules /\ loader'.rules[i] = loader.rules[i])
      BY <2>2, <3>1, <3>3
    <3>6. NamesRight'
      BY <2>4, <2>5, <3>1, <3>5 DEF NamesRight, Named
    <3>7. BaseMade'
      BY <2>4, <2>5, <3>2 DEF BaseMade, Path
    <3>8. RulesPlaced'
      <4> SUFFICES ASSUME enabled, ~force, \A h \in Web : web[h] = "idle"
                   PROVE  \A i \in DOMAIN loader'.rules : <<base', loader'.rules[i].dir>> \in DOMAIN dirs'
        BY <2>5, <3>3 DEF RulesPlaced, Placed, Path
      <4>1. Path(NoDir) \in DOMAIN dirs
        BY DEF BaseMade
      <4>2. <<base', r.dir>> \in DOMAIN dirs'
        BY <2>4, <2>5, <3>1, <3>2, <4>1 DEF Path
      <4>3. \A i \in DOMAIN loader.rules : <<base, loader.rules[i].dir>> \in DOMAIN dirs
        BY DEF RulesPlaced, Placed, Path
      <4>4. base' = base /\ DOMAIN dirs \subseteq DOMAIN dirs'
        BY <2>4, <2>5, <3>2
      <4>5. QED  BY <3>5, <4>2, <4>3, <4>4
    <3>9. QED  BY <2>4, <3>2, <3>4, <3>6, <3>7, <3>8
  <2>7. CASE ~(SpecLike(line.spec) /\ set # {})
    <3>1. /\ loader' = [loader EXCEPT !.lines = Tail(@)] /\ dirs' = dirs
      BY <2>1, <2>7
    <3>2. TypeInv' /\ loader'.rules = loader.rules /\ loader'.at = loader.at
      BY <2>2, <2>5, <3>1 DEF TypeInv
    <3>3. NamesRight' /\ BaseMade'
      BY <2>5, <3>1, <3>2 DEF NamesRight, BaseMade, Path
    <3>4. RulesPlaced'
      BY <2>5, <3>1, <3>2 DEF RulesPlaced, Placed, Path
    <3>5. QED  BY <3>1, <3>2, <3>3, <3>4
  <2>8. QED  BY <2>6, <2>7
<1>4. CASE Store
  <2> USE <1>4 DEF Store
  <2>1. TypeInv'
    <3>1. <<>> \in Seq(Rule) /\ <<>> \in Seq(RuleLine)
      OBVIOUS
    <3>2. QED  BY <3>1 DEF TypeInv, Rest
  <2>2. NamesRight'
    BY DEF NamesRight, Rest
  <2>3. BaseMade'
    BY DEF BaseMade, Path
  <2>4. RulesPlaced'
    BY DEF RulesPlaced, Placed, Path, Rest, TypeInv
  <2>5. QED  BY <2>1, <2>2, <2>3, <2>4
<1>5. QED  BY <1>1, <1>2, <1>3, <1>4 DEF LoaderStep

LEMMA MainKeeps ==
  ASSUME PlaceInv, MainStep \/ \E t \in Threads : Event(t)
  PROVE  PlaceInv'
<1> USE DEF PlaceInv
<1>1. CASE ReadConfig
  <2> USE <1>1 DEF ReadConfig
  <2>1. TypeInv' /\ main'.config = config /\ main'.at = "scan" /\ main'.result = main.result
    BY DEF TypeInv, MainState
  <2>2. NamesRight'
    BY <2>1 DEF NamesRight
  <2>3. BaseMade'
    BY DEF BaseMade, Path
  <2>4. RulesPlaced'
    BY <2>1 DEF RulesPlaced, Placed, Path
  <2>5. QED  BY <2>1, <2>2, <2>3, <2>4
<1>2. CASE Check \/ Done \/ (\E t \in Threads : Event(t) \/ CheckOne(t))
  <2>0. /\ main' \in MainState /\ main'.config = main.config /\ main'.at # "apply"
        /\ main'.result = main.result
    <3>1. CASE Check
      BY <3>1 DEF Check, TypeInv, MainState
    <3>2. CASE Done
      BY <3>2 DEF Done, TypeInv, MainState
    <3>3. CASE \E t \in Threads : Event(t)
      <4>1. PICK t \in Threads : main' = [main EXCEPT !.at = "scan", !.left = {t}]
        BY <3>3 DEF Event
      <4>2. {t} \in SUBSET Threads /\ main \in MainState
        BY DEF TypeInv
      <4>3. QED  BY <4>1, <4>2 DEF MainState
    <3>4. CASE \E t \in Threads : CheckOne(t)
      BY <3>4 DEF CheckOne, TypeInv, MainState
    <3>5. QED  BY <1>2, <3>1, <3>2, <3>3, <3>4
  <2>1. /\ UNCHANGED <<enabled, base, dirs, file, changed, force, updated, config, loader, web, tasks>>
        /\ TypeInv' /\ main'.config = main.config /\ main'.at # "apply" /\ main'.result = main.result
    <3>1. UNCHANGED <<enabled, base, dirs, file, changed, force, updated, config, loader, web, tasks>>
      BY <1>2 DEF Check, Done, Event, CheckOne
    <3>2. QED  BY <2>0, <3>1 DEF TypeInv, MainState
  <2>2. NamesRight' /\ BaseMade'
    BY <2>1 DEF NamesRight, BaseMade, Path
  <2>3. RulesPlaced'
    BY <2>1 DEF RulesPlaced, Placed, Path
  <2>4. QED  BY <2>1, <2>2, <2>3
<1>3. ASSUME NEW t \in Threads, Match(t) PROVE PlaceInv'
  <2> DEFINE used == UsedRules(main.config, t)
             cpus == UsedCpus(main.config, t)
  <2>1. UNCHANGED <<enabled, base, file, changed, force, updated, config, loader, web, tasks>> /\ main.at = "scan"
    BY <1>3 DEF Match
  <2>2. CASE ~Managed(main.config, t)
    <3>1. main' = [main EXCEPT !.left = @ \ {t}] /\ dirs' = dirs
      BY <1>3, <2>2 DEF Match
    <3>2. TypeInv' /\ main'.config = main.config /\ main'.at # "apply" /\ main'.result = main.result
      BY <2>1, <3>1 DEF TypeInv, MainState
    <3>3. NamesRight' /\ BaseMade'
      BY <2>1, <3>1, <3>2 DEF NamesRight, BaseMade, Path
    <3>4. RulesPlaced'
      BY <2>1, <3>1, <3>2 DEF RulesPlaced, Placed, Path
    <3>5. QED  BY <3>1, <3>2, <3>3, <3>4
  <2>3. CASE Managed(main.config, t)
    <3>1. PICK made \in IF \E i \in used : main.config[i].isThread THEN EnsureCpusetDir(cpus)
                        ELSE {NotMade(RuleDir(main.config, used))} :
            /\ main' = [main EXCEPT !.at = "apply", !.left = @ \ {t}, !.tid = t,
                                    !.result = [cpus |-> cpus, dir |-> made.dir]]
            /\ dirs' = made.dirs
      BY <1>3, <2>3 DEF Match
    <3>2. main.config \in Seq(Rule) /\ \A i \in DOMAIN main.config : Named(main.config[i])
      BY DEF TypeInv, MainState, NamesRight
    <3>3. /\ cpus \in SUBSET PresentCpus
          /\ LET dir == RuleDir(main.config, used)
             IN  /\ dir \in Text /\ (dir # NoDir => dir = ToRangeString(cpus))
                 /\ dir = NoDir \/ \E i \in DOMAIN main.config : dir = main.config[i].dir
      BY <3>2, UsedRight
    <3> HIDE DEF used, cpus
    <3>4. /\ made.dir \in Text /\ (made.dir # NoDir => made.dir = ToRangeString(cpus))
          /\ DirsRight(made.dirs) /\ DOMAIN dirs \subseteq DOMAIN made.dirs
          /\ \/ Path(NoDir) \in DOMAIN dirs => Path(made.dir) \in DOMAIN made.dirs
             \/ \E i \in DOMAIN main.config : made.dir = main.config[i].dir
      <4>1. CASE \E i \in used : main.config[i].isThread
        BY <3>1, <3>3, <4>1, EnsureRight
      <4>2. CASE ~ \E i \in used : main.config[i].isThread
        <5>1. made.dir = RuleDir(main.config, used) /\ made.dirs = dirs
          BY <3>1, <4>2 DEF NotMade
        <5>2. QED  BY <3>3, <5>1
      <4>3. QED  BY <4>1, <4>2
    <3> DEFINE r == [cpus |-> cpus, dir |-> made.dir]
    <3>5. r \in Entry /\ Named(r) /\ r.dir = made.dir
      BY <3>3, <3>4 DEF Entry, Named
    <3>6. main' = [main EXCEPT !.at = "apply", !.left = @ \ {t}, !.tid = t, !.result = r]
      BY <3>1
    <3> HIDE DEF r
    <3>7. TypeInv' /\ main'.config = main.config /\ main'.result = r
      BY <2>1, <3>5, <3>6 DEF TypeInv, MainState
    <3>8. NamesRight'
      BY <2>1, <3>5, <3>7 DEF NamesRight
    <3>9. BaseMade'
      BY <2>1, <3>1, <3>4 DEF BaseMade, Path
    <3>10. RulesPlaced'
      <4> SUFFICES ASSUME enabled, ~force, \A h \in Web : web[h] = "idle"
                   PROVE  RulesPlaced'
        BY <2>1 DEF RulesPlaced
      <4>1. base' = base /\ DOMAIN dirs \subseteq DOMAIN dirs' /\ dirs' = made.dirs
        BY <2>1, <3>1, <3>4
      <4>2. ASSUME loader.at = "idle", ~updated PROVE <<base', r.dir>> \in DOMAIN dirs'
        <5>1. Path(NoDir) \in DOMAIN dirs
          BY DEF BaseMade
        <5>2. \A i \in DOMAIN main.config : <<base, main.config[i].dir>> \in DOMAIN dirs
          BY <4>2 DEF RulesPlaced, Placed, Path
        <5>3. CASE \E i \in DOMAIN main.config : made.dir = main.config[i].dir
          BY <3>5, <4>1, <5>2, <5>3
        <5>4. CASE Path(made.dir) \in DOMAIN made.dirs
          BY <3>5, <4>1, <5>4 DEF Path
        <5>5. QED  BY <3>4, <5>1, <5>3, <5>4
      <4>3. /\ \A i \in DOMAIN loader.rules : <<base, loader.rules[i].dir>> \in DOMAIN dirs
            /\ loader.at = "idle" => \A i \in DOMAIN config : <<base, config[i].dir>> \in DOMAIN dirs
            /\ loader.at = "idle" /\ ~updated =>
                 /\ \A i \in DOMAIN main.config : <<base, main.config[i].dir>> \in DOMAIN dirs
                 /\ \A u \in Threads : \A e \in tasks[u] : <<base, e.dir>> \in DOMAIN dirs
        BY DEF RulesPlaced, Placed, Path
      <4>4. /\ \A i \in DOMAIN loader'.rules : <<base', loader'.rules[i].dir>> \in DOMAIN dirs'
            /\ loader'.at = "idle" => \A i \in DOMAIN config' : <<base', config'[i].dir>> \in DOMAIN dirs'
            /\ loader'.at = "idle" /\ ~updated' =>
                 /\ \A i \in DOMAIN main'.config : <<base', main'.config[i].dir>> \in DOMAIN dirs'
                 /\ <<base', main'.result.dir>> \in DOMAIN dirs'
                 /\ \A u \in Threads : \A e \in tasks'[u] : <<base', e.dir>> \in DOMAIN dirs'
        BY <2>1, <3>7, <4>1, <4>2, <4>3
      <4>5. QED  BY <4>4 DEF RulesPlaced, Placed, Path
    <3>11. QED  BY <3>1, <3>4, <3>7, <3>8, <3>9, <3>10
  <2>4. QED  BY <2>2, <2>3
<1>4. CASE Apply
  <2>1. /\ UNCHANGED <<enabled, base, dirs, file, changed, force, updated, config, loader, web>>
        /\ main.at = "apply" /\ main.tid \in Threads
        /\ tasks' = [tasks EXCEPT ![main.tid] = {main.result}]
        /\ main' = [main EXCEPT !.at = "scan", !.tid = Nobody, !.result = Nothing]
    BY <1>4 DEF Apply, TypeInv, MainState
  <2>2. Nothing \in Entry /\ Named(Nothing)
    BY DEF Nothing, Entry, Named, NoDir, Text
  <2>3. TypeInv' /\ main'.config = main.config /\ main'.at # "apply" /\ main'.result = Nothing
    BY <2>1, <2>2 DEF TypeInv, MainState
  <2>4. \A t \in Threads : \A e \in tasks'[t] : e = main.result \/ e \in tasks[t]
    BY <2>1 DEF TypeInv, MainState
  <2>5. NamesRight'
    BY <2>1, <2>2, <2>3, <2>4 DEF NamesRight
  <2>6. BaseMade'
    BY <2>1 DEF BaseMade, Path
  <2>7. RulesPlaced'
    BY <2>1, <2>3, <2>4 DEF RulesPlaced, Placed, Path
  <2>8. QED  BY <2>1, <2>3, <2>5, <2>6, <2>7
<1>5. QED  BY <1>1, <1>2, <1>3, <1>4 DEF MainStep

LEMMA PlaceNext == PlaceInv /\ [Next]_vars => PlaceInv'
<1> SUFFICES ASSUME PlaceInv, [Next]_vars PROVE PlaceInv'
  OBVIOUS
<1>1. CASE UNCHANGED vars \/ \E t \in Threads, g \in DOMAIN Groups : MovedAway(t, g)
  <2>1. UNCHANGED <<enabled, base, dirs, file, changed, force, updated, config, loader, web, main, tasks>>
    BY <1>1 DEF vars, MovedAway
  <2>2. TypeInv' /\ NamesRight' /\ DirsRight(dirs)'
    BY <2>1 DEF PlaceInv, TypeInv, NamesRight
  <2>3. BaseMade' /\ RulesPlaced'
    BY <2>1 DEF PlaceInv, BaseMade, RulesPlaced, Placed, Path
  <2>4. QED  BY <2>2, <2>3 DEF PlaceInv
<1>2. CASE Environment
  BY <1>1, <1>2, WebKeeps, LoaderKeeps, MainKeeps DEF Environment
<1>3. CASE (\E h \in Web : WebStep(h)) \/ LoaderStep \/ MainStep
  BY <1>3, WebKeeps, LoaderKeeps, MainKeeps DEF WebStep
<1>4. QED  BY <1>1, <1>2, <1>3 DEF Next

LEMMA PlaceInvariant == Spec => []PlaceInv
BY PlaceInit, PlaceNext, PTL DEF Spec

-----------------------------------------------------------------------------
(* The properties *)

\* What the daemon writes of a set of CPUs is read as that set, by the kernel and by the
\* parser, whatever the words and the layers are: NamesExact (to_range_string, spec_name).
THEOREM NamesAreExact == Spec => []NamesExact
<1>1. PlaceInv => NamesExact
  <2> SUFFICES ASSUME PlaceInv PROVE NamesExact
    OBVIOUS
  <2>1. ASSUME NEW t \in Threads, NEW e \in tasks[t], e.dir # NoDir
        PROVE  Written(e.cpus, e.dir) /\ Canonical(e.dir)
    <3>1. e.dir = ToRangeString(e.cpus) /\ e.cpus \in SUBSET Cpus
      BY <2>1, PresentIsCpus DEF PlaceInv, TypeInv, Entry, NamesRight, Named
    <3>2. QED  BY <3>1, WrittenIsRead
  <2>2. ASSUME NEW i \in DOMAIN config
        PROVE  SpecLike(SpecName(config[i].cpus)) /\ ParseCpuSpec(SpecName(config[i].cpus)) = config[i].cpus
    <3>1. config[i] \in Rule
      BY DEF PlaceInv, TypeInv
    <3>3. config[i].cpus \in SUBSET PresentCpus /\ config[i].cpus # {}
      BY <3>1 DEF Rule
    <3>2. QED  BY <3>3, ShownIsRead
  <2>3. QED  BY <2>1, <2>2 DEF NamesExact
<1>2. QED  BY <1>1, PlaceInvariant, PTL

\* Once the base is settled and the rules are loaded and taken, the directory of every thread
\* that is looked after is under the base and has the thread's CPUs: DirsPlaced.
THEOREM DirsArePlaced == Spec => []DirsPlaced
<1>1. PlaceInv => DirsPlaced
  <2> SUFFICES ASSUME PlaceInv, Settled, enabled, NEW t \in Threads, NEW e \in tasks[t]
               PROVE  Path(e.dir) \in DOMAIN dirs /\ e.cpus \subseteq dirs[Path(e.dir)]
    BY DEF DirsPlaced
  <2>1. Path(e.dir) \in DOMAIN dirs
    BY DEF PlaceInv, Settled, RulesPlaced, Placed
  <2>2. e.cpus \in SUBSET PresentCpus /\ Named(e) /\ base \in Bases
    BY DEF PlaceInv, TypeInv, Entry, NamesRight
  <2>3. Path(e.dir)[1] = base /\ Path(e.dir)[2] = e.dir
    BY DEF Path
  <2>4. dirs[Path(e.dir)] = Content(e.dir)
    BY <2>1, <2>2, <2>3 DEF PlaceInv, DirsRight
  <2>5. CASE e.dir = NoDir
    BY <2>1, <2>2, <2>4, <2>5 DEF Content
  <2>6. CASE e.dir # NoDir
    <3>1. Written(e.cpus, e.dir)
      BY <2>2, <2>6, WrittenIsRead, PresentIsCpus DEF Named
    <3>2. QED  BY <2>1, <2>4, <2>6, <3>1 DEF Content, Written
  <2>7. QED  BY <2>5, <2>6
<1>2. QED  BY <1>1, PlaceInvariant, PTL
=============================================================================
