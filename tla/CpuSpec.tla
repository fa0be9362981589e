-------------------------------- MODULE CpuSpec --------------------------------
(***************************************************************************)
(* CPU sets and how they are written (cpuset.rs; spec_like of config.rs    *)
(* and spec_name of web.rs).  A set is stored as words of bits; a text is  *)
(* a sequence of parts between commas.                                     *)
(***************************************************************************)
EXTENDS Integers, FiniteSets, FiniteSetsExt, Sequences

CONSTANTS
  CPU_WORDS, CPU_WORD_BITS,
  PresentStr, \* /sys/devices/system/cpu/present, as a text
  Policies    \* cpufreq: records of a maximal frequency, 0 if unreadable, and its CPUs

CPU_SETSIZE == CPU_WORDS * CPU_WORD_BITS
Cpus == 0 .. (CPU_SETSIZE - 1)

\* Parts: the name of a layer, a number, a range, nothing, or something else.  A number
\* of too many digits is Huge: spec_like admits it, parse does not.
Huge == -1
Layers == {"e-core", "p-core", "hp-core", "all-core"}
Word(form) == [form |-> form, lo |-> 0, hi |-> 0]
Number(n) == [form |-> "number", lo |-> n, hi |-> n]
Span(a, b) == [form |-> "range", lo |-> a, hi |-> b]

-----------------------------------------------------------------------------
Forms == Layers \cup {"empty", "number", "range", "junk"}
Part == [form : Forms, lo : Nat \cup {Huge}, hi : Nat \cup {Huge}]
Text == Seq(Part)

ASSUME SpecAssumption ==
  CPU_WORDS \in Nat /\ CPU_WORD_BITS \in Nat \ {0} /\ PresentStr \in Text

\* The scan of to_range_string: the text so far, and the range begun, if there is one.
Scan == [out : Text, range : {<<>>} \cup (Cpus \X Cpus)]

\* push_range, and forgetting the range pushed.
PushRange == [s \in Scan |->
  IF s.range = <<>> THEN s
  ELSE LET lo == s.range[1]  hi == s.range[2]
       IN  [out |-> Append(s.out, IF lo = hi THEN Number(lo) ELSE Span(lo, hi)), range |-> <<>>]]

\* Mutant: the end of the range does not move.
NextBitStuck(cpu) == [s \in Scan |->
  IF s.range # <<>> /\ cpu = s.range[2] + 1 THEN s
  ELSE [out |-> PushRange[s].out, range |-> <<cpu, cpu>>]]

NextBit(cpu) == [s \in Scan |->
  IF s.range # <<>> /\ cpu = s.range[2] + 1 THEN [out |-> s.out, range |-> <<s.range[1], cpu>>]
  ELSE [out |-> PushRange[s].out, range |-> <<cpu, cpu>>]]

\* One bit of a word; an empty word, of which no bit is looked at, ends the range before it.
NextCpu(cpu, set) ==
  IF cpu \in set THEN NextBit(cpu)
  ELSE IF \A c \in set : c \div CPU_WORD_BITS # cpu \div CPU_WORD_BITS THEN PushRange
  ELSE [s \in Scan |-> s]

ToRangeString(set) ==
  LET scan[n \in 0 .. CPU_SETSIZE] ==
        IF n = 0 THEN [out |-> <<>>, range |-> <<>>] ELSE NextCpu(n - 1, set)[scan[n - 1]]
  IN  PushRange[scan[CPU_SETSIZE]].out

\* The CPUs of one part: bounds in either order, cut at the size of the set; an end that
\* is too large to parse counts as the beginning.
CpusOf(part) ==
  LET end == IF part.hi = Huge THEN part.lo ELSE part.hi
      between(c, a, b) == a <= c /\ c <= b
  IN  IF part.form \notin {"number", "range"} \/ part.lo = Huge THEN {}
      ELSE {c \in Cpus : between(c, part.lo, end) \/ between(c, end, part.lo)}

ParseCpuRanges(text, present) == (UNION {CpusOf(text[i]) : i \in DOMAIN text}) \cap present

-----------------------------------------------------------------------------
PresentCpus == ParseCpuRanges(PresentStr, Cpus)

\* detect_core_types: the policies by frequency; the lowest are the e-cores, the highest
\* of several the hp-cores, those between the p-cores.
CoresAt(f) == UNION {p.cpus : p \in {q \in Policies : q.freq = f}}
Freqs == {p.freq : p \in {q \in Policies : q.freq # 0 /\ q.cpus # {}}}
ECores == IF Freqs = {} THEN {} ELSE CoresAt(Min(Freqs))
HpCores == IF Cardinality(Freqs) < 2 THEN {} ELSE CoresAt(Max(Freqs))
PCores == UNION {CoresAt(f) : f \in {g \in Freqs : g # Min(Freqs) /\ g # Max(Freqs)}}

LayerCpus(name) ==
  CASE name = "e-core" -> ECores [] name = "p-core" -> PCores
    [] name = "hp-core" -> HpCores [] name = "all-core" -> PresentCpus

\* parse_cpu_spec: only what is not the name of a layer is cut to the present CPUs.
ParseCpuSpec(text) ==
  UNION {IF text[i].form \in Layers THEN LayerCpus(text[i].form)
         ELSE ParseCpuRanges(<<text[i]>>, PresentCpus) : i \in DOMAIN text}

SpecLike(text) ==
  LET parts == {text[i] : i \in DOMAIN text} \ {Word("empty")}
  IN  parts # {} /\ \A p \in parts : p.form \in Layers \cup {"number", "range"}

\* spec_name: how the web interface shows a set; of two layers with the same CPUs the
\* first in this order.
SpecName(set) ==
  LET order == <<"e-core", "p-core", "hp-core", "all-core">>
      fits(i) == set # {} /\ set = LayerCpus(order[i])
      first(i) == fits(i) /\ \A j \in 1 .. 4 : j < i => ~fits(j)
  IN  IF \E i \in 1 .. 4 : fits(i) THEN <<Word(order[CHOOSE i \in 1 .. 4 : first(i)])>>
      ELSE ToRangeString(set)

\* What is written of a set is read as that set, by the kernel, which knows no layers
\* (a directory's name is the content of its cpus file), and by the parser; and a set
\* is written in one way only, with a gap between one range and the next.
Written(set, text) == ParseCpuRanges(text, Cpus) = set
Canonical(text) == \A i \in 1 .. (Len(text) - 1) : text[i].hi + 1 < text[i + 1].lo
=============================================================================
