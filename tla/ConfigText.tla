------------------------------ MODULE ConfigText ------------------------------
(***************************************************************************)
(* The configuration file as text, and its parser (config.rs: parse_outer, *)
(* split_rule_line, split_single_line, close_like, add_rule, the loop of   *)
(* load_config).                                                           *)
(*                                                                         *)
(* A line is the sequence of its tokens -- words, "=", "{" and "}" -- and  *)
(* whether a comment follows them.  A token is never cut, so that rfind    *)
(* and strip_suffix of the code are questions about sequences.  Lines that *)
(* are empty or only a comment have no tokens.                             *)
(***************************************************************************)
EXTENDS Integers, Sequences, FiniteSets, SequencesExt

CONSTANTS
  Words,   \* what names and specifications are made of
  Specs    \* the words that are specifications of at least one present CPU

ASSUME TextAssumption ==
  /\ Specs \subseteq Words
  /\ Words \cap {"=", "{", "}"} = {}

Token == Words \cup {"=", "{", "}"}
Text(tokens) == [t |-> tokens, c |-> FALSE]

\* The positions of a token, and the last of them or 0.
At(s, x) == {i \in DOMAIN s : s[i] = x}
RFind(s, x) == Max(At(s, x) \cup {0})
Before(s, i) == SubSeq(s, 1, i - 1)
After(s, i) == SubSeq(s, i + 1, Len(s))

-----------------------------------------------------------------------------
\* Optional results are sets of at most one element.

\* kv: cut at the last "=", the key must not be empty.
KeyValue(s) ==
  {[key |-> Before(s, e), val |-> After(s, e)] : e \in {RFind(s, "=")} \ {0, 1}}

\* A line inside a block: a closing brace may follow the value.
SplitRuleLine(s) ==
  LET value(closings) ==
        IF closings # {} THEN [kvs |-> KeyValue(Before(s, Min(closings))), closed |-> TRUE]
                         ELSE [kvs |-> KeyValue(s), closed |-> FALSE]
      split(v) == {[kv |-> kv, closed |-> v.closed] : kv \in v.kvs}
  IN  split(value({cb \in At(s, "}") : KeyValue(Before(s, cb)) # {}}))

CloseLike(s) == s # <<>> /\ Head(s) = "}"

\* pkg { thread } = cpus: e is the "=", ob the first brace of the left side.
SingleParts(s, e, ob) ==
  IF e > 2 /\ s[e - 1] = "}" /\ ob > 1 /\ ob < e - 2
  THEN {[pkg |-> Before(s, ob), thread |-> SubSeq(s, ob + 1, e - 2), cpus |-> After(s, e)]}
  ELSE {}

SplitSingleLine(s) ==
  UNION {SingleParts(s, e, Min({i \in At(s, "{") : i < e} \cup {e})) : e \in {RFind(s, "=")}}

\* A line without the brace at its end.  open: a block begins behind it.
OuterLine(kind, pkg, thread, cpus, open) ==
  [kind |-> kind, pkg |-> pkg, thread |-> thread, cpus |-> cpus, open |-> open]

ParseBody(body, open, single, e) ==
  LET bare(pkg) == OuterLine(IF open THEN "BareOpen" ELSE "Pending", pkg, <<>>, <<>>, open)
  IN  IF single # {}
      THEN CHOOSE o \in {OuterLine("Single", x.pkg, x.thread, x.cpus, open) : x \in single} : TRUE
      ELSE IF ~open /\ CloseLike(body) THEN OuterLine("Junk", <<>>, <<>>, <<>>, open)
      ELSE IF e = 0 THEN bare(body)
      ELSE IF e = Len(body) THEN bare(Before(body, e))
      ELSE OuterLine("Rule", Before(body, e), <<>>, After(body, e), open)

\* A line outside of blocks.
ParseOuter(s) ==
  LET parse(body, open) == ParseBody(body, open, SplitSingleLine(body), RFind(body, "="))
  IN  IF s # <<>> /\ Last(s) = "{" THEN parse(Front(s), TRUE) ELSE parse(s, FALSE)

-----------------------------------------------------------------------------
\* The parser: rules so far, whether a line failed, the open block, the name
\* that waits for its brace.

Start == [rules |-> <<>>, bad |-> FALSE, cur |-> <<>>, pend |-> <<>>, blk |-> FALSE]

AddRule(st, pkg, thread, cpus) ==
  IF pkg # <<>> /\ Len(cpus) = 1 /\ cpus[1] \in Specs
  THEN [st EXCEPT !.rules = Append(@, <<pkg, thread, cpus[1]>>)]
  ELSE [st EXCEPT !.bad = TRUE]

Close(st) == [st EXCEPT !.blk = FALSE, !.cur = <<>>]

InBlock(st, s) ==
  LET failed == [st EXCEPT !.bad = TRUE]
      rule(x) == IF x.closed THEN Close(AddRule(st, st.cur, x.kv.key, x.kv.val))
                             ELSE AddRule(st, st.cur, x.kv.key, x.kv.val)
      next(split) == IF split # {} THEN rule(CHOOSE x \in split : TRUE)
                     ELSE IF At(s, "}") # {} THEN Close(failed) ELSE failed
  IN  IF CloseLike(s) THEN Close(st) ELSE next(SplitRuleLine(s))

\* A waiting name that something else follows is a failed line.
Unwait(st) == [st EXCEPT !.bad = @ \/ st.pend # <<>>, !.pend = <<>>]

Opened(st, o, pkg) == IF o.open THEN [st EXCEPT !.cur = pkg, !.blk = TRUE] ELSE st

\* What a line outside of blocks, parsed as o, does.
Outer(st, o) ==
  CASE o.kind \in {"Single", "Rule"} ->
         Opened(AddRule(Unwait(st), o.pkg, o.thread, o.cpus), o, o.pkg)
    [] o.kind = "BareOpen" /\ o.pkg # <<>> -> Opened(Unwait(st), o, o.pkg)
    [] o.kind = "BareOpen" /\ o.pkg = <<>> ->
         IF st.pend = <<>> THEN [st EXCEPT !.bad = TRUE]
         ELSE Opened([st EXCEPT !.pend = <<>>], o, st.pend)
    [] o.kind = "Pending" -> [Unwait(st) EXCEPT !.pend = o.pkg]
    [] o.kind = "Junk" -> [st EXCEPT !.bad = TRUE, !.pend = <<>>]

OutOfBlock(st, s) == Outer(st, ParseOuter(s))

\* load_config on the lines of the file.
Parse(lines) ==
  FoldLeft(LAMBDA st, l : IF l.t = <<>> THEN st
                          ELSE IF st.blk THEN InBlock(st, l.t) ELSE OutOfBlock(st, l.t),
           Start, lines)

RulesOf(lines) == Parse(lines).rules

\* Nothing was skipped: fail_cnt is 0.
Clean(lines) == LET st == Parse(lines) IN ~st.bad /\ ~st.blk /\ st.pend = <<>>
=============================================================================
