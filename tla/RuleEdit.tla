------------------------------- MODULE RuleEdit -------------------------------
(***************************************************************************)
(* The rule editor (rule_edit.rs) behind the web handlers rule_api,        *)
(* rule_del_api and rule_rename_api: it changes the lines of the file and  *)
(* leaves all others as they are.  WRITE_LOCK makes an edit one step.  It  *)
(* has to see the file as the parser of ConfigText does.                   *)
(***************************************************************************)
EXTENDS ConfigText

CONSTANTS
  Lines,     \* the lines a user writes by hand
  MaxLines,  \* bound: lines of the file a behaviour starts from
  MaxEdits,  \* bound: edits in a behaviour
  PkgNames,  \* package names, as tokens
  Threads    \* thread names, as tokens

ASSUME EditAssumption ==
  /\ MaxLines \in Nat /\ MaxEdits \in Nat
  /\ \A l \in Lines : l.c \in BOOLEAN
  /\ <<>> \notin PkgNames \cup Threads

VARIABLES
  file,  \* the lines of CONFIG_FILE
  last,  \* the last edit and its result
  edits  \* number of edits

vars == <<file, last, edits>>

-----------------------------------------------------------------------------
\* target_scan: where the package's lines are.  Line numbers, 0 for none.

ThreadLoc(i, name, single, closed, open) ==
  [idx |-> i, name |-> name, single |-> single, closed |-> closed, open |-> open]

NoTarget ==
  [kind |-> "None", at |-> 0, open |-> 0, close |-> 0, locs |-> <<>>,
   blk |-> FALSE, mine |-> FALSE, pend |-> 0]

\* Mutant: the first closing brace counts, whosever block it closes.
EndBlockOfAny(t, i) ==
  [t EXCEPT !.blk = FALSE, !.mine = FALSE, !.close = IF @ = 0 THEN i ELSE @]

EndBlock(t, i) ==
  [t EXCEPT !.blk = FALSE, !.mine = FALSE,
            !.close = IF t.mine /\ @ = 0 THEN i ELSE @]

BeginBlock(t, i, mine) ==
  [t EXCEPT !.blk = TRUE, !.mine = mine,
            !.open = IF mine /\ t.close = 0 THEN i ELSE @]

\* The first line that names the package.
PkgLine(t, kind, i) ==
  IF t.kind = "None" THEN [t EXCEPT !.kind = kind, !.at = i] ELSE t

ScanInBlock(t, i, s) ==
  LET found(x) == IF t.mine
                  THEN [t EXCEPT !.locs = Append(@, ThreadLoc(i, x.kv.key, FALSE, x.closed, FALSE))]
                  ELSE t
      rule(x) == IF x.closed THEN EndBlock(found(x), i) ELSE found(x)
      next(split) == IF split # {} THEN rule(CHOOSE x \in split : TRUE)
                     ELSE IF At(s, "}") # {} THEN EndBlock(t, i) ELSE t
  IN  IF CloseLike(s) THEN EndBlock(t, i) ELSE next(SplitRuleLine(s))

\* A line outside of blocks, parsed as o; mine: it names the package; waits:
\* the package's name waits for its brace.
ScanOuter(t, i, o, mine, waits) ==
  LET free == [t EXCEPT !.pend = 0]
      head(kind) == IF mine THEN PkgLine(BeginBlock(free, i, mine), kind, i)
                            ELSE BeginBlock(free, i, mine)
      found == IF mine
               THEN [free EXCEPT !.locs = Append(@, ThreadLoc(i, o.thread, TRUE, FALSE, o.open))]
               ELSE free
  IN  CASE o.kind = "Single" -> IF o.open THEN BeginBlock(found, i, mine) ELSE found
        [] o.kind = "Rule" /\ o.open -> head("OpenInline")
        [] o.kind = "Rule" /\ ~o.open -> IF mine THEN PkgLine(free, "Standalone", i) ELSE free
        [] o.kind = "BareOpen" /\ o.pkg # <<>> -> head("BareOpen")
        [] o.kind = "BareOpen" /\ o.pkg = <<>> ->
             IF t.pend = 0 THEN t
             ELSE IF waits THEN PkgLine(BeginBlock(free, i, TRUE), "BarePending", t.pend)
             ELSE BeginBlock(free, i, FALSE)
        [] o.kind = "Pending" -> [t EXCEPT !.pend = i]
        [] o.kind = "Junk" -> free

ScanOutOfBlock(lines, pkg, t, i, s) ==
  LET scan(o, w) == ScanOuter(t, i, o, o.pkg = pkg, w.kind = "Pending" /\ w.pkg = pkg)
  IN  scan(ParseOuter(s), ParseOuter(IF t.pend = 0 THEN <<>> ELSE lines[t.pend].t))

TargetScan(lines, pkg) ==
  FoldLeftDomain(LAMBDA t, i : LET s == lines[i].t
                               IN  IF s = <<>> THEN t
                                   ELSE IF t.blk THEN ScanInBlock(t, i, s)
                                   ELSE ScanOutOfBlock(lines, pkg, t, i, s),
                 NoTarget, lines)

Singles(t) == SelectSeq(t.locs, LAMBDA l : l.single)
LocsOf(t, thread) == SelectSeq(t.locs, LAMBDA l : l.name = thread)
AnyLine(t) == t.kind # "None" \/ Singles(t) # <<>>

-----------------------------------------------------------------------------
\* What the editor makes of a line.

\* Text put at the end of a raw line that has a comment becomes comment.
Extend(l, token) == IF l.c THEN l ELSE [l EXCEPT !.t = Append(@, token)]

WithComment(tokens, old) == [t |-> tokens, c |-> old.c]
BareOpen(pkg) == IF At(pkg, "=") # {} THEN pkg \o <<"=", "{">> ELSE Append(pkg, "{")
ThreadRule(thread, cpus) == thread \o <<"=", cpus>>

SwapAt(l, e, value) == IF e = 0 THEN l ELSE [l EXCEPT !.t = SubSeq(@, 1, e) \o value]

\* Mutant: everything behind the value is dropped.
SpecSwapAll(l, cpus) == SwapAt(l, RFind(l.t, "="), <<cpus>>)

\* spec_swap: the value up to the next brace is replaced, of the rest only
\* braces stay.
SpecSwap(l, cpus) ==
  LET swap(e) == SwapAt(l, e, <<cpus>> \o SelectSeq(After(l.t, e), LAMBDA x : x \in {"{", "}"}))
  IN  swap(RFind(l.t, "="))

\* Mutant: a line that also closes its block is removed like any other.
LineRemoveClosing(lines, pkg, loc) ==
  IF loc.open THEN ReplaceAt(lines, loc.idx, WithComment(BareOpen(pkg), lines[loc.idx]))
  ELSE RemoveAt(lines, loc.idx)

LineRemove(lines, pkg, loc) ==
  IF loc.open THEN ReplaceAt(lines, loc.idx, WithComment(BareOpen(pkg), lines[loc.idx]))
  ELSE IF loc.closed THEN ReplaceAt(lines, loc.idx, WithComment(<<"}">>, lines[loc.idx]))
  ELSE RemoveAt(lines, loc.idx)

\* Several lines, the last one first.
RemoveLocs(lines, pkg, locs) ==
  FoldRight(LAMBDA loc, ls : LineRemove(ls, pkg, loc), locs, lines)

Splice(lines, i, new) == SubSeq(lines, 1, i) \o new \o After(lines, i)

\* A block opened behind a package rule, with the given lines.
BlockBehind(lines, i, body) ==
  Splice(ReplaceAt(lines, i, Extend(lines[i], "{")), i, Append(body, Text(<<"}">>)))

\* A one-line thread rule without its package.
SingleItem(l) ==
  LET s == IF Last(l.t) = "{" THEN Front(l.t) ELSE l.t
      x == CHOOSE y \in SplitSingleLine(s) : TRUE
      item(y) == WithComment(y.thread \o <<"=">> \o y.cpus, l)
  IN  item(x)

\* Thread rules put into the package's block, or a new one behind its line or
\* in the place of the first of them; t: the scan of the lines left.
IntoBlock(lines, pkg, t, items, first) ==
  IF t.close # 0 THEN Splice(lines, t.close - 1, items)
  ELSE IF t.kind = "Standalone" THEN BlockBehind(lines, t.at, items)
  ELSE Splice(lines, Min({first - 1, Len(lines)}),
              <<Text(BareOpen(pkg))>> \o items \o <<Text(<<"}">>)>>)

\* normalize_singles: the package's one-line thread rules move into its block,
\* unless one of them or its own line opens a block that is not closed.
MoveSingles(lines, pkg, t, singles) ==
  LET items == [i \in DOMAIN singles |-> SingleItem(lines[singles[i].idx])]
      keep == t.close = 0 /\ \/ \E i \in DOMAIN singles : singles[i].open
                             \/ t.kind \notin {"None", "Standalone"}
      into(rest) == IntoBlock(rest, pkg, TargetScan(rest, pkg), items, singles[1].idx)
  IN  IF singles = <<>> \/ keep THEN lines ELSE into(RemoveLocs(lines, pkg, singles))

NormalizeSingles(lines, pkg) ==
  LET move(t) == MoveSingles(lines, pkg, t, Singles(t))
  IN  move(TargetScan(lines, pkg))

-----------------------------------------------------------------------------
\* The edits: a result and the lines that are written if it is Ok.

Done(lines) == [res |-> "Ok", lines |-> lines]
Refused(res) == [res |-> res, lines |-> <<>>]

\* n: the lines with the one-line rules moved, t: their scan.
UpsertPkg(n, t, pkg, cpus) ==
  LET set(i) == Done(ReplaceAt(n, i, SpecSwap(n[i], cpus)))
      opening(i) == ReplaceAt(n, i, WithComment(pkg \o <<"=", cpus, "{">>, n[i]))
      isBrace(o) == o.kind = "BareOpen" /\ o.pkg = <<>>
      \* without the brace on a line of its own
      pending(lines) == IF t.open # 0 /\ isBrace(ParseOuter(n[t.open].t))
                        THEN RemoveAt(lines, t.open) ELSE lines
  IN  CASE t.kind \in {"Standalone", "OpenInline"} -> set(t.at)
        [] t.kind = "BareOpen" -> Done(opening(t.at))
        [] t.kind = "BarePending" -> Done(pending(opening(t.at)))
        [] t.kind = "None" /\ t.blk -> Refused("Malformed")
        [] t.kind = "None" /\ ~t.blk -> Done(Append(n, Text(ThreadRule(pkg, cpus))))

UpsertThread(n, t, pkg, thread, cpus) ==
  LET new == <<Text(ThreadRule(thread, cpus))>>
      swapped(i) == ReplaceAt(n, i, SpecSwap(n[i], cpus))
      swap(locs) == Done(RemoveLocs(swapped(Last(locs).idx), pkg, Front(locs)))
  IN  IF LocsOf(t, thread) # <<>> THEN swap(LocsOf(t, thread))
      ELSE IF t.close # 0 THEN Done(Splice(n, t.close - 1, new))
      ELSE IF t.kind = "Standalone" THEN Done(BlockBehind(n, t.at, new))
      ELSE IF t.blk THEN Refused("Malformed")
      ELSE Done(n \o <<Text(BareOpen(pkg))>> \o new \o <<Text(<<"}">>)>>)

RuleUpsert(n, t, pkg, thread, cpus) ==
  IF thread = <<>> THEN UpsertPkg(n, t, pkg, cpus) ELSE UpsertThread(n, t, pkg, thread, cpus)

RuleDelete(n, t, pkg, thread) ==
  CASE thread = <<>> /\ t.kind = "Standalone" -> Done(RemoveAt(n, t.at))
    [] thread = <<>> /\ t.kind = "OpenInline" -> Done(ReplaceAt(n, t.at, Text(BareOpen(pkg))))
    [] thread # <<>> /\ LocsOf(t, thread) # <<>> ->
         Done(RemoveLocs(n, pkg, LocsOf(t, thread)))
    [] OTHER -> Refused("NotFound")

\* One round of rule_delete_pkg: the package's first line, its first block up
\* to the brace or its last thread rule, its one-line thread rules.
PkgLines(t) ==
  LET inner == {l.idx : l \in {x \in ToSet(t.locs) : ~x.single}}
      end == IF t.close # 0 THEN t.close ELSE IF inner # {} THEN Max(inner) ELSE t.open
  IN  ({t.at} \ {0}) \cup (IF t.open = 0 THEN {} ELSE t.open .. end)
        \cup {l.idx : l \in ToSet(Singles(t))}

Without(lines, del) ==
  LET keep(kept) == [i \in DOMAIN kept |-> lines[kept[i]]]
  IN  keep(SetToSortSeq(DOMAIN lines \ del, <))

RECURSIVE DeleteRounds(_, _, _)
DeleteRounds(lines, t, pkg) ==
  LET again(next) == DeleteRounds(next, TargetScan(next, pkg), pkg)
  IN  IF AnyLine(t) THEN again(Without(lines, PkgLines(t))) ELSE Done(lines)

RuleDeletePkg(n, t, pkg) == IF AnyLine(t) THEN DeleteRounds(n, t, pkg) ELSE Refused("NotFound")

\* rule_rename of one line.  A name with "=" needs one more behind it.
RenameLine(l, old, new) ==
  LET eq == At(new, "=") # {} /\ ~l.c
      tail(rest) == IF eq /\ rest \in {<<>>, <<"=">>} THEN <<"=">>
                    ELSE IF eq /\ rest = <<"{">> THEN <<"=", "{">>
                    ELSE rest
  IN  IF IsPrefix(old, l.t) THEN [l EXCEPT !.t = new \o tail(After(l.t, Len(old)))] ELSE l

\* The rounds of rule_rename; "Stuck" if a round changes nothing and the loop
\* cannot end.
RECURSIVE RenameRounds(_, _, _, _)
RenameRounds(lines, t, old, new) ==
  LET idxs == {l.idx : l \in ToSet(Singles(t))} \cup ({t.at} \ {0})
      renamed == [i \in DOMAIN lines |->
                    IF i \in idxs THEN RenameLine(lines[i], old, new) ELSE lines[i]]
      again(next) == IF next = lines THEN Refused("Stuck")
                     ELSE RenameRounds(next, TargetScan(next, old), old, new)
  IN  IF idxs = {} THEN Done(lines) ELSE again(renamed)

RuleRename(n, t, old, new) ==
  IF ~AnyLine(t) THEN Refused("NotFound")
  ELSE IF AnyLine(TargetScan(n, new)) THEN Refused("Conflict")
  ELSE RenameRounds(n, t, old, new)

-----------------------------------------------------------------------------
\* The handlers.  Names are checked as token_ok and pkg_shape_ok do.

PkgShapeOk(pkg) == ~(At(pkg, "{") # {} /\ Last(pkg) = "}")

NoEdit == [op |-> "None", pkg |-> <<>>, thread |-> <<>>, arg |-> <<>>, res |-> "Ok"]

Init ==
  /\ file \in BoundedSeq(Lines, MaxLines)
  /\ last = NoEdit
  /\ edits = 0

\* Every edit begins by moving the package's one-line rules and scanning.
Scanned(pkg) ==
  LET scan(n) == [lines |-> n, target |-> TargetScan(n, pkg)]
  IN  scan(NormalizeSingles(file, pkg))

Edit(op, pkg, thread, arg, result) ==
  /\ edits < MaxEdits
  /\ edits' = edits + 1
  /\ \E r \in {result} :
       /\ last' = [op |-> op, pkg |-> pkg, thread |-> thread, arg |-> arg, res |-> r.res]
       /\ file' = IF r.res = "Ok" THEN r.lines ELSE file

Upsert(pkg, thread, cpus) ==
  /\ thread = <<>> => PkgShapeOk(pkg)
  /\ Edit("Upsert", pkg, thread, <<cpus>>,
          LET x == Scanned(pkg) IN RuleUpsert(x.lines, x.target, pkg, thread, cpus))

Delete(pkg, thread) ==
  Edit("Delete", pkg, thread, <<>>,
       LET x == Scanned(pkg) IN RuleDelete(x.lines, x.target, pkg, thread))

DeletePkg(pkg) ==
  Edit("DeletePkg", pkg, <<>>, <<>>,
       LET x == Scanned(pkg) IN RuleDeletePkg(x.lines, x.target, pkg))

Rename(old, new) ==
  /\ old # new /\ PkgShapeOk(new)
  /\ Edit("Rename", old, <<>>, new,
          LET x == Scanned(old) IN RuleRename(x.lines, x.target, old, new))

Next ==
  \/ \E p \in PkgNames, th \in Threads \cup {<<>>}, c \in Specs : Upsert(p, th, c)
  \/ \E p \in PkgNames, th \in Threads \cup {<<>>} : Delete(p, th)
  \/ \E p \in PkgNames : DeletePkg(p)
  \/ \E p, q \in PkgNames : Rename(p, q)

Spec == Init /\ [][Next]_vars

-----------------------------------------------------------------------------
Rules(lines) == ToSet(RulesOf(lines))

\* The rules an edit is asked to leave.
Wanted(rules, e) ==
  CASE e.op = "Upsert" ->
         {r \in rules : <<r[1], r[2]>> # <<e.pkg, e.thread>>} \cup {<<e.pkg, e.thread, e.arg[1]>>}
    [] e.op = "Delete" -> {r \in rules : <<r[1], r[2]>> # <<e.pkg, e.thread>>}
    [] e.op = "DeletePkg" -> {r \in rules : r[1] # e.pkg}
    [] e.op = "Rename" -> {IF r[1] = e.pkg THEN <<e.arg, r[2], r[3]>> ELSE r : r \in rules}

\* A comment stands behind a line that names a package.
Commented(lines) ==
  \E i \in DOMAIN lines : lines[i].c /\ ParseOuter(lines[i].t).pkg \in PkgNames

\* A file the parser reads without complaint, in which every rule and every
\* package line is there once, without comments where the editor puts its braces.
Tidy(lines) ==
  LET rs == RulesOf(lines)
      outer(i) == ParseOuter(lines[i].t)
      heads(p) == {i \in DOMAIN lines :
                    outer(i).pkg = p /\ (outer(i).kind = "Single" => outer(i).open)}
  IN  /\ Clean(lines)
      /\ \A i, j \in DOMAIN rs : i # j => <<rs[i][1], rs[i][2]>> # <<rs[j][1], rs[j][2]>>
      /\ \A p \in PkgNames : Cardinality(heads(p)) <= 1
      /\ ~Commented(lines)

Foreign(lines, e) == {r \in Rules(lines) : r[1] \notin {e.pkg, e.arg}}

\* What the parser reads of the other packages is the same after an edit of
\* any file it reads without complaint, also one with several sections or
\* several rules for the same thread (target_scan and line_remove address
\* lines by numbers that earlier removals shift).
OthersKept ==
  [][Clean(file) /\ ~Commented(file) => Foreign(file', last') = Foreign(file, last')]_vars

\* An edit of a tidy file that is reported as done makes the parser read
\* exactly the rules asked for: editor and parser agree on blocks, one-line
\* rules, waiting names and braces behind values.
EditTakesEffect ==
  [][Tidy(file) /\ last'.res = "Ok" => Rules(file') = Wanted(Rules(file), last')]_vars

\* Every edit of a tidy file ends (the loops of rule_rename and rule_delete_pkg
\* scan again after each change; with them WRITE_LOCK would stay taken) and
\* leaves no line behind that the parser skips, and no open block.
StaysClean == [][Tidy(file) => Clean(file') /\ last'.res # "Stuck"]_vars

\* What the web page says of its dialogue: package rule and thread rules are
\* saved together (the handler has answered Ok).
SavedRuleExists ==
  [][Clean(file) /\ last'.op = "Upsert" /\ last'.res = "Ok" =>
       <<last'.pkg, last'.thread, last'.arg[1]>> \in Rules(file')]_vars
=============================================================================
