----------------------------- MODULE RefreshConfig -----------------------------
(***************************************************************************)
(* refresh_config.conf as the web handlers edit it (refresh.rs             *)
(* refresh_set_config, refresh_add_app, refresh_del_app): each reads the   *)
(* file, edits its lines, truncates the file and writes the lines back,    *)
(* without any lock.  A line is a global setting, the configuration of a   *)
(* package, or anything else, which is kept.                               *)
(***************************************************************************)
EXTENDS Naturals, SequencesExt

CONSTANTS
  Keys,     \* the global settings, in the order in which missing ones are appended
  Pkgs,     \* packages
  Note,     \* a comment or an empty line
  Rates,    \* values of a setting or of a package's configuration
  Web,      \* web threads
  FirstFiles \* bound: what the file may hold at first

Line == [of : Range(Keys) \cup Pkgs \cup {Note}, val : Rates]

VARIABLES
  file,   \* refresh_config.conf
  editor  \* web thread -> what it is at: place, edited lines; history: what it read, what the
          \* edited names are to have afterwards, whether no other thread has edited meanwhile

editVars == <<file, editor>>

Resting == [at |-> "idle", new |-> <<>>, old |-> <<>>, want |-> <<>>, alone |-> TRUE]
Editing(t) == editor[t].at # "idle"

EditTypeOK ==
  /\ file \in Seq(Line)
  /\ editor \in [Web -> [at : {"idle", "truncate", "fill"}, new : Seq(Line), old : Seq(Line),
                         want : UNION {[S -> SUBSET Rates] : S \in SUBSET (Range(Keys) \cup Pkgs)},
                         alone : BOOLEAN]]

EditInit ==
  /\ file \in FirstFiles
  /\ editor = [t \in Web |-> Resting]

-----------------------------------------------------------------------------
(* The edits *)

Setting(k, v) == [of |-> k, val |-> v]
Names(lines) == {lines[i].of : i \in DOMAIN lines}

\* The lines of other names, in their order.
Without(lines, names) ==
  LET kept[n \in 0 .. Len(lines)] ==
        IF n = 0 THEN <<>>
        ELSE IF lines[n].of \in names THEN kept[n - 1] ELSE Append(kept[n - 1], lines[n])
  IN  kept[Len(lines)]

\* refresh_set_config: every line of a global setting is replaced, missing ones appended.
SetConfig(lines, vals) ==
  [i \in DOMAIN lines |-> IF lines[i].of \in Range(Keys) THEN Setting(lines[i].of, vals[lines[i].of])
                          ELSE lines[i]]
  \o Without([i \in DOMAIN Keys |-> Setting(Keys[i], vals[Keys[i]])], Names(lines))

\* refresh_add_app: the first line of the package is replaced, or a line appended.
AddApp(lines, p, v) ==
  IF p \in Names(lines)
  THEN ReplaceAt(lines, SelectInSeq(lines, LAMBDA l : l.of = p), Setting(p, v))
  ELSE Append(lines, Setting(p, v))

\* Mutant: only the first line of the package goes.
DelAppFirst(lines, p) ==
  IF p \in Names(lines) THEN RemoveAt(lines, SelectInSeq(lines, LAMBDA l : l.of = p)) ELSE lines

\* refresh_del_app: every line of the package goes.
DelApp(lines, p) == Without(lines, {p})

-----------------------------------------------------------------------------
(* The handlers *)

\* fs::read_to_string; what the file holds is edited in memory.
ReadFile(t, new, want) ==
  /\ editor' = [u \in Web |->
       IF u = t THEN [at |-> "truncate", new |-> new, old |-> file, want |-> want,
                      alone |-> \A w \in Web : ~Editing(w)]
       ELSE [editor[u] EXCEPT !.alone = FALSE]]
  /\ UNCHANGED file

SetGlobal(t, vals) == ReadFile(t, SetConfig(file, vals), [k \in Range(Keys) |-> {vals[k]}])
AddPkg(t, p, v) == ReadFile(t, AddApp(file, p, v), [q \in {p} |-> {v}])
DelPkg(t, p) == ReadFile(t, DelApp(file, p), [q \in {p} |-> {}])

\* fs::write opens the file with truncation ...
TruncateFile(t) ==
  /\ editor[t].at = "truncate"
  /\ file' = <<>>
  /\ editor' = [editor EXCEPT ![t].at = "fill"]

\* ... and writes from its beginning: what another thread has written behind stays.
FillFile(t) ==
  /\ editor[t].at = "fill"
  /\ file' = editor[t].new \o SubSeq(file, Len(editor[t].new) + 1, Len(file))
  /\ editor' = [editor EXCEPT ![t] = Resting]

-----------------------------------------------------------------------------
(* Properties *)

\* load_app_configs, load_global_config: of several lines of a name the last counts.
Loaded(lines, n) ==
  IF n \in Names(lines) THEN {lines[SelectLastInSeq(lines, LAMBDA l : l.of = n)].val} ELSE {}

Once(lines, n) == \A i, j \in DOMAIN lines : lines[i].of = n /\ lines[j].of = n => i = j

KeepsRest ==
  \A t \in Web : editor[t].at = "fill" /\ ~Editing(t)' /\ editor[t].alone =>
    LET e == editor[t]
        Rest(lines) == Without(lines, DOMAIN e.want)
    IN  /\ Rest(file') = Rest(e.old)
        /\ \A n \in DOMAIN e.want :
             n \notin Pkgs \/ e.want[n] = {} \/ Once(e.old, n) => Loaded(file', n) = e.want[n]
=============================================================================
