------------------------------ MODULE CpusetDirs ------------------------------
(***************************************************************************)
(* The cpuset directories of the daemon: a web thread changes their base   *)
(* while it runs (config_set_api), the loader makes one for every package   *)
(* rule (add_rule), the main thread makes one when it matches a thread to   *)
(* several rules (thread_affinity) and moves threads into them             *)
(* (affinity_set).  Each reads the base anew.  Other programs of the       *)
(* system move threads between cpusets as well.                            *)
(***************************************************************************)
EXTENDS CpuSpec

CONSTANTS
  Threads, Web,
  Bases, FirstBase, \* names of the base directory, and the one at the start
  Groups,     \* cpusets of the system: name -> CPUs
  RootGroup,  \* the one that threads start in
  Files,      \* rule files: sequences of lines [isThread, pkg, who, spec]: of the threads pkg of a
              \* package, the rule is for the threads who
  Nobody,     \* no thread in hand
  MaxEvents   \* bound: changes of the base and of the rules, events, moves by others

RuleLine == [isThread : BOOLEAN, pkg : SUBSET Threads, who : SUBSET Threads, spec : Text]

\* The CPUs of the policies are present ones, and so are those of the system's cpusets.
ASSUME DirsAssumption ==
  /\ Files \subseteq Seq(RuleLine)
  /\ \A p \in Policies : p.cpus \subseteq PresentCpus
  /\ RootGroup \in DOMAIN Groups /\ Groups[RootGroup] = PresentCpus
  /\ \A g \in DOMAIN Groups : Groups[g] # {} /\ Groups[g] \subseteq PresentCpus
  /\ FirstBase \in Bases /\ Bases \cap DOMAIN Groups = {} /\ Nobody \notin Threads

VARIABLES
  enabled,   \* topo.cpuset_enabled: the file system of cpusets is mounted
  base,      \* BASE_CPUSET_PATH
  dirs,      \* the cpusets: <<base, name>> -> CPUs
  file, changed, \* the rule file, and whether its watch has something to report
  force, updated, \* FORCE_RELOAD, CONFIG_UPDATED
  config,    \* CURRENT_CONFIG: sequence of rules
  loader,    \* loader thread: place, lines to go, rules so far
  web,       \* web thread -> place
  main,      \* main thread: place, configuration in hand, threads to go, thread and result
  tasks,     \* ProcCache: thread -> set of at most one [cpus, dir]
  group, mask, \* kernel: cpuset and CPUs of each thread
  spent      \* events so far

vars == <<enabled, base, dirs, file, changed, force, updated, config, loader, web, main, tasks,
          group, mask, spent>>

NoDir == <<>>
Path(name) == <<base, name>>
Nothing == [cpus |-> {}, dir |-> NoDir]

-----------------------------------------------------------------------------
\* create_cpuset_dir: a path that is there already is written again; the kernel takes
\* CPUs of the parent only.
Makes(cpus) ==
  enabled /\ Path(NoDir) \in DOMAIN dirs /\ cpus # {} /\ cpus \subseteq dirs[Path(NoDir)]
Adding(name, cpus) ==
  [p \in DOMAIN dirs \cup {Path(name)} |-> IF p = Path(name) THEN cpus ELSE dirs[p]]
WithDir(name) == Adding(name, ParseCpuRanges(name, Cpus))

NotMade(name) == [dir |-> name, dirs |-> dirs]

\* ensure_cpuset_dir, and the same in add_rule: the outcome is the
\* directory's name, or none.
EnsureCpusetDir(cpus) ==
  IF Makes(cpus) THEN {[dir |-> name, dirs |-> WithDir(name)] : name \in {ToRangeString(cpus)}}
  ELSE {NotMade(NoDir)}

Rest == [at |-> "idle", lines |-> <<>>, rules |-> <<>>]

Init ==
  /\ enabled \in BOOLEAN /\ base = FirstBase /\ file \in Files
  /\ dirs = [p \in {<<g, NoDir>> : g \in DOMAIN Groups} \cup {q \in {Path(NoDir)} : enabled} |->
               IF p[1] = base THEN PresentCpus ELSE Groups[p[1]]]
  /\ changed = TRUE /\ force = FALSE /\ updated = FALSE
  /\ config = <<>> /\ loader = Rest
  /\ web = [h \in Web |-> "idle"]
  /\ main = [at |-> "idle", config |-> <<>>, left |-> {}, tid |-> Nobody, result |-> Nothing]
  /\ tasks = [t \in Threads |-> {}]
  /\ group = [t \in Threads |-> <<RootGroup, NoDir>>]
  /\ mask = [t \in Threads |-> PresentCpus]
  /\ spent = 0

-----------------------------------------------------------------------------
\* config_set_api with a name: the base, ...
SetBase(h, b) ==
  /\ web[h] = "idle"
  /\ base' = b
  /\ web' = [web EXCEPT ![h] = "mkdir"]
  /\ UNCHANGED <<enabled, dirs, file, changed, force, updated, config, loader, main, tasks, group, mask>>

\* Mutant: no reload is asked for.
MakeBaseOnly(h) ==
  /\ web[h] = "mkdir"
  /\ dirs' = IF enabled THEN Adding(NoDir, PresentCpus) ELSE dirs
  /\ web' = [web EXCEPT ![h] = "idle"]
  /\ UNCHANGED <<enabled, base, file, changed, force, updated, config, loader, main, tasks, group, mask,
                 spent>>

\* ... the directory of the base that is set by now, ...
MakeBase(h) ==
  /\ web[h] = "mkdir"
  /\ dirs' = IF enabled THEN Adding(NoDir, PresentCpus) ELSE dirs
  /\ web' = [web EXCEPT ![h] = "force"]
  /\ UNCHANGED <<enabled, base, file, changed, force, updated, config, loader, main, tasks, group, mask,
                 spent>>

\* ... and FORCE_RELOAD.
AskReload(h) ==
  /\ web[h] = "force"
  /\ force' = TRUE
  /\ web' = [web EXCEPT ![h] = "idle"]
  /\ UNCHANGED <<enabled, base, dirs, file, changed, updated, config, loader, main, tasks, group, mask,
                 spent>>

\* Somebody edits the rules.
EditFile(f) ==
  /\ file' = f /\ changed' = TRUE
  /\ UNCHANGED <<enabled, base, dirs, force, updated, config, loader, web, main, tasks, group, mask>>

-----------------------------------------------------------------------------
\* The loader begins to load, ...
Load ==
  /\ loader.at = "idle" /\ (force \/ changed)
  /\ force' = FALSE /\ changed' = FALSE
  /\ loader' = [at |-> "load", lines |-> file, rules |-> <<>>]
  /\ UNCHANGED <<enabled, base, dirs, file, updated, config, web, main, tasks, group, mask, spent>>

\* ... adds one rule after the other (add_rule), a package rule with its directory, ...
AddRule ==
  /\ loader.at = "load" /\ loader.lines # <<>>
  /\ LET line == Head(loader.lines)
         skipped == [loader EXCEPT !.lines = Tail(@)]
         rule(set, dir) == [isThread |-> line.isThread, pkg |-> line.pkg, who |-> line.who, cpus |-> set, dir |-> dir]
     IN  \E set \in {ParseCpuSpec(line.spec)} :
         \E made \in IF line.isThread THEN {NotMade(NoDir)} ELSE EnsureCpusetDir(set) :
           IF SpecLike(line.spec) /\ set # {}
           THEN /\ loader' = [skipped EXCEPT !.rules = Append(@, rule(set, made.dir))]
                /\ dirs' = made.dirs
           ELSE loader' = skipped /\ UNCHANGED dirs
  /\ UNCHANGED <<enabled, base, file, changed, force, updated, config, web, main, tasks, group, mask,
                 spent>>

\* ... and stores and announces the configuration.
Store ==
  /\ loader.at = "load" /\ loader.lines = <<>>
  /\ config' = loader.rules /\ updated' = TRUE
  /\ loader' = Rest
  /\ UNCHANGED <<enabled, base, dirs, file, changed, force, web, main, tasks, group, mask, spent>>

-----------------------------------------------------------------------------
\* The rules that a thread falls under: those of matching threads, else the package's.  One
\* without either, but in a package with thread rules, gets every CPU.
UsedRules(rules, t) ==
  LET matched == {i \in DOMAIN rules : rules[i].isThread /\ t \in rules[i].who}
  IN  IF matched # {} THEN matched ELSE {i \in DOMAIN rules : ~rules[i].isThread /\ t \in rules[i].who}

Managed(rules, t) == \E i \in DOMAIN rules : t \in rules[i].pkg

UsedCpus(rules, t) ==
  LET used == UsedRules(rules, t)
  IN  IF used = {} THEN PresentCpus ELSE UNION {rules[i].cpus : i \in used}

\* The directory of a single package rule; several have none.
RuleDir(rules, used) == IF \E i \in used : used = {i} THEN rules[CHOOSE i \in used : TRUE].dir ELSE NoDir

\* The main loop: a new configuration is read and everything scanned from an empty cache, ...
ReadConfig ==
  /\ main.at = "idle" /\ updated
  /\ updated' = FALSE
  /\ main' = [main EXCEPT !.at = "scan", !.config = config, !.left = Threads]
  /\ tasks' = [t \in Threads |-> {}]
  /\ UNCHANGED <<enabled, base, dirs, file, changed, force, config, loader, web, group, mask, spent>>

\* ... a thread speaks up, ...
Event(t) ==
  /\ main.at = "idle" /\ ~updated
  /\ main' = [main EXCEPT !.at = "scan", !.left = {t}]
  /\ UNCHANGED <<enabled, base, dirs, file, changed, force, updated, config, loader, web, tasks, group, mask>>

\* ... or the check is due.
Check ==
  /\ main.at = "idle" /\ ~updated
  /\ main' = [main EXCEPT !.at = "check", !.left = {t \in Threads : tasks[t] # {}}]
  /\ UNCHANGED <<enabled, base, dirs, file, changed, force, updated, config, loader, web, tasks, group, mask,
                 spent>>

\* thread_affinity: the directory of several matching rules is made now, that of a single
\* package rule was made when it was loaded, and several package rules have none.
Match(t) ==
  /\ main.at = "scan" /\ t \in main.left
  /\ \E used \in {UsedRules(main.config, t)}, cpus \in {UsedCpus(main.config, t)} :
       IF ~Managed(main.config, t)
       THEN main' = [main EXCEPT !.left = @ \ {t}] /\ UNCHANGED dirs
       ELSE \E made \in IF \E i \in used : main.config[i].isThread THEN EnsureCpusetDir(cpus)
                         ELSE {NotMade(RuleDir(main.config, used))} :
              /\ main' = [main EXCEPT !.at = "apply", !.left = @ \ {t}, !.tid = t,
                                      !.result = [cpus |-> cpus, dir |-> made.dir]]
              /\ dirs' = made.dirs
  /\ UNCHANGED <<enabled, base, file, changed, force, updated, config, loader, web, tasks, group, mask,
                 spent>>

\* Mutant: the thread stays in the cpuset it is in.
AffinitySetBound(t, r) ==
  /\ group' = group
  /\ mask' = [mask EXCEPT ![t] = IF r.cpus \cap dirs[group[t]] = {} THEN @ ELSE r.cpus \cap dirs[group[t]]]

\* affinity_set: nothing if the thread has its CPUs; else it is moved into the directory,
\* if that exists under the base as it is now, and bound as far as the cpuset allows.
AffinitySet(t, r) ==
  LET into == IF enabled /\ Path(r.dir) \in DOMAIN dirs THEN Path(r.dir) ELSE group[t]
      moved == IF into = group[t] THEN mask[t] ELSE dirs[into]
      bound == r.cpus \cap dirs[into]
  IN  IF mask[t] = r.cpus THEN UNCHANGED <<group, mask>>
      ELSE /\ group' = [group EXCEPT ![t] = into]
           /\ mask' = [mask EXCEPT ![t] = IF bound = {} THEN moved ELSE bound]

\* task_apply sets the affinity and notes it.
Apply ==
  /\ main.at = "apply"
  /\ AffinitySet(main.tid, main.result)
  /\ tasks' = [tasks EXCEPT ![main.tid] = {main.result}]
  /\ main' = [main EXCEPT !.at = "scan", !.tid = Nobody, !.result = Nothing]
  /\ UNCHANGED <<enabled, base, dirs, file, changed, force, updated, config, loader, web, spent>>

\* affinity_sync
CheckOne(t) ==
  /\ main.at = "check" /\ t \in main.left
  /\ \E e \in tasks[t] : AffinitySet(t, e)
  /\ main' = [main EXCEPT !.left = @ \ {t}]
  /\ UNCHANGED <<enabled, base, dirs, file, changed, force, updated, config, loader, web, tasks, spent>>

Done ==
  /\ main.at \in {"scan", "check"} /\ main.left = {}
  /\ main' = [main EXCEPT !.at = "idle"]
  /\ UNCHANGED <<enabled, base, dirs, file, changed, force, updated, config, loader, web, tasks, group, mask,
                 spent>>

\* The system moves a thread to a cpuset of its own.
MovedAway(t, g) ==
  /\ enabled
  /\ group' = [group EXCEPT ![t] = <<g, NoDir>>]
  /\ mask' = [mask EXCEPT ![t] = Groups[g]]
  /\ UNCHANGED <<enabled, base, dirs, file, changed, force, updated, config, loader, web, main, tasks>>

-----------------------------------------------------------------------------
Environment ==
  /\ spent < MaxEvents /\ spent' = spent + 1
  /\ \/ \E h \in Web, b \in Bases : SetBase(h, b)
     \/ \E f \in Files : EditFile(f)
     \/ \E t \in Threads : Event(t)
     \/ \E t \in Threads, g \in DOMAIN Groups : MovedAway(t, g)

WebStep(h) == MakeBase(h) \/ AskReload(h)
LoaderStep == Load \/ AddRule \/ Store
MainStep == ReadConfig \/ Check \/ (\E t \in Threads : Match(t) \/ CheckOne(t)) \/ Apply \/ Done

Next == Environment \/ (\E h \in Web : WebStep(h)) \/ LoaderStep \/ MainStep

\* Every thread of the daemon goes on; the check is due again and again.
Fairness ==
  /\ \A h \in Web : WF_vars(WebStep(h))
  /\ WF_vars(LoaderStep) /\ WF_vars(MainStep)

Spec == Init /\ [][Next]_vars /\ Fairness

-----------------------------------------------------------------------------
\* What the daemon writes of a set of CPUs is read as that set: the name of a thread's
\* directory by the kernel (cpuset.rs:72), and what the web page shows of a rule, and
\* sends back, by the parser (web.rs:238).
NamesExact ==
  /\ \A t \in Threads : \A e \in tasks[t] :
       e.dir # NoDir => Written(e.cpus, e.dir) /\ Canonical(e.dir)
  /\ \A i \in DOMAIN config :
       LET shown == SpecName(config[i].cpus)
       IN  SpecLike(shown) /\ ParseCpuSpec(shown) = config[i].cpus

\* Once the web threads and the loader have nothing in hand and the main thread has taken
\* the configuration, every thread it looks after can be moved: its directory is there
\* under the base of now, and has its CPUs (config_set_api, add_rule, thread_affinity).
Settled ==
  /\ \A h \in Web : web[h] = "idle"
  /\ ~force /\ ~changed /\ ~updated /\ loader.at = "idle" /\ main.at \in {"idle", "check"}
DirsPlaced ==
  Settled /\ enabled =>
    \A t \in Threads : \A e \in tasks[t] : Path(e.dir) \in DOMAIN dirs /\ e.cpus \subseteq dirs[Path(e.dir)]

\* Whatever the base, the rules and the system do, a thread ends with the CPUs that the
\* rules give it (affinity_set, affinity_sync).
Enforced ==
  \A t \in Threads : <>[](Managed(config, t) => mask[t] = UsedCpus(config, t))
=============================================================================
