--------------------------- MODULE ForegroundLoop ---------------------------
(***************************************************************************)
(* The root-level draft, part 3: its event loop (src/main.rs) with the     *)
(* hand-over of configuration edits from the web interface (src/config.rs, *)
(* src/web.rs).  It extends the probe and the worker.                      *)
(*                                                                         *)
(* Two reloads exist.  config_reload, run by a web thread after an edit    *)
(* and by the loop on an event of the file, parses the file into           *)
(* CURRENT_CONFIG and notes in CPU_RULES_CHANGED whether the rules differ. *)
(* AppState::reload, run by the loop when the web interface or             *)
(* config_reload asks for it, takes that note and LAST_RULE, rebuilds the  *)
(* tables of the loop and has the worker bind what changed.                *)
(*                                                                         *)
(* The configuration file can be read whenever it is parsed, the kernel    *)
(* module is loaded and takes every rule, and the waylay rules are         *)
(* valid.  The screen-off request and the input events are left out.       *)
(***************************************************************************)
EXTENDS AffinityWorker

CONSTANTS
    Configs,        \* the configurations users write
    WaylayTables,   \* the contents of waylay.conf users write
    Starts          \* the files the program may start with, each with a bound
                    \* on the events of each kind that happen afterwards, and
                    \* on the failures of the probe

Kinds == {"red", "src", "prop"}      \* red stands for red-path as well
Threads == {"web", "main"}
Idle == "idle"
Budget == [device : Nat, packages : Nat, rules : Nat, waylay : Nat]

ASSUME LoopAssumption ==
    /\ Starts \subseteq [file : Configs, waylay : WaylayTables, budget : Budget,
                         faults : Nat]
    /\ Configs \subseteq Config
    /\ WaylayTables \subseteq [Apps -> SUBSET Kinds]

VARIABLES
    file,       \* the configuration file
    fileEv,     \* its inotify event is pending
    waylay,     \* waylay.conf
    waylayMem,  \* WAYLAY_RULES_NEW
    waylayEv,   \* the inotify event of waylay.conf is pending
    pkgEv,      \* the inotify event of packages.list is pending
    wake,       \* CONFIG_WAKE_FD is readable
    armReq,     \* KPM_ARM_REQ
    lastRule,   \* LAST_RULE
    cpuChanged, \* CPU_RULES_CHANGED
    parsed,     \* what each thread inside config_reload parsed, and what it
                \* found in CURRENT_CONFIG before
    step,       \* where each thread stands
    saved,      \* the edit a web thread has saved
    budget      \* the events of each kind that may still happen

webVars == <<file, fileEv, waylay, waylayMem, waylayEv, pkgEv, wake, armReq,
             lastRule, cpuChanged, parsed, step, saved, budget, current>>

VARIABLES
    mainCfg,    \* AppState.cfg
    uidCpu,     \* the entries of uid_map with the flag cpu
    uidRfr,     \* those with the flag rfr
    pkgUid,     \* the packages pkg_uid has a uid for
    cpuSet,     \* cpu_pkgs_set
    rfrSet,     \* rfr_pkgs_set, without the launcher
    lastFg,     \* last_fg_uid
    pkgCache,   \* PKG_UID_CACHE
    uidRules,   \* uid_rules; vfc_uid_set is the uids with kind red
    ruleCache,  \* rule_cache, as the set of uids with rows
    srvCur,     \* srv_active_cur
    propCur,    \* prop_active_cur
    rfrMon,     \* rfr_monitored; the application of a pid is app[pid]
    waylayMon,  \* waylay_monitored
    srvMon      \* srv_monitored

tableVars == <<mainCfg, uidCpu, uidRfr, pkgUid, cpuSet, rfrSet>>
ruleVars  == <<pkgCache, uidRules, ruleCache>>
guardVars == <<lastFg, srvCur, propCur, rfrMon, waylayMon, srvMon>>

VARIABLES
    vfcFg,      \* kernel: the uid whose rules apply; None before the first
                \* call, "stop" after a call with 0
    srvOn,      \* kernel: the service list is disguised
    srvBy,      \* history: who set srvOn last, or "skipped": a synchronisation that
                \* took it for on and left it off
    propOn,     \* the property files are replaced
    armed,      \* kernel: the probes are attached
    rate,       \* the package the refresh-rate thread was told last
    owed,       \* history: applications and names of threads whose rule changed
                \* since the last reload
    overlooked  \* history: those for which a reload or a callback has sent no
                \* message to the worker that reaches such a thread

kernelVars  == <<vfcFg, srvOn, srvBy, propOn, armed, rate>>
historyVars == <<owed, overlooked>>
vars == <<deviceVars, fgQ, probeVars, workerVars, webVars, tableVars, ruleVars,
          guardVars, kernelVars, historyVars>>

TypeOK ==
    /\ ProbeTypeOK
    /\ WorkerTypeOK
    /\ file \in Config /\ mainCfg \in Config
    /\ {waylay, waylayMem} \subseteq [Apps -> SUBSET Kinds]
    /\ {fileEv, waylayEv, pkgEv, wake, cpuChanged} \subseteq BOOLEAN
    /\ armReq \in {"none", "arm", "disarm"}
    /\ lastRule \in Edit \cup {None} /\ saved \in Edit \cup {None}
    /\ step \in [Threads -> {Idle, "load", "note", "store", "reload"}]
    /\ parsed \in [Threads -> [old : Config, new : Config] \cup {None}]
    /\ budget \in Budget
    /\ {uidCpu, uidRfr, pkgUid, cpuSet, rfrSet, pkgCache, ruleCache}
           \subseteq SUBSET Apps
    /\ uidRules \in [Apps -> SUBSET Kinds]
    /\ {lastFg, rate} \subseteq Apps \cup {Launcher, None}
    /\ vfcFg \in Apps \cup {Launcher, None, "stop"}
    /\ {srvCur, propCur, srvOn, propOn, armed} \subseteq BOOLEAN
    /\ {rfrMon, waylayMon, srvMon} \subseteq SUBSET Pids
    /\ srvBy \in {"none", "callback", "exit", "sync", "skipped"}
    /\ {owed, overlooked} \subseteq SUBSET (Apps \X Names)

-----------------------------------------------------------------------------
RuledApps(cfg) == {a \in Apps : cfg.cpu[a] > 0}
WithRed(tbl) == {a \in Apps : "red" \in tbl[a]}

\* build_rule_rows: the rules of the installed packages, by uid.
RulesByUid(rules, pkgs) == [a \in Apps |-> IF a \in pkgs THEN rules[a] ELSE {}]

\* AppState::new, then the first reload: the program as it enters its loop,
\* with no application running yet.
Init ==
    /\ ProbeInit
    /\ WorkerInit
    /\ \E s \in Starts : /\ file = s.file /\ waylay = s.waylay
                         /\ budget = s.budget /\ faults = s.faults
    /\ current = file /\ mainCfg = file
    /\ waylayMem = waylay
    /\ fileEv = FALSE /\ waylayEv = FALSE /\ pkgEv = FALSE /\ wake = FALSE
    /\ armReq = "none" /\ lastRule = None /\ saved = None
    /\ cpuChanged = FALSE
    /\ parsed = [t \in Threads |-> None]
    /\ step = [t \in Threads |-> Idle]
    /\ cpuSet = RuledApps(file) /\ rfrSet = file.rfr
    /\ uidCpu = cpuSet \cap installed /\ uidRfr = rfrSet \cap installed
    /\ pkgUid = uidCpu \cup uidRfr
    /\ pkgCache = installed
    /\ uidRules = RulesByUid(waylay, installed)
    /\ ruleCache = WithRed(uidRules)
    /\ propCur = (\E a \in Apps : "prop" \in uidRules[a]) /\ propOn = propCur
    /\ lastFg = None /\ vfcFg = None /\ rate = None
    /\ srvCur = FALSE /\ srvOn = FALSE /\ srvBy = "none" /\ armed = FALSE
    /\ rfrMon = {} /\ waylayMon = {} /\ srvMon = {}
    /\ owed = {} /\ overlooked = {}

-----------------------------------------------------------------------------
(* The device and the browser. *)

Event(kind) == budget[kind] > 0 /\ budget' = [budget EXCEPT ![kind] = @ - 1]

Device ==
    /\ Event("device")
    /\ \/ \E p \in Pids, a \in Apps : Launch(p, a)
       \/ \E p \in Pids : Show(p) \/ Die(p)
       \/ Desktop
    /\ UNCHANGED <<file, fileEv, waylay, waylayMem, waylayEv, pkgEv, wake, armReq,
                   lastRule, cpuChanged, parsed, step, saved, current, workerVars,
                   tableVars, ruleVars, guardVars, kernelVars, historyVars>>

\* An application is installed, or uninstalled while it does not run.
Packages ==
    /\ Event("packages")
    /\ \E a \in Apps : /\ ProcessesOf(a) = {}
                       /\ installed' = IF a \in installed THEN installed \ {a}
                                                          ELSE installed \cup {a}
    /\ pkgEv' = TRUE
    /\ UNCHANGED <<app, threads, alive, top, fgQ, probeVars, workerVars, file, fileEv,
                   waylay, waylayMem, waylayEv, wake, armReq, lastRule, cpuChanged,
                   parsed, step, saved, current, tableVars, ruleVars, guardVars,
                   kernelVars, historyVars>>

MainAside == UNCHANGED <<deviceVars, fgQ, probeVars, workerVars, tableVars,
                         ruleVars, guardVars, kernelVars>>

\* A web thread writes the file and goes on to config_reload_now.
SaveFile(c, edit) ==
    /\ step["web"] = Idle
    /\ Event("rules")
    /\ file' = c
    /\ fileEv' = TRUE
    /\ saved' = edit
    /\ step' = [step EXCEPT !["web"] = "load"]
    /\ UNCHANGED <<waylay, waylayMem, waylayEv, pkgEv, wake, armReq, lastRule,
                   cpuChanged, parsed, current, historyVars>>
    /\ MainAside

\* An edit of one thread's rule (only_thread) leaves the other threads theirs, one of a
\* pattern may change any.
EditsOnly(thread, old, new) ==
    \A n \in Names : n = thread \/ thread = Pattern \/ RuleFor[new][n] = RuleFor[old][n]

RuleApi(edit, v) ==
    /\ v # file.cpu[edit.app]
    /\ edit.op = "ApplyThread" => EditsOnly(edit.thread, file.cpu[edit.app], v)
    /\ SaveFile([file EXCEPT !.cpu[edit.app] = v], edit)

WholePkg(a) == [op |-> "ApplyPkgByName", app |-> a]

RuleDelApi(a) ==
    /\ file.cpu[a] > 0
    /\ SaveFile([file EXCEPT !.cpu[a] = 0], WholePkg(a))

\* The refresh line of the application moves with its rules.
RuleRenameApi(old, new) ==
    /\ file.cpu[old] > 0 /\ file.cpu[new] = 0
    /\ SaveFile([cpu |-> [file.cpu EXCEPT ![old] = 0, ![new] = file.cpu[old]],
                 rfr |-> IF old \in file.rfr THEN (file.rfr \ {old}) \cup {new}
                                             ELSE file.rfr],
                WholePkg(new))

\* The refresh page: only the refresh fields of CURRENT_CONFIG are replaced,
\* and the loop is not woken.
SaveRefresh(rfr) ==
    /\ step["web"] = Idle
    /\ rfr # file.rfr
    /\ Event("rules")
    /\ file' = [file EXCEPT !.rfr = rfr]
    /\ current' = [current EXCEPT !.rfr = rfr]
    /\ fileEv' = TRUE
    /\ UNCHANGED <<waylay, waylayMem, waylayEv, pkgEv, wake, armReq, lastRule,
                   cpuChanged, parsed, step, saved, historyVars>>
    /\ MainAside

HandEdit ==
    /\ Event("rules")
    /\ file' \in Configs \ {file}
    /\ fileEv' = TRUE
    /\ UNCHANGED <<waylay, waylayMem, waylayEv, pkgEv, wake, armReq, lastRule,
                   cpuChanged, parsed, step, saved, current, historyVars>>
    /\ MainAside

\* The waylay page, and an editor.  Both replace the file; only the page
\* replaces the table in memory and wakes the loop.
SaveWaylay ==
    /\ Event("waylay")
    /\ waylay' \in WaylayTables \ {waylay}
    /\ waylayEv' = TRUE
    /\ \/ waylayMem' = waylay' /\ wake' = TRUE
       \/ UNCHANGED <<waylayMem, wake>>
    /\ UNCHANGED <<file, fileEv, pkgEv, armReq, lastRule, cpuChanged, parsed, step,
                   saved, current, historyVars>>
    /\ MainAside

RequestArm ==
    /\ Event("waylay")
    /\ armReq' \in {"arm", "disarm"}
    /\ wake' = TRUE
    /\ UNCHANGED <<file, fileEv, waylay, waylayMem, waylayEv, pkgEv, lastRule,
                   cpuChanged, parsed, step, saved, current, historyVars>>
    /\ MainAside

Browser ==
    \/ \E edit \in Edit, v \in 1..MaxRule : RuleApi(edit, v)
    \/ \E a \in Apps : RuleDelApi(a)
    \/ \E old, new \in Apps : RuleRenameApi(old, new)
    \/ \E a \in Apps : SaveRefresh(file.rfr \cup {a}) \/ SaveRefresh(file.rfr \ {a})
    \/ HandEdit
    \/ SaveWaylay
    \/ RequestArm

-----------------------------------------------------------------------------
(* config_reload, in its three accesses to what the threads share. *)

Parse(t) == parsed' = [parsed EXCEPT ![t] = [old |-> current, new |-> file]]

ReloadAside == UNCHANGED <<file, waylay, waylayMem, waylayEv, pkgEv, armReq,
                           budget>> /\ MainAside

\* set_last_rule, then the parse.
WebLoad ==
    /\ step["web"] = "load"
    /\ lastRule' = saved
    /\ saved' = None
    /\ Parse("web")
    /\ step' = [step EXCEPT !["web"] = "note"]
    /\ UNCHANGED <<fileEv, wake, cpuChanged, current, historyVars>>
    /\ ReloadAside

\* inotify_drain takes every event before it parses.
EvInotify ==
    /\ step["main"] = Idle
    /\ fileEv
    /\ fileEv' = FALSE
    /\ Parse("main")
    /\ step' = [step EXCEPT !["main"] = "note"]
    /\ UNCHANGED <<saved, wake, lastRule, cpuChanged, current, historyVars>>
    /\ ReloadAside

RulesDiffer(t) == parsed[t].old.cpu # parsed[t].new.cpu

NoteChange(t) ==
    /\ step[t] = "note"
    /\ cpuChanged' = RulesDiffer(t)
    /\ step' = [step EXCEPT ![t] = "store"]
    /\ UNCHANGED <<saved, fileEv, wake, lastRule, parsed, current, historyVars>>
    /\ ReloadAside

\* A web thread wakes the loop in any case, the loop goes on to its own reload
\* only when the rules differ.
StoreConfig(t) ==
    /\ step[t] = "store"
    /\ current' = parsed[t].new
    /\ parsed' = [parsed EXCEPT ![t] = None]
    /\ IF t = "web"
       THEN wake' = TRUE /\ step' = [step EXCEPT ![t] = Idle]
       ELSE /\ step' = [step EXCEPT ![t] = IF RulesDiffer(t) THEN "reload" ELSE Idle]
            /\ UNCHANGED wake
    /\ owed' = owed \cup {thread \in Apps \X Names :
                   RuleFor[current.cpu[thread[1]]][thread[2]]
                       # RuleFor[current'.cpu[thread[1]]][thread[2]]}
    /\ UNCHANGED <<saved, fileEv, lastRule, cpuChanged, overlooked>>
    /\ ReloadAside

-----------------------------------------------------------------------------
(* AppState::reload. *)

\* eventfd and waylay.conf lead there directly.
EvConfig ==
    /\ step["main"] = Idle
    /\ wake
    /\ wake' = FALSE
    /\ step' = [step EXCEPT !["main"] = "reload"]
    /\ UNCHANGED <<fileEv, file, waylay, waylayMem, waylayEv, pkgEv, armReq, lastRule,
                   cpuChanged, parsed, saved, budget, current, historyVars>>
    /\ MainAside

EvWaylay ==
    /\ step["main"] = Idle
    /\ waylayEv
    /\ waylayEv' = FALSE
    /\ step' = [step EXCEPT !["main"] = "reload"]
    /\ UNCHANGED <<fileEv, file, waylay, waylayMem, pkgEv, wake, armReq, lastRule,
                   cpuChanged, parsed, saved, budget, current, historyVars>>
    /\ MainAside

\* sync_vfc_rules.  The table goes to the kernel when it differs from cache;
\* the service switch follows the application in front when that differs from
\* srvActive, what the loop last recorded; property files are replaced while
\* any application has a property rule.
SyncVfcRules(tbl, cache, srvActive, kernelSrv) ==
    LET fgActive == lastFg \in Apps /\ "src" \in tbl[lastFg]
        propAny  == \E a \in Apps : "prop" \in tbl[a]
    IN  /\ uidRules' = tbl
        /\ ruleCache' = WithRed(tbl)
        /\ vfcFg' = IF WithRed(tbl) # cache THEN lastFg ELSE vfcFg
        /\ srvCur' = fgActive
        /\ srvOn' = IF fgActive # srvActive THEN fgActive ELSE kernelSrv
        /\ srvBy' = IF fgActive # srvActive THEN "sync"
                    ELSE IF fgActive /\ ~kernelSrv THEN "skipped" ELSE srvBy
        /\ propCur' = propAny
        /\ propOn' = propAny

\* load_waylay_rules, which raises WAYLAY_CHANGED.
LoadWaylayRules == waylayMem' = waylay

\* set_kpm_arm, and the synchronisation that WAYLAY_CHANGED then asks for in
\* every reload.  Arming empties the cache first, disarming turns the switch
\* off first.
SetKpmArm ==
    /\ LET tbl == RulesByUid(waylay, pkgCache)
       IN  CASE armReq = "arm"    -> SyncVfcRules(tbl, {}, srvCur, srvOn)
             [] armReq = "disarm" -> SyncVfcRules(tbl, ruleCache, FALSE, FALSE)
             [] armReq = "none"   -> SyncVfcRules(tbl, ruleCache, srvCur, srvOn)
    /\ armed' = ((armed \/ armReq = "arm") /\ armReq # "disarm")
    /\ armReq' = "none"

\* lookup_uid_in_packages_list
LookupUid(pkgs) == pkgs \cap installed

\* rebuild_uid_if_needed: entries already there keep their uid, for new ones
\* packages.list is asked.
RebuildUidIfNeeded(changed, cfg) ==
    LET nc == RuledApps(cfg)
        nr == cfg.rfr
        entries == ((uidCpu \cup uidRfr) \cap (nc \cup nr)) \cup LookupUid(nc \cup nr)
    IN  IF (changed /\ nc # cpuSet) \/ nr # rfrSet
        THEN /\ uidCpu' = entries \cap nc
             /\ uidRfr' = entries \cap nr
             /\ pkgUid' = (pkgUid \cap (nc \cup nr)) \cup entries
             /\ cpuSet' = nc
             /\ rfrSet' = nr
        ELSE UNCHANGED <<uidCpu, uidRfr, pkgUid, cpuSet, rfrSet>>

\* cpu_pkg_uids
CpuPkgUids(cfg, pkgs) == RuledApps(cfg) \cap pkgs

\* kpm_full_apply: what was edited last, or every application with rules; either way only
\* what pkg_uid has a uid for.
Replay ==
    IF lastRule = None THEN <<[op |-> "ApplyAll", apps |-> CpuPkgUids(current, pkgUid')]>>
    ELSE IF lastRule.app \in pkgUid' THEN <<lastRule>>
    ELSE <<>>

\* Whether a message has the worker bind the processes of an application that have a thread
\* of a name.
Binds(m, a, n) ==
    \/ m.op = "ApplyAll" /\ a \in m.apps
    \/ m.op \in {"ApplyPkg", "ApplyPkgByName"} /\ m.app = a
    \/ m.op = "ApplyThread" /\ m.app = a /\ m.thread = n

BoundBy(msgs) ==
    {thread \in Apps \X Names :
        \E i \in DOMAIN msgs : Binds(msgs[i], thread[1], thread[2])}

\* take_cpu_rules_changed, the new configuration, the tables, apply_config.
ReloadCpu ==
    /\ cpuChanged' = FALSE
    /\ mainCfg' = current
    /\ RebuildUidIfNeeded(cpuChanged, current)
    /\ LET msgs == IF cpuChanged THEN Replay ELSE <<>>
       IN  /\ workQ' = workQ \o msgs
           /\ overlooked' = (overlooked \cup owed) \ BoundBy(msgs)
    /\ lastRule' = IF cpuChanged THEN None ELSE lastRule
    /\ owed' = {}

Reload ==
    /\ step["main"] = "reload"
    /\ LoadWaylayRules
    /\ SetKpmArm
    /\ ReloadCpu
    /\ step' = [step EXCEPT !["main"] = Idle]
    /\ UNCHANGED <<deviceVars, fgQ, probeVars, known, asleep, managed, uidPkg,
                   uidCache, bound, file, fileEv, waylay, waylayEv, pkgEv, wake,
                   parsed, saved, budget, current, pkgCache, lastFg, rfrMon,
                   waylayMon, srvMon, rate>>

\* refresh_pkg_cache, without the labels.
RefreshPkgCache == pkgCache' = installed

\* build_uid_tables
BuildUidTables(cfg) ==
    /\ uidCpu' = RuledApps(cfg) \cap installed
    /\ uidRfr' = cfg.rfr \cap installed
    /\ pkgUid' = uidCpu' \cup uidRfr'

RebuildUidTables ==
    /\ RefreshPkgCache
    /\ BuildUidTables(mainCfg)
    /\ SyncVfcRules(RulesByUid(waylayMem, installed), ruleCache, srvCur, srvOn)

EvPkg ==
    /\ step["main"] = Idle
    /\ pkgEv
    /\ pkgEv' = FALSE
    /\ RebuildUidTables
    /\ UNCHANGED <<deviceVars, fgQ, probeVars, workerVars, file, fileEv, waylay,
                   waylayMem, waylayEv, wake, armReq, lastRule, cpuChanged, parsed,
                   step, saved, budget, current, mainCfg, cpuSet, rfrSet,
                   lastFg, rfrMon, waylayMon, srvMon, armed, rate, historyVars>>

-----------------------------------------------------------------------------
(* Foreground callbacks and exits. *)

\* pid_in_top_app
InTop(mon) == mon \cap top

\* monitored_top_uid and refresh_keep_top drop the records of the dead.
Living(mon) == mon \cap alive

\* The part of on_fg for the redirect rules.
FgVfc(p, u) ==
    IF u \in WithRed(uidRules)
    THEN waylayMon' = waylayMon \cup {p} /\ vfcFg' = u
    ELSE /\ waylayMon' = Living(waylayMon)
         /\ vfcFg' = IF waylayMon # {} /\ InTop(waylayMon) = {} THEN "stop" ELSE vfcFg

\* Mutant: the emptiness test comes after the dead were dropped.
FgSrvDropFirst(p, rules) ==
    IF "src" \in rules
    THEN srvMon' = srvMon \cup {p} /\ srvOn' = TRUE /\ srvBy' = "callback"
    ELSE /\ srvMon' = Living(srvMon)
         /\ IF Living(srvMon) # {} /\ InTop(srvMon) = {}
            THEN srvOn' = FALSE /\ srvBy' = "callback" ELSE UNCHANGED <<srvOn, srvBy>>

\* For the service list.
FgSrv(p, rules) ==
    IF "src" \in rules
    THEN srvMon' = srvMon \cup {p} /\ srvOn' = TRUE /\ srvBy' = "callback"
    ELSE /\ srvMon' = Living(srvMon)
         /\ IF srvMon # {} /\ InTop(srvMon) = {}
            THEN srvOn' = FALSE /\ srvBy' = "callback" ELSE UNCHANGED <<srvOn, srvBy>>

\* For the property files.
FgProp(rules) ==
    LET want == "prop" \in rules
    IN  IF want # propCur THEN propCur' = want /\ propOn' = want
                          ELSE UNCHANGED <<propCur, propOn>>

\* Mutant: the launcher is not told from an application with a rate.
FgRefreshLauncher(p, u) ==
    IF u \in uidRfr \cup {Launcher} THEN rfrMon' = rfrMon \cup {p} /\ rate' = u
    ELSE IF u \in uidCpu THEN UNCHANGED <<rfrMon, rate>>
    ELSE /\ rfrMon' = Living(rfrMon)
         /\ IF InTop(rfrMon) = {} THEN rate' = Launcher
            ELSE \E q \in InTop(rfrMon) : rate' = app[q]

\* For the refresh rate.
FgRefresh(p, u) ==
    IF u \in uidRfr THEN rfrMon' = rfrMon \cup {p} /\ rate' = u
    ELSE IF u \in uidCpu THEN UNCHANGED <<rfrMon, rate>>
    ELSE /\ rfrMon' = Living(rfrMon)
         /\ IF InTop(rfrMon) = {} THEN rate' = Launcher
            ELSE \E q \in InTop(rfrMon) : rate' = app[q]

\* Mutant: the refresh branch relies on the watch of the other branches.
ToWatchNoRefresh(p, cold) ==
    IF cold \/ p \in (waylayMon' \ waylayMon) \cup (srvMon' \ srvMon)
    THEN {p} ELSE {}

\* Every branch that makes a record watches the process.
ToWatch(p, cold) ==
    IF cold \/ p \in (waylayMon' \ waylayMon) \cup (srvMon' \ srvMon)
                         \cup (rfrMon' \ rfrMon)
    THEN {p} ELSE {}

OnFg ==
    /\ step["main"] = Idle
    /\ fgQ # <<>>
    /\ fgQ' = Tail(fgQ)
    /\ LET p     == Head(fgQ)
           u     == IF p = Launcher THEN Launcher ELSE app[p]
           rules == IF u = Launcher THEN {} ELSE uidRules[u]
           cold  == u \in uidCpu /\ ~IsHot(u, p)
       IN  /\ lastFg' = u
           /\ FgVfc(p, u)
           /\ FgSrv(p, rules)
           /\ FgProp(rules)
           /\ FgRefresh(p, u)
           /\ workQ' = IF cold THEN Append(workQ, [op |-> "ApplyPkg", app |-> u, pid |-> p])
                               ELSE workQ
           /\ Watch(ToWatch(p, cold))
           /\ overlooked' = IF cold THEN overlooked \ ({u} \X Names)
                            ELSE IF u \in RuledApps(mainCfg) \ uidCpu
                            THEN overlooked \cup ({u} \X Names) ELSE overlooked
    /\ UNCHANGED <<deviceVars, exitQ, known, asleep, managed, uidPkg, uidCache, bound,
                   webVars, tableVars, ruleVars, srvCur, armed, owed>>

OnExit ==
    /\ step["main"] = Idle
    /\ exitQ # <<>>
    /\ exitQ' = Tail(exitQ)
    /\ LET p == Head(exitQ)
       IN  /\ PidToUid(p)
           /\ rfrMon' = rfrMon \ {p}
           /\ waylayMon' = waylayMon \ {p}
           /\ vfcFg' = IF p \in waylayMon THEN "stop" ELSE vfcFg
           /\ srvMon' = srvMon \ {p}
           /\ IF p \in srvMon THEN srvOn' = FALSE /\ srvBy' = "exit"
              ELSE UNCHANGED <<srvOn, srvBy>>
    /\ UNCHANGED <<deviceVars, fgQ, reg, faults, unreported, known, asleep, managed,
                   uidPkg, uidCache, bound, webVars, tableVars, ruleVars, lastFg, srvCur,
                   propCur, propOn, armed, rate, historyVars>>

-----------------------------------------------------------------------------
Probe ==
    /\ \E p \in Pids : ProbeExit(p)
    /\ UNCHANGED <<workerVars, webVars, tableVars, ruleVars, guardVars, kernelVars,
                   historyVars>>

Worker ==
    /\ WorkerNext
    /\ UNCHANGED <<file, fileEv, waylay, waylayMem, waylayEv, pkgEv, wake, armReq,
                   lastRule, cpuChanged, parsed, step, saved, budget, tableVars,
                   ruleVars, guardVars, kernelVars, historyVars>>

Next ==
    \/ Device \/ Packages \/ Browser
    \/ WebLoad
    \/ \E t \in Threads : NoteChange(t) \/ StoreConfig(t)
    \/ EvInotify \/ EvConfig \/ EvWaylay \/ EvPkg
    \/ Reload
    \/ OnFg \/ OnExit
    \/ Probe \/ Worker

Spec == Init /\ [][Next]_vars

-----------------------------------------------------------------------------
(* A process with a record in one of the tables of the loop is watched, or *)
(* its exit is on its way to the loop: each insertion in on_fg             *)
(* (main.rs:634, 663, 739) is followed by watch, and the exit removes all  *)
(* its records.  Exceptions, after which a record stays for good: watch    *)
(* failed, for the process was dead already or its pidfd out of reach      *)
(* (event_probe.rs:73, 76, 83), or the exit could not be sent (245).       *)
RecordsWatched ==
    rfrMon \cup waylayMon \cup srvMon
        \subseteq reg \cup {exitQ[i] : i \in DOMAIN exitQ} \cup unreported

Asks(u) == u \in Apps /\ "src" \in uidRules[u]

(* The kernel's switch for the service list follows callbacks and exits:   *)
(* it is on only while the loop has a record of a process that asked for   *)
(* it, and it is on while the application of the last callback asks for    *)
(* it.  Exceptions to the first half: sync_vfc_rules turned it on          *)
(* (main.rs:537), which makes no record, so that no later callback (669)   *)
(* or exit (1190) turns it off.  To the second: a recorded process,        *)
(* perhaps of another application, has exited (1190), or sync_vfc_rules,   *)
(* asked to turn it on, relied on a srv_active_cur that callbacks and      *)
(* exits do not keep (537).                                                *)
SwitchAccounted ==
    /\ srvOn /\ srvMon = {} => srvBy = "sync"
    /\ ~srvOn /\ Asks(lastFg) => srvBy \in {"exit", "skipped"}

Settled ==
    /\ fgQ = <<>> /\ workQ = <<>> /\ asleep = None
    /\ step = [t \in Threads |-> Idle]
    /\ ~fileEv /\ ~waylayEv /\ ~pkgEv /\ ~wake

\* The rule that a thread of this name has now, if it has one, is the one it was bound under.
RunsRight(p, n) == RuleFor[current.cpu[app[p]]][n] \in {0, RuleFor[bound[p]][n]}

(* When nothing is left to do, every thread of every process in front runs *)
(* under the rule its name has now -- also after an edit of this one rule, *)
(* and after edits of other threads -- unless the loop overlooked it: the  *)
(* rule changed and the reload that was to apply it sent the worker        *)
(* nothing that reaches the thread, for CPU_RULES_CHANGED or LAST_RULE     *)
(* held what another edit had left, pkg_uid lacked the application, or the *)
(* edit named threads by a pattern; or the process came to the front while *)
(* uid_map lacked its application.                                         *)
ForegroundBound ==
    Settled => \A p \in top : \A n \in threads[p] :
        <<app[p], n>> \in overlooked \/ RunsRight(p, n)
=============================================================================
