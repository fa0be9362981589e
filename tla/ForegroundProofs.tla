--------------------------- MODULE ForegroundProofs ---------------------------
(***************************************************************************)
(* Proofs about the root-level draft for every number of processes and     *)
(* applications, every set of thread names, every configuration and every  *)
(* bound on events and failures: its state keeps its types, its records    *)
(* are of watched processes, the switch of the service list is accounted   *)
(* for, and the threads in front end up bound -- each with the exceptions  *)
(* that the property names.                                                *)
(***************************************************************************)
EXTENDS ForegroundLoop, SequenceTheorems, TLAPS

-----------------------------------------------------------------------------
(* Types *)

Started == {p \in Pids : app[p] # None}

\* TypeOK, in the parts that the processes of the draft change together, with what a
\* thread in the middle of config_reload has in hand.
WebTypes ==
    /\ file \in Config /\ budget \in Budget
    /\ waylay \in [Apps -> SUBSET Kinds] /\ waylayMem \in [Apps -> SUBSET Kinds]
    /\ {fileEv, waylayEv, pkgEv, wake, cpuChanged} \subseteq BOOLEAN
    /\ armReq \in {"none", "arm", "disarm"}
    /\ lastRule \in Edit \cup {None} /\ saved \in Edit \cup {None}
    /\ step \in [Threads -> {Idle, "load", "note", "store", "reload"}]
    /\ parsed \in [Threads -> [old : Config, new : Config] \cup {None}]
    /\ \A t \in Threads : step[t] \in {"note", "store"} => parsed[t] \in [old : Config, new : Config]

TableTypes ==
    /\ mainCfg \in Config /\ uidRules \in [Apps -> SUBSET Kinds]
    /\ uidCpu \subseteq Apps /\ uidRfr \subseteq Apps /\ pkgUid \subseteq Apps
    /\ cpuSet \subseteq Apps /\ rfrSet \subseteq Apps
    /\ pkgCache \subseteq Apps /\ ruleCache \subseteq Apps
    /\ owed \subseteq Apps \X Names /\ overlooked \subseteq Apps \X Names

GuardTypes ==
    /\ lastFg \in Apps \cup {Launcher, None} /\ rate \in Apps \cup {Launcher, None}
    /\ vfcFg \in Apps \cup {Launcher, None, "stop"}
    /\ {srvCur, propCur, srvOn, propOn, armed} \subseteq BOOLEAN
    /\ rfrMon \subseteq Pids /\ waylayMon \subseteq Pids /\ srvMon \subseteq Pids
    /\ srvBy \in {"none", "callback", "exit", "sync", "skipped"}

TypeInv == ProbeTypeOK /\ WorkerTypeOK /\ WebTypes /\ TableTypes /\ GuardTypes

\* The parts make up TypeOK.
LEMMA TypeInvTypes == TypeInv => TypeOK
BY DEF TypeInv, TypeOK, WebTypes, TableTypes, GuardTypes

\* A sequence over a set is one over every larger set.
LEMMA SeqWidened ==
    ASSUME NEW S, NEW T, S \subseteq T, NEW q \in Seq(S)
    PROVE  q \in Seq(T)
<1>1. q \in [1 .. Len(q) -> S]
    BY SeqDef
<1>2. q \in [1 .. Len(q) -> T] /\ Len(q) \in Nat
    BY <1>1
<1>3. QED  BY <1>2, SeqDef

\* A part keeps its types in a step that leaves its variables alone.
LEMMA TypesAside ==
    /\ ProbeTypeOK /\ UNCHANGED <<deviceVars, fgQ, probeVars>> => ProbeTypeOK'
    /\ WorkerTypeOK /\ UNCHANGED <<workerVars, current>> => WorkerTypeOK'
    /\ WebTypes /\ UNCHANGED webVars => WebTypes'
    /\ TableTypes /\ UNCHANGED <<tableVars, ruleVars, historyVars>> => TableTypes'
    /\ GuardTypes /\ UNCHANGED <<guardVars, kernelVars>> => GuardTypes'
BY DEF ProbeTypeOK, Started, deviceVars, probeVars, WorkerTypeOK, workerVars, WebTypes, webVars,
       TableTypes, tableVars, ruleVars, historyVars, GuardTypes, guardVars, kernelVars

LEMMA TypesInit == Init => TypeInv
<1> SUFFICES ASSUME Init PROVE TypeInv
    OBVIOUS
<1>1. PICK s \in Starts : /\ file = s.file /\ waylay = s.waylay
                         /\ budget = s.budget /\ faults = s.faults
    BY DEF Init
<1>2. /\ file \in Config /\ budget \in Budget /\ waylay \in [Apps -> SUBSET Kinds]
      /\ file.rfr \subseteq Apps /\ faults \in Nat
    BY <1>1, LoopAssumption DEF Config
<1>3. ProbeTypeOK /\ installed = Preinstalled
    BY <1>2, ProbeAssumption DEF Init, ProbeInit, ProbeTypeOK, Started
<1>4. WorkerTypeOK
    BY <1>2, WorkerAssumption DEF Init, WorkerInit, WorkerTypeOK
<1>5. WebTypes
    BY <1>2 DEF Init, WebTypes, Threads, Idle
<1>6. /\ uidRules = RulesByUid(waylay, installed) /\ ruleCache = WithRed(uidRules)
      /\ mainCfg = file /\ cpuSet = RuledApps(file) /\ rfrSet = file.rfr /\ pkgCache = installed
      /\ uidCpu = cpuSet \cap installed /\ uidRfr = rfrSet \cap installed
      /\ pkgUid = uidCpu \cup uidRfr /\ owed = {} /\ overlooked = {}
    BY DEF Init
<1>7. TableTypes
    BY <1>2, <1>3, <1>6, ProbeAssumption DEF TableTypes, RulesByUid, WithRed, RuledApps
<1>8. GuardTypes
    BY DEF Init, GuardTypes
<1>9. QED  BY <1>3, <1>4, <1>5, <1>7, <1>8 DEF TypeInv

\* An event takes one from its budget, which stays natural.
LEMMA SpendTypes ==
    ASSUME budget \in Budget, NEW kind \in {"device", "packages", "rules", "waylay"}, Event(kind)
    PROVE  budget' \in Budget
<1>1. budget[kind] \in Nat /\ budget[kind] > 0 /\ budget[kind] - 1 \in Nat
    BY DEF Event, Budget
<1>2. budget' = [budget EXCEPT ![kind] = budget[kind] - 1]
    BY DEF Event
<1>3. QED  BY <1>1, <1>2 DEF Budget

\* Processes start, come to the front and die; packages come and go.
LEMMA DeviceTypes == TypeInv /\ Device => TypeInv'
<1> SUFFICES ASSUME TypeInv, Device PROVE TypeInv'
    OBVIOUS
<1>1. WorkerTypeOK' /\ TableTypes' /\ GuardTypes'
    BY TypesAside DEF TypeInv, Device
<1>2. WebTypes'
    <2>1. budget' \in Budget
        BY SpendTypes DEF Device, TypeInv, WebTypes
    <2>2. QED  BY <2>1 DEF Device, TypeInv, WebTypes
<1>3. ProbeTypeOK'
    <2> USE ProbeAssumption DEF TypeInv, ProbeTypeOK, Started, probeVars
    <2>1. ASSUME NEW p \in Pids, NEW a \in Apps, Launch(p, a) PROVE ProbeTypeOK'
        <3>1. /\ app' = [app EXCEPT ![p] = a] /\ alive' = alive \cup {p} /\ exitQ' = exitQ
              /\ top' \in {{p}, top \cup {p}} /\ fgQ' = Append(fgQ, p)
              /\ UNCHANGED <<installed, reg, faults, unreported>>
            BY <2>1 DEF Launch, ToFront
        <3>2. Started \subseteq Started'
            BY <3>1
        <3>3. exitQ' \in Seq(Started')
            BY <3>1, <3>2, SeqWidened
        <3>4. threads' \in [Pids -> SUBSET Names]
            <4>1. PICK crew \in Crews[a] : threads' = [threads EXCEPT ![p] = crew]
                BY <2>1 DEF Launch
            <4>2. crew \subseteq Names
                BY <4>1
            <4>3. QED  BY <4>1, <4>2
        <3>5. /\ app' \in [Pids -> Apps \cup {None}] /\ alive' \subseteq Started'
              /\ top' \subseteq alive' /\ reg' \subseteq Started'
            BY <3>1
        <3>6. QED  BY <3>1, <3>3, <3>4, <3>5
    <2>2. ASSUME NEW p \in Pids, Show(p) PROVE ProbeTypeOK'
        BY <2>2 DEF Show, ToFront
    <2>3. ASSUME NEW p \in Pids, Die(p) PROVE ProbeTypeOK'
        BY <2>3 DEF Die
    <2>4. CASE Desktop
        BY <2>4 DEF Desktop
    <2>5. QED  BY <2>1, <2>2, <2>3, <2>4 DEF Device
<1>4. QED  BY <1>1, <1>2, <1>3 DEF TypeInv

LEMMA PackagesTypes == TypeInv /\ Packages => TypeInv'
<1> SUFFICES ASSUME TypeInv, Packages PROVE TypeInv'
    OBVIOUS
<1>1. WorkerTypeOK' /\ TableTypes' /\ GuardTypes'
    BY TypesAside DEF TypeInv, Packages
<1>2. WebTypes'
    <2>1. budget' \in Budget
        BY SpendTypes DEF Packages, TypeInv, WebTypes
    <2>2. QED  BY <2>1 DEF Packages, TypeInv, WebTypes
<1>3. ProbeTypeOK'
    BY DEF Packages, TypeInv, ProbeTypeOK, Started, probeVars
<1>4. QED  BY <1>1, <1>2, <1>3 DEF TypeInv

\* A configuration with the rules of one application, or the refresh lines, replaced.
LEMMA ConfigEdited ==
    ASSUME NEW c \in Config
    PROVE  /\ \A a \in Apps : c.cpu[a] \in 0..MaxRule
           /\ \A a \in Apps, v \in 0..MaxRule : [c EXCEPT !.cpu[a] = v] \in Config
           /\ \A rfr \in SUBSET Apps : [c EXCEPT !.rfr = rfr] \in Config
BY DEF Config

\* What users save has the types of a configuration.
LEMMA BrowserTypes == TypeInv /\ Browser => TypeInv'
<1> SUFFICES ASSUME TypeInv, Browser PROVE TypeInv'
    OBVIOUS
<1> USE LoopAssumption DEF TypeInv
<1>0. file \in Config /\ current \in Config
    BY DEF WebTypes, WorkerTypeOK
<1>1. ASSUME NEW c \in Config, NEW edit \in Edit, SaveFile(c, edit) PROVE TypeInv'
    <2>1. ProbeTypeOK' /\ WorkerTypeOK' /\ TableTypes' /\ GuardTypes'
        BY <1>1, TypesAside DEF SaveFile, MainAside
    <2>2. budget' \in Budget
        BY <1>1, SpendTypes DEF SaveFile, WebTypes
    <2>3. WebTypes'
        BY <1>1, <2>2 DEF SaveFile, WebTypes, Threads, Idle
    <2>4. QED  BY <2>1, <2>3
<1>2. ASSUME NEW edit \in Edit, NEW v \in 1..MaxRule, RuleApi(edit, v)
      PROVE  TypeInv'
    <2>1. edit.app \in Apps /\ v \in 0..MaxRule
        BY WorkerAssumption DEF Edit
    <2>2. QED  BY <1>0, <1>1, <1>2, <2>1, ConfigEdited DEF RuleApi
<1>w. \A a \in Apps : WholePkg(a) \in Edit
    BY DEF WholePkg, Edit
<1>3. ASSUME NEW a \in Apps, RuleDelApi(a) PROVE TypeInv'
    <2>1. 0 \in 0..MaxRule
        BY WorkerAssumption
    <2>2. QED  BY <1>0, <1>1, <1>3, <1>w, <2>1, ConfigEdited DEF RuleDelApi
<1>4. ASSUME NEW old \in Apps, NEW new \in Apps, RuleRenameApi(old, new) PROVE TypeInv'
    <2> DEFINE c == [cpu |-> [file.cpu EXCEPT ![old] = 0, ![new] = file.cpu[old]],
                     rfr |-> IF old \in file.rfr THEN (file.rfr \ {old}) \cup {new} ELSE file.rfr]
    <2>1. c \in Config
        <3>1. file.cpu \in [Apps -> 0..MaxRule] /\ file.rfr \subseteq Apps
            BY <1>0 DEF Config
        <3>2. 0 \in 0..MaxRule
            BY WorkerAssumption
        <3>3. c.cpu \in [Apps -> 0..MaxRule]
            BY <3>1, <3>2
        <3>4. c.rfr \subseteq Apps
            BY <3>1
        <3> HIDE DEF c
        <3>5. c = [cpu |-> c.cpu, rfr |-> c.rfr]
            BY DEF c
        <3>6. QED  BY <3>3, <3>4, <3>5 DEF Config
    <2>2. QED  BY <1>1, <1>4, <1>w, <2>1 DEF RuleRenameApi
<1>5. ASSUME NEW rfr \in SUBSET Apps, SaveRefresh(rfr) PROVE TypeInv'
    <2>1. ProbeTypeOK' /\ TableTypes' /\ GuardTypes'
        BY <1>5, TypesAside DEF SaveRefresh, MainAside
    <2>2. file' \in Config /\ current' \in Config
        BY <1>0, <1>5, ConfigEdited DEF SaveRefresh
    <2>3. budget' \in Budget
        BY <1>5, SpendTypes DEF SaveRefresh, WebTypes
    <2>4. WebTypes' /\ WorkerTypeOK'
        BY <1>5, <2>2, <2>3 DEF SaveRefresh, WebTypes, WorkerTypeOK, MainAside, workerVars
    <2>5. QED  BY <2>1, <2>4
<1>6. CASE HandEdit \/ SaveWaylay \/ RequestArm
    <2>1. ProbeTypeOK' /\ WorkerTypeOK' /\ TableTypes' /\ GuardTypes'
        BY <1>6, TypesAside DEF HandEdit, SaveWaylay, RequestArm, MainAside
    <2>2. budget' \in Budget
        BY <1>6, SpendTypes DEF HandEdit, SaveWaylay, RequestArm, WebTypes
    <2>3. WebTypes'
        <3>1. CASE HandEdit  BY <2>2, <3>1 DEF HandEdit, WebTypes
        <3>2. CASE SaveWaylay
            <4>1. waylay' \in [Apps -> SUBSET Kinds] /\ waylayMem' \in {waylayMem, waylay'}
                  /\ wake' \in {wake, TRUE}
                BY <3>2 DEF SaveWaylay
            <4>2. QED  BY <2>2, <3>2, <4>1 DEF SaveWaylay, WebTypes
        <3>3. CASE RequestArm  BY <2>2, <3>3 DEF RequestArm, WebTypes
        <3>4. QED  BY <1>6, <3>1, <3>2, <3>3
    <2>4. QED  BY <2>1, <2>3
<1>7. QED
    <2>1. \A a \in Apps : file.rfr \cup {a} \in SUBSET Apps /\ file.rfr \ {a} \in SUBSET Apps
        BY <1>0 DEF Config
    <2>2. QED  BY <2>1, <1>2, <1>3, <1>4, <1>5, <1>6 DEF Browser

\* config_reload.
LEMMA LoadTypes ==
    TypeInv /\ (WebLoad \/ (\E t \in Threads : NoteChange(t) \/ StoreConfig(t)) \/ EvInotify)
    => TypeInv'
<1> SUFFICES ASSUME TypeInv,
                    WebLoad \/ (\E t \in Threads : NoteChange(t) \/ StoreConfig(t)) \/ EvInotify
             PROVE  TypeInv'
    OBVIOUS
<1> USE DEF TypeInv
<1>1. MainAside
    BY DEF WebLoad, NoteChange, StoreConfig, EvInotify, ReloadAside
<1>2. ProbeTypeOK' /\ GuardTypes'
    BY <1>1, TypesAside DEF MainAside
<1>3. CASE WebLoad \/ EvInotify
    <2>1. WorkerTypeOK' /\ TableTypes'
        BY <1>1, <1>3, TypesAside DEF WebLoad, EvInotify, MainAside
    <2>2. [old |-> current, new |-> file] \in [old : Config, new : Config]
        BY DEF WebTypes, WorkerTypeOK
    <2>3. WebTypes'
        <3>1. CASE WebLoad
            BY <3>1, <2>2 DEF WebLoad, Parse, ReloadAside, WebTypes, Threads, Idle
        <3>2. CASE EvInotify
            BY <3>2, <2>2 DEF EvInotify, Parse, ReloadAside, WebTypes, Threads, Idle
        <3>3. QED  BY <1>3, <3>1, <3>2
    <2>4. QED  BY <1>2, <2>1, <2>3
<1>4. ASSUME NEW t \in Threads, NoteChange(t) PROVE TypeInv'
    <2>1. WorkerTypeOK' /\ TableTypes'
        BY <1>1, <1>4, TypesAside DEF NoteChange, MainAside
    <2>2. WebTypes'
        BY <1>4 DEF NoteChange, RulesDiffer, ReloadAside, WebTypes, Threads, Idle
    <2>3. QED  BY <1>2, <2>1, <2>2
<1>5. ASSUME NEW t \in Threads, StoreConfig(t) PROVE TypeInv'
    <2>1. current' \in Config
        BY <1>5 DEF StoreConfig, WebTypes
    <2>2. WorkerTypeOK'
        BY <1>1, <2>1 DEF WorkerTypeOK, MainAside, workerVars
    <2>3. TableTypes'
        <3>1. owed' \subseteq Apps \X Names
            BY <1>5 DEF StoreConfig, TableTypes
        <3>2. QED  BY <1>1, <1>5, <3>1 DEF StoreConfig, TableTypes, MainAside, tableVars, ruleVars
    <2>4. step' \in [Threads -> {Idle, "load", "note", "store", "reload"}] /\ step'[t] \notin {"note", "store"}
          /\ \A u \in Threads : u # t => step'[u] = step[u]
        BY <1>5 DEF StoreConfig, WebTypes, Threads, Idle
    <2>5. wake' \in BOOLEAN
        BY <1>5 DEF StoreConfig, WebTypes
    <2>6. WebTypes'
        BY <1>5, <2>4, <2>5 DEF StoreConfig, ReloadAside, WebTypes
    <2>7. QED  BY <1>2, <2>2, <2>3, <2>6
<1>6. QED  BY <1>3, <1>4, <1>5

\* What a synchronisation of the rules writes.
LEMMA SyncTypes ==
    ASSUME NEW tbl \in [Apps -> SUBSET Kinds], NEW cache, NEW srvActive, NEW kernelSrv \in BOOLEAN,
           GuardTypes, SyncVfcRules(tbl, cache, srvActive, kernelSrv)
    PROVE  /\ uidRules' \in [Apps -> SUBSET Kinds] /\ ruleCache' \subseteq Apps
           /\ vfcFg' \in Apps \cup {Launcher, None, "stop"}
           /\ {srvCur', propCur', srvOn', propOn'} \subseteq BOOLEAN
           /\ srvBy' \in {"none", "callback", "exit", "sync", "skipped"}
BY DEF SyncVfcRules, WithRed, GuardTypes

LEMMA EventTypes == TypeInv /\ (EvConfig \/ EvWaylay \/ EvPkg) => TypeInv'
<1> SUFFICES ASSUME TypeInv, EvConfig \/ EvWaylay \/ EvPkg PROVE TypeInv'
    OBVIOUS
<1> USE DEF TypeInv
<1>1. CASE EvConfig \/ EvWaylay
    <2>1. ProbeTypeOK' /\ WorkerTypeOK' /\ TableTypes' /\ GuardTypes'
        BY <1>1, TypesAside DEF EvConfig, EvWaylay, MainAside
    <2>2. WebTypes'
        BY <1>1 DEF EvConfig, EvWaylay, WebTypes, Threads, Idle
    <2>3. QED  BY <2>1, <2>2
<1>2. CASE EvPkg
    <2>1. ProbeTypeOK' /\ WorkerTypeOK'
        BY <1>2, TypesAside DEF EvPkg
    <2>2. WebTypes'
        BY <1>2 DEF EvPkg, WebTypes
    <2>3. installed \subseteq Apps /\ mainCfg.rfr \subseteq Apps
        BY DEF ProbeTypeOK, Started, TableTypes, Config
    <2>4. RulesByUid(waylayMem, installed) \in [Apps -> SUBSET Kinds]
        BY DEF WebTypes, RulesByUid
    <2>5. SyncVfcRules(RulesByUid(waylayMem, installed), ruleCache, srvCur, srvOn)
        BY <1>2 DEF EvPkg, RebuildUidTables
    <2>6. /\ uidRules' \in [Apps -> SUBSET Kinds] /\ ruleCache' \subseteq Apps
          /\ vfcFg' \in Apps \cup {Launcher, None, "stop"}
          /\ {srvCur', propCur', srvOn', propOn'} \subseteq BOOLEAN
          /\ srvBy' \in {"none", "callback", "exit", "sync", "skipped"}
        BY <2>4, <2>5, SyncTypes DEF GuardTypes
    <2>7. TableTypes'
        BY <1>2, <2>3, <2>6 DEF EvPkg, RebuildUidTables, RefreshPkgCache, BuildUidTables,
                            TableTypes, RuledApps, historyVars
    <2>8. GuardTypes'
        BY <1>2, <2>6 DEF EvPkg, GuardTypes
    <2>9. QED  BY <2>1, <2>2, <2>7, <2>8
<1>3. QED  BY <1>1, <1>2

LEMMA ReloadTypes == TypeInv /\ Reload => TypeInv'
<1> SUFFICES ASSUME TypeInv, Reload PROVE TypeInv'
    OBVIOUS
<1> USE DEF TypeInv
<1>1. ProbeTypeOK'
    BY TypesAside DEF Reload
<1>2. current \in Config /\ current' = current
    BY DEF Reload, WorkerTypeOK
<1> DEFINE tbl == RulesByUid(waylay, pkgCache)
<1>3. \/ SyncVfcRules(tbl, {}, srvCur, srvOn)
      \/ SyncVfcRules(tbl, ruleCache, FALSE, FALSE)
      \/ SyncVfcRules(tbl, ruleCache, srvCur, srvOn)
    BY DEF Reload, SetKpmArm, WebTypes
<1>4. tbl \in [Apps -> SUBSET Kinds]
    BY DEF WebTypes, RulesByUid
<1> HIDE DEF tbl
<1>5. /\ uidRules' \in [Apps -> SUBSET Kinds] /\ ruleCache' \subseteq Apps
      /\ vfcFg' \in Apps \cup {Launcher, None, "stop"}
      /\ {srvCur', propCur', srvOn', propOn'} \subseteq BOOLEAN
      /\ srvBy' \in {"none", "callback", "exit", "sync", "skipped"}
    BY <1>3, <1>4, SyncTypes DEF GuardTypes
<1>6. GuardTypes'
    <2>1. armed' \in BOOLEAN
        BY DEF Reload, SetKpmArm
    <2>2. QED  BY <1>5, <2>1 DEF Reload, GuardTypes
<1>7. TableTypes'
    <2>1. RebuildUidIfNeeded(cpuChanged, current) /\ mainCfg' = current /\ owed' = {}
        BY DEF Reload, ReloadCpu
    <2>2. /\ uidCpu' \subseteq Apps /\ uidRfr' \subseteq Apps /\ pkgUid' \subseteq Apps
          /\ cpuSet' \subseteq Apps /\ rfrSet' \subseteq Apps
        BY <1>2, <2>1 DEF RebuildUidIfNeeded, LookupUid, RuledApps, TableTypes, Config, ProbeTypeOK, Started
    <2>3. overlooked' \subseteq Apps \X Names
        BY DEF Reload, ReloadCpu, TableTypes
    <2>4. QED  BY <1>2, <1>5, <2>1, <2>2, <2>3 DEF Reload, TableTypes
<1>8. WebTypes'
    <2>1. lastRule' \in Edit \cup {None} /\ cpuChanged' = FALSE /\ armReq' = "none" /\ waylayMem' = waylay
        BY DEF Reload, ReloadCpu, SetKpmArm, LoadWaylayRules, WebTypes
    <2>2. QED  BY <2>1 DEF Reload, WebTypes, Threads, Idle
<1>9. WorkerTypeOK'
    <2>1. Replay \in Seq(Message)
        <3>1. [op |-> "ApplyAll", apps |-> CpuPkgUids(current, pkgUid')] \in Message
            BY DEF CpuPkgUids, RuledApps, Message
        <3>2. lastRule # None => lastRule \in Message
            BY DEF WebTypes, Message
        <3>3. QED  BY <3>1, <3>2 DEF Replay
    <2>2. workQ' \in Seq(Message)
        BY <2>1 DEF Reload, ReloadCpu, WorkerTypeOK
    <2>3. QED  BY <1>2, <2>2 DEF Reload, WorkerTypeOK
<1>10. QED  BY <1>1, <1>6, <1>7, <1>8, <1>9

\* Callbacks, exits, probe and worker.
LEMMA OnFgTypes == TypeInv /\ OnFg => TypeInv'
<1> SUFFICES ASSUME TypeInv, OnFg PROVE TypeInv'
    OBVIOUS
<1> USE DEF TypeInv
<1>1. WebTypes'
    BY TypesAside DEF OnFg
<1> DEFINE p == Head(fgQ)
           u == IF p = Launcher THEN Launcher ELSE app[p]
           rules == IF u = Launcher THEN {} ELSE uidRules[u]
           cold == u \in uidCpu /\ ~IsHot(u, p)
<1>2. /\ p \in Pids \cup {Launcher} /\ Tail(fgQ) \in Seq(Pids \cup {Launcher})
      /\ u \in Apps \cup {Launcher, None}
    BY DEF OnFg, ProbeTypeOK, Started
<1>3. /\ fgQ' = Tail(fgQ) /\ lastFg' = u /\ FgVfc(p, u) /\ FgSrv(p, rules) /\ FgProp(rules)
      /\ FgRefresh(p, u) /\ Watch(ToWatch(p, cold))
      /\ workQ' = IF cold THEN Append(workQ, [op |-> "ApplyPkg", app |-> u, pid |-> p]) ELSE workQ
      /\ overlooked' = IF cold THEN overlooked \ ({u} \X Names)
                       ELSE IF u \in RuledApps(mainCfg) \ uidCpu
                       THEN overlooked \cup ({u} \X Names) ELSE overlooked
    BY DEF OnFg
<1>4. p = Launcher => u = Launcher /\ u \notin Apps /\ rules = {}
    BY ProbeAssumption
<1>5. cold => u \in Apps
    BY DEF TableTypes
<1> HIDE DEF p, u, rules, cold
<1>6. WorkerTypeOK'
    <2>1. cold => [op |-> "ApplyPkg", app |-> u, pid |-> p] \in Message
        BY <1>2, <1>4, <1>5 DEF Message, ColdStart
    <2>2. workQ' \in Seq(Message)
        BY <1>3, <2>1 DEF WorkerTypeOK
    <2>3. QED  BY <2>2 DEF OnFg, WorkerTypeOK, webVars
<1>7. ProbeTypeOK'
    <2>1. UNCHANGED <<app, threads, alive, top, installed, exitQ>>
        BY DEF OnFg, deviceVars
    <2>2. ToWatch(p, cold) \subseteq Pids
        <3>1. CASE p \in Pids
            BY <3>1 DEF ToWatch
        <3>2. CASE p = Launcher
            BY <1>3, <1>4, <1>5, <3>2 DEF ToWatch, FgVfc, FgSrv, FgRefresh, WithRed, Living, TableTypes
        <3>3. QED  BY <1>2, <3>1, <3>2
    <2>3. /\ reg' = reg \/ reg' = reg \cup (ToWatch(p, cold) \cap alive)
          /\ faults' = faults \/ (faults > 0 /\ faults' = faults - 1)
          /\ unreported' = unreported \cup (ToWatch(p, cold) \ reg')
        BY <1>3 DEF Watch, Fault
    <2> HIDE DEF ToWatch
    <2>4. reg' \subseteq Started' /\ faults' \in Nat /\ unreported' \subseteq Pids
        BY <2>1, <2>2, <2>3 DEF ProbeTypeOK, Started
    <2>5. QED  BY <1>2, <1>3, <2>1, <2>4 DEF OnFg, deviceVars, ProbeTypeOK, Started
<1>8. TableTypes'
    BY <1>3, <1>5 DEF OnFg, TableTypes, tableVars, ruleVars, RuledApps
<1>9. GuardTypes'
    <2>1. waylayMon' \subseteq Pids /\ vfcFg' \in Apps \cup {Launcher, None, "stop"}
        BY <1>2, <1>3, <1>4 DEF FgVfc, Living, WithRed, GuardTypes
    <2>2. srvMon' \subseteq Pids /\ srvOn' \in BOOLEAN /\ srvBy' \in {srvBy, "callback"}
        BY <1>2, <1>3, <1>4 DEF FgSrv, Living, GuardTypes
    <2>3. propCur' \in BOOLEAN /\ propOn' \in BOOLEAN
        <3>1. propCur \in BOOLEAN /\ propOn \in BOOLEAN
            BY DEF GuardTypes
        <3> DEFINE want == "prop" \in rules
        <3>2. \/ propCur' = want /\ propOn' = want
              \/ propCur' = propCur /\ propOn' = propOn
            BY <1>3 DEF FgProp
        <3>3. want \in BOOLEAN
            OBVIOUS
        <3> HIDE DEF want
        <3>4. QED  BY <3>1, <3>2, <3>3
    <2>4. rfrMon' \subseteq Pids /\ rate' \in Apps \cup {Launcher, None}
        BY <1>2, <1>3, <1>4 DEF FgRefresh, Living, InTop, GuardTypes, TableTypes, ProbeTypeOK, Started
    <2>5. QED  BY <1>2, <1>3, <2>1, <2>2, <2>3, <2>4 DEF OnFg, GuardTypes
<1>10. QED  BY <1>1, <1>6, <1>7, <1>8, <1>9

LEMMA OnExitTypes == TypeInv /\ OnExit => TypeInv'
<1> SUFFICES ASSUME TypeInv, OnExit PROVE TypeInv'
    OBVIOUS
<1> USE DEF TypeInv
<1>1. WebTypes' /\ TableTypes'
    BY TypesAside DEF OnExit
<1> DEFINE p == Head(exitQ)
<1>0. p \in Started /\ exitQ' \in Seq(Started)
    BY DEF OnExit, ProbeTypeOK, Started
<1>2. /\ p \in Started /\ exitQ' \in Seq(Started) /\ PidToUid(p)
      /\ rfrMon' = rfrMon \ {p} /\ waylayMon' = waylayMon \ {p} /\ srvMon' = srvMon \ {p}
      /\ vfcFg' = IF p \in waylayMon THEN "stop" ELSE vfcFg
      /\ srvOn' \in {srvOn, FALSE} /\ srvBy' \in {srvBy, "exit"}
    BY <1>0 DEF OnExit
<1>3. ProbeTypeOK'
    BY <1>2, SeqWidened DEF OnExit, ProbeTypeOK, Started, deviceVars
<1>4. GuardTypes'
    BY <1>2 DEF OnExit, GuardTypes
<1>5. p \in Pids /\ app[p] \in Apps
    BY <1>2 DEF ProbeTypeOK, Started
<1> HIDE DEF p
<1>6. WorkerTypeOK'
    <2>1. [op |-> "EvictUid", app |-> app[p]] \in Message
        BY <1>5 DEF Message
    <2>2. workQ' \in Seq(Message)
        <3>1. workQ' \in {workQ, Append(workQ, [op |-> "EvictUid", app |-> app[p]])}
            BY <1>2 DEF PidToUid
        <3>2. QED  BY <2>1, <3>1 DEF WorkerTypeOK
    <2>3. QED  BY <2>2 DEF OnExit, WorkerTypeOK, webVars
<1>7. QED  BY <1>1, <1>3, <1>4, <1>6

LEMMA WorkerTypes == TypeInv /\ (Worker \/ Probe) => TypeInv'
<1> SUFFICES ASSUME TypeInv, Worker \/ Probe PROVE TypeInv'
    OBVIOUS
<1> USE DEF TypeInv
<1>1. TableTypes' /\ GuardTypes'
    BY TypesAside DEF Worker, Probe
<1>2. CASE Probe
    <2>1. PICK p \in Pids : ProbeExit(p)
        BY <1>2 DEF Probe
    <2>2. WorkerTypeOK' /\ WebTypes'
        BY <1>2, TypesAside DEF Probe, webVars
    <2>3. ProbeTypeOK'
        <3>1. /\ p \in Started /\ reg' \subseteq reg /\ exitQ' \in {exitQ, Append(exitQ, p)}
              /\ faults' \in Nat /\ unreported' \in {unreported, unreported \cup {p}}
              /\ UNCHANGED <<deviceVars, fgQ>>
            BY <2>1 DEF ProbeExit, Fault, ProbeTypeOK, Started
        <3>2. exitQ' \in Seq(Started)
            BY <3>1 DEF ProbeTypeOK, Started
        <3>3. QED  BY <3>1, <3>2 DEF ProbeTypeOK, Started, deviceVars
    <2>4. QED  BY <1>1, <2>2, <2>3
<1>3. CASE Worker
    <2>1. WorkerAlone
        BY <1>3 DEF Worker, WorkerNext, ApplyAll, ApplyPkg, ApplyPkgAwake, ApplyPkgByName, ApplyThread,
                    EvictUid
    <2>2. ProbeTypeOK' /\ WebTypes'
        BY <1>3, <2>1, TypesAside DEF Worker, WorkerAlone, webVars
    <2>3. /\ app \in [Pids -> Apps \cup {None}] /\ alive \subseteq {p \in Pids : app[p] # None}
        BY DEF ProbeTypeOK
    <2>4. ASSUME NEW ps \in SUBSET alive, ApplyTids(ps)
          PROVE  bound' \in [Pids -> 0..MaxRule] /\ managed' \subseteq Pids
        <3>1. \A p \in ps : app[p] \in Apps /\ current.cpu[app[p]] \in 0..MaxRule
            BY <2>3 DEF WorkerTypeOK, Config
        <3>2. QED  BY <2>3, <2>4, <3>1 DEF ApplyTids, WorkerTypeOK
    <2>5. \A a : ProcessesOf(a) \subseteq alive
        BY DEF ProcessesOf
    <2>6. ASSUME NEW op, Receive(op)
          PROVE  /\ workQ' \in Seq(Message) /\ Head(workQ) \in Message /\ Head(workQ).op = op
        BY <2>6 DEF Receive, WorkerTypeOK
    <2>7. current' = current
        BY <2>1 DEF WorkerAlone
    <2> USE DEF WorkerTypeOK
    <2>8. CASE ApplyAll
        <3>1. workQ' \in Seq(Message)
            BY <2>8, <2>6 DEF ApplyAll
        <3>2. bound' \in [Pids -> 0..MaxRule] /\ managed' \subseteq Pids
            BY <2>8, <2>3, <2>4 DEF ApplyAll
        <3>3. QED  BY <1>1, <2>2, <2>7, <2>8, <3>1, <3>2 DEF ApplyAll
    <2>9. CASE ApplyPkg
        <3>1. workQ' \in Seq(Message) /\ Head(workQ) \in Message /\ Head(workQ).op = "ApplyPkg"
            BY <2>9, <2>6 DEF ApplyPkg
        <3>2. Head(workQ).app \in Apps /\ Head(workQ).pid \in Pids
            BY <3>1 DEF Message, ColdStart, Edit
        <3>3. Head(workQ) \in ColdStart
            BY <3>1 DEF Message, ColdStart, Edit
        <3>4. QED  BY <1>1, <2>2, <2>7, <2>9, <3>1, <3>2, <3>3 DEF ApplyPkg
    <2>10. CASE ApplyPkgAwake
        <3>1. /\ asleep # None /\ OnUid(asleep.app) /\ known' = [known EXCEPT ![asleep.app] = asleep.pid]
              /\ uidPkg' = uidPkg \cup {asleep.app} /\ uidCache' = uidCache \cup {asleep.app}
              /\ asleep' = None /\ workQ' = workQ
            BY <2>10 DEF ApplyPkgAwake
        <3>2. asleep.app \in Apps /\ asleep.pid \in Pids
            BY <3>1 DEF ColdStart
        <3>3. QED  BY <1>1, <2>2, <2>4, <2>5, <2>7, <3>1, <3>2 DEF OnUid
    <2>11. CASE ApplyPkgByName \/ ApplyThread \/ EvictUid
        <3>1. CASE ApplyPkgByName
            <4>1. workQ' \in Seq(Message) /\ Head(workQ) \in Message /\ Head(workQ).op = "ApplyPkgByName"
                BY <3>1, <2>6 DEF ApplyPkgByName
            <4>2. Head(workQ).app \in Apps
                BY <4>1 DEF Message, ColdStart, Edit
            <4>3. bound' \in [Pids -> 0..MaxRule] /\ managed' \subseteq Pids
                BY <3>1, <2>4, <2>5 DEF ApplyPkgByName, OnUid
            <4>4. known' \in [Apps -> Pids \cup {None}]
                BY <3>1, <4>2, <2>3 DEF ApplyPkgByName, ProcessesOf
            <4>5. QED  BY <1>1, <2>2, <2>7, <3>1, <4>1, <4>2, <4>3, <4>4 DEF ApplyPkgByName
        <3>2. CASE ApplyThread
            <4>1. workQ' \in Seq(Message) /\ Head(workQ) \in Message /\ Head(workQ).op = "ApplyThread"
                BY <3>2, <2>6 DEF ApplyThread
            <4>2. Head(workQ).app \in Apps
                BY <4>1 DEF Message, ColdStart, Edit
            <4>3. bound' \in [Pids -> 0..MaxRule] /\ managed' \subseteq Pids
                BY <3>2, <2>4, <2>5 DEF ApplyThread
            <4>4. QED  BY <1>1, <2>2, <2>7, <3>2, <4>1, <4>2, <4>3 DEF ApplyThread
        <3>3. CASE EvictUid
            <4>1. workQ' \in Seq(Message)
                BY <3>3, <2>6 DEF EvictUid
            <4>2. known' \in [Apps -> Pids \cup {None}]
                BY <3>3 DEF EvictUid
            <4>3. QED  BY <1>1, <2>2, <2>7, <3>3, <4>1, <4>2 DEF EvictUid
        <3>4. QED  BY <2>11, <3>1, <3>2, <3>3
    <2>12. QED  BY <1>3, <2>8, <2>9, <2>10, <2>11 DEF Worker, WorkerNext
<1>4. QED  BY <1>2, <1>3

LEMMA TypesStep == TypeInv /\ [Next]_vars => TypeInv'
<1>1. TypeInv /\ UNCHANGED vars => TypeInv'
    BY TypesAside DEF TypeInv, vars, webVars
<1>2. QED
    BY <1>1, DeviceTypes, PackagesTypes, BrowserTypes, LoadTypes, EventTypes, ReloadTypes,
       OnFgTypes, OnExitTypes, WorkerTypes DEF Next

LEMMA TypesHold == Spec => []TypeInv
BY TypesInit, TypesStep, PTL DEF Spec

\* The state of the draft keeps its types: exits are of processes that have started, and the
\* worker sleeps only on the message of a cold start.
THEOREM ForegroundTypes == Spec => []TypeOK
BY TypesHold, TypeInvTypes, PTL

-----------------------------------------------------------------------------
(* Queues *)

\* What a queue holds after an element was added, ...
LEMMA AppendRange ==
    ASSUME NEW S, NEW q \in Seq(S), NEW x \in S
    PROVE  /\ Append(q, x) \in Seq(S) /\ Append(q, x)[Len(q) + 1] = x
           /\ DOMAIN Append(q, x) = DOMAIN q \cup {Len(q) + 1}
           /\ \A i \in DOMAIN q : i \in DOMAIN Append(q, x) /\ Append(q, x)[i] = q[i]
OBVIOUS

\* ... and that only its head is missing after it was taken.
LEMMA TailRange ==
    ASSUME NEW S, NEW q \in Seq(S), q # <<>>
    PROVE  \A i \in DOMAIN q : q[i] = Head(q) \/ \E j \in DOMAIN Tail(q) : Tail(q)[j] = q[i]
<1> SUFFICES ASSUME NEW i \in DOMAIN q, i # 1
             PROVE  \E j \in DOMAIN Tail(q) : Tail(q)[j] = q[i]
    OBVIOUS
<1>1. Len(q) \in Nat /\ DOMAIN q = 1 .. Len(q) /\ DOMAIN Tail(q) = 1 .. Len(q) - 1
    OBVIOUS
<1>2. \A j \in 1 .. Len(q) - 1 : Tail(q)[j] = q[j + 1]
    BY <1>1
<1>3. i - 1 \in DOMAIN Tail(q) /\ Tail(q)[i - 1] = q[i]
    BY <1>1, <1>2
<1>4. QED  BY <1>3

-----------------------------------------------------------------------------
(* Records and the switch *)

Records == rfrMon \cup waylayMon \cup srvMon

\* Its exit is on its way to the loop.
Reported(p) == \E i \in DOMAIN exitQ : exitQ[i] = p

RecordInv == RecordsWatched /\ SwitchAccounted

\* RecordsWatched, process by process.
LEMMA RecordsApart ==
    RecordsWatched <=> \A p \in Records : p \in reg \/ Reported(p) \/ p \in unreported
BY DEF RecordsWatched, Records, Reported

recordVars == <<reg, exitQ, unreported, rfrMon, waylayMon, srvMon, srvOn, srvBy, lastFg,
                uidRules>>

\* What leaves records, watches and switch alone keeps the invariant.
LEMMA RecordsAside == RecordInv /\ UNCHANGED recordVars => RecordInv'
BY DEF RecordInv, recordVars, RecordsWatched, SwitchAccounted, Asks

\* A callback: every branch that makes a record watches the process, and the
\* switch goes off with the last process that asked for it.
LEMMA OnFgKeeps == TypeInv /\ RecordInv /\ OnFg => RecordInv'
<1> SUFFICES ASSUME TypeInv, RecordInv, OnFg PROVE RecordInv'
    OBVIOUS
<1> DEFINE p == Head(fgQ)
           u == IF p = Launcher THEN Launcher ELSE app[p]
           rules == IF u = Launcher THEN {} ELSE uidRules[u]
           cold == u \in uidCpu /\ ~IsHot(u, p)
<1>1. /\ FgVfc(p, u) /\ FgSrv(p, rules) /\ FgRefresh(p, u)
      /\ Watch(ToWatch(p, cold)) /\ lastFg' = u
      /\ UNCHANGED <<exitQ, uidRules>>
    BY DEF OnFg, ruleVars
<1>2. Launcher \notin Apps /\ top \subseteq alive
    BY ProbeAssumption DEF TypeInv, ProbeTypeOK
<1>3. u \in Apps => rules = uidRules[u]
    BY <1>2
<1> HIDE DEF p, u, rules, cold
<1>4. /\ waylayMon' \subseteq waylayMon \cup {p}
      /\ srvMon' \subseteq srvMon \cup {p}
      /\ rfrMon' \subseteq rfrMon \cup {p}
    BY <1>1 DEF FgVfc, FgSrv, FgRefresh, Living
<1>5. \A q \in Records' : q \in Records \/ q \in ToWatch(p, cold)
    BY <1>4 DEF Records, ToWatch
<1>6. /\ reg \subseteq reg' /\ unreported \subseteq unreported'
      /\ ToWatch(p, cold) \subseteq reg' \cup unreported'
    BY <1>1 DEF Watch
<1>7. RecordsWatched'
    <2>1. \A q : Reported(q) => Reported(q)'
        BY <1>1 DEF Reported
    <2>2. \A q \in Records' : q \in reg' \/ Reported(q)' \/ q \in unreported'
        BY <1>5, <1>6, <2>1, RecordsApart DEF RecordInv
    <2>3. QED  BY <2>2 DEF RecordsWatched, Records, Reported
<1>8. SwitchAccounted'
    <2>1. CASE "src" \in rules
        BY <1>1, <2>1 DEF FgSrv, SwitchAccounted
    <2>2. CASE "src" \notin rules
        <3>1. ~Asks(lastFg)'
            BY <1>1, <1>3, <2>2 DEF Asks
        <3>2. /\ srvMon' = Living(srvMon)
              /\ \/ srvMon # {} /\ InTop(srvMon) = {} /\ srvOn' = FALSE
                 \/ (srvMon = {} \/ InTop(srvMon) # {}) /\ UNCHANGED <<srvOn, srvBy>>
            BY <1>1, <2>2 DEF FgSrv
        <3>3. /\ InTop(srvMon) # {} => Living(srvMon) # {}
              /\ srvMon = {} => Living(srvMon) = {}
            BY <1>2 DEF InTop, Living
        <3>4. QED  BY <3>1, <3>2, <3>3 DEF RecordInv, SwitchAccounted
    <2>3. QED  BY <2>1, <2>2
<1>9. QED  BY <1>7, <1>8 DEF RecordInv

\* An exit removes the records of the process and turns off what they asked for.
LEMMA OnExitKeeps == TypeInv /\ RecordInv /\ OnExit => RecordInv'
<1> SUFFICES ASSUME TypeInv, RecordInv, OnExit PROVE RecordInv'
    OBVIOUS
<1> DEFINE p == Head(exitQ)
<1>1. /\ exitQ # <<>> /\ exitQ' = Tail(exitQ)
      /\ rfrMon' = rfrMon \ {p} /\ waylayMon' = waylayMon \ {p} /\ srvMon' = srvMon \ {p}
      /\ \/ p \in srvMon /\ srvOn' = FALSE /\ srvBy' = "exit"
         \/ p \notin srvMon /\ UNCHANGED <<srvOn, srvBy>>
      /\ UNCHANGED <<reg, unreported, lastFg, uidRules>>
    BY DEF OnExit, ruleVars
<1>2. exitQ \in Seq(Started)
    BY DEF TypeInv, ProbeTypeOK, Started
<1>3. \A q : Reported(q) => q = p \/ Reported(q)'
    BY <1>1, <1>2, TailRange DEF Reported
<1> HIDE DEF p
<1>4. \A q \in Records' : q \in Records /\ q # p
    BY <1>1 DEF Records
<1>5. \A q \in Records' : q \in reg' \/ Reported(q)' \/ q \in unreported'
    BY <1>1, <1>3, <1>4, RecordsApart DEF RecordInv
<1>6. SwitchAccounted'
    BY <1>1 DEF RecordInv, SwitchAccounted, Asks
<1>7. QED  BY <1>5, <1>6 DEF RecordInv, RecordsWatched, Records, Reported

\* The probe forgets a process and sends its exit, or could not.
LEMMA ProbeKeeps == TypeInv /\ RecordInv /\ Probe => RecordInv'
<1> SUFFICES ASSUME TypeInv, RecordInv, Probe PROVE RecordInv'
    OBVIOUS
<1>1. PICK p \in Pids : ProbeExit(p)
    BY DEF Probe
<1>2. /\ reg' = reg \ {p} /\ p \in Started
      /\ \/ exitQ' = Append(exitQ, p) /\ unreported' = unreported
         \/ exitQ' = exitQ /\ unreported' = unreported \cup {p}
    BY <1>1 DEF ProbeExit, TypeInv, ProbeTypeOK, Started
<1>3. UNCHANGED <<rfrMon, waylayMon, srvMon, srvOn, srvBy, lastFg, uidRules>>
    BY DEF Probe, guardVars, kernelVars, ruleVars
<1>4. exitQ \in Seq(Started)
    BY DEF TypeInv, ProbeTypeOK, Started
<1>5. /\ \A q : Reported(q) => Reported(q)'
      /\ Reported(p)' \/ p \in unreported'
    <2>1. CASE exitQ' = Append(exitQ, p)
        BY <1>2, <1>4, <2>1, AppendRange DEF Reported
    <2>2. CASE exitQ' = exitQ /\ unreported' = unreported \cup {p}
        BY <2>2 DEF Reported
    <2>3. QED  BY <1>2, <2>1, <2>2
<1>6. \A q \in Records' : q \in reg' \/ Reported(q)' \/ q \in unreported'
    <2>1. Records' = Records /\ unreported \subseteq unreported'
        BY <1>2, <1>3 DEF Records
    <2>2. QED  BY <1>2, <1>5, <2>1, RecordsApart DEF RecordInv
<1>7. SwitchAccounted'
    BY <1>3 DEF RecordInv, SwitchAccounted, Asks
<1>8. QED  BY <1>6, <1>7 DEF RecordInv, RecordsWatched, Records, Reported

\* A synchronisation turns the switch on in its own name, or notes that it did not.
LEMMA SyncAccounted ==
    ASSUME NEW tbl, NEW cache, NEW srvActive, NEW kernelSrv,
           SyncVfcRules(tbl, cache, srvActive, kernelSrv),
           kernelSrv /\ srvMon = {} => srvBy = "sync",
           UNCHANGED <<srvMon, lastFg>>, kernelSrv \in BOOLEAN
    PROVE  SwitchAccounted'
<1> DEFINE fgActive == lastFg \in Apps /\ "src" \in tbl[lastFg]
<1>1. /\ srvOn' = IF fgActive # srvActive THEN fgActive ELSE kernelSrv
      /\ srvBy' = IF fgActive # srvActive THEN "sync"
                  ELSE IF fgActive /\ ~kernelSrv THEN "skipped" ELSE srvBy
      /\ uidRules' = tbl
    BY DEF SyncVfcRules
<1>2. Asks(lastFg)' <=> fgActive
    BY <1>1 DEF Asks
<1> HIDE DEF fgActive
<1>3. QED  BY <1>1, <1>2 DEF SwitchAccounted

\* AppState::reload and the reaction to packages.list.
LEMMA ReloadKeeps == TypeInv /\ RecordInv /\ (Reload \/ EvPkg) => RecordInv'
<1> SUFFICES ASSUME TypeInv, RecordInv, Reload \/ EvPkg PROVE RecordInv'
    OBVIOUS
<1>0. srvOn \in BOOLEAN /\ armReq \in {"none", "arm", "disarm"}
    BY DEF TypeInv, GuardTypes, WebTypes
<1>1. UNCHANGED <<reg, exitQ, unreported, rfrMon, waylayMon, srvMon, lastFg>>
    BY DEF Reload, EvPkg, probeVars
<1>2. srvOn /\ srvMon = {} => srvBy = "sync"
    BY DEF RecordInv, SwitchAccounted
<1>3. SwitchAccounted'
    <2>1. CASE Reload
        <3>1. SetKpmArm
            BY <2>1 DEF Reload
        <3> DEFINE tbl == RulesByUid(waylay, pkgCache)
        <3>2. \/ SyncVfcRules(tbl, {}, srvCur, srvOn)
              \/ SyncVfcRules(tbl, ruleCache, FALSE, FALSE)
              \/ SyncVfcRules(tbl, ruleCache, srvCur, srvOn)
            BY <1>0, <3>1 DEF SetKpmArm
        <3> HIDE DEF tbl
        <3>3. QED  BY <1>0, <1>1, <1>2, <3>2, SyncAccounted
    <2>2. CASE EvPkg
        <3>1. SyncVfcRules(RulesByUid(waylayMem, installed), ruleCache, srvCur, srvOn)
            BY <2>2 DEF EvPkg, RebuildUidTables
        <3>2. QED  BY <1>0, <1>1, <1>2, <3>1, SyncAccounted
    <2>3. QED  BY <2>1, <2>2
<1>4. QED
    BY <1>1, <1>3 DEF RecordInv, RecordsWatched

\* The remaining steps touch neither records nor watches nor the switch.
LEMMA OthersAside ==
    Device \/ Packages \/ Browser \/ WebLoad \/ (\E t \in Threads : NoteChange(t) \/ StoreConfig(t))
        \/ EvInotify \/ EvConfig \/ EvWaylay \/ Worker \/ UNCHANGED vars
    => UNCHANGED recordVars
<1> USE DEF recordVars, probeVars, ruleVars, guardVars, kernelVars, MainAside, ReloadAside
<1>1. Device => UNCHANGED recordVars
    BY DEF Device, Launch, Show, Die, Desktop
<1>2. Packages \/ UNCHANGED vars => UNCHANGED recordVars
    BY DEF Packages, vars
<1>3. Browser => MainAside
    BY DEF Browser, RuleApi, RuleDelApi, RuleRenameApi, SaveFile, SaveRefresh, HandEdit,
           SaveWaylay, RequestArm
<1>4. WebLoad \/ (\E t \in Threads : NoteChange(t) \/ StoreConfig(t)) \/ EvInotify => MainAside
    BY DEF WebLoad, NoteChange, StoreConfig, EvInotify
<1>5. EvConfig \/ EvWaylay => MainAside
    BY DEF EvConfig, EvWaylay
<1>6. WorkerNext => UNCHANGED probeVars
    BY DEF WorkerNext, ApplyAll, ApplyPkg, ApplyPkgAwake, ApplyPkgByName, ApplyThread, EvictUid,
           WorkerAlone
<1>7. Worker => UNCHANGED recordVars
    BY <1>6 DEF Worker
<1>8. QED  BY <1>1, <1>2, <1>3, <1>4, <1>5, <1>7

\* The program enters its loop without records, with the switch off and nobody in front.
LEMMA RecordsInit == Init => RecordInv
<1> SUFFICES ASSUME Init PROVE RecordInv
    OBVIOUS
<1>1. /\ rfrMon = {} /\ waylayMon = {} /\ srvMon = {} /\ srvOn = FALSE /\ lastFg = None
    BY DEF Init
<1>2. ~Asks(lastFg)
    BY <1>1, ProbeAssumption DEF Asks
<1>3. QED  BY <1>1, <1>2 DEF RecordInv, RecordsWatched, SwitchAccounted

LEMMA RecordsStep == TypeInv /\ RecordInv /\ [Next]_vars => RecordInv'
BY OnFgKeeps, OnExitKeeps, ProbeKeeps, ReloadKeeps, OthersAside, RecordsAside DEF Next

LEMMA RecordsHold == Spec => []RecordInv
BY TypesHold, RecordsInit, RecordsStep, PTL DEF Spec

\* Every process that the loop has a record of (main.rs:634, 663, 739) is watched, or its exit
\* is on its way, unless its watch failed or its exit could not be sent.
THEOREM RecordsAreWatched == Spec => []RecordsWatched
<1>1. RecordInv => RecordsWatched
    BY DEF RecordInv
<1>2. QED  BY <1>1, RecordsHold, PTL

\* Callbacks and exits turn the kernel's switch off with the last process that asked for it,
\* and the switch is on for the application of the last callback if that asks for it, but for
\* what sync_vfc_rules turned on (main.rs:537) or left off, and for exits (1190).
THEOREM SwitchIsAccounted == Spec => []SwitchAccounted
<1>1. RecordInv => SwitchAccounted
    BY DEF RecordInv
<1>2. QED  BY <1>1, RecordsHold, PTL

-----------------------------------------------------------------------------
(* Processes are bound *)

\* A message that binds such a thread is in the queue, or the worker sleeps on one.
Pending(a, n) ==
    \/ \E i \in DOMAIN workQ : Binds(workQ[i], a, n)
    \/ asleep # None /\ asleep.app = a

\* The thread is bound, or is going to be, or its rule was overlooked, or may be with the
\* next reload.
ThreadCovered(p, n) ==
    \/ <<app[p], n>> \in overlooked \cup owed
    \/ Pending(app[p], n)
    \/ RunsRight(p, n)
Covered(p) == \A n \in threads[p] : ThreadCovered(p, n)
Called(p) == \E i \in DOMAIN fgQ : fgQ[i] = p

\* What the loop takes for bound is covered: that is why a hot process needs no message.
KnownCovered ==
    \A a \in Apps : known[a] # None =>
        app[known[a]] = a /\ (known[a] \in alive => Covered(known[a]))

MessagesRight ==
    /\ \A i \in DOMAIN workQ : workQ[i].op = "ApplyPkg" => app[workQ[i].pid] = workQ[i].app
    /\ asleep # None => app[asleep.pid] = asleep.app

\* Rules that the loop has not seen are owed, and a reload is on its way: a thread that
\* stores the rules it found before is so late that another has woken the loop.
ChangesOwed ==
    /\ \A a \in Apps, n \in Names :
           RuleFor[current.cpu[a]][n] # RuleFor[mainCfg.cpu[a]][n] => <<a, n>> \in owed
    /\ owed # {} => wake \/ step["main"] = "reload"
    /\ step["main"] \in {"note", "store"} => wake \/ parsed["main"].old.cpu = current.cpu

BindInv ==
    /\ \A p \in alive : Called(p) \/ Covered(p)
    /\ KnownCovered /\ MessagesRight /\ ChangesOwed

\* No process runs at first, and nothing is owed.
LEMMA BindInit == Init => BindInv
<1> SUFFICES ASSUME Init PROVE BindInv
    OBVIOUS
<1>1. /\ alive = {} /\ workQ = <<>> /\ asleep = None /\ mainCfg = current /\ owed = {}
      /\ step["main"] = Idle /\ \A a \in Apps : known[a] = None
    BY DEF Init, ProbeInit, WorkerInit, Threads
<1>2. QED  BY <1>1 DEF BindInv, KnownCovered, MessagesRight, ChangesOwed, Idle

\* A process that starts or comes to the front is called; no other step of the device adds one.
LEMMA BindDevice == TypeInv /\ BindInv /\ Device => BindInv'
<1> SUFFICES ASSUME TypeInv, BindInv, Device PROVE BindInv'
    OBVIOUS
<1>0. UNCHANGED <<current, overlooked, owed, workQ, asleep, bound, known, mainCfg, wake, step, parsed>>
    BY DEF Device, workerVars, historyVars, tableVars
<1>1. ChangesOwed'
    BY <1>0 DEF BindInv, ChangesOwed
<1>2. ASSUME NEW p \in Pids, NEW a \in Apps, Launch(p, a) PROVE BindInv'
    <2>1. /\ app' = [app EXCEPT ![p] = a] /\ app[p] = None /\ alive' = alive \cup {p}
          /\ fgQ' = Append(fgQ, p)
        BY <1>2 DEF Launch, ToFront
    <2>2. /\ app \in [Pids -> Apps \cup {None}] /\ alive \subseteq {q \in Pids : app[q] # None}
          /\ fgQ \in Seq(Pids \cup {Launcher})
        BY DEF TypeInv, ProbeTypeOK
    <2>3. Called(p)' /\ \A q : Called(q) => Called(q)'
        BY <2>1, <2>2, AppendRange DEF Called
    <2>4. \A q \in alive : q # p /\ app'[q] = app[q] /\ threads'[q] = threads[q]
        <3>1. \E crew : threads' = [threads EXCEPT ![p] = crew]
            BY <1>2 DEF Launch
        <3>2. threads \in [Pids -> SUBSET Names]
            BY DEF TypeInv, ProbeTypeOK
        <3>3. QED  BY <2>1, <2>2, <3>1, <3>2
    <2>5. \A q \in alive : Covered(q) => Covered(q)'
        BY <1>0, <2>4 DEF Covered, ThreadCovered, Pending, RunsRight
    <2>6. MessagesRight'
        <3>1. workQ \in Seq(Message) /\ asleep \in ColdStart \cup {None}
            BY DEF TypeInv, WorkerTypeOK
        <3>2. \A i \in DOMAIN workQ : workQ[i].op = "ApplyPkg" => workQ[i].app \in Apps /\ workQ[i].pid \in Pids
            BY <3>1 DEF Message, ColdStart, Edit
        <3>3. asleep # None => asleep.app \in Apps /\ asleep.pid \in Pids
            BY <3>1 DEF ColdStart
        <3>4. None \notin Apps
            BY ProbeAssumption
        <3>5. \A q \in Pids : app[q] \in Apps => app'[q] = app[q]
            BY <2>1, <2>2, <3>4
        <3>6. QED  BY <1>0, <3>2, <3>3, <3>5 DEF BindInv, MessagesRight
    <2>7. KnownCovered'
        <3>1. ASSUME NEW b \in Apps, known[b] # None
              PROVE  app'[known[b]] = b /\ (known[b] \in alive' => known[b] \in alive)
            <4>1. known[b] \in Pids /\ app[known[b]] = b
                BY <3>1 DEF TypeInv, WorkerTypeOK, BindInv, KnownCovered
            <4>2. known[b] # p
                BY <2>1, <4>1, ProbeAssumption
            <4>3. QED  BY <2>1, <2>2, <4>1, <4>2
        <3>2. QED  BY <1>0, <2>5, <3>1 DEF BindInv, KnownCovered
    <2>8. QED  BY <1>1, <2>1, <2>3, <2>5, <2>6, <2>7 DEF BindInv
<1>3. ASSUME (\E p \in Pids : Show(p) \/ Die(p)) \/ Desktop PROVE BindInv'
    <2>1. app' = app /\ threads' = threads /\ alive' \subseteq alive
        BY <1>3 DEF Show, Die, Desktop
    <2>2. \A q : Called(q) => Called(q)'
        <3>1. fgQ \in Seq(Pids \cup {Launcher})
              /\ (fgQ' = fgQ \/ \E x \in Pids \cup {Launcher} : fgQ' = Append(fgQ, x))
            BY <1>3 DEF Show, Die, Desktop, ToFront, TypeInv, ProbeTypeOK
        <3>2. QED  BY <3>1, AppendRange DEF Called
    <2>3. \A q : Covered(q) => Covered(q)'
        BY <1>0, <2>1 DEF Covered, ThreadCovered, Pending, RunsRight
    <2>4. QED  BY <1>0, <1>1, <2>1, <2>2, <2>3 DEF BindInv, KnownCovered, MessagesRight
<1>4. QED  BY <1>2, <1>3 DEF Device

\* A foreground callback: a process that is not hot gets its message; a hot one is covered.
LEMMA BindOnFg == TypeInv /\ BindInv /\ OnFg => BindInv'
<1> SUFFICES ASSUME TypeInv, BindInv, OnFg PROVE BindInv'
    OBVIOUS
<1>a. PICK p, u : p = Head(fgQ) /\ u = IF p = Launcher THEN Launcher ELSE app[p]
    OBVIOUS
<1> DEFINE cold == u \in uidCpu /\ ~IsHot(u, p)
           m == [op |-> "ApplyPkg", app |-> u, pid |-> p]
<1>1. /\ UNCHANGED <<app, threads, alive, current, owed, asleep, bound, known, mainCfg, wake, step,
                     parsed>>
      /\ fgQ # <<>> /\ fgQ' = Tail(fgQ)
      /\ workQ' = IF cold THEN Append(workQ, m) ELSE workQ
      /\ overlooked' = IF cold THEN overlooked \ ({u} \X Names)
                       ELSE IF u \in RuledApps(mainCfg) \ uidCpu
                       THEN overlooked \cup ({u} \X Names) ELSE overlooked
    BY <1>a DEF OnFg, deviceVars, webVars, tableVars
<1>2. /\ p \in Pids \cup {Launcher} /\ fgQ \in Seq(Pids \cup {Launcher})
      /\ uidCpu \subseteq Apps /\ workQ \in Seq(Message)
    BY <1>a, <1>1 DEF TypeInv, ProbeTypeOK, TableTypes, WorkerTypeOK
<1>3. p = Launcher => u \notin Apps /\ p \notin Pids
    BY <1>a, ProbeAssumption
<1>4. p # Launcher => u = app[p]
    BY <1>a
<1>5. cold => m \in Message /\ m.op = "ApplyPkg" /\ m.app = u /\ m.pid = p /\ app[p] = u
    BY <1>2, <1>3, <1>4 DEF Message, ColdStart
<1>6. \A q \in alive : Called(q) => q = p \/ Called(q)'
    BY <1>a, <1>1, <1>2, TailRange DEF Called
<1>0. (cold \/ u \notin uidCpu \/ IsHot(u, p)) /\ (cold => u \in uidCpu)
    OBVIOUS
<1> HIDE DEF m, cold
<1>7. ChangesOwed'
    BY <1>1 DEF BindInv, ChangesOwed
<1>8. /\ \A a, n : Pending(a, n) => Pending(a, n)'
      /\ cold => \A n : Pending(u, n)'
      /\ MessagesRight'
    <2>1. CASE cold
        <3>1. workQ' = Append(workQ, m)
            BY <1>1, <2>1
        <3>2. /\ workQ'[Len(workQ) + 1] = m /\ DOMAIN workQ' = DOMAIN workQ \cup {Len(workQ) + 1}
              /\ \A i \in DOMAIN workQ : i \in DOMAIN workQ' /\ workQ'[i] = workQ[i]
            BY <1>2, <1>5, <2>1, <3>1, AppendRange
        <3>3. \A a, n : Pending(a, n) => Pending(a, n)'
            BY <1>1, <3>2 DEF Pending, Binds
        <3>4. \A n : Pending(u, n)'
            BY <1>5, <2>1, <3>2 DEF Pending, Binds
        <3>5. MessagesRight'
            BY <1>1, <1>5, <2>1, <3>2 DEF BindInv, MessagesRight
        <3>6. QED  BY <3>3, <3>4, <3>5
    <2>2. CASE ~cold
        BY <1>1, <2>2 DEF Pending, Binds, BindInv, MessagesRight
    <2>3. QED  BY <2>1, <2>2
<1>9. \A q : Covered(q) => Covered(q)'
    BY <1>1, <1>8 DEF Covered, ThreadCovered, RunsRight
<1>10. KnownCovered'
    BY <1>1, <1>9 DEF BindInv, KnownCovered
<1>11. p \in alive => Covered(p)'
    <2> SUFFICES ASSUME p \in alive PROVE Covered(p)'
        OBVIOUS
    <2>1. u = app[p] /\ u \in Apps /\ p \in Pids /\ threads[p] \subseteq Names
        BY <1>3, <1>4, ProbeAssumption DEF TypeInv, ProbeTypeOK
    <2>2. CASE cold
        BY <1>1, <1>8, <2>1, <2>2 DEF Covered, ThreadCovered
    <2>3. CASE IsHot(u, p)
        <3>1. known[u] = p /\ p # None
            BY <2>1, <2>3, ProbeAssumption DEF IsHot
        <3>2. Covered(p)
            BY <2>1, <3>1 DEF BindInv, KnownCovered
        <3>3. QED  BY <1>9, <3>2
    <2>4. CASE u \notin uidCpu
        <3>1. CASE u \in RuledApps(mainCfg)
            <4>1. overlooked' = overlooked \cup ({u} \X Names)
                BY <1>0, <1>1, <2>4, <3>1
            <4>2. QED  BY <1>1, <2>1, <4>1 DEF Covered, ThreadCovered
        <3>2. CASE u \notin RuledApps(mainCfg)
            <4>1. mainCfg.cpu[u] = 0
                BY <2>1, <3>2, WorkerAssumption DEF RuledApps, TypeInv, TableTypes, Config
            <4>2. \A n \in Names : RuleFor[current.cpu[u]][n] = 0 \/ <<u, n>> \in owed
                BY <2>1, <4>1, WorkerAssumption DEF BindInv, ChangesOwed
            <4>3. QED  BY <1>1, <2>1, <4>2 DEF Covered, ThreadCovered, RunsRight
        <3>3. QED  BY <3>1, <3>2
    <2>5. QED  BY <1>0, <2>2, <2>3, <2>4
<1>12. QED  BY <1>1, <1>6, <1>7, <1>8, <1>9, <1>10, <1>11 DEF BindInv

\* An exit: the worker is told, no message is lost.
LEMMA BindOnExit == TypeInv /\ BindInv /\ OnExit => BindInv'
<1> SUFFICES ASSUME TypeInv, BindInv, OnExit PROVE BindInv'
    OBVIOUS
<1> DEFINE p == Head(exitQ)
           m == [op |-> "EvictUid", app |-> app[p]]
<1>1. /\ UNCHANGED <<app, threads, alive, fgQ, current, owed, overlooked, asleep, bound, known,
                     mainCfg, wake, step, parsed>>
      /\ workQ' \in {workQ, Append(workQ, m)}
    BY DEF OnExit, PidToUid, deviceVars, webVars, tableVars, historyVars
<1>2. p \in Pids /\ app[p] \in Apps /\ workQ \in Seq(Message)
    BY DEF OnExit, TypeInv, ProbeTypeOK, WorkerTypeOK
<1>3. m \in Message /\ m.op = "EvictUid"
    BY <1>2 DEF Message
<1> HIDE DEF p, m
<1>4. /\ \A i \in DOMAIN workQ : i \in DOMAIN workQ' /\ workQ'[i] = workQ[i]
      /\ \A i \in DOMAIN workQ' : i \in DOMAIN workQ \/ workQ'[i] = m
    BY <1>1, <1>2, <1>3, AppendRange
<1>5. \A q : Covered(q) => Covered(q)'
    BY <1>1, <1>4 DEF Covered, ThreadCovered, Pending, Binds, RunsRight
<1>6. KnownCovered'
    BY <1>1, <1>5 DEF BindInv, KnownCovered
<1>7. MessagesRight'
    BY <1>1, <1>3, <1>4 DEF BindInv, MessagesRight
<1>8. QED  BY <1>1, <1>5, <1>6, <1>7 DEF BindInv, ChangesOwed, Called

\* AppState::reload: what was owed is overlooked, or a message binds it.
LEMMA BindReload == TypeInv /\ BindInv /\ Reload => BindInv'
<1> SUFFICES ASSUME TypeInv, BindInv, Reload PROVE BindInv'
    OBVIOUS
<1> DEFINE msgs == IF cpuChanged THEN Replay ELSE <<>>
<1>1. /\ UNCHANGED <<app, threads, alive, fgQ, current, asleep, bound, known, wake, parsed>>
      /\ owed' = {} /\ mainCfg' = current /\ workQ' = workQ \o msgs
      /\ overlooked' = (overlooked \cup owed) \ BoundBy(msgs)
      /\ step["main"] = "reload" /\ step' = [step EXCEPT !["main"] = Idle]
    BY DEF Reload, ReloadCpu, deviceVars
<1>2. workQ \in Seq(Message) /\ msgs \in Seq(Message)
      /\ \A i \in DOMAIN msgs : msgs[i].op # "ApplyPkg"
    <2>1. lastRule # None => lastRule \in Edit
        BY DEF TypeInv, WebTypes
    <2>2. lastRule # None => lastRule \in Message /\ lastRule.op # "ApplyPkg"
        BY <2>1 DEF Message, Edit
    <2>3. [op |-> "ApplyAll", apps |-> CpuPkgUids(current, pkgUid')] \in Message
        BY DEF CpuPkgUids, RuledApps, Message
    <2>4. QED  BY <2>2, <2>3 DEF Replay, TypeInv, WorkerTypeOK
<1> HIDE DEF msgs
<1>3. /\ \A i \in DOMAIN workQ : i \in DOMAIN workQ' /\ workQ'[i] = workQ[i]
      /\ \A i \in DOMAIN msgs : Len(workQ) + i \in DOMAIN workQ' /\ workQ'[Len(workQ) + i] = msgs[i]
      /\ \A i \in DOMAIN workQ' : i \in DOMAIN workQ \/ \E j \in DOMAIN msgs : workQ'[i] = msgs[j]
    <2>1. /\ Len(workQ) \in Nat /\ Len(msgs) \in Nat /\ Len(workQ') = Len(workQ) + Len(msgs)
          /\ DOMAIN workQ = 1 .. Len(workQ) /\ DOMAIN msgs = 1 .. Len(msgs)
          /\ DOMAIN workQ' = 1 .. Len(workQ) + Len(msgs)
          /\ \A i \in 1 .. Len(workQ) + Len(msgs) :
                workQ'[i] = IF i <= Len(workQ) THEN workQ[i] ELSE msgs[i - Len(workQ)]
        BY <1>1, <1>2, ConcatProperties, LenProperties
    <2>2. ASSUME NEW i \in DOMAIN msgs PROVE Len(workQ) + i \in DOMAIN workQ' /\ workQ'[Len(workQ) + i] = msgs[i]
        <3>1. (Len(workQ) + i) - Len(workQ) = i /\ ~(Len(workQ) + i <= Len(workQ)) /\ i \in 1 .. Len(msgs)
            BY <2>1
        <3>2. QED  BY <2>1, <3>1
    <2>3. ASSUME NEW i \in DOMAIN workQ', i \notin DOMAIN workQ PROVE \E j \in DOMAIN msgs : workQ'[i] = msgs[j]
        <3>1. i - Len(workQ) \in DOMAIN msgs /\ ~(i <= Len(workQ))
            BY <2>1, <2>3
        <3>2. QED  BY <2>1, <2>3, <3>1
    <2>4. QED  BY <2>1, <2>2, <2>3
<1>4. \A a, n : Pending(a, n) => Pending(a, n)'
    BY <1>1, <1>3 DEF Pending, Binds
<1>5. \A a, n : <<a, n>> \in BoundBy(msgs) => Pending(a, n)'
    <2>1. ASSUME NEW a, NEW n, <<a, n>> \in BoundBy(msgs) PROVE Pending(a, n)'
        <3>1. PICK i \in DOMAIN msgs : Binds(msgs[i], a, n)
            BY <2>1 DEF BoundBy
        <3>2. QED  BY <1>3, <3>1 DEF Pending, Binds
    <2>2. QED  BY <2>1
<1> HIDE DEF BoundBy, Pending
<1>6. \A q : Covered(q) => Covered(q)'
    BY <1>1, <1>4, <1>5 DEF Covered, ThreadCovered, RunsRight
<1>7. MessagesRight'
    BY <1>1, <1>2, <1>3 DEF BindInv, MessagesRight
<1>8. ChangesOwed'
    BY <1>1 DEF ChangesOwed, TypeInv, WebTypes, Threads, Idle
<1>9. QED  BY <1>1, <1>6, <1>7, <1>8 DEF BindInv, KnownCovered, Called

\* config_reload: rules that change are owed, and a thread whose parse is out of date comes
\* after another that has woken the loop.
LEMMA BindStore == TypeInv /\ BindInv /\ (\E t \in Threads : StoreConfig(t)) => BindInv'
<1> SUFFICES ASSUME TypeInv, BindInv, NEW t \in Threads, StoreConfig(t) PROVE BindInv'
    OBVIOUS
<1>1. /\ UNCHANGED <<app, threads, alive, fgQ, asleep, bound, known, workQ, overlooked, mainCfg>>
      /\ current' = parsed[t].new /\ parsed' = [parsed EXCEPT ![t] = None] /\ step[t] = "store"
    BY DEF StoreConfig, ReloadAside, MainAside, deviceVars, workerVars, tableVars
<1>o. /\ owed \subseteq owed'
      /\ \A a \in Apps, n \in Names :
            RuleFor[current.cpu[a]][n] # RuleFor[current'.cpu[a]][n] => <<a, n>> \in owed'
      /\ current'.cpu = current.cpu => owed' = owed
    BY DEF StoreConfig
<1>2. app \in [Pids -> Apps \cup {None}] /\ alive \subseteq {q \in Pids : app[q] # None}
      /\ threads \in [Pids -> SUBSET Names]
      /\ known \in [Apps -> Pids \cup {None}]
    BY DEF TypeInv, ProbeTypeOK, WorkerTypeOK
<1>3. \A q \in alive : Covered(q) => Covered(q)'
    <2>1. ASSUME NEW q \in alive, NEW n \in threads[q], ThreadCovered(q, n)
          PROVE  ThreadCovered(q, n)'
        <3>1. app[q] \in Apps /\ n \in Names
            BY <1>2
        <3>2. CASE RuleFor[current'.cpu[app[q]]][n] = RuleFor[current.cpu[app[q]]][n]
            BY <1>1, <1>o, <2>1, <3>2 DEF ThreadCovered, Pending, RunsRight
        <3>3. CASE RuleFor[current'.cpu[app[q]]][n] # RuleFor[current.cpu[app[q]]][n]
            BY <1>1, <1>o, <3>1, <3>3 DEF ThreadCovered
        <3>4. QED  BY <3>2, <3>3
    <2>2. QED  BY <1>1, <2>1 DEF Covered
<1>4. ChangesOwed'
    <2> USE DEF TypeInv, WebTypes, Threads, Idle
    <2>1. \A a \in Apps, n \in Names :
             RuleFor[current'.cpu[a]][n] # RuleFor[mainCfg.cpu[a]][n] => <<a, n>> \in owed'
        BY <1>o DEF BindInv, ChangesOwed
    <2>2. CASE t = "web"
        <3>1. wake' = TRUE
            BY <2>2 DEF StoreConfig
        <3>2. QED  BY <1>1, <2>1, <3>1 DEF ChangesOwed
    <2>3. CASE t = "main"
        <3>1. wake' = wake /\ step'["main"] = IF RulesDiffer("main") THEN "reload" ELSE Idle
            BY <2>3 DEF StoreConfig
        <3>2. ASSUME ~RulesDiffer("main"), ~wake PROVE owed' = {}
            <4>1. parsed["main"].old.cpu = current.cpu /\ parsed["main"].old.cpu = parsed["main"].new.cpu
                BY <1>1, <2>3, <3>2 DEF BindInv, ChangesOwed, RulesDiffer
            <4>2. owed = {}
                BY <1>1, <2>3, <3>2 DEF BindInv, ChangesOwed
            <4>3. QED  BY <1>1, <1>o, <2>3, <4>1, <4>2
        <3>3. QED  BY <1>1, <2>1, <3>1, <3>2 DEF ChangesOwed
    <2>4. QED  BY <2>2, <2>3
<1>5. QED
    BY <1>1, <1>3, <1>4 DEF BindInv, KnownCovered, MessagesRight, Called

\* What happens to requests, files and tables does not touch what is bound.
LEMMA BindAside ==
    TypeInv /\ BindInv /\ (Packages \/ Browser \/ WebLoad \/ (\E t \in Threads : NoteChange(t))
        \/ EvInotify \/ EvConfig \/ EvWaylay \/ EvPkg \/ Probe \/ UNCHANGED vars)
    => BindInv'
<1> SUFFICES ASSUME TypeInv, BindInv,
                    Packages \/ Browser \/ WebLoad \/ (\E t \in Threads : NoteChange(t))
                        \/ EvInotify \/ EvConfig \/ EvWaylay \/ EvPkg \/ Probe \/ UNCHANGED vars
             PROVE  BindInv'
    OBVIOUS
<1>1. UNCHANGED <<app, threads, alive, fgQ, overlooked, owed, workQ, asleep, bound, known, mainCfg>>
      /\ current'.cpu = current.cpu
    <2> USE DEF deviceVars, workerVars, webVars, tableVars, historyVars, MainAside, ReloadAside
    <2>1. CASE Packages \/ EvPkg \/ Probe \/ UNCHANGED vars
        BY <2>1 DEF Packages, EvPkg, Probe, ProbeExit, vars
    <2>2. CASE Browser
        <3>1. CASE \E rfr : SaveRefresh(rfr)
            BY <3>1 DEF SaveRefresh, TypeInv, WorkerTypeOK, Config
        <3>2. CASE ~\E rfr : SaveRefresh(rfr)
            BY <2>2, <3>2 DEF Browser, RuleApi, RuleDelApi, RuleRenameApi, SaveFile, HandEdit, SaveWaylay,
                              RequestArm
        <3>3. QED  BY <3>1, <3>2
    <2>3. CASE WebLoad \/ (\E t \in Threads : NoteChange(t)) \/ EvInotify \/ EvConfig \/ EvWaylay
        BY <2>3 DEF WebLoad, NoteChange, EvInotify, EvConfig, EvWaylay
    <2>4. QED  BY <2>1, <2>2, <2>3
<1>2. ChangesOwed'
    <2> USE DEF BindInv, ChangesOwed, TypeInv, WebTypes, Threads, Idle
    <2>1. CASE Packages \/ EvPkg \/ Probe \/ UNCHANGED vars
        BY <1>1, <2>1 DEF Packages, EvPkg, Probe, vars, webVars
    <2>2. CASE Browser
        <3>1. /\ parsed' = parsed /\ (wake => wake') /\ step'["main"] = step["main"]
            BY <2>2 DEF Browser, RuleApi, RuleDelApi, RuleRenameApi, SaveFile, SaveRefresh, HandEdit,
                        SaveWaylay, RequestArm
        <3>2. QED  BY <1>1, <3>1
    <2>3. CASE WebLoad
        <3>1. parsed'["main"] = parsed["main"] /\ wake' = wake /\ step'["main"] = step["main"]
            BY <2>3 DEF WebLoad, Parse
        <3>2. QED  BY <1>1, <3>1
    <2>4. CASE EvInotify
        <3>1. /\ parsed'["main"].old = current /\ wake' = wake /\ step["main"] = Idle /\ step'["main"] = "note"
            BY <2>4 DEF EvInotify, Parse
        <3>2. QED  BY <1>1, <3>1
    <2>5. ASSUME NEW t \in Threads, NoteChange(t) PROVE ChangesOwed'
        <3>1. /\ parsed' = parsed /\ wake' = wake
              /\ step'["main"] = step["main"] \/ (step["main"] = "note" /\ step'["main"] = "store")
            BY <2>5 DEF NoteChange
        <3>2. QED  BY <1>1, <3>1
    <2>6. CASE EvConfig \/ EvWaylay
        <3>1. /\ parsed' = parsed /\ step'["main"] = "reload"
            BY <2>6 DEF EvConfig, EvWaylay
        <3>2. QED  BY <1>1, <3>1
    <2>7. QED  BY <2>1, <2>2, <2>3, <2>4, <2>5, <2>6
<1>3. \A q : Covered(q) => Covered(q)'
    BY <1>1 DEF Covered, ThreadCovered, Pending, Binds, RunsRight
<1>4. QED
    BY <1>1, <1>2, <1>3 DEF BindInv, KnownCovered, MessagesRight, Called

\* The worker: it binds by the configuration of the moment, and takes a message away only
\* when the threads it reaches are bound.
LEMMA BindWorker == TypeInv /\ BindInv /\ Worker => BindInv'
<1> SUFFICES ASSUME TypeInv, BindInv, Worker PROVE BindInv'
    OBVIOUS
<1>1. UNCHANGED <<app, threads, alive, fgQ, current, overlooked, owed, mainCfg, wake, step, parsed>>
    <2>1. WorkerAlone
        BY DEF Worker, WorkerNext, ApplyAll, ApplyPkg, ApplyPkgAwake, ApplyPkgByName, ApplyThread, EvictUid
    <2>2. QED  BY <2>1 DEF Worker, WorkerAlone, deviceVars, historyVars, tableVars
<1>2. ChangesOwed'
    BY <1>1 DEF BindInv, ChangesOwed
<1>3. /\ app \in [Pids -> Apps \cup {None}] /\ alive \subseteq {p \in Pids : app[p] # None}
      /\ threads \in [Pids -> SUBSET Names]
      /\ workQ \in Seq(Message) /\ asleep \in ColdStart \cup {None}
      /\ known \in [Apps -> Pids \cup {None}] /\ bound \in [Pids -> 0..MaxRule]
      /\ MaxRule \in Nat /\ \A a \in Apps : current.cpu[a] \in 0..MaxRule
    BY WorkerAssumption DEF TypeInv, ProbeTypeOK, WorkerTypeOK, Config
\* Who is bound runs under the rules of the moment, who is not keeps what it had.
<1>4. ASSUME NEW ps \in SUBSET alive, ApplyTids(ps)
      PROVE  /\ \A p \in ps : \A n \in threads[p] : RunsRight(p, n)'
             /\ \A p \in alive : \A n \in threads[p] : RunsRight(p, n) => RunsRight(p, n)'
    <2>1. \A p \in Pids : bound'[p] = IF p \in ps /\ current.cpu[app[p]] > 0
                                      THEN current.cpu[app[p]] ELSE bound[p]
        BY <1>4 DEF ApplyTids
    <2>2. \A p \in alive : p \in Pids /\ app[p] \in Apps /\ threads[p] \subseteq Names
        BY <1>3
    <2>3. ASSUME NEW p \in ps, NEW n \in threads[p] PROVE RunsRight(p, n)'
        <3>1. n \in Names /\ p \in Pids /\ app[p] \in Apps
            BY <2>2, <2>3
        <3>2. CASE current.cpu[app[p]] > 0
            BY <1>1, <2>1, <3>1, <3>2 DEF RunsRight
        <3>3. CASE ~(current.cpu[app[p]] > 0)
            <4>1. current.cpu[app[p]] = 0
                BY <1>3, <3>1, <3>3
            <4>2. RuleFor[current'.cpu[app'[p]]][n] = 0
                BY <1>1, <3>1, <4>1, WorkerAssumption
            <4>3. QED  BY <4>2 DEF RunsRight
        <3>4. QED  BY <3>2, <3>3
    <2>4. ASSUME NEW p \in alive, NEW n \in threads[p], RunsRight(p, n) PROVE RunsRight(p, n)'
        <3>1. CASE p \in ps
            BY <2>3, <2>4, <3>1
        <3>2. CASE p \notin ps
            BY <1>1, <2>1, <2>2, <2>4, <3>2 DEF RunsRight
        <3>3. QED  BY <3>1, <3>2
    <2>5. QED  BY <2>3, <2>4
<1>5. ASSUME NEW op, Receive(op)
      PROVE  /\ Head(workQ) \in Message /\ Head(workQ).op = op /\ asleep = None
             /\ \A a, n : (\E i \in DOMAIN workQ : Binds(workQ[i], a, n))
                    => Binds(Head(workQ), a, n) \/ \E i \in DOMAIN workQ' : Binds(workQ'[i], a, n)
             /\ \A i \in DOMAIN workQ' : \E j \in DOMAIN workQ : workQ'[i] = workQ[j]
             /\ op = "ApplyPkg" => app[Head(workQ).pid] = Head(workQ).app
    <2>1. asleep = None /\ workQ # <<>> /\ Head(workQ).op = op /\ workQ' = Tail(workQ)
        BY <1>5 DEF Receive
    <2>2. /\ Head(workQ) \in Message /\ Head(workQ) = workQ[1] /\ 1 \in DOMAIN workQ
          /\ \A i \in DOMAIN Tail(workQ) : i + 1 \in DOMAIN workQ /\ Tail(workQ)[i] = workQ[i + 1]
        BY <1>3, <2>1
    <2>3. \A i \in DOMAIN workQ : workQ[i] = Head(workQ) \/ \E j \in DOMAIN workQ' : workQ'[j] = workQ[i]
        BY <1>3, <2>1, TailRange
    <2>4. QED  BY <2>1, <2>2, <2>3 DEF BindInv, MessagesRight
\* A step after which the threads that the message it took away reaches are bound keeps the
\* coverage.
<1>6. ASSUME \A p \in alive : \A n \in threads[p] : RunsRight(p, n) => RunsRight(p, n)',
             \A p \in alive : \A n \in threads[p] : Pending(app[p], n) =>
                 Pending(app[p], n)' \/ RunsRight(p, n)'
      PROVE  \A p \in alive : Covered(p) => Covered(p)'
    <2>1. ASSUME NEW p \in alive, NEW n \in threads[p], ThreadCovered(p, n)
          PROVE  ThreadCovered(p, n)'
        <3>1. UNCHANGED <<app[p], overlooked, owed>>
            BY <1>1
        <3> HIDE DEF Pending, RunsRight
        <3>2. CASE <<app[p], n>> \in overlooked \cup owed
            BY <3>1, <3>2 DEF ThreadCovered
        <3>3. CASE RunsRight(p, n)
            BY <1>6, <3>3 DEF ThreadCovered
        <3>4. CASE Pending(app[p], n)
            BY <1>6, <3>4 DEF ThreadCovered
        <3>5. QED  BY <2>1, <3>2, <3>3, <3>4 DEF ThreadCovered
    <2>2. QED  BY <1>1, <2>1 DEF Covered
<1>7. ASSUME \A p \in alive : Covered(p) => Covered(p)',
             \A a \in Apps : \A p : known'[a] = p /\ p # None =>
                 known[a] = p \/ (app[p] = a /\ (p \in alive => Covered(p)')),
             MessagesRight'
      PROVE  BindInv'
    BY <1>1, <1>2, <1>7 DEF BindInv, KnownCovered, Called
<1>8. CASE ApplyAll
    <2>1. /\ Receive("ApplyAll") /\ ApplyTids({p \in alive : app[p] \in Head(workQ).apps})
          /\ known' = known /\ asleep' = asleep
        BY <1>8 DEF ApplyAll
    <2> DEFINE ps == {p \in alive : app[p] \in Head(workQ).apps}
    <2>2. /\ \A p \in ps : \A n \in threads[p] : RunsRight(p, n)'
          /\ \A p \in alive : \A n \in threads[p] : RunsRight(p, n) => RunsRight(p, n)'
        BY <1>4, <2>1
    <2>3. ASSUME NEW p \in alive, NEW n \in threads[p], Pending(app[p], n), ~Pending(app[p], n)'
          PROVE  p \in ps
        <3>1. Head(workQ).op = "ApplyAll" /\ asleep = None
            BY <1>5, <2>1
        <3>2. Binds(Head(workQ), app[p], n)
            BY <1>1, <1>5, <2>1, <2>3 DEF Pending
        <3>3. QED  BY <3>1, <3>2 DEF Binds
    <2> HIDE DEF ps
    <2>4. \A p \in alive : Covered(p) => Covered(p)'
        BY <1>6, <2>2, <2>3
    <2>5. MessagesRight'
        BY <1>1, <1>5, <2>1 DEF BindInv, MessagesRight
    <2>6. QED  BY <1>7, <2>1, <2>4, <2>5
<1>9. CASE ApplyPkg
    <2>1. PICK m : /\ m = Head(workQ) /\ known' = [known EXCEPT ![m.app] = m.pid] /\ asleep' = m
                   /\ Receive("ApplyPkg") /\ bound' = bound
        BY <1>9 DEF ApplyPkg
    <2>2. m \in ColdStart /\ m # None /\ app[m.pid] = m.app /\ asleep = None
        <3>1. m \in ColdStart /\ app[m.pid] = m.app /\ asleep = None
            BY <1>5, <2>1 DEF Message, ColdStart, Edit
        <3>2. m # None
            BY <3>1, WorkerAssumption DEF Message
        <3>3. QED  BY <3>1, <3>2
    <2>3. \A a, n : Pending(a, n) => Pending(a, n)'
        <3>1. ASSUME NEW a, NEW n, Pending(a, n) PROVE Pending(a, n)'
            <4>1. \E i \in DOMAIN workQ : Binds(workQ[i], a, n)
                BY <2>2, <3>1 DEF Pending
            <4>2. Binds(m, a, n) \/ \E i \in DOMAIN workQ' : Binds(workQ'[i], a, n)
                BY <1>5, <2>1, <4>1
            <4>3. m.op = "ApplyPkg"
                BY <1>5, <2>1
            <4>4. CASE Binds(m, a, n)
                BY <2>1, <2>2, <4>3, <4>4 DEF Pending, Binds
            <4>5. CASE \E i \in DOMAIN workQ' : Binds(workQ'[i], a, n)
                BY <4>5 DEF Pending, Binds
            <4>6. QED  BY <4>2, <4>4, <4>5
        <3>2. QED  BY <3>1
    <2>4. \A n : Pending(m.app, n)'
        BY <2>1, <2>2 DEF Pending
    <2>5. m.app \in Apps /\ \A a \in Apps : a # m.app => known'[a] = known[a]
        BY <1>3, <2>1, <2>2 DEF ColdStart
    <2>6. \A p \in alive : Covered(p) => Covered(p)'
        BY <1>1, <2>1, <2>3 DEF Covered, ThreadCovered, RunsRight
    <2>7. known'[m.app] = m.pid /\ app[m.pid] = m.app /\ Covered(m.pid)'
        <3>1. known'[m.app] = m.pid /\ app[m.pid] = m.app
            BY <1>3, <2>1, <2>2, <2>5
        <3>2. QED  BY <1>1, <2>4, <3>1 DEF Covered, ThreadCovered
    <2>8. MessagesRight'
        BY <1>1, <1>5, <2>1, <2>2 DEF BindInv, MessagesRight
    <2>9. QED  BY <1>7, <2>5, <2>6, <2>7, <2>8
<1>10. CASE ApplyPkgAwake
    <2>1. PICK m : /\ m = asleep /\ m # None /\ OnUid(m.app) /\ workQ' = workQ
                   /\ known' = [known EXCEPT ![m.app] = m.pid] /\ asleep' = None
        BY <1>10 DEF ApplyPkgAwake
    <2>2. m.app \in Apps /\ app[m.pid] = m.app
        BY <1>3, <2>1 DEF BindInv, MessagesRight, ColdStart
    <2>3. /\ \A p \in ProcessesOf(m.app) : \A n \in threads[p] : RunsRight(p, n)'
          /\ \A p \in alive : \A n \in threads[p] : RunsRight(p, n) => RunsRight(p, n)'
        BY <1>4, <2>1 DEF OnUid, ProcessesOf
    <2>4. \A p \in alive : \A n \in threads[p] : Pending(app[p], n) =>
             Pending(app[p], n)' \/ RunsRight(p, n)'
        BY <1>1, <2>1, <2>3 DEF Pending, Binds, ProcessesOf
    <2>5. \A p \in alive : Covered(p) => Covered(p)'
        BY <1>6, <2>3, <2>4
    <2>6. m.pid \in alive => Covered(m.pid)'
        BY <1>1, <2>2, <2>3 DEF ProcessesOf, Covered, ThreadCovered
    <2>7. \A a \in Apps : known'[a] = IF a = m.app THEN m.pid ELSE known[a]
        BY <1>3, <2>1
    <2>8. MessagesRight'
        BY <1>1, <2>1 DEF BindInv, MessagesRight
    <2>9. QED  BY <1>7, <2>2, <2>5, <2>6, <2>7, <2>8
<1>11. CASE ApplyPkgByName
    <2>1. PICK a : a = Head(workQ).app
        OBVIOUS
    <2>2. /\ Receive("ApplyPkgByName") /\ asleep' = asleep
          /\ IF UidFound(a)
             THEN /\ OnUid(a)
                  /\ IF ProcessesOf(a) = {} THEN known' = known
                     ELSE \E p \in ProcessesOf(a) : known' = [known EXCEPT ![a] = p]
             ELSE known' = known /\ bound' = bound
        BY <1>11, <2>1 DEF ApplyPkgByName
    <2>3. /\ \A p \in ProcessesOf(a) : \A n \in threads[p] : RunsRight(p, n)'
          /\ \A p \in alive : \A n \in threads[p] : RunsRight(p, n) => RunsRight(p, n)'
        <3>1. CASE UidFound(a)
            BY <1>4, <2>2, <3>1 DEF OnUid, ProcessesOf
        <3>2. CASE ~UidFound(a)
            BY <1>1, <2>2, <3>2 DEF UidFound, RunsRight
        <3>3. QED  BY <3>1, <3>2
    <2>4. \A p \in alive : \A n \in threads[p] : Pending(app[p], n) =>
             Pending(app[p], n)' \/ RunsRight(p, n)'
        <3>1. ASSUME NEW p \in alive, NEW n \in threads[p], Pending(app[p], n), ~Pending(app[p], n)'
              PROVE  p \in ProcessesOf(a)
            <4>1. Head(workQ).op = "ApplyPkgByName" /\ asleep = None
                BY <1>5, <2>2
            <4>2. Binds(Head(workQ), app[p], n)
                BY <1>1, <1>5, <2>2, <3>1 DEF Pending
            <4>3. QED  BY <2>1, <3>1, <4>1, <4>2 DEF Binds, ProcessesOf
        <3>2. QED  BY <2>3, <3>1
    <2>5. \A p \in alive : Covered(p) => Covered(p)'
        BY <1>6, <2>3, <2>4
    <2>6. a \in Apps
        BY <1>5, <2>1, <2>2 DEF Message, ColdStart, Edit
    <2>7. \/ known' = known
          \/ \E p \in ProcessesOf(a) : known' = [known EXCEPT ![a] = p]
        BY <2>2
    <2>8. ASSUME NEW b \in Apps, NEW p, known'[b] = p, known[b] # p
          PROVE  app[p] = b /\ Covered(p)'
        <3>1. b = a /\ p \in ProcessesOf(a)
            BY <1>3, <2>6, <2>7, <2>8
        <3>2. QED  BY <1>1, <2>3, <3>1 DEF ProcessesOf, Covered, ThreadCovered
    <2>9. MessagesRight'
        BY <1>1, <1>5, <2>2 DEF BindInv, MessagesRight
    <2>10. QED  BY <1>7, <2>5, <2>8, <2>9
<1>12. CASE ApplyThread
    <2>1. PICK m : m = Head(workQ)
        OBVIOUS
    <2> DEFINE ps == {p \in ProcessesOf(m.app) : m.thread \in threads[p]}
    <2>2. Receive("ApplyThread") /\ ApplyTids(ps) /\ known' = known /\ asleep' = asleep
        BY <1>12, <2>1 DEF ApplyThread
    <2>3. /\ \A p \in ps : \A n \in threads[p] : RunsRight(p, n)'
          /\ \A p \in alive : \A n \in threads[p] : RunsRight(p, n) => RunsRight(p, n)'
        BY <1>4, <2>2 DEF ProcessesOf
    <2>4. ASSUME NEW p \in alive, NEW n \in threads[p], Pending(app[p], n), ~Pending(app[p], n)'
          PROVE  p \in ps
        <3>1. m.op = "ApplyThread" /\ asleep = None
            BY <1>5, <2>1, <2>2
        <3>2. Binds(m, app[p], n)
            BY <1>1, <1>5, <2>1, <2>2, <2>4 DEF Pending
        <3>3. QED  BY <2>4, <3>1, <3>2 DEF Binds, ProcessesOf
    <2> HIDE DEF ps
    <2>5. \A p \in alive : Covered(p) => Covered(p)'
        BY <1>6, <2>3, <2>4
    <2>6. MessagesRight'
        BY <1>1, <1>5, <2>2 DEF BindInv, MessagesRight
    <2>7. QED  BY <1>7, <2>2, <2>5, <2>6
<1>13. CASE EvictUid
    <2>1. /\ Receive("EvictUid") /\ asleep' = asleep /\ bound' = bound
          /\ known' \in {known, [known EXCEPT ![Head(workQ).app] = None]}
        BY <1>13 DEF EvictUid
    <2>2. \A a, n : Pending(a, n) => Pending(a, n)'
        <3>1. ASSUME NEW a, NEW n, Pending(a, n) PROVE Pending(a, n)'
            <4>1. Head(workQ).op = "EvictUid" /\ asleep = None
                BY <1>5, <2>1
            <4>2. \E i \in DOMAIN workQ : Binds(workQ[i], a, n)
                BY <3>1, <4>1 DEF Pending
            <4>3. ~Binds(Head(workQ), a, n)
                BY <4>1 DEF Binds
            <4>4. \E i \in DOMAIN workQ' : Binds(workQ'[i], a, n)
                BY <1>5, <2>1, <4>2, <4>3
            <4>5. QED  BY <4>4 DEF Pending, Binds
        <3>2. QED  BY <3>1
    <2>3. \A p \in alive : Covered(p) => Covered(p)'
        BY <1>1, <2>1, <2>2 DEF Covered, ThreadCovered, RunsRight
    <2>4. \A a \in Apps : known'[a] \in {known[a], None}
        BY <1>3, <2>1
    <2>5. MessagesRight'
        BY <1>1, <1>5, <2>1 DEF BindInv, MessagesRight
    <2>6. QED  BY <1>7, <2>3, <2>4, <2>5
<1>14. QED
    BY <1>8, <1>9, <1>10, <1>11, <1>12, <1>13 DEF Worker, WorkerNext

LEMMA BindStep == TypeInv /\ BindInv /\ [Next]_vars => BindInv'
BY BindDevice, BindOnFg, BindOnExit, BindReload, BindStore, BindAside, BindWorker DEF Next

LEMMA BindHolds == Spec => []BindInv
BY TypesHold, BindInit, BindStep, PTL DEF Spec

\* When nothing is left to do, every thread of every process in front runs under the rule its
\* name has now, after an edit of this rule as well, unless the loop overlooked it: no message
\* that reaches the thread was sent when the rule changed (main.rs:289-312), or the process
\* came to the front while uid_map lacked its application (751).
THEOREM ForegroundIsBound == Spec => []ForegroundBound
<1>1. TypeInv /\ BindInv => ForegroundBound
    <2> SUFFICES ASSUME TypeInv, BindInv, Settled, NEW p \in top, NEW n \in threads[p]
                 PROVE  <<app[p], n>> \in overlooked \/ RunsRight(p, n)
        BY DEF ForegroundBound
    <2>1. p \in alive /\ ~Called(p) /\ ~Pending(app[p], n)
        BY DEF TypeInv, ProbeTypeOK, Settled, Called, Pending
    <2>2. owed = {}
        BY DEF Settled, BindInv, ChangesOwed, Threads, Idle
    <2>3. QED  BY <2>1, <2>2 DEF BindInv, Covered, ThreadCovered
<1>2. QED  BY <1>1, TypesHold, BindHolds, PTL
=============================================================================
