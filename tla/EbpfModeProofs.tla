---------------------------- MODULE EbpfModeProofs ----------------------------
(***************************************************************************)
(* Proofs about EbpfMode for every number of threads, packages and CPUs,   *)
(* every configuration and every capacity of the ring and of APPLIED_MAP.  *)
(***************************************************************************)
EXTENDS EbpfMode, TLAPS

USE RulesAssumption, KernelAssumption, ModeAssumption

\* thread_affinity yields a set of present CPUs.
LEMMA ThreadAffinityType ==
  ASSUME NEW g, NEW n, NEW c \in AppConfig, NEW r \in ThreadAffinity(g, n, c)
  PROVE  r \in AffinityResult
<1> DEFINE matched == {q \in c : q.pkg = g /\ q.isThread /\ n \in q.comms}
           pkgRules == {q \in c : q.pkg = g /\ ~q.isThread}
           used == IF matched # {} THEN matched ELSE pkgRules
<1>1. \A q \in used : q.cpus \in SUBSET Cpus
  BY DEF AppConfig, AffinityRule, CpuSet
<1>2. UNION {q.cpus : q \in used} \in SUBSET Cpus
  BY <1>1
<1>3. CASE used # {}
  <2>1. r = [cpus |-> UNION {q.cpus : q \in used}, isThread |-> matched # {}]
    BY <1>3 DEF ThreadAffinity
  <2>2. QED  BY <2>1, <1>2 DEF AffinityResult, CpuSet
<1>4. CASE used = {}
  <2>1. r = [cpus |-> Cpus, isThread |-> FALSE]
    BY <1>4 DEF ThreadAffinity
  <2>2. QED  BY <2>1 DEF AffinityResult, CpuSet
<1>5. QED  BY <1>3, <1>4

\* An event handed to submit_event leaves the ring a sequence of events.
LEMMA SubmitType ==
  ASSUME NEW r \in Seq(ProcEvent), NEW e \in ProcEvent
  PROVE  Submit(e, r) \in Seq(ProcEvent)
BY DEF Submit

\* What the programs build from a thread, its process and a name is an event.
LEMMA EventType0 ==
  ASSUME NEW ty \in EventType, NEW t \in Tids, NEW p \in Tids, NEW c \in Names
  PROVE  Event(ty, t, p, c) \in ProcEvent
BY DEF Event, ProcEvent

-----------------------------------------------------------------------------
(* Type correctness: the kernel side *)

\* What every thread-creating or renaming step stores is a name pair.
LEMMA ProcessNamesType ==
  ASSUME NEW n \in ProcessNames
  PROVE  n[1] \in Pkgs \cup {NoPkg} /\ n[2] \in Comms
BY DEF ProcessNames

\* The system starts well typed.
LEMMA KernelInitType == KernelInit => KernelTypeOK
<1> SUFFICES ASSUME KernelInit PROVE KernelTypeOK
  OBVIOUS
<1>1. PICK n \in [Tids -> ProcessNames] : /\ cmdline = [t \in Tids |-> n[t][1]]
                                         /\ comm = [t \in Tids |-> n[t][2]]
  BY DEF KernelInit
<1>2. cmdline \in [Tids -> Pkgs \cup {NoPkg}] /\ comm \in [Tids -> Comms]
  BY <1>1, ProcessNamesType
<1>3. ring \in Seq(ProcEvent)
  BY DEF KernelInit
<1>4. QED  BY <1>2, <1>3 DEF KernelInit, KernelTypeOK, CpuSet

\* Every step of a thread, with the program it runs into, keeps the types.
LEMMA KernelStepType == KernelTypeOK /\ KernelNext => KernelTypeOK'
<1> SUFFICES ASSUME KernelTypeOK, KernelNext PROVE KernelTypeOK'
  OBVIOUS
<1> USE DEF KernelTypeOK, EnvStep
<1>1. ASSUME NEW t \in Tids, Spawn(t) PROVE KernelTypeOK'
  BY <1>1 DEF Spawn, Born, CpuSet
<1>2. ASSUME NEW t \in Tids, Exit(t) PROVE KernelTypeOK'
  <2>1. Event("EXIT", t, leader[t], NoComm) \in ProcEvent
    BY EventType0 DEF EventType, Names
  <2>2. applied' \in SUBSET Tids /\ lost' \in SUBSET Tids
    BY <1>2 DEF Exit, ExitProgram
  <2>3. ring' \in Seq(ProcEvent)
    <3>1. ring' = ring \/ ring' = Submit(Event("EXIT", t, leader[t], NoComm), ring)
      BY <1>2 DEF Exit, ExitProgram
    <3>2. QED BY <3>1, <2>1, SubmitType
  <2>4. QED  BY <1>2, <2>2, <2>3 DEF Exit
<1>3. ASSUME NEW t \in Tids, Reap(t) PROVE KernelTypeOK'
  BY <1>3 DEF Reap, CpuSet
<1>4. ASSUME NEW t \in Tids, Drift(t) PROVE KernelTypeOK'
  BY <1>4 DEF Drift, CpuSet
<1>5. ASSUME NEW t \in Tids, Input(t) PROVE KernelTypeOK'
  <2>1. Event("INPUT", t, leader[t], NoComm) \in ProcEvent
    BY EventType0 DEF EventType, Names
  <2>2. ring' \in Seq(ProcEvent)
    BY <1>5, <2>1, SubmitType DEF Input
  <2>3. QED  BY <1>5, <2>2 DEF Input
<1>6. ASSUME NEW p \in Tids, NEW c \in Tids, Clone(p, c) PROVE KernelTypeOK'
  <2>1. Event("FORK", c, leader[p], NoComm) \in ProcEvent
    BY EventType0 DEF EventType, Names
  <2>2. ring' \in Seq(ProcEvent) /\ applied' \in SUBSET Tids /\ lost' \in SUBSET Tids
    BY <1>6, <2>1, SubmitType DEF Clone, ForkProgram, AppliedInsert
  <2>3. QED  BY <1>6, <2>2 DEF Clone, Born
<1>7. ASSUME NEW w \in Tids, NEW t \in Tids, NEW c \in Comms, RenameProgram(w, t, c)
      PROVE  ring' \in Seq(ProcEvent) /\ missed' \in SUBSET Tids
  <2>1. Event("RENAME", w, leader[w], c) \in ProcEvent
    BY EventType0 DEF EventType, Names
  <2>2. QED  BY <1>7, <2>1, SubmitType DEF RenameProgram
<1>8. ASSUME NEW w \in Tids, NEW t \in Tids, NEW c \in Comms, Rename(w, t, c)
      PROVE  KernelTypeOK'
  BY <1>8, <1>7 DEF Rename
<1>9. ASSUME NEW p \in Tids, NEW n \in ProcessNames, NameProcess(p, n[1], n[2])
      PROVE  KernelTypeOK'
  <2>1. n[1] \in Pkgs \cup {NoPkg} /\ n[2] \in Comms
    BY ProcessNamesType
  <2>2. ring' \in Seq(ProcEvent) /\ missed' \in SUBSET Tids
    BY <1>9, <1>7, <2>1 DEF NameProcess
  <2>3. QED  BY <1>9, <2>1, <2>2 DEF NameProcess
<1>10. ASSUME NEW p \in Tids, NEW n \in ProcessNames, Exec(p, n[1], n[2])
       PROVE  KernelTypeOK'
  <2>1. n[1] \in Pkgs \cup {NoPkg} /\ n[2] \in Comms
    BY ProcessNamesType
  <2>2. /\ Event("RENAME", p, p, n[2]) \in ProcEvent
        /\ Event("EXEC", p, p, n[2]) \in ProcEvent
    BY <2>1, EventType0 DEF EventType, Names
  <2>3. Submit(Event("RENAME", p, p, n[2]), ring) \in Seq(ProcEvent)
    BY <2>2, SubmitType
  <2>4. ring' \in Seq(ProcEvent)
    BY <1>10, <2>2, <2>3, SubmitType DEF Exec
  <2>5. QED  BY <1>10, <2>1, <2>4 DEF Exec
<1>11. QED
  BY <1>1, <1>2, <1>3, <1>4, <1>5, <1>6, <1>8, <1>9, <1>10 DEF KernelNext

-----------------------------------------------------------------------------
(* Type correctness: the daemon *)

\* What the main thread stores when it has decided about a thread.
LEMMA TaskApplyType ==
  ASSUME TypeOK, NEW t \in Tids, NEW p \in Tids, NEW g \in Pkgs, NEW n,
         NEW ret \in {"recv", "tids"}, ret = "tids" => cur # NoEntry, NEW purge \in BOOLEAN,
         TaskApply(t, p, g, n, ret, purge)
  PROVE  /\ cache' \in [Tids -> TaskEntry \cup {NoEntry}]
         /\ applied' \in SUBSET Tids
         /\ aff' \in [Tids -> CpuSet]
         /\ env' \in Nat
         /\ kept' \in [Tids -> Pkgs \cup {NoPkg}]
         /\ pc' \in {ret, "mark"}
         /\ work' \in [tid : Tids, entry : TaskEntry, ret : {"recv", "tids"}] \cup {NoWork}
         /\ pc' = "mark" => work' # NoWork /\ work'.ret = ret
<1> DEFINE result == ThreadAffinity(g, RuleName(g, n, cfg), cfg)
           protected == Protected(t, result)
           refused == result = {} \/ (~protected /\ ~Exists(t))
<1> USE DEF TypeOK, KernelTypeOK
<1>k. kept' = [kept EXCEPT ![t] = g] \/ kept' = [kept EXCEPT ![t] = NoPkg]
  BY DEF TaskApply
<1>1. CASE protected /\ pc' = ret /\ UNCHANGED <<cache, applied, aff, env, work>>
  BY <1>1, <1>k
<1>2. CASE /\ refused
           /\ cache' = IF purge \/ result # {} THEN [cache EXCEPT ![t] = NoEntry] ELSE cache
           /\ applied' = IF purge THEN applied \ {t} ELSE applied
           /\ pc' = ret
           /\ UNCHANGED <<aff, env, work>>
  <2> HIDE DEF result, protected, refused
  <2>1. cache' \in [Tids -> TaskEntry \cup {NoEntry}]
    BY <1>2
  <2>2. QED  BY <1>2, <1>k, <2>1
<1>3. ASSUME NEW r \in result,
             SetAffinity(t, r.cpus),
             work' = [tid |-> t, entry |-> Entry(p, g, r), ret |-> ret],
             pc' = "mark",
             UNCHANGED <<cache, applied>>
      PROVE  /\ cache' \in [Tids -> TaskEntry \cup {NoEntry}]
             /\ applied' \in SUBSET Tids
             /\ aff' \in [Tids -> CpuSet]
             /\ env' \in Nat
             /\ kept' \in [Tids -> Pkgs \cup {NoPkg}]
             /\ pc' \in {ret, "mark"}
             /\ work' \in [tid : Tids, entry : TaskEntry, ret : {"recv", "tids"}] \cup {NoWork}
             /\ pc' = "mark" => work' # NoWork /\ work'.ret = ret
  <2>1. r \in AffinityResult
    <3>1. cfg \in AppConfig
      OBVIOUS
    <3>2. QED  BY <3>1, <1>3, ThreadAffinityType
  <2> HIDE DEF result
  <2>2. Entry(p, g, r) \in TaskEntry
    BY <2>1 DEF Entry, TaskEntry, AffinityResult
  <2>3. aff' \in [Tids -> CpuSet] /\ env' \in Nat
    BY <1>3, <2>1 DEF SetAffinity, EnvStep, AffinityResult
  <2>4. /\ work' \in [tid : Tids, entry : TaskEntry, ret : {"recv", "tids"}]
        /\ work' # NoWork /\ work'.ret = ret
    <3>1. work'.tid # 0 /\ NoWork.tid = 0
      BY <1>3 DEF NoWork
    <3>2. QED  BY <1>3, <2>2, <3>1
  <2>5. QED  BY <1>3, <1>k, <2>3, <2>4
<1>4. QED  BY <1>1, <1>2, <1>3 DEF TaskApply

\* The daemon starts well typed.
LEMMA InitType == Init => TypeOK
<1> SUFFICES ASSUME Init PROVE TypeOK
  OBVIOUS
<1>1. KernelTypeOK  BY KernelInitType DEF Init
<1>2. chan \in Seq(ProcEvent)  BY DEF Init
<1>3. cache \in [Tids -> TaskEntry \cup {NoEntry}]  BY DEF Init, EmptyCache
<1>4. QED  BY <1>1, <1>2, <1>3 DEF Init, TypeOK, Places, NoWork

\* The packages of a configuration are packages.
LEMMA CfgPkgsType == ASSUME NEW c \in AppConfig PROVE CfgPkgs(c) \in SUBSET Pkgs
BY DEF CfgPkgs, AppConfig, AffinityRule

\* pkg_lookup_comm yields packages.
LEMMA PkgLookupType ==
  ASSUME TypeOK, NEW p \in Tids, NEW n \in Names
  PROVE  PkgLookupComm(p, n) \in SUBSET Pkgs
<1>1. CommToPkg(n, cfg) \in SUBSET Pkgs
  <2>1. CfgPkgs(cfg) \in SUBSET Pkgs
    BY CfgPkgsType DEF TypeOK
  <2>2. QED  BY <2>1 DEF CommToPkg
<1>2. {cache[q].pkg : q \in {p} \cap Cached} \in SUBSET Pkgs
  BY DEF TypeOK, Cached, TaskEntry
<1>3. QED  BY <1>1, <1>2 DEF PkgLookupComm

\* What event_dispatch takes from the channel is an event.
LEMMA HeadType == ASSUME TypeOK, chan # <<>> PROVE Head(chan) \in ProcEvent /\ Tail(chan) \in Seq(ProcEvent)
BY DEF TypeOK

\* The steps of the main thread that work on the configuration and the walk.
LEMMA WalkStepType ==
  ASSUME TypeOK,
         \/ SwapFlag \/ ReadConfig \/ WhitelistClear \/ WhitelistFill
         \/ ScanStart \/ ClearDone \/ WalkDone \/ TidsDone
         \/ \E t \in Tids : ClearOne(t) \/ WalkProc(t)
  PROVE  TypeOK'
<1> USE DEF TypeOK, KernelTypeOK, Places, threadVars, kernelVars, loaderVars, walkVars, historyVars
<1>1. CASE SwapFlag  BY <1>1 DEF SwapFlag
<1>2. CASE ReadConfig  BY <1>2 DEF ReadConfig
<1>3. CASE WhitelistClear  BY <1>3 DEF WhitelistClear
<1>4. CASE WhitelistFill
  <2>1. CfgPkgs(cfg) \in SUBSET Pkgs  BY CfgPkgsType
  <2>2. QED  BY <1>4, <2>1 DEF WhitelistFill
<1>5. CASE ScanStart  BY <1>5 DEF ScanStart, EmptyCache
<1>6. CASE ClearDone  BY <1>6 DEF ClearDone
<1>7. CASE WalkDone  BY <1>7 DEF WalkDone
<1>8. CASE TidsDone  BY <1>8 DEF TidsDone
<1>9. ASSUME NEW t \in Tids, ClearOne(t) PROVE TypeOK'
  BY <1>9 DEF ClearOne
<1>10. ASSUME NEW t \in Tids, WalkProc(t) PROVE TypeOK'
  <2>1. CfgPkgs(cfg) \in SUBSET Pkgs  BY CfgPkgsType
  <2>2. CASE ProcName(t) \cap CfgPkgs(cfg) = {}
    BY <1>10, <2>2 DEF WalkProc
  <2>3. CASE ProcName(t) \cap CfgPkgs(cfg) # {}
    <3>1. PICK g \in ProcName(t) \cap CfgPkgs(cfg) : cur' = [pid |-> t, pkg |-> g]
      BY <1>10, <2>3 DEF WalkProc
    <3>2. cur' \in Process
      BY <3>1, <2>1 DEF Process
    <3>3. cur' # NoEntry
      BY <3>2
    <3>4. QED  BY <1>10, <2>3, <3>2, <3>3 DEF WalkProc, Threads
  <2>4. QED  BY <2>2, <2>3
<1>11. QED
  BY <1>1, <1>2, <1>3, <1>4, <1>5, <1>6, <1>7, <1>8, <1>9, <1>10

\* The steps of the main thread that touch one thread of the system.
LEMMA ApplyStepType ==
  ASSUME TypeOK,
         \/ Mark
         \/ \E t \in Tids : ScanTid(t)
         \/ DispatchExit \/ DispatchOther \/ DispatchNaming \/ Drained
  PROVE  TypeOK'
<1> USE DEF threadVars, kernelVars, loaderVars, walkVars, historyVars
<1>1. CASE Mark
  <2>1. work \in [tid : Tids, entry : TaskEntry, ret : {"recv", "tids"}]
    BY <1>1 DEF TypeOK, Mark
  <2>2. applied' \in SUBSET Tids /\ lost' \in SUBSET Tids
    BY <1>1, <2>1 DEF TypeOK, KernelTypeOK, Mark, AppliedInsert
  <2>3. cache' \in [Tids -> TaskEntry \cup {NoEntry}]
    BY <1>1, <2>1 DEF TypeOK, Mark
  <2>4. QED  BY <1>1, <2>1, <2>2, <2>3 DEF TypeOK, KernelTypeOK, Mark, Places
<1>2. ASSUME NEW t \in Tids, ScanTid(t) PROVE TypeOK'
  <2> DEFINE name == IF Exists(t) THEN comm[t] ELSE NoComm
  <2>1. cur \in Process /\ cur # NoEntry
    BY <1>2 DEF TypeOK, ScanTid
  <2>2. cur.pid \in Tids /\ cur.pkg \in Pkgs
    BY <2>1 DEF Process
  <2>3. TaskApply(t, cur.pid, cur.pkg, name, "tids", FALSE)
    BY <1>2 DEF ScanTid
  <2> HIDE DEF name
  <2>4. /\ cache' \in [Tids -> TaskEntry \cup {NoEntry}]
        /\ applied' \in SUBSET Tids
        /\ aff' \in [Tids -> CpuSet]
        /\ env' \in Nat
        /\ kept' \in [Tids -> Pkgs \cup {NoPkg}]
        /\ pc' \in {"tids", "mark"}
        /\ work' \in [tid : Tids, entry : TaskEntry, ret : {"recv", "tids"}] \cup {NoWork}
        /\ pc' = "mark" => work' # NoWork
    BY <2>1, <2>2, <2>3, TaskApplyType
  <2>5. todo' \in SUBSET Tids /\ missed' \in SUBSET Tids /\ cur' = cur
    BY <1>2 DEF ScanTid, TypeOK, KernelTypeOK
  <2>6. QED  BY <1>2, <2>1, <2>4, <2>5 DEF TypeOK, KernelTypeOK, ScanTid, Places
<1>3. CASE DispatchExit
  <2>1. Head(chan) \in ProcEvent /\ Tail(chan) \in Seq(ProcEvent)
    BY <1>3, HeadType DEF DispatchExit, Receive
  <2>2. QED  BY <1>3, <2>1 DEF DispatchExit, Receive, TypeOK, KernelTypeOK, ProcEvent
<1>4. CASE DispatchOther
  <2>1. Tail(chan) \in Seq(ProcEvent)
    BY <1>4, HeadType DEF DispatchOther, Receive
  <2>2. QED  BY <1>4, <2>1 DEF DispatchOther, Receive, TypeOK, KernelTypeOK
<1>5. CASE DispatchNaming
  <2> DEFINE e == Head(chan)
             pkgs == PkgLookupComm(e.pid, e.comm)
  <2>1. Receive({"RENAME", "EXEC"}) /\ pc = "recv" /\ chan # <<>>
    BY <1>5 DEF DispatchNaming, Receive
  <2>2. e \in ProcEvent /\ Tail(chan) \in Seq(ProcEvent)
    BY <2>1, HeadType
  <2>3. e.tid \in Tids /\ e.pid \in Tids /\ e.comm \in Names
    BY <2>2 DEF ProcEvent
  <2>4. pkgs \in SUBSET Pkgs
    BY <2>3, PkgLookupType
  <2>5. missed' \in SUBSET Tids /\ lost' = lost
    <3>1. missed' = missed \/ missed' = missed \cup {e.tid}
      BY <1>5 DEF DispatchNaming
    <3>2. lost' = lost
      BY <1>5 DEF DispatchNaming
    <3>3. missed \in SUBSET Tids
      BY DEF TypeOK, KernelTypeOK
    <3> HIDE DEF e
    <3>4. QED  BY <2>3, <3>1, <3>2, <3>3
  <2>6. /\ cache' \in [Tids -> TaskEntry \cup {NoEntry}]
        /\ applied' \in SUBSET Tids
        /\ aff' \in [Tids -> CpuSet]
        /\ env' \in Nat
        /\ kept' \in [Tids -> Pkgs \cup {NoPkg}]
        /\ pc' \in {"recv", "mark"}
        /\ work' \in [tid : Tids, entry : TaskEntry, ret : {"recv", "tids"}] \cup {NoWork}
        /\ pc' = "mark" => work' # NoWork /\ work'.ret = "recv"
    <3>1. ASSUME NEW g \in pkgs, TaskApply(e.tid, e.pid, g, e.comm, "recv", e.type = "EXEC")
          PROVE  <2>6!:
      BY <2>3, <2>4, <3>1, TaskApplyType
    <3>2. CASE /\ cache' = IF e.type = "EXEC" THEN [cache EXCEPT ![e.tid] = NoEntry] ELSE cache
               /\ applied' = IF e.type = "EXEC" THEN applied \ {e.tid} ELSE applied
               /\ UNCHANGED <<aff, env, pc, work, kept>>
      BY <2>1, <3>2 DEF TypeOK, KernelTypeOK
    <3>3. QED  BY <1>5, <3>1, <3>2 DEF DispatchNaming
  <2> HIDE DEF e, pkgs
  <2>7. QED
    BY <2>1, <2>2, <2>5, <2>6 DEF Receive, TypeOK, KernelTypeOK, Places
<1>6. CASE Drained  BY <1>6 DEF Drained, TypeOK, KernelTypeOK, Places
<1>7. QED  BY <1>1, <1>2, <1>3, <1>4, <1>5, <1>6

\* The periodic check.
LEMMA CheckStepType ==
  ASSUME TypeOK,
         \/ CheckSkip \/ CheckStart \/ CheckDone \/ PurgeDone
         \/ \E t \in Tids : CheckOne(t) \/ PurgeOne(t)
  PROVE  TypeOK'
<1> USE DEF TypeOK, KernelTypeOK, Places, threadVars, kernelVars, loaderVars, walkVars, historyVars
<1>1. CASE CheckSkip  BY <1>1 DEF CheckSkip
<1>2. CASE CheckStart  BY <1>2 DEF CheckStart, Cached
<1>3. CASE CheckDone  BY <1>3 DEF CheckDone
<1>4. CASE PurgeDone  BY <1>4 DEF PurgeDone
<1>5. ASSUME NEW t \in Tids, PurgeOne(t) PROVE TypeOK'
  BY <1>5 DEF PurgeOne
<1>6. ASSUME NEW t \in Tids, CheckOne(t) PROVE TypeOK'
  <2>1. cache[t].cpus \in CpuSet
    BY <1>6 DEF CheckOne, Cached, TaskEntry
  <2>2. aff' \in [Tids -> CpuSet] /\ env' \in Nat /\ dead' \in SUBSET Tids
    <3>1. \/ SetAffinity(t, cache[t].cpus) /\ UNCHANGED dead
          \/ dead' = dead \cup {t} /\ UNCHANGED <<aff, env>>
      BY <1>6 DEF CheckOne
    <3>2. aff \in [Tids -> CpuSet] /\ env \in Nat /\ dead \in SUBSET Tids
      OBVIOUS
    <3> HIDE DEF TypeOK, KernelTypeOK
    <3>3. CASE SetAffinity(t, cache[t].cpus) /\ UNCHANGED dead
      BY <2>1, <3>2, <3>3 DEF SetAffinity, EnvStep
    <3>4. CASE dead' = dead \cup {t} /\ UNCHANGED <<aff, env>>
      BY <3>2, <3>4
    <3>5. QED  BY <3>1, <3>3, <3>4
  <2>3. todo' \subseteq Cached'
    BY <1>6 DEF CheckOne, Cached
  <2>4. QED  BY <1>6, <2>2, <2>3 DEF CheckOne
<1>7. QED  BY <1>1, <1>2, <1>3, <1>4, <1>5, <1>6

\* Every step of the composed system keeps the types.
LEMMA StepType == TypeOK /\ [Next]_vars => TypeOK'
<1> SUFFICES ASSUME TypeOK, [Next]_vars PROVE TypeOK'
  OBVIOUS
<1> USE DEF threadVars, kernelVars, loaderVars, walkVars, mainVars, historyVars
<1>1. CASE MainNext
  BY <1>1, WalkStepType, ApplyStepType, CheckStepType DEF MainNext
<1>2. CASE Kernel
  <2>1. KernelTypeOK'
    BY <1>2, KernelStepType DEF Kernel, TypeOK
  <2>2. QED  BY <1>2, <2>1 DEF Kernel, TypeOK, Cached
<1>3. CASE Read
  <2>1. ring \in Seq(ProcEvent) /\ chan \in Seq(ProcEvent) /\ ring # <<>>
    BY <1>3 DEF Read, TypeOK, KernelTypeOK
  <2>2. Tail(ring) \in Seq(ProcEvent) /\ Append(chan, Head(ring)) \in Seq(ProcEvent)
    BY <2>1
  <2>3. QED  BY <1>3, <2>2 DEF Read, TypeOK, KernelTypeOK, Cached
<1>4. ASSUME NEW c \in Configs, Publish(c) PROVE TypeOK'
  BY <1>4 DEF Publish, EnvStep, TypeOK, KernelTypeOK, Cached
<1>5. CASE Announce
  BY <1>5 DEF Announce, TypeOK, KernelTypeOK, Cached
<1>6. CASE UNCHANGED vars
  BY <1>6 DEF vars, TypeOK, KernelTypeOK, Cached
<1>7. QED  BY <1>1, <1>2, <1>3, <1>4, <1>5, <1>6 DEF Next

\* Every variable keeps its type, whatever the kernel, the reader, the loader
\* and the main thread do: in particular the main thread never reaches the
\* point where it marks a thread without having decided which, and never
\* enforces an entry that is not in the cache.
THEOREM TypeCorrect == Spec => []TypeOK
<1>1. Init => TypeOK  BY InitType
<1>2. TypeOK /\ [Next]_vars => TypeOK'  BY StepType
<1>3. QED  BY <1>1, <1>2, PTL DEF Spec

-----------------------------------------------------------------------------
(* Deaths are noticed: CacheTracked *)

\* The events of the ring stay in it when another one is submitted; the
\* submitted one is there unless the ring was full.
LEMMA SubmitKeeps ==
  ASSUME NEW r \in Seq(ProcEvent), NEW e \in ProcEvent
  PROVE  /\ \A i \in DOMAIN r : i \in DOMAIN Submit(e, r) /\ Submit(e, r)[i] = r[i]
         /\ Fits(r) => \E i \in DOMAIN Submit(e, r) : Submit(e, r)[i] = e
<1>1. CASE Fits(r)
  <2>1. Submit(e, r) = Append(r, e)
    BY <1>1 DEF Submit
  <2>2. Append(r, e)[Len(r) + 1] = e /\ Len(r) + 1 \in DOMAIN Append(r, e)
    OBVIOUS
  <2>3. QED  BY <2>1, <2>2
<1>2. CASE ~Fits(r)
  BY <1>2 DEF Submit
<1>3. QED  BY <1>1, <1>2

\* Submitting an event forgets no pending exit.
LEMMA SubmitTracked ==
  ASSUME KernelTypeOK, NEW e \in ProcEvent, NEW t, ExitPending(t),
         ring' = Submit(e, ring) \/ ring' = ring, chan' = chan
  PROVE  ExitPending(t)'
<1>1. \A i \in DOMAIN ring : i \in DOMAIN ring' /\ ring'[i] = ring[i]
  BY SubmitKeeps DEF KernelTypeOK
<1>2. InFlight \subseteq InFlight'
  BY <1>1 DEF InFlight
<1>3. QED  BY <1>2 DEF ExitPending

\* No step of the kernel side loses track of a thread without a trace.
LEMMA KernelTracked ==
  ASSUME TypeOK, KernelNext, chan' = chan, NEW u \in Tids, Tracked(u)
  PROVE  Tracked(u)'
<1> USE DEF Tracked, KernelTypeOK, TypeOK
<1>1. ASSUME UNCHANGED <<applied, lost, ring>>, Alive(u) => Alive(u)' PROVE Tracked(u)'
  BY <1>1 DEF ExitPending, InFlight
<1>2. ASSUME UNCHANGED <<applied, lost>>, Alive(u) => Alive(u)', NEW e \in ProcEvent,
             ring' = Submit(e, ring) \/ ring' = ring
      PROVE  Tracked(u)'
  BY <1>2, SubmitTracked
<1>3. ASSUME NEW t \in Tids, Spawn(t) \/ Reap(t) \/ Drift(t) PROVE Tracked(u)'
  BY <1>3, <1>1 DEF Spawn, Born, Reap, Drift, Alive
<1>4. ASSUME NEW t \in Tids, Input(t) PROVE Tracked(u)'
  <2>1. Event("INPUT", t, leader[t], NoComm) \in ProcEvent
    BY EventType0 DEF EventType, Names
  <2>2. QED  BY <1>2, <1>4, <2>1 DEF Input, Alive
<1>5. ASSUME NEW t \in Tids, Exit(t) PROVE Tracked(u)'
  <2> DEFINE e == Event("EXIT", t, leader[t], NoComm)
  <2>1. e \in ProcEvent /\ e.tid = t /\ e.type = "EXIT"
    BY EventType0 DEF EventType, Names, Event
  <2>2. CASE t \notin applied
    <3>1. UNCHANGED <<applied, lost, ring>> /\ status' = [status EXCEPT ![t] = "exiting"]
      BY <1>5, <2>2 DEF Exit, ExitProgram
    <3>2. u # t /\ Alive(u) => Alive(u)'
      BY <3>1 DEF Alive
    <3>3. QED  BY <2>2, <3>1, <3>2 DEF ExitPending, InFlight
  <2>3. CASE t \in applied
    <3>1. /\ applied' = applied \ {t}
          /\ ring' = Submit(e, ring)
          /\ lost' = IF Fits(ring) THEN lost ELSE lost \cup {t}
      BY <1>5, <2>3 DEF Exit, ExitProgram
    <3> HIDE DEF e
    <3>2. CASE u = t /\ Fits(ring)
      <4>1. PICK i \in DOMAIN ring' : ring'[i] = e
        BY <2>1, <3>1, <3>2, SubmitKeeps
      <4>2. e \in InFlight'
        BY <4>1 DEF InFlight
      <4>3. QED  BY <2>1, <3>2, <4>2 DEF ExitPending
    <3>3. CASE u = t /\ ~Fits(ring)
      BY <3>1, <3>3
    <3>4. CASE u # t
      <4>1. ExitPending(u) => ExitPending(u)'
        BY <2>1, <3>1, SubmitTracked
      <4>2. lost \subseteq lost'
        BY <3>1
      <4>3. Alive(u) => Alive(u)'
        BY <1>5, <3>4 DEF Exit, Alive
      <4>4. QED  BY <3>1, <3>4, <4>1, <4>2, <4>3
    <3>5. QED  BY <3>2, <3>3, <3>4
  <2>4. QED  BY <2>2, <2>3
<1>6. ASSUME NEW p \in Tids, NEW c \in Tids, Clone(p, c) PROVE Tracked(u)'
  <2>1. Event("FORK", c, leader[p], NoComm) \in ProcEvent
    BY EventType0 DEF EventType, Names
  <2>2. ring' = ring \/ ring' = Submit(Event("FORK", c, leader[p], NoComm), ring)
    BY <1>6 DEF Clone, ForkProgram
  <2>3. ExitPending(u) => ExitPending(u)'
    BY <2>1, <2>2, SubmitTracked
  <2>4. applied \subseteq applied' \cup lost' /\ lost \subseteq lost'
    BY <1>6 DEF Clone, ForkProgram, AppliedInsert
  <2>5. Alive(u) => Alive(u)'
    BY <1>6 DEF Clone, Born, Alive
  <2>6. QED  BY <2>3, <2>4, <2>5
<1>7. ASSUME NEW w \in Tids, NEW t \in Tids, NEW c \in Comms, RenameProgram(w, t, c),
             UNCHANGED <<status, applied, lost>>
      PROVE  Tracked(u)'
  <2>1. Event("RENAME", w, leader[w], c) \in ProcEvent
    BY EventType0 DEF EventType, Names
  <2>2. ring' = ring \/ ring' = Submit(Event("RENAME", w, leader[w], c), ring)
    BY <1>7 DEF RenameProgram
  <2>3. QED  BY <1>2, <1>7, <2>1, <2>2 DEF Alive
<1>8. ASSUME NEW w \in Tids, NEW t \in Tids, NEW c \in Comms, Rename(w, t, c) PROVE Tracked(u)'
  BY <1>7, <1>8 DEF Rename
<1>9. ASSUME NEW p \in Tids, NEW n \in ProcessNames, NameProcess(p, n[1], n[2]) PROVE Tracked(u)'
  BY <1>7, <1>9, ProcessNamesType DEF NameProcess
<1>10. ASSUME NEW p \in Tids, NEW n \in ProcessNames, Exec(p, n[1], n[2]) PROVE Tracked(u)'
  <2> DEFINE r == Event("RENAME", p, p, n[2])
             x == Event("EXEC", p, p, n[2])
  <2>1. r \in ProcEvent /\ x \in ProcEvent
    BY ProcessNamesType, EventType0 DEF EventType, Names
  <2>2. ring' = ring \/ ring' = Submit(x, Submit(r, ring))
    BY <1>10 DEF Exec
  <2> HIDE DEF r, x
  <2>3. Submit(r, ring) \in Seq(ProcEvent)
    BY <2>1, SubmitType
  <2>4. \A i \in DOMAIN ring : i \in DOMAIN ring' /\ ring'[i] = ring[i]
    <3>1. CASE ring' = ring  BY <3>1
    <3>2. CASE ring' = Submit(x, Submit(r, ring))
      <4>1. \A i \in DOMAIN ring :
              i \in DOMAIN Submit(r, ring) /\ Submit(r, ring)[i] = ring[i]
        BY <2>1, SubmitKeeps
      <4>2. \A i \in DOMAIN Submit(r, ring) : i \in DOMAIN ring' /\ ring'[i] = Submit(r, ring)[i]
        BY <2>1, <2>3, <3>2, SubmitKeeps
      <4>3. QED  BY <4>1, <4>2
    <3>3. QED  BY <2>2, <3>1, <3>2
  <2>5. InFlight \subseteq InFlight'
    BY <2>4 DEF InFlight
  <2>6. UNCHANGED <<status, applied, lost>>
    BY <1>10 DEF Exec
  <2>7. QED  BY <2>5, <2>6 DEF ExitPending, Alive
<1>11. QED
  BY <1>3, <1>4, <1>5, <1>6, <1>8, <1>9, <1>10 DEF KernelNext

\* What follows only has to watch the cache, APPLIED_MAP and the pending exits.
LEMMA KeepTracked ==
  ASSUME CacheTracked, status' = status, Cached' \subseteq Cached,
         \A t \in Cached' : t \in applied => t \in applied',
         lost \subseteq lost',
         \A t \in Cached' : ExitPending(t) => ExitPending(t)'
  PROVE  CacheTracked'
BY DEF CacheTracked, Tracked, Alive

\* No event leaves the two queues when neither changes.
LEMMA QueuesKept == ASSUME UNCHANGED <<ring, chan>>, NEW t, ExitPending(t) PROVE ExitPending(t)'
BY DEF ExitPending, InFlight

\* An event the reader moves stays in flight.
LEMMA ReadKeeps == ASSUME TypeOK, Read, NEW t, ExitPending(t) PROVE ExitPending(t)'
<1>1. ring \in Seq(ProcEvent) /\ chan \in Seq(ProcEvent) /\ ring # <<>>
  BY DEF Read, TypeOK, KernelTypeOK
<1>2. ring' = Tail(ring) /\ chan' = Append(chan, Head(ring))
  BY DEF Read
<1>3. \A i \in DOMAIN chan : i \in DOMAIN chan' /\ chan'[i] = chan[i]
  BY <1>1, <1>2
<1>4. ring[1] = chan'[Len(chan) + 1] /\ Len(chan) + 1 \in DOMAIN chan'
  BY <1>1, <1>2
<1>5. \A i \in DOMAIN ring : i # 1 => i - 1 \in DOMAIN ring' /\ ring'[i - 1] = ring[i]
  BY <1>1, <1>2
<1>6. InFlight \subseteq InFlight'
  BY <1>3, <1>4, <1>5 DEF InFlight
<1>7. QED  BY <1>6 DEF ExitPending

\* Taking the first event from the channel forgets no pending exit but its own.
LEMMA ReceiveKeeps ==
  ASSUME TypeOK, chan # <<>>, chan' = Tail(chan), ring' = ring, NEW t, ExitPending(t),
         Head(chan).type # "EXIT" \/ Head(chan).tid # t
  PROVE  ExitPending(t)'
<1>1. chan \in Seq(ProcEvent)
  BY DEF TypeOK
<1>2. PICK e \in InFlight : e.tid = t /\ e.type = "EXIT"
  BY DEF ExitPending
<1>3. e # chan[1]
  BY <1>1, <1>2
<1>4. \A i \in DOMAIN chan : i # 1 => i - 1 \in DOMAIN chan' /\ chan'[i - 1] = chan[i]
  BY <1>1
<1>5. \A x : (\E i \in DOMAIN ring' : x = ring'[i]) \/ (\E i \in DOMAIN chan' : x = chan'[i])
             => x \in InFlight'
  BY ONLY DEF InFlight
<1>6. (\E i \in DOMAIN ring : e = ring[i]) \/ (\E i \in DOMAIN chan : e = chan[i])
  BY ONLY <1>2 DEF InFlight
<1>7. e \in InFlight'
  <2>1. CASE \E i \in DOMAIN ring : e = ring[i]
    BY <1>5, <2>1
  <2>2. CASE \E i \in DOMAIN chan : e = chan[i]
    BY <1>3, <1>4, <1>5, <2>2
  <2>3. QED  BY <1>6, <2>1, <2>2
<1>8. QED  BY <1>2, <1>7 DEF ExitPending

\* task_apply removes from APPLIED_MAP no thread that stays in the cache.
LEMMA TaskApplyKeeps ==
  ASSUME TypeOK, NEW t \in Tids, NEW p, NEW g, NEW n, NEW ret, NEW purge,
         TaskApply(t, p, g, n, ret, purge)
  PROVE  /\ Cached' \subseteq Cached
         /\ \A u \in Cached' : u \in applied => u \in applied'
         /\ pc' \in {ret, "mark"}
<1> DEFINE result == ThreadAffinity(g, RuleName(g, n, cfg), cfg)
<1> HIDE DEF result
<1>1. CASE UNCHANGED <<cache, applied>> /\ pc' \in {ret, "mark"}
  BY <1>1 DEF Cached
<1>2. CASE /\ cache' = IF purge \/ result # {} THEN [cache EXCEPT ![t] = NoEntry] ELSE cache
           /\ applied' = IF purge THEN applied \ {t} ELSE applied
           /\ pc' = ret
  <2>1. cache \in [Tids -> TaskEntry \cup {NoEntry}]
    BY DEF TypeOK
  <2>2. Cached' \subseteq Cached /\ (purge => t \notin Cached')
    BY <1>2, <2>1 DEF Cached
  <2>3. QED  BY <1>2, <2>2
<1>3. QED  BY <1>1, <1>2 DEF TaskApply, result

\* The first state satisfies the inductive invariant.
LEMMA TrackInit == Init => TrackInv
<1> SUFFICES ASSUME Init PROVE TrackInv
  OBVIOUS
<1>1. Cached = {}
  BY DEF Init, Cached, EmptyCache
<1>2. QED  BY <1>1, InitType DEF TrackInv, CacheTracked, Init

\* Every step preserves it.
LEMMA TrackStep == TrackInv /\ [Next]_vars => TrackInv'
<1> SUFFICES ASSUME TrackInv, [Next]_vars PROVE TrackInv'
  OBVIOUS
<1> USE DEF threadVars, kernelVars, loaderVars, walkVars, mainVars, historyVars
<1>0. TypeOK /\ CacheTracked /\ TypeOK'
  BY StepType DEF TrackInv
<1>a. SUFFICES /\ CacheTracked'
               /\ pc' = "clear" => Cached' = {}
               /\ pc' = "purge" => todo' \cap Cached' = {}
  BY <1>0 DEF TrackInv
<1>b. ASSUME UNCHANGED <<status, cache, applied, lost, ring, chan>> PROVE CacheTracked'
  BY <1>0, <1>b, KeepTracked, QueuesKept DEF Cached
<1>c. ASSUME UNCHANGED <<status, cache, applied, lost, ring, chan>>, pc' \notin {"clear", "purge"}
      PROVE  <1>a!1
  BY <1>b, <1>c
<1>1. CASE \/ SwapFlag \/ ReadConfig \/ WhitelistClear \/ WhitelistFill
           \/ ClearDone \/ WalkDone \/ TidsDone \/ \E t \in Tids : WalkProc(t)
           \/ Drained \/ CheckSkip \/ CheckStart \/ PurgeDone
  <2>1. UNCHANGED <<status, cache, applied, lost, ring, chan>> /\ pc' \notin {"clear", "purge"}
    BY <1>1 DEF SwapFlag, ReadConfig, WhitelistClear, WhitelistFill, ClearDone, WalkDone,
                TidsDone, WalkProc, Drained, CheckSkip, CheckStart, PurgeDone
  <2>2. QED  BY <1>c, <2>1
<1>2. CASE ScanStart
  <2>1. Cached' = {} /\ pc' = "clear"
    BY <1>2 DEF ScanStart, Cached, EmptyCache
  <2>2. QED  BY <2>1 DEF CacheTracked
<1>3. ASSUME NEW t \in Tids, ClearOne(t) PROVE <1>a!1
  <2>1. pc' = "clear" /\ Cached' = Cached /\ Cached = {}
    BY <1>3 DEF ClearOne, TrackInv, Cached
  <2>2. QED  BY <2>1 DEF CacheTracked
<1>4. ASSUME NEW t \in Tids, ScanTid(t) PROVE <1>a!1
  <2>1. PICK n : TaskApply(t, cur.pid, cur.pkg, n, "tids", FALSE)
    BY <1>4 DEF ScanTid
  <2>2. /\ Cached' \subseteq Cached
        /\ \A u \in Cached' : u \in applied => u \in applied'
        /\ pc' \in {"tids", "mark"}
    BY <1>0, <2>1, TaskApplyKeeps
  <2>3. UNCHANGED <<status, ring, chan, lost>>
    BY <1>4 DEF ScanTid
  <2>4. CacheTracked'
    BY <1>0, <2>2, <2>3, KeepTracked, QueuesKept
  <2>5. QED  BY <2>2, <2>4
<1>5. CASE Mark
  <2>1. work.tid \in Tids /\ work.ret \in {"recv", "tids"}
    BY <1>0, <1>5 DEF Mark, TypeOK
  <2>2. PICK evicted \in SUBSET applied :
          /\ applied' = (applied \ evicted) \cup {work.tid}
          /\ lost' = IF Alive(work.tid) \/ ExitPending(work.tid)
                     THEN (lost \cup evicted) \ {work.tid} ELSE lost \cup evicted \cup {work.tid}
    BY <1>5 DEF Mark, AppliedInsert
  <2>3. Cached' \subseteq Cached \cup {work.tid}
    BY <1>0, <1>5, <2>1 DEF Mark, Cached, TypeOK
  <2>4. \A u : ExitPending(u) => ExitPending(u)'
    BY <1>5, QueuesKept DEF Mark
  <2>5. \A u : Alive(u)' <=> Alive(u)
    BY <1>5 DEF Mark, Alive
  <2>6. ASSUME NEW u, u = work.tid PROVE Tracked(u)'
    <3>1. u \in applied' /\ (Alive(u) \/ ExitPending(u) \/ u \in lost')
      BY <2>2, <2>6
    <3>2. QED  BY <2>4, <2>5, <3>1 DEF Tracked
  <2>7. ASSUME NEW u \in Cached', u # work.tid PROVE Tracked(u)'
    <3>1. Tracked(u)
      BY <1>0, <2>3, <2>7 DEF CacheTracked, Cached
    <3>2. lost \ {work.tid} \subseteq lost' /\ evicted \ {work.tid} \subseteq lost'
      BY <2>2
    <3>3. QED  BY <2>2, <2>4, <2>5, <2>7, <3>1, <3>2 DEF Tracked
  <2>8. CacheTracked'
    BY <2>6, <2>7 DEF CacheTracked
  <2>9. QED  BY <1>5, <2>1, <2>8 DEF Mark
<1>6. CASE DispatchExit
  <2> DEFINE e == Head(chan)
  <2>1. /\ chan # <<>> /\ chan' = Tail(chan) /\ UNCHANGED <<status, ring, lost>>
        /\ cache' = [cache EXCEPT ![e.tid] = NoEntry]
        /\ applied' = applied \ {e.tid}
        /\ pc' = "recv"
    BY <1>6 DEF DispatchExit, Receive
  <2> HIDE DEF e
  <2>2. e.tid \in Tids /\ cache \in [Tids -> TaskEntry \cup {NoEntry}]
    BY <1>0, <2>1, HeadType DEF ProcEvent, TypeOK, e
  <2>3. Cached' \subseteq Cached \ {e.tid}
    BY <2>1, <2>2 DEF Cached
  <2>4. \A u \in Cached' : ExitPending(u) => ExitPending(u)'
    BY <1>0, <2>1, <2>3, ReceiveKeeps DEF e
  <2>5. CacheTracked'
    BY <1>0, <2>1, <2>3, <2>4, KeepTracked
  <2>6. QED  BY <2>1, <2>5
<1>7. CASE DispatchOther
  <2>1. /\ chan # <<>> /\ chan' = Tail(chan) /\ Head(chan).type # "EXIT" /\ pc' = "recv"
        /\ UNCHANGED <<status, ring, cache, applied, lost>>
    BY <1>7 DEF DispatchOther, Receive
  <2>2. \A u : ExitPending(u) => ExitPending(u)'
    BY <1>0, <2>1, ReceiveKeeps
  <2>3. CacheTracked'
    BY <1>0, <2>1, <2>2, KeepTracked DEF Cached
  <2>4. QED  BY <2>1, <2>3
<1>8. CASE DispatchNaming
  <2> DEFINE e == Head(chan)
             pkgs == PkgLookupComm(e.pid, e.comm)
             purge == e.type = "EXEC"
  <2>1. /\ chan # <<>> /\ chan' = Tail(chan) /\ Head(chan).type # "EXIT" /\ pc = "recv"
        /\ UNCHANGED <<status, ring, lost>>
    BY <1>8 DEF DispatchNaming, Receive
  <2>2. e.tid \in Tids /\ cache \in [Tids -> TaskEntry \cup {NoEntry}]
    BY <1>0, <2>1, HeadType DEF ProcEvent, TypeOK
  <2>3. \A u : ExitPending(u) => ExitPending(u)'
    BY <1>0, <2>1, ReceiveKeeps
  <2>4. \/ \E g \in pkgs : TaskApply(e.tid, e.pid, g, e.comm, "recv", purge)
        \/ /\ cache' = IF purge THEN [cache EXCEPT ![e.tid] = NoEntry] ELSE cache
           /\ applied' = IF purge THEN applied \ {e.tid} ELSE applied
           /\ pc' = pc
    BY <1>8 DEF DispatchNaming
  <2> HIDE DEF e, pkgs, purge
  <2>5. /\ Cached' \subseteq Cached
        /\ \A u \in Cached' : u \in applied => u \in applied'
        /\ pc' \in {"recv", "mark"}
    <3>1. ASSUME NEW g \in pkgs, TaskApply(e.tid, e.pid, g, e.comm, "recv", purge) PROVE <2>5!:
      BY <1>0, <2>2, <3>1, TaskApplyKeeps
    <3>2. CASE /\ cache' = IF purge THEN [cache EXCEPT ![e.tid] = NoEntry] ELSE cache
               /\ applied' = IF purge THEN applied \ {e.tid} ELSE applied
               /\ pc' = pc
      <4>1. Cached' \subseteq Cached /\ (purge => e.tid \notin Cached')
        BY <2>2, <3>2 DEF Cached
      <4>2. QED  BY <2>1, <3>2, <4>1
    <3>3. QED  BY <2>4, <3>1, <3>2
  <2>6. CacheTracked'
    BY <1>0, <2>1, <2>3, <2>5, KeepTracked
  <2>7. QED  BY <2>5, <2>6
<1>9. ASSUME NEW t \in Tids, CheckOne(t) PROVE <1>a!1
  BY <1>c, <1>9 DEF CheckOne
<1>10. CASE CheckDone
  <2>1. Cached' = Cached \ dead
    BY <1>0, <1>10 DEF CheckDone, Cached, TypeOK
  <2>2. todo' = dead /\ pc' = "purge" /\ UNCHANGED <<status, applied, lost, ring, chan>>
    BY <1>10 DEF CheckDone
  <2>3. CacheTracked'
    BY <1>0, <2>1, <2>2, KeepTracked, QueuesKept
  <2>4. QED  BY <2>1, <2>2, <2>3
<1>11. ASSUME NEW t \in Tids, PurgeOne(t) PROVE <1>a!1
  <2>1. /\ Cached' = Cached /\ t \notin Cached /\ applied' = applied \ {t}
        /\ todo' = todo \ {t} /\ pc' = "purge" /\ todo \cap Cached = {}
        /\ UNCHANGED <<status, lost, ring, chan>>
    BY <1>11 DEF PurgeOne, TrackInv, Cached
  <2>2. CacheTracked'
    BY <1>0, <2>1, KeepTracked, QueuesKept
  <2>3. QED  BY <2>1, <2>2
<1>12. CASE Kernel
  <2>1. \A u \in Cached : Tracked(u)'
    BY <1>0, <1>12, KernelTracked DEF Kernel, CacheTracked, Cached
  <2>2. Cached' = Cached /\ pc' = pc /\ todo' = todo
    BY <1>12 DEF Kernel, Cached
  <2>3. CacheTracked'
    BY <2>1, <2>2 DEF CacheTracked
  <2>4. QED  BY <2>2, <2>3 DEF TrackInv
<1>13. CASE Read
  <2>1. CacheTracked'
    BY <1>0, <1>13, ReadKeeps, KeepTracked DEF Read, Cached
  <2>2. QED  BY <1>13, <2>1 DEF Read, Cached, TrackInv
<1>14. CASE Announce \/ (\E c \in Configs : Publish(c)) \/ UNCHANGED vars
  <2>1. UNCHANGED <<status, cache, applied, lost, ring, chan, pc, todo>>
    BY <1>14 DEF Announce, Publish, vars
  <2>2. QED  BY <1>b, <2>1 DEF Cached, TrackInv
<1>15. QED
  BY <1>1, <1>2, <1>3, <1>4, <1>5, <1>6, <1>7, <1>8, <1>9, <1>10, <1>11, <1>12, <1>13, <1>14
  DEF Next, MainNext

\* A thread the daemon remembers is alive and in APPLIED_MAP, or its exit is on its way, or
\* it is one of those in lost: the exit found the ring full, the LRU map evicted the thread,
\* or the thread died before it was put into APPLIED_MAP.
THEOREM DeathsNoticed == Spec => []CacheTracked
<1>1. TrackInv => CacheTracked  BY DEF TrackInv
<1>2. QED  BY <1>1, TrackInit, TrackStep, PTL DEF Spec

-----------------------------------------------------------------------------
(* No update is missed: ConfigFresh *)

\* The first state, in which the flag is set, satisfies the inductive invariant.
LEMMA FreshInit == Init => FreshInv
BY InitType DEF Init, FreshInv

\* Every step preserves it.
LEMMA FreshStep == FreshInv /\ [Next]_vars => FreshInv'
<1> SUFFICES ASSUME FreshInv, [Next]_vars PROVE FreshInv'
  OBVIOUS
<1> USE DEF loaderVars, walkVars, mainVars, historyVars
<1>0. TypeOK'
  BY StepType DEF FreshInv
<1>1. CASE SwapFlag  BY <1>0, <1>1 DEF FreshInv, SwapFlag
<1>2. CASE ReadConfig  BY <1>0, <1>2 DEF FreshInv, ReadConfig
<1>3. CASE WhitelistClear  BY <1>0, <1>3 DEF FreshInv, WhitelistClear
<1>4. CASE WhitelistFill  BY <1>0, <1>4 DEF FreshInv, WhitelistFill
<1>5. CASE ScanStart  BY <1>0, <1>5 DEF FreshInv, ScanStart
<1>6. ASSUME UNCHANGED <<updated, unannounced, cfg, current, scanned>>,
             pc \notin {"top", "read", "wlclear", "wlfill", "scan"},
             pc' \notin {"read", "wlclear", "wlfill", "scan"}
      PROVE  FreshInv'
  BY <1>0, <1>6 DEF FreshInv
<1>7. CASE ClearDone \/ WalkDone \/ TidsDone \/ Drained
           \/ CheckSkip \/ CheckStart \/ CheckDone \/ PurgeDone
  BY <1>6, <1>7 DEF ClearDone, WalkDone, TidsDone, Drained, CheckSkip, CheckStart, CheckDone,
                    PurgeDone
<1>8. ASSUME NEW t \in Tids, ClearOne(t) \/ WalkProc(t) \/ CheckOne(t) \/ PurgeOne(t)
      PROVE  FreshInv'
  BY <1>6, <1>8 DEF ClearOne, WalkProc, CheckOne, PurgeOne
<1>9. ASSUME NEW t \in Tids, ScanTid(t) PROVE FreshInv'
  <2>1. pc = "tids" /\ pc' \in {"tids", "mark"}
    BY <1>9, TaskApplyKeeps DEF ScanTid, FreshInv
  <2>2. QED  BY <1>6, <1>9, <2>1 DEF ScanTid
<1>10. CASE Mark
  <2>1. work.ret \in {"recv", "tids"}
    BY <1>10 DEF Mark, FreshInv, TypeOK
  <2>2. QED  BY <1>6, <1>10, <2>1 DEF Mark
<1>11. CASE DispatchExit \/ DispatchOther
  BY <1>6, <1>11 DEF DispatchExit, DispatchOther, Receive
<1>12. CASE DispatchNaming
  <2>1. pc = "recv" /\ chan # <<>> /\ UNCHANGED <<updated, unannounced, cfg, current, scanned>>
    BY <1>12 DEF DispatchNaming, Receive
  <2>2. Head(chan).tid \in Tids
    BY <2>1, HeadType DEF ProcEvent, FreshInv
  <2>3. pc' \in {"recv", "mark"}
    BY <1>12, <2>1, <2>2, TaskApplyKeeps DEF DispatchNaming, FreshInv
  <2>4. QED  BY <1>6, <2>1, <2>3
<1>13. CASE Kernel \/ Read \/ UNCHANGED vars
  <2>1. UNCHANGED <<updated, unannounced, cfg, current, scanned, changed, pc>>
    BY <1>13 DEF Kernel, Read, vars
  <2>2. QED  BY <1>0, <2>1 DEF FreshInv
<1>14. ASSUME NEW c \in Configs, Publish(c) PROVE FreshInv'
  <2>1. unannounced' # 0
    BY <1>14 DEF Publish, FreshInv, TypeOK
  <2>2. QED  BY <1>0, <2>1 DEF FreshInv
<1>15. CASE Announce  BY <1>0, <1>15 DEF FreshInv, Announce
<1>16. QED
  BY <1>1, <1>2, <1>3, <1>4, <1>5, <1>7, <1>8, <1>9, <1>10, <1>11, <1>12, <1>13, <1>14, <1>15
  DEF Next, MainNext

\* Between the loader's store and flag and the main thread's swap and read, no
\* configuration update gets lost.
THEOREM UpdatesNotMissed == Spec => []ConfigFresh
<1>1. FreshInv => ConfigFresh  BY DEF FreshInv, ConfigFresh
<1>2. QED  BY <1>1, FreshInit, FreshStep, PTL DEF Spec

-----------------------------------------------------------------------------
(* The main thread keeps to the register: ImplementsRegister *)

\* The steps that the register does not see.
LEMMA RegisterStutters ==
  ASSUME UNCHANGED <<updated, unannounced, current, changed, cfg, scanned>>,
         pc \notin {"read", "wlclear", "wlfill", "scan"},
         pc' \notin {"read", "wlclear", "wlfill", "scan"}
  PROVE  UNCHANGED Register!vars
BY DEF Register!vars

\* Every step is one of the register's, or none of its concern.
LEMMA RegisterStep == TypeOK /\ [Next]_vars => [Register!Next]_Register!vars
<1> SUFFICES ASSUME TypeOK, [Next]_vars PROVE Register!Next \/ UNCHANGED Register!vars
  OBVIOUS
<1> USE DEF loaderVars, walkVars, historyVars
<1>1. CASE SwapFlag
  <2>1. Register!Swap  BY <1>1 DEF SwapFlag, Register!Swap
  <2>2. QED  BY <2>1 DEF Register!Next
<1>2. CASE ReadConfig
  <2>1. pc = "read" /\ pc' = (IF changed THEN "wlclear" ELSE "recv")
        /\ cfg' = current /\ ~changed' /\ UNCHANGED <<updated, current, unannounced, scanned>>
    BY <1>2 DEF ReadConfig
  <2>2. Register!Take
    BY <1>2, <2>1 DEF ReadConfig, Register!Take
  <2>3. QED  BY <2>2 DEF Register!Next
<1>3. CASE WhitelistClear \/ WhitelistFill \/ ScanStart
  BY <1>3 DEF WhitelistClear, WhitelistFill, ScanStart, Register!vars
<1>4. CASE ClearDone \/ WalkDone \/ TidsDone \/ Drained
           \/ CheckSkip \/ CheckStart \/ CheckDone \/ PurgeDone
  BY <1>4, RegisterStutters DEF ClearDone, WalkDone, TidsDone, Drained, CheckSkip, CheckStart,
                                CheckDone, PurgeDone
<1>5. ASSUME NEW t \in Tids, ClearOne(t) \/ WalkProc(t) \/ CheckOne(t) \/ PurgeOne(t)
      PROVE  UNCHANGED Register!vars
  BY <1>5, RegisterStutters DEF ClearOne, WalkProc, CheckOne, PurgeOne
<1>6. ASSUME NEW t \in Tids, ScanTid(t) PROVE UNCHANGED Register!vars
  <2>1. pc = "tids" /\ pc' \in {"tids", "mark"}
    BY <1>6, TaskApplyKeeps DEF ScanTid
  <2>2. QED  BY <1>6, <2>1, RegisterStutters DEF ScanTid
<1>7. CASE Mark
  <2>1. work.ret \in {"recv", "tids"}
    BY <1>7 DEF Mark, TypeOK
  <2>2. QED  BY <1>7, <2>1, RegisterStutters DEF Mark
<1>8. CASE DispatchExit \/ DispatchOther
  BY <1>8, RegisterStutters DEF DispatchExit, DispatchOther, Receive
<1>9. CASE DispatchNaming
  <2>1. pc = "recv" /\ chan # <<>>
        /\ UNCHANGED <<updated, unannounced, cfg, current, scanned, changed>>
    BY <1>9 DEF DispatchNaming, Receive
  <2>2. Head(chan).tid \in Tids
    BY <2>1, HeadType DEF ProcEvent
  <2>3. pc' \in {"recv", "mark"}
    BY <1>9, <2>1, <2>2, TaskApplyKeeps DEF DispatchNaming
  <2>4. QED  BY <2>1, <2>3, RegisterStutters
<1>10. CASE Kernel \/ Read \/ UNCHANGED vars
  <2>1. UNCHANGED <<updated, unannounced, cfg, current, scanned, changed, pc>>
    BY <1>10 DEF Kernel, Read, mainVars, vars
  <2>2. QED  BY <2>1 DEF Register!vars
<1>11. ASSUME NEW c \in Configs, Publish(c) PROVE Register!Next
  <2>1. Register!Publish  BY <1>11 DEF Publish, mainVars, Register!Publish
  <2>2. QED  BY <2>1 DEF Register!Next
<1>12. CASE Announce
  <2>1. Register!Announce  BY <1>12 DEF Announce, mainVars, Register!Announce
  <2>2. QED  BY <2>1 DEF Register!Next
<1>13. QED
  BY <1>1, <1>2, <1>3, <1>4, <1>5, <1>6, <1>7, <1>8, <1>9, <1>10, <1>11, <1>12
  DEF Next, MainNext

\* The eBPF mode implements the register between the parsing threads and the main thread.
THEOREM RegisterImplemented == Spec => ImplementsRegister
<1>1. Init => Register!Init
  BY DEF Init, Register!Init
<1>2. QED  BY <1>1, InitType, StepType, RegisterStep, PTL DEF Spec, ImplementsRegister, Register!Spec
=============================================================================
