------------------------------- MODULE EbpfMode -------------------------------
(***************************************************************************)
(* The eBPF mode of the daemon, composed with the kernel side of           *)
(* EbpfKernel: the reader thread that moves events from the ring buffer    *)
(* into a channel, the configuration loader's publication, and the main    *)
(* thread, which rescans /proc after a configuration change, dispatches    *)
(* events and periodically enforces what its cache says (ebpf_mode.rs,     *)
(* cache.rs, the eBPF branch of main.rs).                                  *)
(*                                                                         *)
(* The main thread's program counter pc names the place it has reached;    *)
(* between two of its steps threads run, die and are renamed.              *)
(***************************************************************************)
EXTENDS EbpfKernel

CONSTANTS
  Configs,  \* contents the configuration file may have
  NoEntry,  \* no cache entry
  ChanCap   \* bound: events waiting in the (unbounded) channel

TaskEntry == [pid : Tids, pkg : Pkgs, cpus : CpuSet, isThread : BOOLEAN]
Process == [pid : Tids, pkg : Pkgs]

ASSUME ModeAssumption ==
  /\ NoEntry \notin TaskEntry \cup Process
  /\ Configs # {} /\ Configs \subseteq AppConfig
  /\ ChanCap \in Nat \ {0}

VARIABLES
  chan,     \* mpsc channel from the reader to the main thread
  current,  \* CURRENT_CONFIG
  updated,  \* CONFIG_UPDATED
  unannounced, \* threads that have stored a configuration and not yet set CONFIG_UPDATED
  cache,    \* ProcCache.tasks
  pc, changed, cfg,   \* main thread: place, config_changed, cfg
  pos, cur, todo,     \* its walk: last pid, its pid and package, tids or keys to do
  dead,               \* affinity_sync: the tids that answered ESRCH
  work,               \* affinity_apply between affinity_set and applied_set
  scanned,            \* history: the configuration of the last full_scan
  kept                \* history: tid -> the package for which task_apply last let its entry be

loaderVars == <<current, unannounced>>
walkVars == <<pos, cur, todo, dead>>
historyVars == <<scanned, kept>>
mainVars == <<cache, pc, changed, cfg, pos, cur, todo, dead, work, scanned, kept>>
vars == <<kernelVars, chan, current, updated, unannounced, mainVars>>

Entry(p, g, r) == [pid |-> p, pkg |-> g, cpus |-> r.cpus, isThread |-> r.isThread]
Cached == {t \in Tids : cache[t] # NoEntry}
EmptyCache == [t \in Tids |-> NoEntry]

Places == {"top", "read", "wlclear", "wlfill", "scan", "clear", "walk", "tids",
           "mark", "recv", "deadline", "check", "purge"}
NoWork == [tid |-> 0, entry |-> NoEntry, ret |-> "top"]

TypeOK ==
  /\ KernelTypeOK
  /\ chan \in Seq(ProcEvent)
  /\ current \in Configs /\ cfg \in Configs /\ scanned \in Configs
  /\ kept \in [Tids -> Pkgs \cup {NoPkg}]
  /\ updated \in BOOLEAN /\ changed \in BOOLEAN
  /\ unannounced \in Nat
  /\ cache \in [Tids -> TaskEntry \cup {NoEntry}]
  /\ pc \in Places
  /\ pos \in Nat
  /\ cur \in Process \cup {NoEntry}
  /\ pc = "tids" => cur # NoEntry
  /\ todo \in SUBSET Tids
  /\ pc = "check" => todo \subseteq Cached
  /\ dead \in SUBSET Tids
  /\ work \in [tid : Tids, entry : TaskEntry, ret : {"recv", "tids"}] \cup {NoWork}
  /\ pc = "mark" => work # NoWork /\ (work.ret = "tids" => cur # NoEntry)

Init ==
  /\ KernelInit
  /\ chan = <<>>
  /\ current \in Configs /\ cfg = current /\ scanned = current
  /\ updated = TRUE /\ unannounced = 0
  /\ cache = EmptyCache /\ kept = [t \in Tids |-> NoPkg]
  /\ pc = "top" /\ changed = FALSE
  /\ pos = 0 /\ cur = NoEntry /\ todo = {} /\ dead = {} /\ work = NoWork

-----------------------------------------------------------------------------
(* The other threads of the daemon *)

\* ebpf_reader takes one event out of the ring and sends it on.
Read ==
  /\ ring # <<>> /\ Len(chan) < ChanCap
  /\ ring' = Tail(ring)
  /\ chan' = Append(chan, Head(ring))
  /\ UNCHANGED <<threadVars, applied, wl, env, lost, missed, loaderVars, updated, mainVars>>

\* config_reload, in the loader or in a web handler, stores what it parsed ...
Publish(c) ==
  /\ EnvStep
  /\ current' = c
  /\ unannounced' = unannounced + 1
  /\ UNCHANGED <<threadVars, applied, wl, ring, lost, missed, chan, updated, mainVars>>

\* ... and then says so.
Announce ==
  /\ unannounced > 0
  /\ updated' = TRUE
  /\ unannounced' = unannounced - 1
  /\ UNCHANGED <<kernelVars, chan, current, mainVars>>

-----------------------------------------------------------------------------
(* The main thread: configuration *)

\* The flag is swapped before the configuration is read.
SwapFlag ==
  /\ pc = "top"
  /\ changed' = updated
  /\ updated' = FALSE
  /\ pc' = "read"
  /\ UNCHANGED <<kernelVars, chan, loaderVars, cache, cfg, walkVars, work, historyVars>>

\* Mutant: the flag is cleared again when the configuration is read.
ReadConfigClears ==
  /\ pc = "read"
  /\ cfg' = current
  /\ updated' = FALSE
  /\ pc' = IF changed THEN "wlclear" ELSE "recv"
  /\ changed' = FALSE
  /\ UNCHANGED <<kernelVars, chan, loaderVars, cache, walkVars, work, historyVars>>

\* Mutant: waiting events go before the update, which is forgotten.
ReadConfigBusy ==
  /\ pc = "read"
  /\ cfg' = current
  /\ pc' = IF changed /\ chan = <<>> THEN "wlclear" ELSE "recv"
  /\ changed' = FALSE
  /\ UNCHANGED <<kernelVars, chan, updated, loaderVars, cache, walkVars, work, historyVars>>

ReadConfig ==
  /\ pc = "read"
  /\ cfg' = current
  /\ pc' = IF changed THEN "wlclear" ELSE "recv"
  /\ changed' = FALSE
  /\ UNCHANGED <<kernelVars, chan, updated, loaderVars, cache, walkVars, work, historyVars>>

\* comm_map_init removes the old keys and then inserts the new ones.
WhitelistClear ==
  /\ pc = "wlclear"
  /\ wl' = {}
  /\ pc' = "wlfill"
  /\ UNCHANGED <<threadVars, applied, ring, env, lost, missed, chan, updated, loaderVars,
                 cache, changed, cfg, walkVars, work, historyVars>>

WhitelistFill ==
  /\ pc = "wlfill"
  /\ wl' = CfgPkgs(cfg)
  /\ pc' = "scan"
  /\ UNCHANGED <<threadVars, applied, ring, env, lost, missed, chan, updated, loaderVars,
                 cache, changed, cfg, walkVars, work, historyVars>>

-----------------------------------------------------------------------------
(* The main thread: full_scan *)

\* The cache is cleared and the keys of APPLIED_MAP are collected ...
ScanStart ==
  /\ pc = "scan"
  /\ cache' = EmptyCache
  /\ todo' = applied
  /\ pc' = "clear"
  /\ scanned' = cfg /\ kept' = [t \in Tids |-> NoPkg]
  /\ UNCHANGED <<kernelVars, chan, updated, loaderVars, changed, cfg, pos, cur, dead, work>>

\* ... and removed one by one.
ClearOne(t) ==
  /\ pc = "clear" /\ t \in todo
  /\ applied' = applied \ {t}
  /\ todo' = todo \ {t}
  /\ UNCHANGED <<threadVars, wl, ring, env, lost, missed, chan, updated, loaderVars,
                 cache, pc, changed, cfg, pos, cur, dead, work, historyVars>>

ClearDone ==
  /\ pc = "clear" /\ todo = {}
  /\ pc' = "walk"
  /\ UNCHANGED <<kernelVars, chan, updated, loaderVars, cache, changed, cfg, walkVars, work, historyVars>>

\* read_cmdline, or else tid_comm: the packages a process can be taken for.  A
\* leader past its exit has no command line any more.
ProcName(p) ==
  IF Alive(p) /\ cmdline[p] # NoPkg THEN {cmdline[p]} ELSE MatchTiers[comm[p]][1]

\* readdir of /proc yields the processes in the order of their pids; one that
\* bears a configured name has its threads listed.
WalkProc(p) ==
  /\ pc = "walk"
  /\ Threads(p) # {} /\ p > pos
  /\ \A q \in Tids : Threads(q) # {} /\ q > pos => p <= q
  /\ pos' = p
  /\ IF ProcName(p) \cap CfgPkgs(cfg) = {}
     THEN UNCHANGED <<cur, todo, pc>>
     ELSE /\ \E g \in ProcName(p) \cap CfgPkgs(cfg) : cur' = [pid |-> p, pkg |-> g]
          /\ todo' = Threads(p)
          /\ pc' = "tids"
  /\ UNCHANGED <<kernelVars, chan, updated, loaderVars, cache, changed, cfg, dead, work, historyVars>>

WalkDone ==
  /\ pc = "walk"
  /\ \A q \in Tids : Threads(q) # {} => q <= pos
  /\ pos' = 0 /\ cur' = NoEntry
  /\ pc' = "recv"
  /\ UNCHANGED <<kernelVars, chan, updated, loaderVars, cache, changed, cfg, todo, dead,
                 work, historyVars>>

-----------------------------------------------------------------------------
(* The main thread: applying a rule to a thread *)

\* Mutant: affinity_set takes every thread for one that has its CPUs already.
SetAffinityNever(t, cpus) == UNCHANGED <<aff, env>>

\* affinity_set on a thread: a failure other than ESRCH is not reported.
SetAffinity(t, cpus) ==
  \/ aff' = [aff EXCEPT ![t] = cpus] /\ UNCHANGED env
  \/ EnvStep /\ aff[t] # cpus /\ UNCHANGED aff

\* Mutant: the entry of a thread rule is protected from any result.
ProtectedAlways(t, result) == \E r \in result : cache[t] # NoEntry /\ cache[t].isThread

\* A thread bound by a thread rule is not moved to a package rule.
Protected(t, result) ==
  \E r \in result : ~r.isThread /\ cache[t] # NoEntry /\ cache[t].isThread

\* task_apply up to the call of applied_set; a dead thread leaves the cache.  purge: the
\* EXEC arm of event_dispatch, which on a refusal forgets the thread altogether.
TaskApply(t, p, g, name, ret, purge) ==
  LET result == ThreadAffinity(g, RuleName(g, name, cfg), cfg)
      refused == result = {} \/ (~Protected(t, result) /\ ~Exists(t))
  IN  \/ /\ Protected(t, result)
         /\ pc' = ret
         /\ kept' = [kept EXCEPT ![t] = g]
         /\ UNCHANGED <<cache, applied, aff, env, work>>
      \/ /\ refused
         /\ cache' = IF purge \/ result # {} THEN [cache EXCEPT ![t] = NoEntry] ELSE cache
         /\ applied' = IF purge THEN applied \ {t} ELSE applied
         /\ pc' = ret
         /\ kept' = [kept EXCEPT ![t] = NoPkg]
         /\ UNCHANGED <<aff, env, work>>
      \/ \E r \in result :
           /\ ~Protected(t, result) /\ ~refused
           /\ SetAffinity(t, r.cpus)
           /\ work' = [tid |-> t, entry |-> Entry(p, g, r), ret |-> ret]
           /\ pc' = "mark"
           /\ kept' = [kept EXCEPT ![t] = NoPkg]
           /\ UNCHANGED <<cache, applied>>

Naming(e, t) == e.tid = t /\ e.type \in {"RENAME", "EXEC"}
InFlight == {ring[i] : i \in DOMAIN ring} \cup {chan[i] : i \in DOMAIN chan}
NamePending(t) == \E e \in InFlight : Naming(e, t)
ExitPending(t) == \E e \in InFlight : e.tid = t /\ e.type = "EXIT"

\* applied_set, and the insertion into the cache that ends task_apply.  lost: of a thread
\* that has died meanwhile no exit will be reported.
Mark ==
  /\ pc = "mark"
  /\ \E evicted \in SUBSET applied :
       /\ AppliedInsert(work.tid, evicted)
       /\ lost' = IF Alive(work.tid) \/ ExitPending(work.tid)
                  THEN (lost \cup evicted) \ {work.tid} ELSE lost \cup evicted \cup {work.tid}
  /\ cache' = [cache EXCEPT ![work.tid] = work.entry]
  /\ pc' = work.ret
  /\ work' = NoWork
  /\ UNCHANGED <<threadVars, wl, ring, env, missed, chan, updated, loaderVars, changed, cfg,
                 walkVars, historyVars>>

\* full_scan applies the rule of one thread of the process it has reached.
ScanTid(t) ==
  /\ pc = "tids" /\ t \in todo
  /\ todo' = todo \ {t}
  /\ TaskApply(t, cur.pid, cur.pkg, IF Exists(t) THEN comm[t] ELSE NoComm, "tids", FALSE)
  /\ missed' = IF NamePending(t) THEN missed ELSE missed \ {t}
  /\ UNCHANGED <<status, leader, comm, cmdline, wl, ring, lost, chan, updated, loaderVars,
                 changed, cfg, pos, cur, dead, scanned>>

TidsDone ==
  /\ pc = "tids" /\ todo = {}
  /\ pc' = "walk"
  /\ UNCHANGED <<kernelVars, chan, updated, loaderVars, cache, changed, cfg, walkVars, work, historyVars>>

-----------------------------------------------------------------------------
(* The main thread: event_dispatch *)

\* pkg_lookup_comm: by the comm, else what the process's leader is cached as.
PkgLookupComm(p, name) ==
  IF CommToPkg(name, cfg) # {} THEN CommToPkg(name, cfg)
  ELSE {cache[q].pkg : q \in {p} \cap Cached}

Receive(types) ==
  /\ pc = "recv" /\ chan # <<>>
  /\ Head(chan).type \in types
  /\ chan' = Tail(chan)
  /\ UNCHANGED <<status, leader, comm, cmdline, wl, ring, updated, loaderVars, changed, cfg,
                 walkVars, scanned>>

DispatchExit ==
  /\ Receive({"EXIT"})
  /\ cache' = [cache EXCEPT ![Head(chan).tid] = NoEntry]
  /\ applied' = applied \ {Head(chan).tid}
  /\ UNCHANGED <<aff, env, lost, missed, pc, work, kept>>

\* A fork needs nothing: the child inherits.  An input event goes to the
\* refresh-rate component.
DispatchOther ==
  /\ Receive({"FORK", "INPUT"})
  /\ UNCHANGED <<aff, env, lost, missed, cache, applied, pc, work, kept>>

\* event_apply for RENAME and EXEC.
DispatchNaming ==
  LET e == Head(chan)
      pkgs == PkgLookupComm(e.pid, e.comm)
      known == {g \in pkgs : ThreadAffinity(g, RuleName(g, e.comm, cfg), cfg) # {}}
  IN  /\ Receive({"RENAME", "EXEC"})
      /\ missed' = IF known = {} THEN missed \cup {e.tid} ELSE missed
      /\ UNCHANGED lost
      /\ \/ \E g \in pkgs : TaskApply(e.tid, e.pid, g, e.comm, "recv", e.type = "EXEC")
         \/ /\ pkgs = {}
            /\ cache' = IF e.type = "EXEC" THEN [cache EXCEPT ![e.tid] = NoEntry] ELSE cache
            /\ applied' = IF e.type = "EXEC" THEN applied \ {e.tid} ELSE applied
            /\ UNCHANGED <<aff, env, pc, work, kept>>

\* recv_timeout ran out, or try_recv found the channel empty.
Drained ==
  /\ pc = "recv" /\ chan = <<>>
  /\ pc' = "deadline"
  /\ UNCHANGED <<kernelVars, chan, updated, loaderVars, cache, changed, cfg, walkVars, work, historyVars>>

-----------------------------------------------------------------------------
(* The main thread: affinity_check, when affinity_deadline has passed *)

CheckSkip ==
  /\ pc = "deadline"
  /\ pc' = "top"
  /\ UNCHANGED <<kernelVars, chan, updated, loaderVars, cache, changed, cfg, walkVars, work, historyVars>>

\* Mutant: the keys of APPLIED_MAP are checked instead of those of the cache.
CheckStartApplied ==
  /\ pc = "deadline"
  /\ todo' = applied
  /\ dead' = {}
  /\ pc' = "check"
  /\ UNCHANGED <<kernelVars, chan, updated, loaderVars, cache, changed, cfg, pos, cur, work, historyVars>>

CheckStart ==
  /\ pc = "deadline"
  /\ todo' = Cached
  /\ dead' = {}
  /\ pc' = "check"
  /\ UNCHANGED <<kernelVars, chan, updated, loaderVars, cache, changed, cfg, pos, cur, work, historyVars>>

\* Mutant: any failure of sched_setaffinity counts as the thread's death.
CheckOneAnyError(t) ==
  /\ pc = "check" /\ t \in todo
  /\ todo' = todo \ {t}
  /\ \/ Exists(t) /\ SetAffinity(t, cache[t].cpus) /\ UNCHANGED dead
     \/ dead' = dead \cup {t} /\ UNCHANGED <<aff, env>>
  /\ UNCHANGED <<status, leader, comm, cmdline, applied, wl, ring, lost, missed, chan, updated,
                 loaderVars, cache, pc, changed, cfg, pos, cur, work, historyVars>>

\* affinity_sync enforces every entry ...
CheckOne(t) ==
  /\ pc = "check" /\ t \in todo
  /\ todo' = todo \ {t}
  /\ IF Exists(t)
     THEN SetAffinity(t, cache[t].cpus) /\ UNCHANGED dead
     ELSE dead' = dead \cup {t} /\ UNCHANGED <<aff, env>>
  /\ UNCHANGED <<status, leader, comm, cmdline, applied, wl, ring, lost, missed, chan, updated,
                 loaderVars, cache, pc, changed, cfg, pos, cur, work, historyVars>>

\* Mutant: dead tids leave APPLIED_MAP but not the cache.
CheckDoneKeeps ==
  /\ pc = "check" /\ todo = {}
  /\ todo' = dead
  /\ dead' = {}
  /\ pc' = "purge"
  /\ UNCHANGED <<kernelVars, chan, updated, loaderVars, cache, changed, cfg, pos, cur, work, historyVars>>

\* ... and drops those whose thread is dead, ...
CheckDone ==
  /\ pc = "check" /\ todo = {}
  /\ cache' = [t \in Tids |-> IF t \in dead THEN NoEntry ELSE cache[t]]
  /\ todo' = dead
  /\ dead' = {}
  /\ pc' = "purge"
  /\ UNCHANGED <<kernelVars, chan, updated, loaderVars, changed, cfg, pos, cur, work, historyVars>>

\* ... and affinity_check removes them from APPLIED_MAP.
PurgeOne(t) ==
  /\ pc = "purge" /\ t \in todo
  /\ applied' = applied \ {t}
  /\ todo' = todo \ {t}
  /\ UNCHANGED <<threadVars, wl, ring, env, lost, missed, chan, updated, loaderVars,
                 cache, pc, changed, cfg, pos, cur, dead, work, historyVars>>

PurgeDone ==
  /\ pc = "purge" /\ todo = {}
  /\ pc' = "top"
  /\ UNCHANGED <<kernelVars, chan, updated, loaderVars, cache, changed, cfg, walkVars, work, historyVars>>

-----------------------------------------------------------------------------
MainNext ==
  \/ SwapFlag \/ ReadConfig \/ WhitelistClear \/ WhitelistFill
  \/ ScanStart \/ ClearDone \/ WalkDone \/ TidsDone
  \/ \E t \in Tids : ClearOne(t) \/ WalkProc(t) \/ ScanTid(t)
  \/ Mark
  \/ DispatchExit \/ DispatchOther \/ DispatchNaming \/ Drained
  \/ CheckSkip \/ CheckStart \/ CheckDone \/ PurgeDone
  \/ \E t \in Tids : CheckOne(t) \/ PurgeOne(t)

Kernel == KernelNext /\ UNCHANGED <<chan, updated, loaderVars, mainVars>>

Next == MainNext \/ Kernel \/ Read \/ Announce \/ \E c \in Configs : Publish(c)

\* The daemon's threads run; the check's deadline passes again and again; the
\* kernel reaps what has exited.  Nothing is assumed of the applications.
Fairness ==
  /\ WF_vars(MainNext) /\ SF_vars(CheckStart)
  /\ WF_vars(Read) /\ WF_vars(Announce)

Spec == Init /\ [][Next]_vars
FairSpec == Spec /\ Fairness

-----------------------------------------------------------------------------
(* Properties *)

\* Every thread the daemon remembers is alive and in APPLIED_MAP, so that its exit will be
\* put to the ring, or its exit event is on its way to the cache, whatever exits, reuses of
\* ids, evictions, scans and dispatches come in between -- but for the threads in lost: the
\* ring was full when it exited, the LRU map evicted it, or it died between affinity_set and
\* applied_set and was remembered nevertheless.  Those are left to the periodic check.
Tracked(t) == (t \in applied /\ Alive(t)) \/ t \in lost \/ ExitPending(t)
CacheTracked == \A t \in Cached : Tracked(t)

\* CacheTracked is not inductive as it stands: applied_clear runs only on an
\* empty cache, and affinity_check removes from APPLIED_MAP only tids that it
\* has dropped from the cache.
TrackInv ==
  /\ TypeOK
  /\ CacheTracked
  /\ pc = "clear" => Cached = {}
  /\ pc = "purge" => todo \cap Cached = {}

Quiet ==
  /\ pc = "recv" /\ ring = <<>> /\ chan = <<>>
  /\ ~updated /\ unannounced = 0

\* When the main thread waits for events with no announcement outstanding, it
\* works by the configuration published last, and has scanned by it: no update
\* is missed between the loader's store and flag and the main thread's swap and
\* read.
ConfigFresh == pc = "recv" /\ ~updated /\ unannounced = 0 => cfg = current /\ scanned = current

Register == INSTANCE ConfigRegister WITH
  stage <- IF pc = "read" THEN "read" ELSE "swap",
  used <- IF pc \in {"wlclear", "wlfill", "scan"} THEN cfg ELSE scanned

\* The main thread of the eBPF mode keeps to the register it shares with the parsing
\* threads: what it has swapped and read it scans by before it swaps again.
ImplementsRegister == Register!Spec

\* The strengthening of ConfigFresh: what the main thread knows of the published
\* configuration at each place, once no announcement is outstanding.
FreshInv ==
  /\ TypeOK
  /\ ~updated /\ unannounced = 0 =>
       /\ pc = "read" => changed \/ (cfg = current /\ scanned = current)
       /\ pc # "read" => cfg = current
       /\ pc \notin {"read", "wlclear", "wlfill", "scan"} => scanned = current

\* What the rules give a thread of package g with that name.
Ruled(g, name) == ThreadAffinity(g, RuleName(g, name, cfg), cfg)

\* The entry is what they give it -- or that of an earlier thread rule, and the package by,
\* which the thread was last taken for, gives the name no thread rule to replace it with.
Follows(e, name, by) ==
  \/ \E r \in Ruled(e.pkg, name) : e.cpus = r.cpus /\ e.isThread = r.isThread
  \/ e.isThread /\ \E r \in Ruled(by, name) : ~r.isThread

\* Once every event is handled, a remembered thread has the CPUs that the rules of its
\* entry's package give its present name; or those of an earlier thread rule, when
\* task_apply last let that entry be because the package it took the thread for has only
\* a package rule for the name.  Excepted are the threads in missed: those whose name the
\* kernel side could not tell, and those whose last dispatched name no package they could
\* be taken for has a rule for, whose entry stays as it was.
NamesFollowed ==
  Quiet => \A t \in Cached \ missed : Alive(t) => Follows(cache[t], comm[t], kept[t])

\* The strengthening of NamesFollowed.  While an event with a thread's name is on its way,
\* the last of them bears its present name; later the entry follows it, the one in hand
\* included, unless a new configuration is still to be scanned by.
NoneIn(q, t) == \A i \in DOMAIN q : ~Naming(q[i], t)
LastIn(q, t, name) ==
  \E i \in DOMAIN q : /\ Naming(q[i], t) /\ q[i].comm = name
                      /\ \A j \in DOMAIN q : j > i => ~Naming(q[j], t)

RescanDue ==
  \/ updated \/ unannounced > 0
  \/ pc = "read" /\ changed
  \/ pc \in {"wlclear", "wlfill", "scan"}

Marking(t) == pc = "mark" /\ work.tid = t
EntryFollows(t) ==
  /\ t \in Cached /\ ~Marking(t) => Follows(cache[t], comm[t], kept[t])
  /\ Marking(t) => Follows(work.entry, comm[t], kept[t])

NameKnown(t) ==
  \/ LastIn(ring, t, comm[t])
  \/ NoneIn(ring, t) /\ LastIn(chan, t, comm[t])
  \/ NoneIn(ring, t) /\ NoneIn(chan, t) /\ (RescanDue \/ EntryFollows(t))

NameInv ==
  /\ FreshInv
  /\ pc = "tids" \/ (pc = "mark" /\ work.ret = "tids") => cur.pkg \in CfgPkgs(cfg)
  /\ \A t \in Tids \ missed : Alive(t) => NameKnown(t)

\* While the kernel reuses no thread id, an entry leaves the cache only in a new
\* scan, by an exec, or after its thread has exited: the daemon never forgets a
\* running thread.
RunningNotForgotten ==
  [][\A t \in Cached : cache'[t] = NoEntry /\ Alive(t) =>
       pc = "scan" \/ (pc = "recv" /\ Head(chan).type = "EXEC")]_vars

\* Even if its exit event is lost or its APPLIED_MAP entry evicted, a dead
\* thread does not stay in the cache: the ESRCH answer in the periodic check
\* is the safety net.
DeadForgotten == \A t \in Tids : (t \in Cached /\ ~Exists(t)) ~> (t \notin Cached \/ Exists(t))

\* Whatever the applications and the platform did to it, a thread the daemon
\* remembers ends up on the CPUs its entry says.
CpusEnforced == <>[](\A t \in Cached : Alive(t) => aff[t] = cache[t].cpus)

\* A published configuration is scanned by, or replaced by another one, once the events
\* that are under way have been dispatched: these are finitely many (MaxEnv).  Events that
\* never cease do starve it, as the main loop drains its channel before it looks at
\* CONFIG_UPDATED again.
UpdateTaken == \A c \in Configs : current = c ~> (scanned = c \/ current # c)

-----------------------------------------------------------------------------
(* What the repository says and the code does not do *)

\* README.md: "com.example.app=4-5" matches all threads of the package.  Once
\* every event is handled, each thread of a process whose leader has been given
\* its CPUs is known to the daemon or the kernel programs.
EveryThreadTracked ==
  Quiet => \A t \in Tids : Alive(t) /\ leader[t] \in Cached => t \in applied \cup Cached

\* AppOpt-ebpf/src/main.rs, task_rename: the rename of a managed thread is let
\* through.  If it finds room in the ring, it is reported for that thread.
RenameReported ==
  [][\A t \in applied : Alive(t) /\ comm'[t] # comm[t] /\ Alive(t)' /\ Fits(ring) =>
       \E i \in DOMAIN ring' : ring'[i].tid = t /\ ring'[i].type = "RENAME"]_vars
=============================================================================
