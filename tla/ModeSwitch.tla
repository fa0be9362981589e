------------------------------ MODULE ModeSwitch ------------------------------
(***************************************************************************)
(* The main loop as the switch between the daemon's two modes: driven by   *)
(* eBPF events, or polling /proc (main.rs, proc_mode.rs), with the web     *)
(* handler that forces a mode and the configuration loader.  What the eBPF *)
(* mode does once it runs is module EbpfMode; here full_scan is one step.  *)
(*                                                                         *)
(* A cache entry stands for the threads of one process.  dropped, asked    *)
(* and walked are history variables:                                       *)
(*   dropped  the eBPF state was given up by a failed reload and no scan   *)
(*            has used a configuration read since                          *)
(*   asked    a user asked for a mode with eBPF, and no attempt to load it *)
(*            has begun since                                              *)
(*   walked   the cached processes that are still the ones the last        *)
(*            proc_scan put into the cache                                 *)
(***************************************************************************)
EXTENDS Integers, FiniteSets

CONSTANTS
  Pids,     \* process ids
  Pkgs,     \* package names
  Configs,  \* configurations
  CfgPkgs,  \* configuration -> the packages it has rules for
  Other,    \* name of a process that is no package
  NoProc,   \* no process has this id
  NoEntry,  \* no cache entry, no binding
  NoCfg,    \* no scan yet
  Growth,   \* how many more threads than last time cache_sync tolerates (11)
  Weight,   \* threads of a process
  MaxEnv    \* bound: steps of the environment in a behaviour

ASSUME SwitchAssumption ==
  /\ Pids \subseteq Nat \ {0} /\ IsFiniteSet(Pids)
  /\ CfgPkgs \in [Configs -> SUBSET Pkgs] /\ Configs # {}
  /\ Other \notin Pkgs /\ NoProc \notin Pkgs \cup {Other}
  /\ NoCfg \notin Configs
  /\ NoEntry \notin [pkg : Pkgs, cfg : Configs]
  /\ Growth \in Nat /\ Weight \in Nat \ {0} /\ MaxEnv \in Nat

VARIABLES
  name,     \* pid -> what /proc/pid says the process is
  bound,    \* pid -> the entry whose CPUs its threads were given last
  env,      \* environment steps left (bound)
  mode, gaveUp, wpc,        \* MODE_FORCE, EBPF_GAVE_UP, the web handler
  current, updated,         \* CURRENT_CONFIG, CONFIG_UPDATED
  unannounced,  \* threads that have stored a configuration and not yet set the flag
  pc, changed, cfg, forced, \* main thread: place, config_changed, cfg, mode
  es,       \* ebpf_state: none, live, or live with its reader thread gone
  esCfg,    \* the configuration of its last full_scan
  retryDue, \* have 30 s passed since ebpf_retry_at?
  cache, lastCount, scanAll, tracked, lastTotal, forceAff, \* ProcScanState
  pos, total, todo,         \* proc_walk: last pid, processes so far; pids to kill(0)
  dropped, asked, walked    \* history

worldVars == <<name, bound, env>>
webVars == <<mode, gaveUp, wpc>>
loaderVars == <<current, updated, unannounced>>
procVars == <<cache, lastCount, scanAll, tracked, lastTotal, forceAff>>
walkVars == <<pos, total, todo>>
history == <<dropped, asked, walked>>
vars == <<worldVars, webVars, loaderVars, pc, changed, cfg, forced, es, esCfg, retryDue,
          procVars, walkVars, history>>

Entry == [pkg : Pkgs, cfg : Configs]
Alive(p) == name[p] # NoProc
Live == {p \in Pids : Alive(p)}
Cached == {p \in Pids : cache[p] # NoEntry}
EmptyCache == [p \in Pids |-> NoEntry]
ThreadCount == Weight * Cardinality(Live)

Places == {"top", "config", "mode", "retry", "init", "reload", "reinit", "run", "recv",
           "sysinfo", "kill", "walk", "sync", "sleep"}

TypeOK ==
  /\ name \in [Pids -> Pkgs \cup {Other, NoProc}]
  /\ bound \in [Pids -> Entry \cup {NoEntry}]
  /\ env \in Nat
  /\ mode \in 0..2 /\ forced \in 0..2
  /\ gaveUp \in BOOLEAN /\ wpc \in {"idle", "clear"}
  /\ current \in Configs /\ cfg \in Configs /\ esCfg \in Configs \cup {NoCfg}
  /\ updated \in BOOLEAN /\ changed \in BOOLEAN /\ unannounced \in Nat
  /\ pc \in Places
  /\ es \in {"none", "live", "orphan"}
  /\ pc = "recv" => es # "none"
  /\ retryDue \in BOOLEAN
  /\ cache \in [Pids -> Entry \cup {NoEntry}]
  /\ lastCount \in Nat /\ lastTotal \in Nat
  /\ scanAll \in BOOLEAN /\ forceAff \in BOOLEAN
  /\ tracked \in SUBSET Pids
  /\ pos \in Nat /\ total \in Nat /\ todo \in SUBSET Pids
  /\ dropped \in BOOLEAN /\ asked \in BOOLEAN /\ walked \in SUBSET Cached

\* The startup part of main.  A proc_state that does not exist yet behaves as
\* ProcScanState::new(), which is what get_or_insert_with creates.
Init ==
  /\ name \in [Pids -> Pkgs \cup {Other, NoProc}]
  /\ bound = EmptyCache
  /\ env = MaxEnv
  /\ mode \in 0..2 /\ forced = mode
  /\ es \in IF mode = 2 THEN {"none"} ELSE {"none", "live"}
  /\ gaveUp = (es = "none" /\ mode = 0) /\ wpc = "idle"
  /\ current \in Configs /\ cfg = current
  /\ updated = TRUE /\ unannounced = 0
  /\ pc = "top" /\ changed = FALSE
  /\ esCfg = NoCfg
  /\ retryDue = TRUE
  /\ cache = EmptyCache /\ tracked = {}
  /\ lastCount = 0 /\ lastTotal = 0
  /\ scanAll = FALSE /\ forceAff = FALSE
  /\ pos = 0 /\ total = 0 /\ todo = {}
  /\ dropped = FALSE /\ asked = FALSE /\ walked = {}

-----------------------------------------------------------------------------
(* The environment: processes, the web user, the configuration file, eBPF *)

EnvStep == env > 0 /\ env' = env - 1

mainVars == <<pc, changed, cfg, forced, es, esCfg, retryDue, procVars, walkVars, dropped>>

\* A process starts, or ends.
Start(p, n) ==
  /\ EnvStep
  /\ ~Alive(p)
  /\ name' = [name EXCEPT ![p] = n]
  /\ UNCHANGED <<bound, webVars, loaderVars, mainVars, asked, walked>>

End(p) ==
  /\ EnvStep
  /\ Alive(p)
  /\ name' = [name EXCEPT ![p] = NoProc]
  /\ bound' = [bound EXCEPT ![p] = NoEntry]
  /\ walked' = walked \ {p}
  /\ UNCHANGED <<webVars, loaderVars, mainVars, asked>>

\* config_set_api stores MODE_FORCE ...
SetMode(m) ==
  /\ EnvStep
  /\ wpc = "idle"
  /\ mode' = m
  /\ wpc' = IF m = 2 THEN "idle" ELSE "clear"
  /\ asked' = (m # 2)
  /\ UNCHANGED <<name, bound, gaveUp, loaderVars, mainVars, walked>>

\* ... and then, for a mode with eBPF, takes EBPF_GAVE_UP back.
ClearGaveUp ==
  /\ wpc = "clear"
  /\ gaveUp' = FALSE
  /\ wpc' = "idle"
  /\ UNCHANGED <<worldVars, mode, loaderVars, mainVars, asked, walked>>

\* config_reload stores the configuration it parsed, and then says so.
Publish(c) ==
  /\ EnvStep
  /\ current' = c
  /\ unannounced' = unannounced + 1
  /\ UNCHANGED <<name, bound, webVars, updated, mainVars, asked, walked>>

Announce ==
  /\ unannounced > 0
  /\ updated' = TRUE
  /\ unannounced' = unannounced - 1
  /\ UNCHANGED <<worldVars, webVars, current, mainVars, asked, walked>>

\* The reader thread has stopped on an epoll error and dropped its end of the
\* channel, and what it had sent has been received.
ReaderDies ==
  /\ EnvStep
  /\ es = "live"
  /\ es' = "orphan"
  /\ UNCHANGED <<name, bound, webVars, loaderVars, pc, changed, cfg, forced, esCfg, retryDue,
                 procVars, walkVars, history>>

RetryTimer ==
  /\ ~retryDue
  /\ retryDue' = TRUE
  /\ UNCHANGED <<worldVars, webVars, loaderVars, pc, changed, cfg, forced, es, esCfg,
                 procVars, walkVars, history>>

-----------------------------------------------------------------------------
(* The main loop *)

SwapFlag ==
  /\ pc = "top"
  /\ changed' = updated
  /\ updated' = FALSE
  /\ pc' = "config"
  /\ UNCHANGED <<worldVars, webVars, current, unannounced, cfg, forced, es, esCfg, retryDue,
                 procVars, walkVars, history>>

ReadConfig ==
  /\ pc = "config"
  /\ cfg' = current
  /\ pc' = "mode"
  /\ UNCHANGED <<worldVars, webVars, loaderVars, changed, forced, es, esCfg, retryDue, procVars,
                 walkVars, history>>

\* Mutant: the cache the /proc mode left behind is taken up as it is.
RescanNothing == UNCHANGED procVars

\* What a return to /proc polling does: everything is to be scanned and enforced.
Rescan ==
  /\ scanAll' = TRUE
  /\ lastCount' = 0
  /\ forceAff' = TRUE
  /\ UNCHANGED <<cache, tracked, lastTotal>>

\* Mutant: the mode is acted upon only together with a new configuration.
ReadModeOnChange ==
  /\ pc = "mode"
  /\ forced' = mode
  /\ pc' = "retry"
  /\ IF mode = 2 /\ es # "none" /\ changed
     THEN es' = "none" /\ esCfg' = NoCfg /\ Rescan
     ELSE UNCHANGED <<es, esCfg, procVars>>
  /\ UNCHANGED <<worldVars, webVars, loaderVars, changed, cfg, retryDue, walkVars, history>>

\* MODE_FORCE is read; 2 unloads eBPF.
ReadMode ==
  /\ pc = "mode"
  /\ forced' = mode
  /\ pc' = "retry"
  /\ IF mode = 2 /\ es # "none"
     THEN es' = "none" /\ esCfg' = NoCfg /\ Rescan
     ELSE UNCHANGED <<es, esCfg, procVars>>
  /\ UNCHANGED <<worldVars, webVars, loaderVars, changed, cfg, retryDue, walkVars, history>>

\* Mutant: only the automatic mode retries.
MayRetryAuto == forced = 0 /\ es = "none" /\ ~gaveUp /\ retryDue

\* The condition of the retry block.
MayRetry == forced # 2 /\ es = "none" /\ (forced = 1 \/ ~gaveUp) /\ retryDue

RetrySkip ==
  /\ pc = "retry" /\ ~MayRetry
  /\ pc' = "reload"
  /\ UNCHANGED <<worldVars, webVars, loaderVars, changed, cfg, forced, es, esCfg, retryDue,
                 procVars, walkVars, history>>

RetryBegin ==
  /\ pc = "retry" /\ MayRetry
  /\ retryDue' = FALSE
  /\ asked' = FALSE
  /\ pc' = "init"
  /\ UNCHANGED <<worldVars, webVars, loaderVars, changed, cfg, forced, es, esCfg, procVars,
                 walkVars, dropped, walked>>

\* full_scan: the eBPF cache is rebuilt and every process of it bound.
FullScan ==
  /\ esCfg' = cfg
  /\ bound' = [p \in Pids |->
                 IF name[p] \in CfgPkgs[cfg] THEN [pkg |-> name[p], cfg |-> cfg] ELSE bound[p]]

\* ebpf_init and comm_map_init succeed.
RetryEnd ==
  /\ pc = "init"
  /\ es' = "live"
  /\ FullScan
  /\ dropped' = FALSE
  /\ pc' = "reload"
  /\ UNCHANGED <<name, env, webVars, loaderVars, changed, cfg, forced, retryDue, procVars,
                 walkVars, asked, walked>>

\* ebpf_init fails, or the whitelist does not fit.
RetryFail ==
  /\ EnvStep
  /\ pc = "init"
  /\ gaveUp' = (gaveUp \/ forced = 0)
  /\ pc' = "reload"
  /\ UNCHANGED <<name, bound, mode, wpc, loaderVars, changed, cfg, forced, es, esCfg, retryDue,
                 procVars, walkVars, history>>

\* A new configuration: comm_map_init, then full_scan.
ReloadSkip ==
  /\ pc = "reload"
  /\ es = "none" \/ ~changed
  /\ pc' = "run"
  /\ UNCHANGED <<worldVars, webVars, loaderVars, changed, cfg, forced, es, esCfg, retryDue,
                 procVars, walkVars, history>>

Reload ==
  /\ pc = "reload" /\ es # "none" /\ changed
  /\ FullScan
  /\ pc' = "run"
  /\ UNCHANGED <<name, env, webVars, loaderVars, changed, cfg, forced, es, retryDue, procVars,
                 walkVars, history>>

\* comm_map_init reports that the whitelist does not fit: eBPF is unloaded ...
ReloadOverflow ==
  /\ EnvStep
  /\ pc = "reload" /\ es # "none" /\ changed
  /\ es' = "none" /\ esCfg' = NoCfg
  /\ pc' = "reinit"
  /\ UNCHANGED <<name, bound, webVars, loaderVars, changed, cfg, forced, retryDue, procVars,
                 walkVars, history>>

\* ... and loaded again with room for it; the loop starts over in either case.
Reinit ==
  /\ pc = "reinit"
  /\ es' = "live"
  /\ FullScan
  /\ pc' = "top"
  /\ UNCHANGED <<name, env, webVars, loaderVars, changed, cfg, forced, retryDue, procVars,
                 walkVars, history>>

ReinitFail ==
  /\ EnvStep
  /\ pc = "reinit"
  /\ dropped' = TRUE
  /\ pc' = "top"
  /\ UNCHANGED <<name, bound, webVars, loaderVars, changed, cfg, forced, es, esCfg, retryDue,
                 procVars, walkVars, asked, walked>>

\* Mutant: the branch is chosen by the forced mode, not by what is loaded.
RunByMode ==
  /\ pc = "run"
  /\ pc' = IF forced # 2 THEN "recv" ELSE "sysinfo"
  /\ UNCHANGED <<worldVars, webVars, loaderVars, changed, cfg, forced, es, esCfg, retryDue,
                 procVars, walkVars, history>>

\* The eBPF branch waits for events; the /proc branch notes a new configuration.
Run ==
  /\ pc = "run"
  /\ IF es # "none"
     THEN pc' = "recv" /\ UNCHANGED <<scanAll, lastCount, dropped>>
     ELSE /\ pc' = "sysinfo"
          /\ scanAll' = (scanAll \/ changed)
          /\ lastCount' = IF changed THEN 0 ELSE lastCount
          /\ dropped' = (dropped /\ ~changed)
  /\ UNCHANGED <<worldVars, webVars, loaderVars, changed, cfg, forced, es, esCfg, retryDue,
                 cache, tracked, lastTotal, forceAff, walkVars, asked, walked>>

\* The channel reported its end: back to /proc polling.
Recv ==
  /\ pc = "recv"
  /\ IF es = "orphan"
     THEN es' = "none" /\ esCfg' = NoCfg /\ Rescan
     ELSE UNCHANGED <<es, esCfg, procVars>>
  /\ pc' = "top"
  /\ UNCHANGED <<worldVars, webVars, loaderVars, changed, cfg, forced, retryDue, walkVars, history>>

-----------------------------------------------------------------------------
(* The /proc branch: cache_sync, proc_scan, affinity_sync *)

BeginWalk == pc' = "walk" /\ pos' = 0 /\ total' = 0 /\ cache' = EmptyCache /\ walked' = {}

\* The thread count of sysinfo: a scan is due if it grew by more than Growth.
Sysinfo ==
  /\ pc = "sysinfo"
  /\ lastCount' = ThreadCount
  /\ forceAff' = (forceAff \/ ThreadCount \in lastCount + 1 .. lastCount + Growth)
  /\ IF scanAll \/ ThreadCount > lastCount + Growth
     THEN BeginWalk /\ UNCHANGED todo
     ELSE /\ pc' = "kill"
          /\ todo' = tracked
          /\ UNCHANGED <<pos, total, cache, walked>>
  /\ UNCHANGED <<worldVars, webVars, loaderVars, changed, cfg, forced, es, esCfg, retryDue,
                 scanAll, tracked, lastTotal, dropped, asked>>

\* Mutant: the answer of kill(pid, 0) is ignored.
KillProbeBlind(p) ==
  /\ pc = "kill" /\ p \in todo
  /\ todo' = todo \ {p}
  /\ UNCHANGED <<worldVars, webVars, loaderVars, changed, cfg, forced, es, esCfg, retryDue,
                 procVars, pc, pos, total, history>>

\* kill(pid, 0) of a tracked process: one that is gone makes a scan due.
KillProbe(p) ==
  /\ pc = "kill" /\ p \in todo
  /\ IF Alive(p)
     THEN todo' = todo \ {p} /\ UNCHANGED <<pc, pos, total, cache, walked>>
     ELSE todo' = {} /\ BeginWalk
  /\ UNCHANGED <<worldVars, webVars, loaderVars, changed, cfg, forced, es, esCfg, retryDue,
                 lastCount, scanAll, tracked, lastTotal, forceAff, dropped, asked>>

KillDone ==
  /\ pc = "kill" /\ todo = {}
  /\ pc' = "sync"
  /\ UNCHANGED <<worldVars, webVars, loaderVars, changed, cfg, forced, es, esCfg, retryDue,
                 procVars, walkVars, history>>

\* proc_walk reaches the process p and caches it if it may be a configured one.
WalkProc(p) ==
  /\ pc = "walk"
  /\ Alive(p) /\ p > pos
  /\ \A q \in Live : q > pos => p <= q
  /\ pos' = p /\ total' = total + 1
  /\ IF (scanAll \/ p \in tracked) /\ name[p] \in CfgPkgs[cfg]
     THEN /\ cache' = [cache EXCEPT ![p] = [pkg |-> name[p], cfg |-> cfg]]
          /\ walked' = walked \cup {p}
     ELSE UNCHANGED <<cache, walked>>
  /\ UNCHANGED <<worldVars, webVars, loaderVars, pc, changed, cfg, forced, es, esCfg, retryDue,
                 lastCount, scanAll, tracked, lastTotal, forceAff, todo, dropped, asked>>

\* The end of proc_scan and of cache_sync.
WalkDone ==
  /\ pc = "walk"
  /\ \A q \in Live : q <= pos
  /\ scanAll' = (total > lastTotal)
  /\ lastTotal' = total
  /\ tracked' = Cached
  /\ forceAff' = TRUE
  /\ pc' = "sync" /\ pos' = 0 /\ total' = 0
  /\ UNCHANGED <<worldVars, webVars, loaderVars, changed, cfg, forced, es, esCfg, retryDue,
                 cache, lastCount, todo, history>>

\* affinity_sync binds the cached processes and drops the dead ones.
AffinitySync ==
  /\ pc = "sync"
  /\ bound' = [p \in Pids |-> IF p \in Cached /\ Alive(p) THEN cache[p] ELSE bound[p]]
  /\ cache' = [p \in Pids |-> IF Alive(p) THEN cache[p] ELSE NoEntry]
  /\ forceAff' = FALSE
  /\ pc' = "sleep"
  /\ UNCHANGED <<name, env, webVars, loaderVars, changed, cfg, forced, es, esCfg, retryDue,
                 lastCount, scanAll, tracked, lastTotal, walkVars, history>>

\* Mutant: force_affinity is not looked at.
SyncSkipAlways ==
  /\ pc = "sync"
  /\ pc' = "sleep"
  /\ UNCHANGED <<worldVars, webVars, loaderVars, changed, cfg, forced, es, esCfg, retryDue,
                 procVars, walkVars, history>>

\* The deadline has not passed and nothing forces it.
SyncSkip ==
  /\ pc = "sync" /\ ~forceAff
  /\ pc' = "sleep"
  /\ UNCHANGED <<worldVars, webVars, loaderVars, changed, cfg, forced, es, esCfg, retryDue,
                 procVars, walkVars, history>>

Wake ==
  /\ pc = "sleep"
  /\ pc' = "top"
  /\ UNCHANGED <<worldVars, webVars, loaderVars, changed, cfg, forced, es, esCfg, retryDue,
                 procVars, walkVars, history>>

-----------------------------------------------------------------------------
MainNext ==
  \/ SwapFlag \/ ReadConfig \/ ReadMode
  \/ RetrySkip \/ RetryBegin \/ RetryEnd \/ RetryFail
  \/ ReloadSkip \/ Reload \/ ReloadOverflow \/ Reinit \/ ReinitFail
  \/ Run \/ Recv
  \/ Sysinfo \/ KillDone \/ WalkDone \/ AffinitySync \/ SyncSkip \/ Wake
  \/ \E p \in Pids : KillProbe(p) \/ WalkProc(p)

Next ==
  \/ MainNext
  \/ \E p \in Pids : End(p) \/ \E n \in Pkgs \cup {Other} : Start(p, n)
  \/ \E m \in 0..2 : SetMode(m)
  \/ ClearGaveUp
  \/ \E c \in Configs : Publish(c)
  \/ Announce \/ ReaderDies \/ RetryTimer

\* The threads of the daemon run, and the retry interval passes again and again.
Fairness ==
  /\ WF_vars(MainNext) /\ WF_vars(ClearGaveUp) /\ WF_vars(Announce) /\ WF_vars(RetryTimer)

Spec == Init /\ [][Next]_vars
FairSpec == Spec /\ Fairness

-----------------------------------------------------------------------------
(* Properties *)

NoUpdatePending == ~updated /\ unannounced = 0

\* Whichever mode waits for its next round, whatever switches of mode, deaths of
\* the reader thread and reloads lie behind it, its cache was built by the
\* configuration that was published last -- except after a reload of eBPF failed.
CacheFresh ==
  NoUpdatePending /\ ~dropped =>
    /\ pc = "recv" => esCfg = current
    /\ pc = "sleep" => \A p \in walked : cache[p].cfg = current

\* In /proc mode a process that is still the one the scan cached has been given
\* the CPUs of its entry when the loop goes to sleep: nothing is left bound as
\* the other mode or an earlier configuration had it.
BoundAsCached == pc = "sleep" /\ ~dropped => \A p \in walked : bound[p] = cache[p]

\* A user who forces /proc polling gets it, whatever the loop is doing.
ProcModeTaken == mode = 2 ~> (es = "none" \/ mode # 2)

\* A user who forces eBPF gets it once loading it works: failures do not make
\* the loop give up.
EbpfModeTaken == mode = 1 ~> (es = "live" \/ mode # 1)

\* A process that has died does not stay in the cache of the /proc mode.
DeadDropped ==
  \A p \in Pids : (p \in Cached /\ ~Alive(p)) ~> (p \notin Cached \/ Alive(p) \/ es # "none")

-----------------------------------------------------------------------------
(* What the repository says and the code does not do *)

\* main.rs: the flag is swapped before the configuration is read so that no
\* update is missed.  A failed reload consumes the update all the same.
NoUpdateMissed ==
  NoUpdatePending => /\ pc = "recv" => esCfg = current
                     /\ pc = "sleep" => \A p \in walked : cache[p].cfg = current

\* web.rs: a user who turns back towards eBPF has the given-up mark cleared to
\* allow a retry.
RetryAllowed == asked ~> (~asked \/ es # "none" \/ mode = 2)
=============================================================================
