# AppOpt: specifications

AppOpt is a daemon for Android that binds the threads of applications to CPUs
by a list of rules, and lowers the refresh rate of the screen when nobody
touches it. This directory holds TLA+ modules that model its concurrent core
and the algorithms it rests on, TLC configurations that check them on small
instances, and proofs checked by TLAPS for every value of the constants.

The repository holds two generations of the program. `AppOpt/` and
`AppOpt-ebpf/` (version 2.2.3) have build files and are what most modules are
about. The `*.rs` files at the root are a later draft that no build file refers
to; its new parts are modelled, too, and always called *the draft*. Paths below
are relative to the repository; those without a directory are in `AppOpt/src/`.

## The system

| Part | State | Operations | What makes it correct |
|---|---|---|---|
| kernel programs (`AppOpt-ebpf/src/main.rs`) | `APPLIED_MAP` (LRU, 8192), `TARGET_COMM_MAP`, ring `EVENTS` (256 KiB) | programs at fork, exec, rename, exit, input | what they filter out or drop must not leave the daemon with dead or unknown threads |
| eBPF mode (`ebpf_mode.rs`) | `EbpfState`: channel, cache, reader thread, maps | `ebpf_reader`, `event_dispatch`, `full_scan`, `affinity_check`, `comm_map_init`, `ebpf_init`, `Drop` | cache, maps, ring and channel agree although four parties change them |
| process cache (`cache.rs`, `apply_affinity.rs`) | `tasks`: tid to package, CPUs, directory, kind of rule | `task_apply`, `affinity_sync`, `affinity_set`, `proc_walk` | thread rules are not downgraded; the dead go |
| rule matching (`rule_match.rs`) | none | `thread_affinity`, `comm_to_pkg` | agrees with the kernel whitelist |
| /proc mode (`proc_mode.rs`) | `ProcScanState` | `cache_sync`, `proc_scan` | finds new processes, drops dead ones, follows rules |
| main loop (`main.rs`) | `ebpf_state`, `proc_state`, retry and check deadlines | switches between the modes, reloads, retries | no update and no request is lost in a switch |
| configuration loader (`config.rs`) | `CURRENT_CONFIG`, `CONFIG_UPDATED`, inotify watch, `last_mtime`, `CONFIG_FILE`, `FORCE_RELOAD` | parser, `load_config`, `config_reload`, `inotify_handle`, `inotify_rewatch` | the last content of the file is what runs |
| rule editor (`rule_edit.rs`) | the configuration file | `target_scan`, `normalize_singles`, `rule_upsert`, `rule_delete`, `rule_delete_pkg`, `rule_rename` | reads the file as the parser does and changes nothing else |
| web interface (`web.rs`) | settings in memory and in `AppOpt.json`, `MODE_FORCE`, `EBPF_GAVE_UP` | a thread per connection; about 20 handlers | concurrent handlers lose nothing; a crash leaves a readable file |
| refresh rate (`refresh.rs`) | `RefreshState`, eventfd, timerfd, socket, `REFRESH_FORCE_RELOAD` | epoll loop, writers of `refresh_config.conf` | rate, pause flag, timer and file agree |
| process observer (`process_observer.rs`) | UID map with the mtime of `packages.list` | Binder callback | names the package in the foreground |
| CPU sets (`cpuset.rs`) | topology, directories under the cpuset base | parsing and formatting of CPU lists, core classes | round trip, word boundaries, directories where they are looked for |
| the draft (`*.rs` at the root) | exit probe, affinity worker, tables and cached rules of one event loop | `on_fg`, `on_exit`, reloads | records are watched, kernel switches follow the application in front, and threads run under the rules of their names |
| web page, build files | | | not modelled |

How they interact. The kernel programs and the main thread share two maps, and
the ring leads from the programs to the reader thread, from there a channel to
the main thread. Loader and web handlers hand configurations to the main thread
through a mutex and a flag; both parse the file, which editors and the rule
editor's handlers write. The loader creates the cpuset directories that the main
thread moves threads into. The main thread and web handlers hand input and new
refresh configurations to the refresh thread through a channel or a flag, and an
eventfd; the observer sends it package names through a socket.

What is hard about it: every one of these hand-overs takes two or more steps
with other threads in between; threads of applications are born, renamed and die
between any two system calls; rings and maps are bounded and drop entries; files
are replaced, truncated and moved while they are read; modes are switched while
all of it goes on. `PROJECT.json` lists these hazards, each with its line and
with the properties that cover it.

## Modules

    AffinityRules              rules, matching (pure)
      EbpfKernel               threads and the kernel programs
        EbpfMode               + reader, publication, main thread in eBPF mode
          EbpfModeProofs       theorems about EbpfMode
            EbpfThreadProofs   and two about its threads
          MCEbpf               instances
    ConfigRegister             abstract: a configuration published in two steps
                               (implemented by EbpfMode and by ConfigReload)
    ModeSwitch                 main loop, both modes, /proc polling
      ModeProofs, MCModeSwitch
    RefreshRate                refresh-rate thread and those who wake it
      RefreshProofs, MCRefresh
    ConfigText                 the rule file as lines of tokens, the parser
      RuleEdit                 the rule editor
        MCRuleEdit
    ConfigReload               loader, inotify, mtime, handlers, files
      ConfigReloadProofs, MCReload
    SettingsStore              settings, AppOpt.json, kill and restart
    UidMap                     packages.list and the observer's map
    RefreshConfig              writers of refresh_config.conf
      Stores                   the three of them in one process
        StoresProofs, MCStores
    CpuSpec                    CPU sets and how they are written
      CpusetDirs               directories, and threads moved into them
        CpusetProofs, MCCpusets
    ExitProbe                  draft: processes and the exit probe
      AffinityWorker           draft: + the worker thread
        ForegroundLoop         draft: + the event loop, tables, reloads
          ForegroundProofs, MCForeground

**AffinityRules.** `ThreadAffinity`, `CommToPkg` and `WhitelistMatched` are the
functions of those names. A name is an abstract value; what `fnmatch`, the
15-byte prefix and suffix comparisons and the 8-byte whitelist window decide is
given by constants, tied together by one assumption (a comm that `comm_to_pkg`
can match contains a whitelist key of the package: the key is a part of the
package name of at most 8 bytes at the same end). An optional result is a set
with at most one element.

**EbpfKernel.** One action per thing a thread can do. `Clone`, `Rename`, `Exec`,
`Exit` and `Input` include the program that runs at it: whether the thread is
tracked or whitelisted, whether the event fits into the ring, what `APPLIED_MAP`
becomes and which entry the LRU map evicts (any). Exit and reaping are apart: in
between, the exit program has run and the thread can still be given CPUs. An exec
is a rename followed by the exec event, as in the kernel. The history variables
`lost` and `missed` name what the kernel side did not tell; no guard reads them.

**EbpfMode.** The main thread is a program counter with one action per place
where something another thread changes is read or written:

| places | code |
|---|---|
| `top`, `read` | swap of `CONFIG_UPDATED`, then `CURRENT_CONFIG` (`main.rs:238-242`) |
| `wlclear`, `wlfill` | `comm_map_init` |
| `scan`, `clear`, `walk`, `tids` | `full_scan`: the cache and each key of `APPLIED_MAP`, then /proc by rising pid, then each listed tid |
| `mark` | between `affinity_set` and `applied_set` in `affinity_apply` |
| `recv` | `recv_timeout`, the `try_recv` loop, `event_dispatch` |
| `deadline`, `check`, `purge` | the affinity deadline, `affinity_check` |

`TaskApply` ends at a refusal, at the protection of a thread rule (`Protected`; the
history variable `kept` then holds the package the thread was taken for), or at `mark`.
Reader and publication are actions of their own; any number of threads may
publish (`unannounced` counts those between the store and the flag, as the
loader and every web handler run `config_reload`).

**ConfigRegister.** What the main thread relies on, whoever publishes: a
configuration is stored, later announced by a flag; the reader takes the flag
down, later reads. `Fresh` says that this loses nothing.
EbpfMode implements it with the loader as a counter, ConfigReload with the
loader and the handlers in full; both say so as a property (`ImplementsRegister`,
by `INSTANCE ... WITH`), which TLC checks and TLAPS proves.

**ModeSwitch.** The loop of `main.rs` with `ebpf_state` as one of none, live or
orphaned (its reader is gone), the web handler in its two stores, failing and
succeeding `ebpf_init`, capacity reloads, and `cache_sync`/`proc_scan` step by
step. A cache entry stands for the threads of one process and carries the
configuration it was computed from. `full_scan` is one step here, since its
inside is EbpfMode's subject.

**RefreshRate.** The functions on `RefreshState` are functions on a record; the
actions are the epoll loop's: a batch of ready descriptors in any order, the
eventfd, the channel, the flag, the two reads of the file, the timer's read and
the switch, the socket. Each store of the other threads is an action. Time is a
`Tick` of one second; ages stop at `MaxAge`, beyond which no guard tells them
apart. A read that falls into the writing of the file sees it empty or whole.

**ConfigText, RuleEdit.** A line of the rule file is a record of what parser and
editor look at: its head, its specification, whether it opens or closes a block,
a comment. `Parse` is the parser (block state, single-line and block rules, the
last of several rules for one thread); the editor's `TargetScan`,
`NormalizeSingles` and the four edits are translated separately, as the code has
two readers of one format. One edit is one action, as `WRITE_LOCK` is held
around it.

**ConfigReload.** The program counters are those of the loader and of each web
handler that parses the file itself; both run the same steps (`stat`, `read`,
`store`, `announce`). A write gives a file a new version, which serves as content
and as modification time; `open` is the set of files being written in place; a
replacement or removal takes the watch with the old file. `InitInotify` may fail,
and then the loader polls modification times. A handler that sets another path
stores the path and later `FORCE_RELOAD`. The history variable `lost` marks a change
that nobody is told of (below).

**SettingsStore, UidMap, RefreshConfig, Stores.** `settings_save` takes a snapshot
field by field before `SAVE_LOCK`, then creates the temporary file, writes it, renames it, each
step with its failure; `Restart` is a kill at any step followed by `settings_load`
and the command line. The observer reads `packages.list` and then asks for its
modification time; either may fail. The list is written several times within a second,
which the time, in whole seconds, does not tell apart. The writers of `refresh_config.conf` read, edit and write in
place without a lock. Stores puts them into one process that is killed as a whole.

**CpuSpec, CpusetDirs.** CPU sets are sets of numbers; the formatter goes over them bit by
bit and word by word as in the code, and the parser's ranges are kept; numbers
are numbers, and a text is a sequence of parts. The main thread matches a thread
against the rules, computes its directory, moves it there and sets its mask; the
loader adds directories while it parses, `config_set_api` creates the base, and
the system moves threads elsewhere. Paths contain the base of the moment in which
they are used, so a stale base is visible.

**ExitProbe, AffinityWorker, ForegroundLoop.** The draft replaces scanning by one
epoll loop: a callback says that a process came to the front, `on_fg` evicts,
records, watches and binds; the handler of exits undoes. `watch` fails for a dead process,
and may fail for a living one, without a word; an exit may be dropped by a full socket. The
worker thread sleeps two seconds between identity and binding, an action each.
`Reload` is what the loop does with `CPU_RULES_CHANGED` and `LAST_RULE`, which web
threads and loader write in steps; of the packages with rules it hands over those that
`pkg_uid` has (`CpuPkgUids`). The rules of one application are a version, 0 for none, and
`RuleFor` says which rule a version has for the name of a thread: an edit of one thread
(`only_thread`) leaves the other names theirs, and has the worker bind the processes with
a thread of that name. A process gets all its threads when it starts. The three kernel
features are records of who asked and a switch.

## Runs

| run | checks | instance |
|---|---|---|
| EbpfSafety | TypeOK, CacheTracked, NamesFollowed | 2 thread ids that are reused, renames by other threads, 2 packages, ring of 2 events, channel and `APPLIED_MAP` of 1 entry, 3 steps of the environment |
| EbpfLiveness | ConfigFresh, UpdateTaken, DeadForgotten, CpusEnforced, RunningNotForgotten, ImplementsRegister | ids not reused, rules that are withdrawn and come back, 3 steps |
| ModeSafety | TypeOK, CacheFresh | 1 pid, two versions (symmetric), 5 steps |
| ModeLiveness | BoundAsCached, ProcModeTaken, EbpfModeTaken, DeadDropped | 2 pids, 2 steps |
| RefreshThread | TypeOK, ReloadNotMissed, RateOfForeground, TimerArmed, IdleNotEarly, SettlesIdle | 2 packages, 3 files, timeouts of 2 and 3 seconds, 4 events from outside |
| ConfigReload | TypeOK, WatchSound, ChangeAttended, HotReload, ImplementsRegister | 2 files, 1 web handler beside the loader, 4 versions |
| RuleEdit | OthersKept, EditTakesEffect, StaysClean | every file of up to 4 lines of 12 shapes, every edit |
| Stores | TypeOK, SavedWhenIdle, LookupFresh, SaveKeepsRest | 2 settings, 2 web threads (symmetric) and main, 4 events of which a request takes 2, 4 first files, 1 kill |
| Cpusets | NamesExact, DirsPlaced, Enforced | 3 words of 2 CPUs, 2 threads, 2 web threads, 2 bases, 3 rule files, 2 events |
| Draft | TypeOK, RecordsWatched, SwitchAccounted, ForegroundBound | 2 processes (symmetric), 2 applications, 2 names of threads, 2 versions of rules, 6 starting states, each with its budget of events and of failures |
| ModeMissedUpdate | NoUpdateMissed is violated | as ModeSafety |
| RuleComment | SavedRuleExists is violated | files of up to 2 lines with comments |

- *CacheTracked*: a remembered thread is alive and in `APPLIED_MAP`, or its exit is in the
  ring or the channel. Excepted (`lost`): the ring was full, the LRU map evicted it, or it
  died between `affinity_set` and `applied_set` and was remembered all the same. Those
  wait for the periodic check.
- *NamesFollowed*: when all events are handled, a remembered thread has the CPUs
  of the rules for its present name. An earlier thread rule stays in force only if
  `task_apply` last let it be, for the very package it took the thread for (`kept`), and
  that package has just a package rule for the name. Excepted (`missed`): the kernel side
  could not tell the name, or no package that the thread could be taken for has a rule
  for the name that was dispatched.
- *ConfigFresh, UpdateTaken*: no published configuration is missed, and each is taken
  once the finitely many events under way are dispatched. Events without end do starve
  it: the main loop drains the channel before it looks at the flag again.
- *RunningNotForgotten*: only a new scan, an exec or an exit takes an entry out
  of the cache. It needs that ids are not reused: an EXIT that waits in the
  channel while its id is given to a new, already marked thread deletes the new
  thread's entry, and the code has nothing to tell the two apart.
- *DeadForgotten, CpusEnforced*: the periodic check is the net under all losses.
- *CacheFresh, BoundAsCached*: whichever mode runs, cache and bindings come from
  the configuration published last -- except after a failed reload (below).
- *ProcModeTaken, EbpfModeTaken, DeadDropped*: requests of the user are carried
  out; the dead leave the cache of the /proc mode.
- *ReloadNotMissed, RateOfForeground, TimerArmed, IdleNotEarly, SettlesIdle*:
  file, rate, timer and debounce of the refresh-rate thread agree.
- *WatchSound, ChangeAttended, HotReload*: the watch is on the file of the
  moment or about to be; a stale configuration is going to be replaced; in the
  end the main thread works by what the file says.
- *OthersKept, EditTakesEffect, StaysClean*: seen through the parser, an edit
  does what it was asked to and leaves the other packages alone; every edit of a
  tidy file comes to an end and leaves no line behind that the parser skips.
- *SavedWhenIdle, LookupFresh, SaveKeepsRest*: what is on disk is what is in memory
  once nobody saves; a save keeps the other lines; the map, when it is used, knows what was
  written before the application came to the front (`process_observer.rs:243`). Of this
  the code excepts further writes in the second of the last one, a list that is written
  between its content and its time being read (`late`), and an event that cannot read the
  list or its time (`failed`).
- *NamesExact, DirsPlaced, Enforced*: the text of a CPU set is read as that set,
  by the kernel as a directory and by the parser; a managed thread's directory is
  there with its CPUs; every managed thread ends on them.
- *RecordsWatched*: a process with a record is registered with the probe, or its exit is on
  its way to the loop. Excepted (`unreported`): `watch` failed, of which nobody is told,
  or the exit could not be sent; the record then stays for good.
- *SwitchAccounted*: the switch of the service list is on only while there is a record of
  a process that asked for it, and is on while the application of the last callback asks
  for it. Excepted by who set it last (`srvBy`): `sync_vfc_rules` turns it on without a
  record, and no later callback or exit turns it off; an exit turns it off for the
  application in front; and a synchronisation trusts `srv_active_cur`, which callbacks and
  exits do not keep, and leaves it off.
- *ForegroundBound*: when worker and loop have nothing left to do, every thread of every
  process in front runs under the rule of its name, after edits of whole applications and
  of single threads. Excepted (`overlooked`, by application and name): its rule changed
  and no message of the reload reached the thread, because `CPU_RULES_CHANGED` or
  `LAST_RULE` held what another edit had left, `pkg_uid` lacked the application, or the edit
  named threads by a pattern, which the worker compares literally; or the process came
  to the front while `uid_map` lacked its application.

**History variables.** Some properties except cases in which the code does lose
something; the case is recorded by a variable that no guard reads: `lost` and
`missed` (kernel side), `kept` (EbpfMode), `dropped` (ModeSwitch), `lost` (ConfigReload),
`late` and the observer's `failed` (UidMap), `behind`
(SettingsStore: a write failed, or an older snapshot was written last),
`unreported`, `srvBy` and `overlooked` (the draft). Each is set only in the step that
loses, so the property still says that nothing else does. `since` (UidMap) and `owed`
(the draft: applications and names whose rule changed since the last reload) only
remember what such a step needs.

**Bounds.** `MaxEnv`, `MaxEvents`, `MaxVersion`, `MaxKills`, `MaxEdits` and the draft's
budgets and `faults` bound what applications, users, files and failures do in one behaviour; the
daemon's own steps are not bounded. A violation of the properties of the eBPF mode
needs at most three of a birth, a rename, an exit and a loss, as one thread runs
from the start and an id is reused by the birth itself; one of the stores needs two savers and a kill, or a write, a
look-up, a second write and a second look-up of the list, which are the 4 events, of which
a request counts as `Cost` = 2; one of the loader, two
of: a change during a parse, another path, a replacement, a write in place, which
take versions 3 and 4, the files themselves having 1 and 2. The draft's budgets are spread over six starting states because a
process that starts, comes to the front and dies takes three of them; each
combination of two kinds of disturbance (processes, packages, rule edits, table
edits, failures of the probe) that the code handles together has a starting state of its
own. Two names of threads are a thread of the edited name and another one, and the two
versions of rules differ in one of them. A line shape of RuleEdit stands for one
way through the parser; four lines hold a block with two rules. Capacities of 1
make every overflow and eviction happen at the second entry, the ring of 2 at the third; `ChanCap` bounds a
channel that is unbounded in the code, and delays the reader instead of losing
events. Words of 2 CPUs have boundaries inside and at the end of ranges. Growth is
0 or 1 instead of 11, the slack of the debounce 1 second instead of 10, timeouts 2
and 3 seconds instead of 30: the relations between them (below, at and above each
threshold) are kept. Capacity failures and failing system calls are steps of the
environment and so bounded, which is the only way in which they are assumed to end.

**Deadlock** is checked in every run but Draft, Stores, RuleEdit and RuleComment,
where every behaviour ends when the budget of events is spent and all threads wait.

**Fairness.** EbpfMode, ModeSwitch, RefreshRate: `WF(MainNext)`, `WF(Read)`,
`WF(Announce)`, `WF(Refresh)`, `WF(Web)`: the scheduler lets the daemon's threads
run; none of them blocks on another inside these steps. `SF(CheckStart)` in
EbpfMode: the place `deadline` is reached again and again and the deadline of 3
intervals passes again and again, so it cannot be found unexpired each time.
`WF(RetryTimer)`, `WF(Tick)`: time passes. ConfigReload: weak fairness of the
loader, the main thread and each handler that has begun, and of `CloseWrite`: who
opens a file for writing closes it. CpusetDirs: weak fairness of web threads, loader
and main thread once they have work. Nothing is assumed of applications, users or
the kernel's reaping. Stores, RuleEdit and Draft state safety only.

### Where the code differs from what the repository says

Two runs check one statement of the repository each and end in a counterexample;
`PROJECT.json` quotes the statements.

- **ModeMissedUpdate**: "no update is missed" -- a reload that fails has used up
  `config_changed`, and the /proc mode goes on with an old cache.
- **RuleComment**: package rule and thread rules of a dialogue "are saved
  together" -- behind a package line with a comment the editor's brace becomes a
  part of the comment, and the parser never reads the rule that was answered as saved.

Other statements that the code does not keep are definitions in the modules; TLC
refutes each when it is added to the configuration named.

| definition | in | what happens |
|---|---|---|
| `EveryThreadTracked` | EbpfSafety | a thread cloned after its process's threads were listed and before its parent was marked is unknown to cache and kernel programs |
| `RenameReported` | EbpfSafety | the rename program reports the thread that writes the name, not the one that is named |
| `RetryAllowed` | ModeSafety, with `FairSpec` and without symmetry | a running attempt that fails sets the mark again that the web handler cleared to allow a retry |
| `RunningMeansActive` | RefreshThread | the timer also runs at the idle rate, where input does not bring back the active one |
| `PausedMeansIdle` | RefreshThread | after a save while idle the rate is the active one although the page says idle |
| `InputActivates` | RefreshThread | an expiry in the same batch takes away the active rate that input brought back |
| `EveryChangeAttended` | ConfigReload | a change between the first load and the watch, or under the eyes of a handler that parses the file, is not loaded until the next one |

Remarks that no definition states:

- `task_apply` at a RENAME drops a dead thread from the cache but not from
  `APPLIED_MAP`, where only the LRU then removes it.
- A rename can leave a thread with an earlier thread rule although its own package
  has one for the new name: the name may also fit another package, `comm_to_pkg` takes the
  thread for one of that package, and a package rule replaces no thread rule.
- `cache_sync` runs `proc_scan` only when the number of threads grew by more than 11
  in a round, so that a process which appears in smaller steps is not bound.
- A range whose end has too many digits to parse counts as its beginning
  (`cpuset.rs:166`) instead of being refused.
- A rule file that cannot be read, or is not UTF-8, is edited as an empty one and
  overwritten (`unwrap_or_default`); `refresh_config.conf` is rewritten in place, so
  that a crash in between leaves it short; of several lines for one application the
  editor changes the first and the loader uses the last; cpuset directories under an
  earlier base are never removed; two writes within one second have one mtime.

The draft, found while its modules were written: a failed transfer of rules updates
the cache all the same, against the comment at `src/main.rs:494`; `on_fg` does not
record in `srv_active_cur` what it switches; the exit of an application in the
background turns off the rules of the one in front; property files of an application
stay on over a reload; a reload tells the kernel `last_fg_uid` again even if it has
gone to the background; `ApplyPkgByName` makes a process hot that nobody watches; a switch that
`sync_vfc_rules` turned on stays on when its application leaves or dies; a `watch` that fails is never
repeated, although the comment at `src/event_probe.rs:73` speaks of the next time; a
new configuration path wakes the loop without a reload; an edit by hand of refresh
lines only never reaches the loop's tables; `EvictUid` after a restart of the
application clears the counts of the new process. `src/main.rs` and `src/cpu_affinity.rs`
do not fit together. `ApplyPkgByUid`, `ApplyThreadByUid` and `start()` are there under
other names or signatures (`ApplyPkgByName`, `ApplyThread`), which the model follows, with the
packages that `main.rs` sends. `apply_all_now` is given a map of packages and uids by
`main.rs` and takes none: the message carries that map's packages. `cpu_known_pid_to_uid`
(`main.rs:1176`) exists nowhere; by its name it looks the identity up, and the loop then
sends `EvictUid`. Whether the worker evicts the identity with it, as the comment in
`main.rs` says, or only the counts, as `cpu_affinity.rs` does, is left open: the model
allows both.

## Proofs

Eight modules hold theorems. Each is for all values of the constants, under the
assumptions named in the component's module; the bounds on steps are constants as
well, so the theorems hold for any number of steps. TLC checks the same invariants
on the instances above, and evaluates the assumptions.

**EbpfModeProofs** (`RulesAssumption`, `KernelAssumption`, `ModeAssumption`).
- `TypeCorrect`: `Spec => []TypeOK`. It is not only types: the walk's `todo` is
  a part of the cache at `check`, `cur` is there at `tids`, and `mark` has work.
- `DeathsNoticed`: `Spec => []CacheTracked`. The invariant is `TrackInv`.
  CacheTracked alone is not inductive: `applied_clear` and the removals of
  `affinity_check` take keys away without an event, and are harmless only because
  the cache is empty at `clear` and the keys are out of it at `purge`, which
  `TrackInv` adds. The lemmas say what each queue operation does to pending exits
  (`QueuesKept`, `ReadKeeps`, `ReceiveKeeps`), what `TaskApply` may change, and
  that each kernel action keeps every thread tracked.
- `UpdatesNotMissed`: `Spec => []ConfigFresh`, by `FreshInv`, which says at each
  place what the main thread knows of the published configuration once no
  announcement is outstanding: at `read` either the flag was up or nothing is new;
  from `wlclear` on `cfg` is current; after `scan` the scan is, too.
- `RegisterImplemented`: `Spec => Register!Spec`; every step is one of the
  register's or leaves its variables alone.

**EbpfThreadProofs**. `RunningRemembered`: `~ReuseTids /\ Spec => RunningNotForgotten`, by
`EndInv`: no id is used before its thread begins or again after it has ended
(`Onward`), so what the ring, the channel, the cache, the walk and the list of the dead
say of an id, they say of the thread that bears it now. An id that is used twice breaks
just this: the exit of the old thread then removes the entry of the new one.
`RulesFollowed`: `Spec => []NamesFollowed`, reuse or not, by `NameInv`: the last event
in ring or channel with a thread's name bears its present one; when none is on its way
and no scan is due, the entry follows the name, be it in the cache or, at `mark`, in
hand, with `kept` reset wherever the entry is not let be. NamesFollowed was first stated for one package; the proof's case of a rename
that is taken for another package failed, and TLC showed why (see the remarks).

**ConfigReloadProofs** (`ReloadAssumption`). `ReloadTypes`, `WatchIsSound`,
`ChangesAttended` and `ReloadImplementsRegister`; through the last also `NothingMissed`: what
the abstract register promises (`Register!Fresh`, proved of the register once) holds of
loader, web threads and main thread. `ReloadInv` adds to the two
properties what ties times to contents: versions of different files differ
(`VersionsDiffer`); no time noted is of the future (`TimesPast`), so a new version is
never mistaken for an old one; a loader that was told parses unconditionally
(`NothingNoted`); what it has in hand belongs to the time it noted, or a message is on
its way (`ReadSound`, `StoreSound`); a noted time that is still the file's means that
the configuration is, too (`MtimeSound`). The last is what polling rests on, and
what a switch from inotify to polling needs.

**ForegroundProofs** (`ProbeAssumption`, `WorkerAssumption`, `LoopAssumption`).
- `ForegroundTypes`: `Spec => []TypeOK`, by `TypeInv`, which adds what a thread that
  parses has in hand (`WebTypes`).
- `RecordsAreWatched` and `SwitchIsAccounted`, by `RecordInv`, which is the two properties:
  with the types they are inductive, since each exception is a history variable that
  the step which loses sets.
- `ForegroundIsBound`: `Spec => []ForegroundBound`, by `BindInv`. A living process of the
  foreground is named by a callback that waits, or each of its threads is covered
  (`ThreadCovered`): it runs under its rule, or a message that binds it waits or is in the
  worker's hands (`Pending`), or its rule is owed or was overlooked. The name of the
  thread matters: an edit of one thread covers the processes with such a thread, and
  for all other threads the version it brings changes nothing. `KnownCovered` is why a process that the loop knows already needs no
  second message; `ChangesOwed`, that rules which the loop has not told the worker have a
  reload on its way, a store that comes after the wake meant for it included;
  `MessagesRight`, that a message names a process of its own application.

**RefreshProofs** (`RefreshAssumption`). `RefreshTypes`, `SavesAttended`,
`RateFollowsForeground`, `TimerBelieved`, by `RefreshInv`, and `IdleIsNotEarly`: a batch names a descriptor
once and the socket only if it has a message; a noted reset means a timer
except right after it expired; the setting in use is the foreground's except between
the two reads of the file; what is not loaded is announced by the flag or being
loaded, and the flag by the eventfd. For `IdleIsNotEarly`, an action property,
`CountInv` relates the timer to two ages: a timer that is set was reset at a noted
time, what it has left and the age of that reset make up the timeout, and what it has
left and the age of the last input do, too, or at least the slack of the debounce. It is stated of each state inside a batch, since several descriptors of one
batch may reset the timer.

**ModeProofs** (`SwitchAssumption`). `SwitchTypes`, `SwitchKeepsFresh`, `SleepsBound`, by
`SwitchInv`: `PlaceInv` (what was scanned lives, the /proc places have no eBPF),
`FreshInv` (place by place, what main knows of the published configuration, and that a
full scan is due where the cache is older), `BoundInv` (what is not bound will be, by
`force_affinity` or by a scan).

**StoresProofs** (`StoreAssumption`, `RequestAssumption`).
- `MapFreshWhenUsed` by `UidInv`: content and noted time of the map belong together
  unless `late`, up to the writes of one second; what the event found written (`since`) is
  in what was read, unless a read failed.
- `SettingsSaved` by `StoreInv`: a save past `SAVE_LOCK` is alone there (`LockInv`),
  snapshots are numbered (`NumberInv`), and somebody is going to take a snapshot, or the
  last one is right and on its way, or has arrived (`Covered`). The lock alone does not
  give this: that the field order of the snapshot does not matter rests on every setter
  taking a snapshot of its own later.
- `StoresTypes`: `Spec => []TypeOK`; that what is loaded after a kill is a setting again
  needs bounds of the maxima and minima the loader takes (`LoadedIs`).
- `RestIsKept`: `Spec => SaveKeepsRest`, an action property. `EditInv` says of each edit in
  progress that the text it will write is right for the text it read (`EditRight`), and
  that an edit which is alone still has the file it read, or has emptied it. That
  `set_config`, `add_app` and `del_app` keep the other lines (`SetConfigRight`,
  `AddAppRight`, `DelAppRight`) is for files of any length: the recursion `Without` that
  drops the lines of some names is a recursive function, and `SetInduction`, derived
  from the order of the natural numbers being well founded, does the induction over
  lines with a set in the place of the predicate.

**CpusetProofs** (`SpecAssumption`, `DirsAssumption`).
- `NamesAreExact`: `Spec => []NamesExact`. Its core is about the formatter alone, for
  words of any number and width: `Held` says what a scan has after the first n CPUs --
  text and range begun cover the CPUs of the set below n and no others, and there are gaps
  between one range and the next. `HeldNext` is the step, `StringOf` the induction, and
  from it follow `WrittenIsRead` (kernel) and `ShownIsRead` (parser, layers included).
- `DirsArePlaced`: `Spec => []DirsPlaced`, by `PlaceInv`: a directory bears the text of
  the CPUs it was made for and has what its name says; the base is missing only until the
  web thread that set it has made it (`BaseMade`); and once no change of the base is under
  way, what the loader, and then the main thread, have made or taken since is under the
  base (`RulesPlaced`). What is older may lie under an earlier base: then a reload or
  an update is still to come, which is why `FORCE_RELOAD` has to be set after the
  directory is made.

Only model-checked: everything about RuleEdit, whose parser and editor are folds and
`SelectSeq` over lines, which the provers cannot instantiate; all liveness properties,
as the prover does not handle fairness.

## Not modelled

The web page and the build files: presentation and scripts. HTTP, JSON, Binder,
logging, statistics, package icons: I/O without state that others read. The pattern
language of `fnmatch` and the comparisons of names in `rule_match.rs` and in the kernel
programs are constants with an assumption. Loading, attaching and dropping the eBPF
object inside EbpfMode, which is one lifetime of it (ModeSwitch has the outcomes);
`sysinfo` failing, which only makes a scan due; the 1 s throttle of input in the kernel;
the restart of a panicked loader; a refresh configuration with a timeout of zero, which
only a hand-edited file has; a rule file that cannot be read.

In the draft: its refresh-rate thread, /proc scan, cpuset cache and web statistics,
which repeat what `AppOpt/` has; the reuse of pids and uids shared by applications;
the death of the launcher; a kernel module that refuses a rule; the screen-off request
and input events.

## Plan

In the order in which they were written: AffinityRules, EbpfKernel, EbpfMode and its
proofs, ModeSwitch, RefreshRate; ConfigText with RuleEdit, ConfigReload with its proofs
and the register, SettingsStore, UidMap and RefreshConfig in Stores, CpuSpec with
CpusetDirs, the draft; the proofs of RefreshRate, ModeSwitch, Stores and the draft.

What is left: a proof of the RuleEdit properties, with parser and editor as recursive
functions over lines; `ebpf_init` and `Drop`
step by step, with ModeSwitch's `es` as the view of them; the comparison of the comm
windows over short byte strings, which would justify `RulesAssumption`; ModeSwitch over
EbpfMode instead of its own `full_scan`; timeouts of zero in RefreshRate.
