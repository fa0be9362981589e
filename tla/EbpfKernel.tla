------------------------------ MODULE EbpfKernel ------------------------------
(***************************************************************************)
(* The kernel side of the eBPF mode: the threads of the system and the     *)
(* AppOpt-ebpf programs that run at their fork, exec, rename and exit      *)
(* (AppOpt-ebpf/src/main.rs).  A program decides with the two maps shared  *)
(* with the daemon, APPLIED_MAP (applied) and TARGET_COMM_MAP (wl),        *)
(* whether the event is submitted to the ring buffer EVENTS.               *)
(*                                                                         *)
(* lost and missed are history variables: they record what the kernel side *)
(* did not tell the daemon and guard no action.                            *)
(*   lost    tids whose exit event found the ring full, whose APPLIED_MAP  *)
(*           entry was evicted, or that were dead when they were put into  *)
(*           it, since they were last applied                              *)
(*   missed  tids whose present name was neither submitted as a RENAME of  *)
(*           that tid nor read by a scan, or, when it was dispatched, had  *)
(*           no rule in any package the thread could be taken for          *)
(***************************************************************************)
EXTENDS AffinityRules, Sequences

CONSTANTS
  Tids,        \* thread ids
  NoPkg,       \* command line of a process that names no package
  BootComm,    \* comm of a process the zygote has just forked
  Running,     \* thread ids that are running processes when the daemon starts
  ReuseTids,   \* does the kernel hand out a thread id again?
  CrossRename, \* do threads rename other threads of their process?
  RingCap,     \* events that fit into EVENTS (256 KiB in the code)
  AppliedCap,  \* entries that fit into APPLIED_MAP (8192 in the code)
  MaxEnv       \* bound: steps of the environment in a behaviour

ASSUME KernelAssumption ==
  /\ Tids \subseteq Nat \ {0}
  /\ NoPkg \notin Pkgs
  /\ BootComm \in Comms
  /\ Running \subseteq Tids
  /\ ReuseTids \in BOOLEAN
  /\ CrossRename \in BOOLEAN
  /\ RingCap \in Nat \ {0}
  /\ AppliedCap \in Nat \ {0}
  /\ MaxEnv \in Nat

VARIABLES
  status,    \* tid -> is it free, running, past sched_process_exit but not reaped, or used up
  leader,    \* tid -> its process (tgid)
  comm,      \* tid -> its kernel name
  cmdline,   \* pid -> package named by /proc/pid/cmdline
  aff,       \* tid -> the CPUs the kernel lets it run on
  applied,   \* APPLIED_MAP: its keys (no program reads the values)
  wl,        \* TARGET_COMM_MAP: the packages whose keys it holds
  ring,      \* EVENTS
  env,       \* environment steps left (bound)
  lost, missed

threadVars == <<status, leader, comm, cmdline, aff>>
kernelVars == <<status, leader, comm, cmdline, aff, applied, wl, ring, env, lost, missed>>

Exists(t) == status[t] \in {"alive", "exiting"}
Alive(t) == status[t] = "alive"
Threads(p) == {t \in Tids : Exists(t) /\ leader[t] = p}

EventType == {"FORK", "EXEC", "RENAME", "EXIT", "INPUT"}
ProcEvent == [type : EventType, tid : Tids, pid : Tids, comm : Names]
\* The comm of an event the daemon does not look at is left out.
Event(ty, t, p, c) == [type |-> ty, tid |-> t, pid |-> p, comm |-> c]

KernelTypeOK ==
  /\ status \in [Tids -> {"free", "alive", "exiting", "gone"}]
  /\ leader \in [Tids -> Tids]
  /\ comm \in [Tids -> Comms]
  /\ cmdline \in [Tids -> Pkgs \cup {NoPkg}]
  /\ aff \in [Tids -> CpuSet]
  /\ applied \in SUBSET Tids
  /\ wl \in SUBSET Pkgs
  /\ ring \in Seq(ProcEvent)
  /\ env \in Nat
  /\ lost \in SUBSET Tids
  /\ missed \in SUBSET Tids

\* Command line and comm of a process: unnamed, or named as one of its packages.
ProcessNames ==
  {n \in (Pkgs \cup {NoPkg}) \X Comms :
     IF n[1] = NoPkg THEN n[2] = BootComm ELSE \E i \in 1..3 : n[1] \in MatchTiers[n[2]][i]}

KernelInit ==
  /\ status = [t \in Tids |-> IF t \in Running THEN "alive" ELSE "free"]
  /\ leader = [t \in Tids |-> t]
  /\ \E n \in [Tids -> ProcessNames] :
       /\ \A t \in Tids \ Running : n[t] = <<NoPkg, BootComm>>
       /\ cmdline = [t \in Tids |-> n[t][1]]
       /\ comm = [t \in Tids |-> n[t][2]]
  /\ aff = [t \in Tids |-> Cpus]
  /\ applied = {} /\ wl = {} /\ ring = <<>>
  /\ env = MaxEnv
  /\ lost = {} /\ missed = Tids

-----------------------------------------------------------------------------
(* The programs *)

\* submit_event: an event that finds the ring full is dropped.
Fits(r) == Len(r) < RingCap
Submit(e, r) == IF Fits(r) THEN Append(r, e) ELSE r

\* What the programs let through: tracked threads, and whitelisted names.
Reported(t, c) == t \in applied \/ WhitelistMatched(c, wl)

\* Mutant: a plain hash map, which refuses an insertion at its capacity.
AppliedInsertRefused(t, evicted) ==
  /\ evicted = {}
  /\ applied' = IF Cardinality(applied) < AppliedCap THEN applied \cup {t} ELSE applied

\* An insertion into the LRU map: at its capacity it evicts some other entry.
AppliedInsert(t, evicted) ==
  /\ evicted \subseteq applied \ {t}
  /\ Cardinality(evicted) =
       IF t \in applied \/ Cardinality(applied) < AppliedCap THEN 0 ELSE 1
  /\ applied' = (applied \ evicted) \cup {t}

\* sched_process_fork of a thread c by the thread p.
ForkProgram(p, c) ==
  /\ IF p \in applied
     THEN \E evicted \in SUBSET applied :
            /\ AppliedInsert(c, evicted)
            /\ lost' = lost \cup evicted
     ELSE UNCHANGED <<applied, lost>>
  /\ ring' = IF Reported(p, comm[p])
             THEN Submit(Event("FORK", c, leader[p], NoComm), ring) ELSE ring

\* task_rename runs in the thread w that writes the name c of the thread t.
RenameProgram(w, t, c) ==
  LET event == Event("RENAME", w, leader[w], c)
      told == Reported(w, c) /\ Fits(ring)
  IN  /\ ring' = IF Reported(w, c) THEN Submit(event, ring) ELSE ring
      /\ missed' = IF told /\ w = t THEN missed \ {t}
                   ELSE missed \cup {t} \cup (IF told THEN {w} ELSE {})

\* sched_process_exit of the thread t.
ExitProgram(t) ==
  IF t \in applied
  THEN /\ applied' = applied \ {t}
       /\ ring' = Submit(Event("EXIT", t, leader[t], NoComm), ring)
       /\ lost' = IF Fits(ring) THEN lost ELSE lost \cup {t}
  ELSE UNCHANGED <<applied, ring, lost>>

-----------------------------------------------------------------------------
(* The threads.  Every step but Reap uses up one step of the bound. *)

EnvStep == env > 0 /\ env' = env - 1

\* Thread id t becomes a thread of process p, with its parent's name and CPUs.
Born(t, p, name, cl, cpus) ==
  /\ status[t] = "free"
  /\ status' = [status EXCEPT ![t] = "alive"]
  /\ leader' = [leader EXCEPT ![t] = p]
  /\ comm' = [comm EXCEPT ![t] = name]
  /\ cmdline' = [cmdline EXCEPT ![t] = cl]
  /\ aff' = [aff EXCEPT ![t] = cpus]
  /\ missed' = missed \cup {t}

\* The zygote, which is neither tracked nor whitelisted, forks a process.
Spawn(t) ==
  /\ EnvStep
  /\ Born(t, t, BootComm, NoPkg, Cpus)
  /\ UNCHANGED <<applied, wl, ring, lost>>

\* The thread p creates the thread c of its process.
Clone(p, c) ==
  /\ EnvStep
  /\ Alive(p)
  /\ Born(c, leader[p], comm[p], cmdline[c], aff[p])
  /\ ForkProgram(p, c)
  /\ UNCHANGED wl

\* The thread w gives the thread t of its process the name c.
Rename(w, t, c) ==
  /\ EnvStep
  /\ Alive(w) /\ Alive(t) /\ leader[w] = leader[t]
  /\ w = t \/ CrossRename
  /\ comm' = [comm EXCEPT ![t] = c]
  /\ RenameProgram(w, t, c)
  /\ UNCHANGED <<status, leader, cmdline, aff, applied, wl, lost>>

\* A process the zygote forked takes on the name of its application.
NameProcess(p, g, c) ==
  /\ EnvStep
  /\ Alive(p) /\ leader[p] = p /\ cmdline[p] = NoPkg
  /\ <<g, c>> \in ProcessNames
  /\ cmdline' = [cmdline EXCEPT ![p] = g]
  /\ comm' = [comm EXCEPT ![p] = c]
  /\ RenameProgram(p, p, c)
  /\ UNCHANGED <<status, leader, aff, applied, wl, lost>>

\* A single-threaded process executes another program: the kernel renames the
\* thread (task_rename) and then reports the exec (sched_process_exec).
Exec(p, g, c) ==
  /\ EnvStep
  /\ Alive(p) /\ leader[p] = p /\ Threads(p) = {p}
  /\ <<g, c>> \in ProcessNames
  /\ cmdline' = [cmdline EXCEPT ![p] = g]
  /\ comm' = [comm EXCEPT ![p] = c]
  /\ ring' = IF Reported(p, c)
             THEN Submit(Event("EXEC", p, p, c), Submit(Event("RENAME", p, p, c), ring))
             ELSE ring
  /\ missed' = IF Reported(p, c) /\ Fits(ring) THEN missed \ {p} ELSE missed \cup {p}
  /\ UNCHANGED <<status, leader, aff, applied, wl, lost>>

\* The thread t passes sched_process_exit.  It can still be given CPUs.
Exit(t) ==
  /\ EnvStep
  /\ Alive(t)
  /\ status' = [status EXCEPT ![t] = "exiting"]
  /\ ExitProgram(t)
  /\ UNCHANGED <<leader, comm, cmdline, aff, wl, missed>>

\* The thread t is reaped, a process's leader after its other threads; from
\* here on the kernel answers ESRCH, until the id is handed out again.
Reap(t) ==
  /\ status[t] = "exiting"
  /\ leader[t] = t => Threads(t) = {t}
  /\ status' = [status EXCEPT ![t] = IF ReuseTids THEN "free" ELSE "gone"]
  /\ leader' = [leader EXCEPT ![t] = t]
  /\ comm' = [comm EXCEPT ![t] = BootComm]
  /\ cmdline' = [cmdline EXCEPT ![t] = NoPkg]
  /\ aff' = [aff EXCEPT ![t] = Cpus]
  /\ missed' = missed \cup {t}
  /\ UNCHANGED <<applied, wl, ring, env, lost>>

\* The application or the platform changes the CPUs of the thread t.
Drift(t) ==
  /\ EnvStep
  /\ Alive(t) /\ aff[t] # Cpus
  /\ aff' = [aff EXCEPT ![t] = Cpus]
  /\ UNCHANGED <<status, leader, comm, cmdline, applied, wl, ring, lost, missed>>

\* kprobe_input_event: user input while the thread t runs.
Input(t) ==
  /\ EnvStep
  /\ Alive(t)
  /\ ring' = Submit(Event("INPUT", t, leader[t], NoComm), ring)
  /\ UNCHANGED <<status, leader, comm, cmdline, aff, applied, wl, lost, missed>>

KernelNext ==
  \/ \E t \in Tids : Spawn(t) \/ Exit(t) \/ Reap(t) \/ Drift(t) \/ Input(t)
  \/ \E p, c \in Tids : Clone(p, c)
  \/ \E w, t \in Tids, c \in Comms : Rename(w, t, c)
  \/ \E p \in Tids, n \in ProcessNames : NameProcess(p, n[1], n[2]) \/ Exec(p, n[1], n[2])
=============================================================================
