----------------------------- MODULE ExitProbe -----------------------------
(***************************************************************************)
(* The root-level draft (src/*.rs), part 1: the processes of the device,   *)
(* the foreground callbacks they cause, and the thread that watches        *)
(* pidfds and reports exits (src/event_probe.rs).                          *)
(*                                                                         *)
(* A uid stands for the application that owns it.  A process keeps its     *)
(* entry in app after it died: the records of the main loop still name     *)
(* it.  A pid is used once: the kernel hands out tens of thousands before  *)
(* it comes back to one.  The launcher is not among Pids: it always lives  *)
(* and none of the tables below ever holds it.                             *)
(***************************************************************************)
EXTENDS Naturals, Sequences

CONSTANTS
    Pids,       \* processes of ordinary applications
    Apps,       \* those applications; each has one uid
    Launcher,   \* com.android.launcher3, package and process
    None,       \* no application, no process, no message
    Names,      \* names of threads
    Crews,      \* the sets of names that the threads of an application's process may
                \* have
    Preinstalled    \* the applications packages.list names when the program starts

ASSUME ProbeAssumption ==
    /\ Preinstalled \subseteq Apps
    /\ Crews \in [Apps -> SUBSET SUBSET Names]
    /\ Launcher \notin Pids \cup Apps
    /\ None \notin Pids \cup Apps \cup {Launcher}

VARIABLES
    app,        \* the application a process belongs to; None before it starts
    threads,    \* the names of its threads
    alive,      \* the processes that run
    top,        \* those in the top-app cpuset
    installed,  \* the applications packages.list names
    fgQ,        \* foreground callbacks on their way to the main loop
    reg,        \* REG: the processes whose pidfd the probe polls
    exitQ,      \* exits on their way to the main loop
    faults,     \* bound: failures of the probe that may still happen
    unreported  \* history: the processes that a watch failed for, or whose exit was
                \* not sent

deviceVars == <<app, threads, alive, top, installed>>
probeVars  == <<reg, exitQ, faults, unreported>>

ProbeTypeOK ==
    /\ app \in [Pids -> Apps \cup {None}]
    /\ threads \in [Pids -> SUBSET Names]
    /\ alive \subseteq {p \in Pids : app[p] # None}
    /\ top \subseteq alive
    /\ installed \subseteq Apps
    /\ fgQ \in Seq(Pids \cup {Launcher})
    /\ reg \subseteq {p \in Pids : app[p] # None}
    /\ exitQ \in Seq({p \in Pids : app[p] # None})
    /\ faults \in Nat /\ unreported \subseteq Pids

ProbeInit ==
    /\ app = [p \in Pids |-> None]
    /\ threads = [p \in Pids |-> {}]
    /\ alive = {}
    /\ top = {}
    /\ installed = Preinstalled
    /\ fgQ = <<>>
    /\ reg = {}
    /\ exitQ = <<>>
    /\ unreported = {}

ProcessesOf(a) == {p \in alive : app[p] = a}

-----------------------------------------------------------------------------
(* The device. *)

\* A process in front alone, or next to those in front (split screen).
ToFront(p) ==
    /\ top' \in {{p}, top \cup {p}}
    /\ fgQ' = Append(fgQ, p)

Launch(p, a) ==
    /\ app[p] = None
    /\ a \in installed
    /\ app' = [app EXCEPT ![p] = a]
    /\ \E crew \in Crews[a] : threads' = [threads EXCEPT ![p] = crew]
    /\ alive' = alive \cup {p}
    /\ ToFront(p)
    /\ UNCHANGED <<installed, probeVars>>

Show(p) ==
    /\ p \in alive \ top
    /\ ToFront(p)
    /\ UNCHANGED <<app, threads, alive, installed, probeVars>>

Desktop ==
    /\ top # {}
    /\ top' = {}
    /\ fgQ' = Append(fgQ, Launcher)
    /\ UNCHANGED <<app, threads, alive, installed, probeVars>>

Die(p) ==
    /\ p \in alive
    /\ alive' = alive \ {p}
    /\ top' = top \ {p}
    /\ UNCHANGED <<app, threads, installed, fgQ, probeVars>>

-----------------------------------------------------------------------------
(* The probe. *)

Fault == faults > 0 /\ faults' = faults - 1

\* watch(): a process that is gone has no pidfd.  That of a living one may be out of reach
\* as well: no epoll yet, no pidfd_open, a full table.  Nobody is told, nobody tries again.
Watch(ps) ==
    /\ \/ reg' = reg \cup (ps \cap alive) /\ UNCHANGED faults
       \/ ps \cap alive # {} /\ Fault /\ UNCHANGED reg
    /\ unreported' = unreported \cup (ps \ reg')

\* The pidfd of a registered process becomes readable when the process exits.  The exit is
\* sent, unless the socket is full: the process is forgotten all the same.
ProbeExit(p) ==
    /\ p \in reg \ alive
    /\ reg' = reg \ {p}
    /\ \/ exitQ' = Append(exitQ, p) /\ UNCHANGED <<faults, unreported>>
       \/ Fault /\ unreported' = unreported \cup {p} /\ UNCHANGED exitQ
    /\ UNCHANGED <<deviceVars, fgQ>>
=============================================================================
