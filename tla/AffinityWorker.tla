--------------------------- MODULE AffinityWorker ---------------------------
(***************************************************************************)
(* The root-level draft, part 2: the thread that sets affinities           *)
(* (src/cpu_affinity.rs).  It takes its messages one by one.  A message    *)
(* for a cold start is handled in two steps: the identity of the           *)
(* application is recorded, then the thread sleeps (children of the        *)
(* process are expected), then it binds every process of the uid under the *)
(* configuration of that moment.                                           *)
(*                                                                         *)
(* The rules of an application are one number, 0 for none, which tells the *)
(* rule of each thread by its name; bound is the number a process was last *)
(* bound under, with all its threads, for apply_tids takes a thread it is  *)
(* given for its process.  An edit of one thread names it, or names        *)
(* threads by a pattern, which equals no thread's name.  An exit has the   *)
(* worker evict the identity of the application, as main.rs says, or only  *)
(* the counts, as cpu_affinity.rs does.  The lists of pids kept with the   *)
(* identity and in PROC_SNAPSHOT serve the web page and are left out; so   *)
(* is the cache of cpuset names.                                           *)
(***************************************************************************)
EXTENDS ExitProbe

CONSTANTS
    MaxRule,    \* bound on the versions of an application's rules
    RuleFor,    \* the rule that a version has for each name of a thread, 0 for none
    Pattern     \* a name with wildcards

VARIABLES
    current,    \* CURRENT_CONFIG
    known,      \* CPU_KNOWN: the main process of each application that was bound
    workQ,      \* messages for the worker
    asleep,     \* the ApplyPkg message the worker sleeps on, or None
    managed,    \* the processes whose threads are counted as managed
    uidPkg,     \* uid_pkg: the applications that were bound by uid
    uidCache,   \* pkg_uid_cache: the applications whose uid the worker knows
    bound       \* the rules each process runs under

workerVars == <<known, workQ, asleep, managed, uidPkg, uidCache, bound>>

Config == [cpu : [Apps -> 0..MaxRule], rfr : SUBSET Apps]

ColdStart == [op : {"ApplyPkg"}, app : Apps, pid : Pids]

\* What was edited last, which is also the message that applies it.
Edit ==
    [op : {"ApplyPkgByName"}, app : Apps]
        \cup [op : {"ApplyThread"}, app : Apps, thread : Names \cup {Pattern}]

Message ==
    ColdStart
        \cup Edit
        \cup [op : {"EvictUid"}, app : Apps]
        \cup [op : {"ApplyAll"}, apps : SUBSET Apps]

ASSUME WorkerAssumption ==
    /\ None \notin Message
    /\ MaxRule \in Nat
    /\ RuleFor \in [0..MaxRule -> [Names -> Nat]]
    /\ \A n \in Names : RuleFor[0][n] = 0
    /\ Pattern \notin Names

WorkerTypeOK ==
    /\ current \in Config
    /\ known \in [Apps -> Pids \cup {None}]
    /\ workQ \in Seq(Message)
    /\ asleep \in ColdStart \cup {None}
    /\ managed \subseteq Pids
    /\ uidPkg \subseteq Apps
    /\ uidCache \subseteq Apps
    /\ bound \in [Pids -> 0..MaxRule]

\* start(); the first ApplyAll of the main loop finds no application running.
WorkerInit ==
    /\ known = [a \in Apps |-> None]
    /\ workQ = <<>>
    /\ asleep = None
    /\ managed = {}
    /\ uidPkg = {}
    /\ uidCache = {}
    /\ bound = [p \in Pids |-> 0]

\* Mutant: any known process of the application makes it hot.
IsHotByUid(a, p) == known[a] # None

\* cpu_known_is_hot
IsHot(a, p) == known[a] = p

\* apply_tids: the threads of an application without rules are left alone.
ApplyTids(ps) ==
    LET ruled == {p \in ps : current.cpu[app[p]] > 0}
    IN  /\ bound' = [p \in Pids |-> IF p \in ruled THEN current.cpu[app[p]]
                                                   ELSE bound[p]]
        /\ managed' = managed \cup ruled

\* on_uid: every process of the uid.
OnUid(a) == ApplyTids(ProcessesOf(a))

\* pkg_to_uid: the cache, or a process of the application.
UidFound(a) == a \in uidCache \/ ProcessesOf(a) # {}

\* cpu_known_pid_to_uid, and the message to the worker: the identity is only looked up.
PidToUid(p) ==
    IF \E a \in Apps : known[a] = p
    THEN workQ' = Append(workQ, [op |-> "EvictUid", app |-> app[p]])
    ELSE UNCHANGED workQ

Receive(op) ==
    /\ asleep = None
    /\ workQ # <<>>
    /\ Head(workQ).op = op
    /\ workQ' = Tail(workQ)

WorkerAlone == UNCHANGED <<deviceVars, fgQ, probeVars, current>>

ApplyAll ==
    /\ Receive("ApplyAll")
    /\ ApplyTids({p \in alive : app[p] \in Head(workQ).apps})
    /\ UNCHANGED <<known, asleep, uidPkg, uidCache>>
    /\ WorkerAlone

ApplyPkg ==
    /\ Receive("ApplyPkg")
    /\ LET m == Head(workQ)
       IN  /\ known' = [known EXCEPT ![m.app] = m.pid]
           /\ asleep' = m
    /\ UNCHANGED <<managed, uidPkg, uidCache, bound>>
    /\ WorkerAlone

ApplyPkgAwake ==
    /\ asleep # None
    /\ OnUid(asleep.app)
    /\ known' = [known EXCEPT ![asleep.app] = asleep.pid]
    /\ uidPkg' = uidPkg \cup {asleep.app}
    /\ uidCache' = uidCache \cup {asleep.app}
    /\ asleep' = None
    /\ UNCHANGED workQ
    /\ WorkerAlone

\* The first process of the uid that /proc lists becomes the main one.
ApplyPkgByName ==
    /\ Receive("ApplyPkgByName")
    /\ LET a == Head(workQ).app
       IN  IF UidFound(a)
           THEN /\ OnUid(a)
                /\ IF ProcessesOf(a) = {} THEN UNCHANGED known
                   ELSE \E p \in ProcessesOf(a) : known' = [known EXCEPT ![a] = p]
                /\ uidPkg' = uidPkg \cup {a}
                /\ uidCache' = uidCache \cup {a}
           ELSE UNCHANGED <<known, managed, uidPkg, uidCache, bound>>
    /\ UNCHANGED asleep
    /\ WorkerAlone

\* Only the processes with a thread of the edited name.
ApplyThread ==
    /\ Receive("ApplyThread")
    /\ LET a == Head(workQ).app
       IN  /\ ApplyTids({p \in ProcessesOf(a) : Head(workQ).thread \in threads[p]})
           /\ uidCache' = IF UidFound(a) THEN uidCache \cup {a} ELSE uidCache
    /\ UNCHANGED <<known, asleep, uidPkg>>
    /\ WorkerAlone

EvictUid ==
    /\ Receive("EvictUid")
    /\ LET a == Head(workQ).app
       IN  /\ managed' = IF a \in uidPkg THEN {p \in managed : app[p] # a}
                                         ELSE managed
           /\ uidPkg' = uidPkg \ {a}
           /\ known' \in {known, [known EXCEPT ![a] = None]}
    /\ UNCHANGED <<asleep, uidCache, bound>>
    /\ WorkerAlone

WorkerNext ==
    \/ ApplyAll
    \/ ApplyPkg
    \/ ApplyPkgAwake
    \/ ApplyPkgByName
    \/ ApplyThread
    \/ EvictUid
=============================================================================
