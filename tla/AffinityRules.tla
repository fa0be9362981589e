---------------------------- MODULE AffinityRules ----------------------------
(***************************************************************************)
(* The pure part of the daemon: which CPUs a thread gets under a           *)
(* configuration, and which package a kernel thread name (comm) stands     *)
(* for.  Translated from rule_match.rs, cache.rs (pkg_lookup_comm) and the *)
(* kernel program's whitelist_matched.                                     *)
(*                                                                         *)
(* Names are abstract.  What string matching decides is given by two       *)
(* constants: MatchTiers[c] lists the packages that the comm c equals, is  *)
(* a 15-byte prefix of, is a 15-byte suffix of (in the order the code      *)
(* tries them), and WhiteOf[c] holds the packages one of whose 8-byte      *)
(* whitelist keys occurs in c.                                             *)
(***************************************************************************)
EXTENDS Integers, FiniteSets

CONSTANTS
  Pkgs,        \* package names
  Comms,       \* non-empty kernel thread names
  Cpus,        \* the present CPUs
  NoComm,      \* the empty thread name
  MatchTiers,  \* comm -> <<packages equal to it, with that prefix, with that suffix>>
  WhiteOf      \* comm -> packages whose whitelist key occurs in it

\* A comm that comm_to_pkg can match always contains a whitelist key of that
\* package: the key is the first 8 or the last 8 bytes of the package name.
ASSUME RulesAssumption ==
  /\ NoComm \notin Comms
  /\ Cpus # {}
  /\ MatchTiers \in [Comms -> [1..3 -> SUBSET Pkgs]]
  /\ WhiteOf \in [Comms -> SUBSET Pkgs]
  /\ \A c \in Comms : \A i \in 1..3 : MatchTiers[c][i] \subseteq WhiteOf[c]

Names == Comms \cup {NoComm}
CpuSet == SUBSET Cpus

\* One line of the configuration.  comms: the thread names its pattern matches.
AffinityRule ==
  [pkg : Pkgs, isThread : BOOLEAN, comms : SUBSET Comms, cpus : CpuSet \ {{}}]

\* AppConfig: its rules; pkgs and has_thread_rules are derived from them.
AppConfig == SUBSET AffinityRule
CfgPkgs(cfg) == {r.pkg : r \in cfg}
HasThreadRules(cfg) == {r.pkg : r \in {q \in cfg : q.isThread}}

AffinityResult == [cpus : CpuSet, isThread : BOOLEAN]

-----------------------------------------------------------------------------
\* An optional value is a set with at most one element.

\* The CPUs of every matching thread rule together, else those of the package
\* rules together, else every CPU if the package has thread rules, else nothing.
ThreadAffinity(pkg, name, cfg) ==
  LET matched == {r \in cfg : r.pkg = pkg /\ r.isThread /\ name \in r.comms}
      pkgRules == {r \in cfg : r.pkg = pkg /\ ~r.isThread}
      used == IF matched # {} THEN matched ELSE pkgRules
  IN  IF used # {}
      THEN {[cpus |-> UNION {r.cpus : r \in used}, isThread |-> matched # {}]}
      ELSE {[cpus |-> Cpus, isThread |-> FALSE] : p \in {pkg} \cap HasThreadRules(cfg)}

\* The thread name a rule is matched against: the comm is looked at only when
\* the package has thread rules.
RuleName(pkg, name, cfg) == IF pkg \in HasThreadRules(cfg) THEN name ELSE NoComm

\* The packages comm_to_pkg may return: the first tier with a configured one
\* (several of one tier come out in hash order).  Empty: None.
CommToPkg(name, cfg) ==
  LET tier(i) == IF name = NoComm THEN {} ELSE MatchTiers[name][i] \cap CfgPkgs(cfg)
  IN  IF tier(1) # {} THEN tier(1) ELSE IF tier(2) # {} THEN tier(2) ELSE tier(3)

\* whitelist_matched over the packages wl that TARGET_COMM_MAP holds keys of.
WhitelistMatched(name, wl) == name # NoComm /\ WhiteOf[name] \cap wl # {}
=============================================================================
