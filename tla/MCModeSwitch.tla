----------------------------- MODULE MCModeSwitch -----------------------------
(***************************************************************************)
(* Instances of ModeSwitch for TLC: one application under two versions of  *)
(* its rules, and processes that are it or something else.                 *)
(***************************************************************************)
EXTENDS ModeSwitch, TLC

CONSTANTS app, old, new

MCPkgs == {app}
MCConfigs == {old, new}
MCCfgPkgs == [c \in MCConfigs |-> {app}]

\* The two versions differ in nothing but their identity.
Versions == Permutations(MCConfigs)
=============================================================================
