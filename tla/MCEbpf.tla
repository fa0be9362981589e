-------------------------------- MODULE MCEbpf --------------------------------
(***************************************************************************)
(* Instances of EbpfMode for TLC: an application app whose main thread is  *)
(* named main, with a thread name render that a thread rule matches, and   *)
(* that another package, other, is called by, where there is one.          *)
(***************************************************************************)
EXTENDS EbpfMode

CONSTANTS app, other, boot, main, render

MCComms == {boot, main, render}
MCCpus == {0, 1}

\* main is a 15-byte prefix of app; render is other; boot is no part of a package name.
MCMatchTiers == [c \in MCComms |-> [i \in 1..3 |->
  CASE c = main /\ i = 2 -> {app} [] c = render /\ i = 1 -> {other} \cap Pkgs [] OTHER -> {}]]
MCWhiteOf == [c \in MCComms |-> CASE c = main -> {app} [] c = render -> {other} \cap Pkgs [] OTHER -> {}]

PackageRule == [pkg |-> app, isThread |-> FALSE, comms |-> {}, cpus |-> {0}]
RenderRule == [pkg |-> app, isThread |-> TRUE, comms |-> {render}, cpus |-> {1}]
MainRule == [pkg |-> app, isThread |-> TRUE, comms |-> {main}, cpus |-> {0}]
OtherRule == [pkg |-> other, isThread |-> FALSE, comms |-> {}, cpus |-> {0}]

TwoPackages == {{PackageRule, RenderRule, MainRule, OtherRule}}
RuleRemoval == {{PackageRule, RenderRule}, {}}
=============================================================================
