------------------------------- MODULE MCStores -------------------------------
(* Two settings, two global refresh settings, one package, two web threads. *)
EXTENDS Stores, TLC

CONSTANTS mode, path, timeout, active, app, note, w1, w2, main

MCFields == <<mode, path>>
MCDefault == [f \in {mode, path} |-> 0]
MCKeys == <<timeout, active>>
MCPkgs == {app}
\* An empty file, one with a line of its own, and with some settings; a package written down twice.
MCFirstFiles ==
  {[i \in DOMAIN names |-> [of |-> names[i], val |-> 60]] :
     names \in {<<>>, <<note, app>>, <<app, timeout>>, <<app, app>>}}
MCWeb == {w1, w2}
MCRequests == {[f \in {mode} |-> 1], [f \in {path} |-> 1], [f \in {mode, path} |-> 1]}
MCCommandLines == {<<>>, [f \in {path} |-> 1]}

\* The two web threads do the same.
ThreadSymmetry == Permutations(MCWeb)
=============================================================================
