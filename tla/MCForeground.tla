---------------------------- MODULE MCForeground ----------------------------
(***************************************************************************)
(* An instance of ForegroundLoop: two applications, one with rules of      *)
(* every kind and one with a refresh rate only.                            *)
(***************************************************************************)
EXTENDS ForegroundLoop, TLC

CONSTANTS a1, a2, main, render

ProcessSymmetry == Permutations(Pids)

\* Versions that differ in the rule of one thread, and a version without rules.
MCRuleFor ==
    [v \in 0..MaxRule |-> [n \in Names |->
        IF n = render THEN v ELSE IF v = 0 THEN 0 ELSE 1]]
MCCrews == a1 :> {{main, render}} @@ a2 :> {{render}}

Ruled   == [cpu |-> (a1 :> 1 @@ a2 :> 0), rfr |-> {a2}]
Swapped == [cpu |-> (a1 :> 2 @@ a2 :> 1), rfr |-> {a1}]
MCConfigs == {Ruled, Swapped}

NoWaylay == [a \in Apps |-> {}]
First    == [a \in Apps |-> IF a = a1 THEN Kinds ELSE {}]
Second   == [a \in Apps |-> IF a = a2 THEN {"src"} ELSE {"red"}]
MCWaylay == {NoWaylay, First, Second}

Start(cfg, table, device, packages, rules, edits, failures) ==
    [file |-> cfg, waylay |-> table, faults |-> failures,
     budget |-> [device |-> device, packages |-> packages, rules |-> rules,
                 waylay |-> edits]]

MCStarts == {
    Start(Ruled, NoWaylay, 1, 0, 2, 0, 0),
    Start(Ruled, NoWaylay, 3, 0, 1, 0, 0),
    Start(Ruled, NoWaylay, 2, 1, 1, 0, 0),
    Start(Ruled, First, 4, 0, 0, 1, 0),
    Start(Ruled, First, 4, 0, 0, 0, 2),
    Start(Swapped, Second, 2, 0, 0, 2, 0)}
=============================================================================
