------------------------------ MODULE MCCpusets ------------------------------
(* Three words of two CPUs, of which the last is missing; three layers of frequency. *)
EXTENDS CpusetDirs, TLC

CONSTANTS t1, t2, web1, web2, b1, b2, root, background, nobody

MCPresent == <<Span(0, 4)>>
MCPolicies == {[freq |-> 1, cpus |-> {0, 1}], [freq |-> 2, cpus |-> {2}],
               [freq |-> 3, cpus |-> {3, 4}], [freq |-> 0, cpus |-> {4}]}
MCGroups == root :> 0..4 @@ background :> {0}
Line(isThread, pkg, who, spec) == [isThread |-> isThread, pkg |-> pkg, who |-> who, spec |-> spec]
PkgLine(pkg, spec) == Line(FALSE, pkg, pkg, spec)

\* A package rule and two thread rules that overlap; two package rules; a file of
\* specifications with every irregularity, whose thread rule matches no thread.
MCFiles == {
  <<PkgLine({t1, t2}, <<Word("hp-core")>>), Line(TRUE, {t1, t2}, {t1}, <<Number(0)>>),
    Line(TRUE, {t1, t2}, {t1}, <<Span(4, 2), Word("empty")>>)>>,
  <<PkgLine({t1, t2}, <<Word("p-core")>>), PkgLine({t1, t2}, <<Span(4, 99)>>)>>,
  <<PkgLine({t1}, <<Span(1, Huge), Number(3)>>), PkgLine({t2}, <<Word("junk")>>),
    Line(TRUE, {t2}, {t2}, <<Number(5)>>), Line(TRUE, {t2}, {}, <<Word("all-core")>>)>>}
=============================================================================
