------------------------------ MODULE ModeProofs ------------------------------
(***************************************************************************)
(* Proofs about ModeSwitch for every set of processes, packages and        *)
(* configurations and any number of events: the types, and that neither a  *)
(* switch of the mode nor the death of the reader thread leaves processes  *)
(* to an old configuration.                                                *)
(***************************************************************************)
EXTENDS ModeSwitch, FiniteSetTheorems, TLAPS

USE SwitchAssumption

-----------------------------------------------------------------------------
(* The invariant *)

PlaceInv ==
  /\ walked \subseteq Live
  /\ pc \in {"reinit", "sysinfo", "kill", "walk", "sync", "sleep"} => es = "none"

FreshWalk == \A p \in walked : cache[p].cfg = current
BoundWalk == \A p \in walked : bound[p] = cache[p]

\* The mode that is on works by the current configuration, or is going to scan everything.
Due == IF es # "none" THEN esCfg = current ELSE dropped \/ scanAll \/ FreshWalk

\* What the main thread knows once no announcement is outstanding.
FreshInv == NoUpdatePending =>
  /\ pc = "top" => Due
  /\ pc = "config" => changed \/ Due
  /\ pc \in {"mode", "retry", "init", "reload"} => cfg = current /\ (changed \/ Due)
  /\ pc = "run" => cfg = current /\ ((es = "none" /\ changed) \/ Due)
  /\ pc = "reinit" => cfg = current
  /\ pc = "recv" => esCfg = current
  /\ pc = "sysinfo" => cfg = current /\ Due
  /\ pc = "kill" => cfg = current /\ (dropped \/ FreshWalk)
  /\ pc = "walk" => cfg = current /\ FreshWalk
  /\ pc \in {"sync", "sleep"} => dropped \/ FreshWalk

\* What is not bound as it is cached will be: by force_affinity, or after a scan.
BoundInv == es = "none" /\ ~dropped =>
  /\ pc \in {"kill", "sync"} => forceAff \/ BoundWalk
  /\ pc = "sleep" => BoundWalk
  /\ pc \in {"top", "config", "mode", "retry", "init", "reload", "run", "sysinfo"} =>
       scanAll \/ forceAff \/ BoundWalk

SwitchInv == TypeOK /\ PlaceInv /\ FreshInv /\ BoundInv

-----------------------------------------------------------------------------
(* Types and places *)

LEMMA ThreadCountType == ThreadCount \in Nat
<1>1. Cardinality(Live) \in Nat
  BY FS_Subset, FS_CardinalityType DEF Live
<1>2. QED  BY <1>1 DEF ThreadCount

LEMMA EmptyCacheType == EmptyCache \in [Pids -> Entry \cup {NoEntry}]
BY DEF EmptyCache

\* What full_scan leaves behind.
LEMMA FullScanTypes ==
  ASSUME TypeOK, FullScan
  PROVE  esCfg' \in Configs /\ bound' \in [Pids -> Entry \cup {NoEntry}] /\ esCfg' = cfg
<1>1. cfg \in Configs /\ CfgPkgs[cfg] \subseteq Pkgs
  BY DEF TypeOK
<1>2. \A p \in Pids : name[p] \in CfgPkgs[cfg] => [pkg |-> name[p], cfg |-> cfg] \in Entry
  BY <1>1 DEF Entry
<1>3. QED  BY <1>1, <1>2 DEF FullScan, TypeOK

LEMMA InitHolds == Init => SwitchInv
<1> SUFFICES ASSUME Init PROVE SwitchInv
  OBVIOUS
<1>1. TypeOK
  BY EmptyCacheType DEF Init, TypeOK, Places
<1>2. PlaceInv /\ FreshInv /\ BoundInv
  BY DEF Init, PlaceInv, FreshInv, BoundInv, NoUpdatePending, BoundWalk
<1>3. QED  BY <1>1, <1>2 DEF SwitchInv

\* Steps of the other threads and of the system.
Outside ==
  \/ \E p \in Pids : End(p) \/ \E n \in Pkgs \cup {Other} : Start(p, n)
  \/ \E m \in 0..2 : SetMode(m)
  \/ ClearGaveUp
  \/ \E c \in Configs : Publish(c)
  \/ Announce \/ ReaderDies \/ RetryTimer

LEMMA OutsideTypes == TypeOK /\ PlaceInv /\ Outside => TypeOK' /\ PlaceInv'
<1> SUFFICES ASSUME TypeOK, PlaceInv, Outside PROVE TypeOK' /\ PlaceInv'
  OBVIOUS
<1> USE DEF worldVars, webVars, loaderVars, procVars, walkVars, history, mainVars, EnvStep
<1>1. ASSUME NEW p \in Pids, End(p) PROVE TypeOK' /\ PlaceInv'
  <2>1. TypeOK'
    BY <1>1 DEF End, TypeOK, Cached
  <2>2. QED  BY <1>1, <2>1 DEF End, PlaceInv, Live, Alive, TypeOK
<1>2. ASSUME NEW p \in Pids, NEW n \in Pkgs \cup {Other}, Start(p, n) PROVE TypeOK' /\ PlaceInv'
  <2>1. TypeOK'
    BY <1>2 DEF Start, TypeOK, Cached
  <2>2. QED  BY <1>2, <2>1 DEF Start, PlaceInv, Live, Alive, TypeOK
<1>3. ASSUME NEW m \in 0..2, SetMode(m) PROVE TypeOK' /\ PlaceInv'
  <2>1. env' \in Nat /\ mode' \in 0..2 /\ wpc' \in {"idle", "clear"} /\ asked' \in BOOLEAN
    BY <1>3 DEF SetMode, TypeOK
  <2>2. QED  BY <1>3, <2>1 DEF SetMode, TypeOK, PlaceInv, Cached, Live, Alive
<1>7. CASE ClearGaveUp
  <2>1. gaveUp' \in BOOLEAN /\ wpc' \in {"idle", "clear"}
    BY <1>7 DEF ClearGaveUp
  <2>2. QED  BY <1>7, <2>1 DEF ClearGaveUp, TypeOK, PlaceInv, Cached, Live, Alive
<1>8. CASE RetryTimer
  BY <1>8 DEF RetryTimer, TypeOK, PlaceInv, Cached, Live, Alive
<1>4. ASSUME NEW c \in Configs, Publish(c) PROVE TypeOK' /\ PlaceInv'
  <2>1. env' \in Nat /\ current' \in Configs /\ unannounced' \in Nat
    BY <1>4 DEF Publish, TypeOK
  <2>2. QED  BY <1>4, <2>1 DEF Publish, TypeOK, PlaceInv, Cached, Live, Alive
<1>9. CASE Announce
  <2>1. updated' \in BOOLEAN /\ unannounced' \in Nat
    BY <1>9 DEF Announce, TypeOK
  <2>2. QED  BY <1>9, <2>1 DEF Announce, TypeOK, PlaceInv, Cached, Live, Alive
<1>5. CASE ReaderDies
  BY <1>5 DEF ReaderDies, TypeOK, PlaceInv, Cached, Live, Alive
<1>6. QED  BY <1>1, <1>2, <1>3, <1>4, <1>5, <1>7, <1>8, <1>9 DEF Outside

LEMMA MainTypes == TypeOK /\ PlaceInv /\ MainNext => TypeOK' /\ PlaceInv'
<1> SUFFICES ASSUME TypeOK, PlaceInv, MainNext PROVE TypeOK' /\ PlaceInv'
  OBVIOUS
<1> USE DEF worldVars, webVars, loaderVars, procVars, walkVars, history, EnvStep, Places
<1>1. CASE ReadConfig
  BY <1>1 DEF ReadConfig, TypeOK, PlaceInv, Cached, Live, Alive
<1>2. CASE SwapFlag
  <2>1. changed' \in BOOLEAN /\ updated' \in BOOLEAN
    BY <1>2 DEF SwapFlag, TypeOK
  <2>2. QED  BY <1>2, <2>1 DEF SwapFlag, TypeOK, PlaceInv, Cached, Live, Alive
<1>3. CASE ReadMode
  <2>1. /\ forced' \in 0..2 /\ es' \in {"none", "live", "orphan"} /\ esCfg' \in Configs \cup {NoCfg}
        /\ scanAll' \in BOOLEAN /\ forceAff' \in BOOLEAN /\ lastCount' \in Nat
        /\ UNCHANGED <<cache, tracked, lastTotal>>
    <3>1. CASE mode = 2 /\ es # "none"
      BY <1>3, <3>1 DEF ReadMode, Rescan, TypeOK
    <3>2. CASE ~(mode = 2 /\ es # "none")
      <4>1. UNCHANGED <<es, esCfg, procVars>> /\ forced' = mode
        BY <1>3, <3>2 DEF ReadMode
      <4>2. QED  BY <4>1 DEF TypeOK
    <3>3. QED  BY <3>1, <3>2
  <2>2. QED  BY <1>3, <2>1 DEF ReadMode, Rescan, TypeOK, PlaceInv, Cached, Live, Alive
<1>4. CASE RetrySkip
  BY <1>4 DEF RetrySkip, TypeOK, PlaceInv, Cached, Live, Alive
<1>5. CASE RetryBegin
  BY <1>5 DEF RetryBegin, TypeOK, PlaceInv, Cached, Live, Alive
<1>6. CASE RetryFail
  BY <1>6 DEF RetryFail, TypeOK, PlaceInv, Cached, Live, Alive
<1>7. CASE ReloadSkip
  BY <1>7 DEF ReloadSkip, TypeOK, PlaceInv, Cached, Live, Alive
<1>8. CASE ReloadOverflow
  BY <1>8 DEF ReloadOverflow, TypeOK, PlaceInv, Cached, Live, Alive
<1>9. CASE ReinitFail
  BY <1>9 DEF ReinitFail, TypeOK, PlaceInv, Cached, Live, Alive
<1>10. CASE Run
  <2>1. pc' \in Places /\ scanAll' \in BOOLEAN /\ lastCount' \in Nat /\ dropped' \in BOOLEAN
    <3>1. CASE es # "none"
      BY <1>10, <3>1 DEF Run, TypeOK
    <3>2. CASE es = "none"
      <4>1. pc' = "sysinfo" /\ lastCount' \in Nat
        BY <1>10, <3>2 DEF Run, TypeOK
      <4>2. scanAll' \in BOOLEAN /\ dropped' \in BOOLEAN
        BY <1>10, <3>2 DEF Run
      <4>3. QED  BY <4>1, <4>2
    <3>3. QED  BY <3>1, <3>2
  <2>2. QED  BY <1>10, <2>1 DEF Run, TypeOK, PlaceInv, Cached, Live, Alive
<1>11. CASE Recv
  <2>1. /\ es' \in {"none", "live", "orphan"} /\ esCfg' \in Configs \cup {NoCfg}
        /\ scanAll' \in BOOLEAN /\ forceAff' \in BOOLEAN /\ lastCount' \in Nat
        /\ UNCHANGED <<cache, tracked, lastTotal>>
    <3>1. CASE es = "orphan"
      BY <1>11, <3>1 DEF Recv, Rescan, TypeOK
    <3>2. CASE ~(es = "orphan")
      <4>1. UNCHANGED <<es, esCfg, procVars>>
        BY <1>11, <3>2 DEF Recv
      <4>2. QED  BY <4>1 DEF TypeOK
    <3>3. QED  BY <3>1, <3>2
  <2>2. QED  BY <1>11, <2>1 DEF Recv, Rescan, TypeOK, PlaceInv, Cached, Live, Alive
<1>12. CASE KillDone
  BY <1>12 DEF KillDone, TypeOK, PlaceInv, Cached, Live, Alive
<1>13. CASE SyncSkip
  BY <1>13 DEF SyncSkip, TypeOK, PlaceInv, Cached, Live, Alive
<1>14. CASE Wake
  BY <1>14 DEF Wake, TypeOK, PlaceInv, Cached, Live, Alive
<1>15. CASE RetryEnd
  BY <1>15, FullScanTypes DEF RetryEnd, TypeOK, PlaceInv, Cached, Live, Alive
<1>16. CASE Reload
  BY <1>16, FullScanTypes DEF Reload, TypeOK, PlaceInv, Cached, Live, Alive
<1>17. CASE Reinit
  BY <1>17, FullScanTypes DEF Reinit, TypeOK, PlaceInv, Cached, Live, Alive
<1>18. CASE Sysinfo
  <2>1. /\ ThreadCount \in Nat /\ cache' \in [Pids -> Entry \cup {NoEntry}]
    BY <1>18, ThreadCountType, EmptyCacheType DEF Sysinfo, BeginWalk, TypeOK
  <2>4. pos' \in Nat /\ total' \in Nat /\ todo' \in SUBSET Pids /\ forceAff' \in BOOLEAN
    <3>1. forceAff' \in BOOLEAN
      BY <1>18 DEF Sysinfo
    <3>2. pos' \in Nat /\ total' \in Nat /\ todo' \in SUBSET Pids
      <4>1. pos' \in {0, pos} /\ total' \in {0, total} /\ todo' \in {todo, tracked}
        BY <1>18 DEF Sysinfo, BeginWalk
      <4>2. pos \in Nat /\ total \in Nat /\ todo \in SUBSET Pids /\ tracked \in SUBSET Pids
        BY DEF TypeOK
      <4>3. QED  BY <4>1, <4>2
    <3>3. QED  BY <3>1, <3>2
  <2>2. walked' \in SUBSET Cached' /\ walked' \subseteq walked
    BY <1>18 DEF Sysinfo, BeginWalk, TypeOK, Cached
  <2>3. QED  BY <1>18, <2>1, <2>2, <2>4 DEF Sysinfo, BeginWalk, TypeOK, PlaceInv, Live, Alive
<1>19. ASSUME NEW p \in Pids, KillProbe(p) PROVE TypeOK' /\ PlaceInv'
  <2>1. cache' \in [Pids -> Entry \cup {NoEntry}]
    BY <1>19, EmptyCacheType DEF KillProbe, BeginWalk, TypeOK
  <2>4. pos' \in Nat /\ total' \in Nat /\ todo' \in SUBSET Pids
    <3>1. CASE Alive(p)
      BY <1>19, <3>1 DEF KillProbe, TypeOK
    <3>2. CASE ~Alive(p)
      BY <1>19, <3>2 DEF KillProbe, BeginWalk, TypeOK
    <3>3. QED  BY <3>1, <3>2
  <2>2. walked' \in SUBSET Cached' /\ walked' \subseteq walked
    BY <1>19 DEF KillProbe, BeginWalk, TypeOK, Cached
  <2>3. QED  BY <1>19, <2>1, <2>2, <2>4 DEF KillProbe, BeginWalk, TypeOK, PlaceInv, Live, Alive
<1>20. ASSUME NEW p \in Pids, WalkProc(p) PROVE TypeOK' /\ PlaceInv'
  <2> DEFINE entry == [pkg |-> name[p], cfg |-> cfg]
  <2>1. name[p] \in CfgPkgs[cfg] => entry \in Entry
    BY DEF TypeOK, Entry
  <2> HIDE DEF entry
  <2>2. /\ pos' \in Nat /\ total' \in Nat /\ pc' = pc /\ es' = es /\ name' = name
        /\ \/ UNCHANGED <<cache, walked>>
           \/ entry \in Entry /\ cache' = [cache EXCEPT ![p] = entry] /\ walked' = walked \cup {p}
    BY <1>20, <2>1 DEF WalkProc, TypeOK, entry
  <2>3. cache' \in [Pids -> Entry \cup {NoEntry}] /\ walked' \in SUBSET Cached' /\ walked' \subseteq Live
    <3>1. NoEntry \notin Entry /\ cache \in [Pids -> Entry \cup {NoEntry}] /\ walked \in SUBSET Cached
      BY DEF TypeOK, Entry
    <3>2. walked \subseteq Live /\ p \in Live
      BY <1>20 DEF WalkProc, PlaceInv, Live
    <3>3. Live' = Live
      BY <2>2 DEF Live, Alive
    <3>4. QED  BY <2>2, <3>1, <3>2, <3>3 DEF Cached
  <2>4. QED  BY <1>20, <2>2, <2>3 DEF WalkProc, TypeOK, PlaceInv, Live, Alive
<1>21. CASE WalkDone
  BY <1>21 DEF WalkDone, TypeOK, PlaceInv, Cached, Live, Alive
<1>22. CASE AffinitySync
  <2>1. cache' \in [Pids -> Entry \cup {NoEntry}] /\ bound' \in [Pids -> Entry \cup {NoEntry}]
    BY <1>22 DEF AffinitySync, TypeOK
  <2>2. walked' \in SUBSET Cached'
    BY <1>22 DEF AffinitySync, TypeOK, PlaceInv, Cached, Live
  <2>3. QED  BY <1>22, <2>1, <2>2 DEF AffinitySync, TypeOK, PlaceInv, Live, Alive
<1>23. QED  BY <1>1, <1>2, <1>3, <1>4, <1>5, <1>6, <1>7, <1>8, <1>9, <1>10, <1>11, <1>12, <1>13, <1>14, <1>15, <1>16, <1>17, <1>18, <1>19, <1>20, <1>21, <1>22 DEF MainNext

-----------------------------------------------------------------------------
(* The configuration *)

LEMMA OutsideFresh == TypeOK /\ FreshInv /\ Outside => FreshInv'
<1> SUFFICES ASSUME TypeOK, FreshInv, Outside PROVE FreshInv'
  OBVIOUS
<1> USE DEF worldVars, webVars, loaderVars, procVars, walkVars, history, mainVars
<1>1. ASSUME NEW p \in Pids, End(p) PROVE FreshInv'
  BY <1>1 DEF End, FreshInv, NoUpdatePending, Due, FreshWalk
<1>2. ASSUME NEW p \in Pids, NEW n \in Pkgs \cup {Other}, Start(p, n) PROVE FreshInv'
  BY <1>2 DEF Start, FreshInv, NoUpdatePending, Due, FreshWalk
<1>3. CASE (\E m \in 0..2 : SetMode(m)) \/ ClearGaveUp \/ RetryTimer
  BY <1>3 DEF SetMode, ClearGaveUp, RetryTimer, FreshInv, NoUpdatePending, Due, FreshWalk
<1>4. CASE (\E c \in Configs : Publish(c)) \/ Announce
  BY <1>4 DEF Publish, Announce, FreshInv, NoUpdatePending, TypeOK
<1>5. CASE ReaderDies
  BY <1>5 DEF ReaderDies, FreshInv, NoUpdatePending, Due, FreshWalk
<1>6. QED  BY <1>1, <1>2, <1>3, <1>4, <1>5 DEF Outside

LEMMA MainFresh == TypeOK /\ PlaceInv /\ FreshInv /\ MainNext => FreshInv'
<1> SUFFICES ASSUME TypeOK, PlaceInv, FreshInv, MainNext PROVE FreshInv'
  OBVIOUS
<1> USE DEF worldVars, webVars, loaderVars, procVars, walkVars, history
<1>1. CASE SwapFlag
  BY <1>1 DEF SwapFlag, FreshInv, NoUpdatePending, Due, FreshWalk
<1>2. CASE ReadConfig
  BY <1>2 DEF ReadConfig, FreshInv, NoUpdatePending, Due, FreshWalk
<1>3. CASE ReadMode
  BY <1>3 DEF ReadMode, Rescan, FreshInv, NoUpdatePending, Due, FreshWalk
<1>4. CASE RetrySkip
  BY <1>4 DEF RetrySkip, FreshInv, NoUpdatePending, Due, FreshWalk
<1>5. CASE RetryBegin
  BY <1>5 DEF RetryBegin, FreshInv, NoUpdatePending, Due, FreshWalk
<1>6. CASE RetryEnd
  BY <1>6 DEF RetryEnd, FullScan, FreshInv, NoUpdatePending, Due, FreshWalk
<1>7. CASE RetryFail
  BY <1>7 DEF RetryFail, FreshInv, NoUpdatePending, Due, FreshWalk
<1>8. CASE ReloadSkip
  BY <1>8 DEF ReloadSkip, FreshInv, NoUpdatePending, Due, FreshWalk
<1>9. CASE Reload
  BY <1>9 DEF Reload, FullScan, FreshInv, NoUpdatePending, Due, FreshWalk
<1>10. CASE ReloadOverflow
  BY <1>10 DEF ReloadOverflow, FreshInv, NoUpdatePending, Due, FreshWalk
<1>11. CASE Reinit
  BY <1>11 DEF Reinit, FullScan, FreshInv, NoUpdatePending, Due, FreshWalk
<1>12. CASE ReinitFail
  BY <1>12 DEF ReinitFail, FreshInv, NoUpdatePending, Due, FreshWalk, PlaceInv
<1>13. CASE Run
  BY <1>13 DEF Run, FreshInv, NoUpdatePending, Due, FreshWalk
<1>14. CASE Recv
  BY <1>14 DEF Recv, Rescan, FreshInv, NoUpdatePending, Due, FreshWalk, TypeOK
<1>15. CASE Sysinfo
  <2>1. /\ pc = "sysinfo" /\ es = "none" /\ NoUpdatePending' = NoUpdatePending
        /\ cfg' = cfg /\ current' = current /\ dropped' = dropped
    BY <1>15 DEF Sysinfo, NoUpdatePending, PlaceInv
  <2>2. \/ pc' = "walk" /\ walked' = {}
        \/ pc' = "kill" /\ ~scanAll /\ cache' = cache /\ walked' = walked
    BY <1>15 DEF Sysinfo, BeginWalk
  <2>3. NoUpdatePending => cfg = current /\ (dropped \/ scanAll \/ FreshWalk)
    BY <2>1 DEF FreshInv, Due
  <2>4. CASE pc' = "walk" /\ walked' = {}
    BY <2>1, <2>3, <2>4 DEF FreshInv, FreshWalk
  <2>5. CASE pc' = "kill" /\ ~scanAll /\ cache' = cache /\ walked' = walked
    BY <2>1, <2>3, <2>5 DEF FreshInv, FreshWalk
  <2>6. QED  BY <2>2, <2>4, <2>5
<1>16. CASE KillDone
  BY <1>16 DEF KillDone, FreshInv, NoUpdatePending, Due, FreshWalk
<1>17. CASE WalkDone
  BY <1>17 DEF WalkDone, FreshInv, NoUpdatePending, Due, FreshWalk
<1>18. CASE AffinitySync
  BY <1>18 DEF AffinitySync, FreshInv, NoUpdatePending, Due, FreshWalk, PlaceInv, Live
<1>19. CASE SyncSkip
  BY <1>19 DEF SyncSkip, FreshInv, NoUpdatePending, Due, FreshWalk
<1>20. CASE Wake
  BY <1>20 DEF Wake, FreshInv, NoUpdatePending, Due, FreshWalk, PlaceInv
<1>21. ASSUME NEW p \in Pids, KillProbe(p) PROVE FreshInv'
  BY <1>21 DEF KillProbe, BeginWalk, FreshInv, NoUpdatePending, Due, FreshWalk
<1>22. ASSUME NEW p \in Pids, WalkProc(p) PROVE FreshInv'
  <2>1. pc = "walk" /\ pc' = pc /\ NoUpdatePending' = NoUpdatePending /\ cfg' = cfg /\ current' = current
    BY <1>22 DEF WalkProc, NoUpdatePending
  <2>2. \A q \in walked' : (q \in walked /\ cache'[q] = cache[q]) \/ cache'[q].cfg = cfg
    <3>1. CASE UNCHANGED <<cache, walked>>
      BY <3>1
    <3>2. CASE /\ cache' = [cache EXCEPT ![p] = [pkg |-> name[p], cfg |-> cfg]]
               /\ walked' = walked \cup {p}
      <4>1. cache'[p].cfg = cfg /\ \A q \in Pids \ {p} : cache'[q] = cache[q]
        BY <3>2 DEF TypeOK
      <4>2. walked \subseteq Pids
        BY DEF TypeOK, Cached
      <4>3. QED  BY <3>2, <4>1, <4>2
    <3>3. QED  BY <1>22, <3>1, <3>2 DEF WalkProc
  <2>3. NoUpdatePending => cfg' = current' /\ FreshWalk'
    BY <2>1, <2>2 DEF FreshInv, FreshWalk
  <2>4. QED  BY <2>1, <2>3 DEF FreshInv
<1>23. QED  BY <1>1, <1>2, <1>3, <1>4, <1>5, <1>6, <1>7, <1>8, <1>9, <1>10, <1>11, <1>12, <1>13, <1>14, <1>15, <1>16, <1>17, <1>18, <1>19, <1>20, <1>21, <1>22 DEF MainNext

-----------------------------------------------------------------------------
(* The CPUs *)

LEMMA OutsideBound == TypeOK /\ BoundInv /\ Outside => BoundInv'
<1> SUFFICES ASSUME TypeOK, BoundInv, Outside PROVE BoundInv'
  OBVIOUS
<1> USE DEF worldVars, webVars, loaderVars, procVars, walkVars, history, mainVars
<1>1. ASSUME NEW p \in Pids, End(p) PROVE BoundInv'
  BY <1>1 DEF End, BoundInv, BoundWalk, TypeOK, Cached
<1>2. ASSUME NEW p \in Pids, NEW n \in Pkgs \cup {Other}, Start(p, n) PROVE BoundInv'
  BY <1>2 DEF Start, BoundInv, BoundWalk
<1>3. CASE (\E m \in 0..2 : SetMode(m)) \/ ClearGaveUp \/ RetryTimer
  BY <1>3 DEF SetMode, ClearGaveUp, RetryTimer, BoundInv, BoundWalk
<1>4. CASE (\E c \in Configs : Publish(c)) \/ Announce
  BY <1>4 DEF Publish, Announce, BoundInv, BoundWalk
<1>5. CASE ReaderDies
  BY <1>5 DEF ReaderDies, BoundInv
<1>6. QED  BY <1>1, <1>2, <1>3, <1>4, <1>5 DEF Outside

LEMMA MainBound == TypeOK /\ PlaceInv /\ BoundInv /\ MainNext => BoundInv'
<1> SUFFICES ASSUME TypeOK, PlaceInv, BoundInv, MainNext PROVE BoundInv'
  OBVIOUS
<1> USE DEF worldVars, webVars, loaderVars, procVars, walkVars, history
<1>1. CASE SwapFlag
  BY <1>1 DEF SwapFlag, BoundInv, BoundWalk
<1>2. CASE ReadConfig
  BY <1>2 DEF ReadConfig, BoundInv, BoundWalk
<1>3. CASE ReadMode
  BY <1>3 DEF ReadMode, Rescan, BoundInv, BoundWalk
<1>4. CASE RetrySkip
  BY <1>4 DEF RetrySkip, BoundInv, BoundWalk
<1>5. CASE RetryBegin
  BY <1>5 DEF RetryBegin, BoundInv, BoundWalk
<1>6. CASE RetryEnd
  BY <1>6 DEF RetryEnd, FullScan, BoundInv, BoundWalk
<1>7. CASE RetryFail
  BY <1>7 DEF RetryFail, BoundInv, BoundWalk
<1>8. CASE ReloadSkip
  BY <1>8 DEF ReloadSkip, BoundInv, BoundWalk
<1>9. CASE Reload
  BY <1>9 DEF Reload, FullScan, BoundInv, BoundWalk
<1>10. CASE ReloadOverflow
  BY <1>10 DEF ReloadOverflow, BoundInv, BoundWalk
<1>11. CASE Reinit
  BY <1>11 DEF Reinit, FullScan, BoundInv, BoundWalk
<1>12. CASE ReinitFail
  BY <1>12 DEF ReinitFail, BoundInv, BoundWalk
<1>13. CASE Run
  BY <1>13 DEF Run, BoundInv, BoundWalk
<1>14. CASE Recv
  BY <1>14 DEF Recv, Rescan, BoundInv, BoundWalk, TypeOK
<1>15. CASE Sysinfo
  BY <1>15 DEF Sysinfo, BeginWalk, BoundInv, BoundWalk
<1>16. CASE KillDone
  BY <1>16 DEF KillDone, BoundInv, BoundWalk
<1>17. CASE WalkDone
  BY <1>17 DEF WalkDone, BoundInv, BoundWalk
<1>18. CASE AffinitySync
  BY <1>18 DEF AffinitySync, BoundInv, BoundWalk, TypeOK, PlaceInv, Live, Cached
<1>19. CASE SyncSkip
  BY <1>19 DEF SyncSkip, BoundInv, BoundWalk
<1>20. CASE Wake
  BY <1>20 DEF Wake, BoundInv, BoundWalk
<1>21. ASSUME NEW p \in Pids, KillProbe(p) PROVE BoundInv'
  BY <1>21 DEF KillProbe, BeginWalk, BoundInv, BoundWalk
<1>22. ASSUME NEW p \in Pids, WalkProc(p) PROVE BoundInv'
  BY <1>22 DEF WalkProc, BoundInv, BoundWalk
<1>23. QED  BY <1>1, <1>2, <1>3, <1>4, <1>5, <1>6, <1>7, <1>8, <1>9, <1>10, <1>11, <1>12, <1>13, <1>14, <1>15, <1>16, <1>17, <1>18, <1>19, <1>20, <1>21, <1>22 DEF MainNext

-----------------------------------------------------------------------------
(* Theorems *)

LEMMA StepKeeps == SwitchInv /\ [Next]_vars => SwitchInv'
<1> SUFFICES ASSUME SwitchInv, [Next]_vars PROVE SwitchInv'
  OBVIOUS
<1>1. CASE MainNext
  BY <1>1, MainTypes, MainFresh, MainBound DEF SwitchInv
<1>2. CASE Outside
  BY <1>2, OutsideTypes, OutsideFresh, OutsideBound DEF SwitchInv
<1>3. CASE UNCHANGED vars
  <2> USE DEF vars, worldVars, webVars, loaderVars, procVars, walkVars, history
  <2>1. TypeOK' /\ PlaceInv'
    BY <1>3 DEF SwitchInv, TypeOK, PlaceInv, Cached, Live, Alive
  <2>2. FreshInv' /\ BoundInv'
    BY <1>3 DEF SwitchInv, FreshInv, NoUpdatePending, Due, FreshWalk, BoundInv, BoundWalk
  <2>3. QED  BY <2>1, <2>2 DEF SwitchInv
<1>4. QED  BY <1>1, <1>2, <1>3 DEF Next, Outside

LEMMA Invariance == Spec => []SwitchInv
BY InitHolds, StepKeeps, PTL DEF Spec

\* The variables of the main loop keep their types: it waits for eBPF events only
\* with eBPF loaded, and the processes of the last scan are in the cache.
THEOREM SwitchTypes == Spec => []TypeOK
<1>1. SwitchInv => TypeOK
  BY DEF SwitchInv
<1>2. QED  BY <1>1, Invariance, PTL

\* Whichever mode waits, its cache is by the configuration published last, unless
\* a reload of eBPF has failed.
THEOREM SwitchKeepsFresh == Spec => []CacheFresh
<1>1. SwitchInv => CacheFresh
  BY DEF SwitchInv, FreshInv, FreshWalk, CacheFresh
<1>2. QED  BY <1>1, Invariance, PTL

\* A loop that sleeps in /proc mode has given the processes of its scan their CPUs,
\* whatever the other mode had done with them.
THEOREM SleepsBound == Spec => []BoundAsCached
<1>1. SwitchInv => BoundAsCached
  BY DEF SwitchInv, PlaceInv, BoundInv, BoundWalk, BoundAsCached
<1>2. QED  BY <1>1, Invariance, PTL
===============================================================================
