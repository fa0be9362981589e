-------------------------- MODULE ConfigReloadProofs --------------------------
(***************************************************************************)
(* Proofs about ConfigReload for every set of files and web threads and    *)
(* any number of changes: the watch is sound, a stale configuration is     *)
(* always going to be replaced, and loader, handlers and main thread       *)
(* implement the register of configurations.                               *)
(***************************************************************************)
EXTENDS ConfigReload, FiniteSetTheorems, TLAPS

USE ReloadAssumption

-----------------------------------------------------------------------------
(* The invariant *)

\* No modification time is of the future.
TimesPast == mtime <= version /\ \A t \in Procs : got[t].mtime <= version

\* The loader parses whatever it finds when it has been told that something changed.
NothingNoted ==
  /\ pc[Loader] \in {"start", "sleep", "rewatch"} => mtime = -1
  /\ supported /\ pc[Loader] = "stat" => mtime = -1

\* The time in hand is of the file that is being read, and of no other.
ReadSound ==
  pc[Loader] = "read" =>
    /\ got[Loader].mtime # 0
    /\ \A p \in Paths \ {got[Loader].path} : files[p] # got[Loader].mtime
    /\ got[Loader].path # path => PathTold

\* The content in hand belongs to last_mtime, and if the file holds something else by now,
\* the loader will hear of it.
StoreSound ==
  pc[Loader] = "store" =>
    /\ mtime # 0
    /\ got[Loader].content = mtime \/ \A p \in Paths : files[p] # mtime
    /\ supported /\ got[Loader].content # files[path] =>
         PathTold \/ pending # {} \/ path \in open

\* A modification time that is still the file's is the one of the configuration.
MtimeSound ==
  mtime = files[path] /\ pc[Loader] # "store" =>
    current = files[path] \/ lost \/ PathTold \/ files[path] = 0

ReloadInv ==
  /\ TypeOK /\ VersionsDiffer
  /\ TimesPast /\ NothingNoted /\ ReadSound /\ StoreSound /\ MtimeSound
  /\ WatchSound /\ ChangeAttended

-----------------------------------------------------------------------------
(* Types *)

LEMMA InitType == Init => TypeOK
<1>1. Init => DiskTypeOK  BY DEF Init, DiskTypeOK, Versions
<1>2. Init => WatchTypeOK  BY DEF Init, WatchTypeOK, Procs
<1>3. Init => PlaceTypeOK
  BY DEF Init, PlaceTypeOK, Procs, LoaderPlaces, LoadPlaces, HandlerPlaces
<1>4. Init => LoadTypeOK  BY DEF Init, LoadTypeOK, Procs, Load, NoLoad, Versions
<1>5. Init => current \in Nat /\ used \in Nat
  BY DEF Init
<1>6. Init => MainTypeOK
  BY <1>5 DEF Init, MainTypeOK, Versions
<1>7. QED  BY <1>1, <1>2, <1>3, <1>4, <1>6 DEF TypeOK

\* The disk: a change from outside is the latest version.
LEMMA DiskType == DiskTypeOK /\ [Next]_vars => DiskTypeOK'
<1> SUFFICES ASSUME DiskTypeOK, [Next]_vars PROVE DiskTypeOK'
  OBVIOUS
<1> USE DEF DiskTypeOK, Versions, diskVars
<1>1. ASSUME NEW p \in Paths, Written(p), version' = version + 1
      PROVE  files' \in [Paths -> Nat] /\ version' \in Nat /\ \A q \in Paths : files'[q] <= version'
  BY <1>1 DEF Written
<1>2. ASSUME NEW p \in Paths, Replace(p) \/ Truncate(p) \/ CloseWrite(p) PROVE DiskTypeOK'
  BY <1>1, <1>2 DEF Replace, Truncate, CloseWrite, Change
<1>3. ASSUME NEW p \in Paths, Remove(p) PROVE DiskTypeOK'
  BY <1>3 DEF Remove, Change
<1>4. ASSUME NEW h \in Handlers, EditRule(h) PROVE DiskTypeOK'
  BY <1>1, <1>4 DEF EditRule, Change
<1>5. ASSUME NEW h \in Handlers, NEW p \in Paths, SetPath(h, p) PROVE DiskTypeOK'
  BY <1>1, <1>5 DEF SetPath, Change
<1>6. ASSUME NEW h \in Handlers, SetCpuset(h) \/ SetForce(h) PROVE DiskTypeOK'
  BY <1>6 DEF SetCpuset, SetForce, Change
<1>7. ASSUME NEW t \in Procs, Reload(t) PROVE UNCHANGED <<diskVars, path>>
  BY <1>7 DEF Reload, Stat, Read, Store, Announce
<1>8. CASE LoaderNext \/ InitInotify \/ SwapFlag \/ ReadConfig \/ UNCHANGED vars
  BY <1>7, <1>8 DEF LoaderNext, TakeForce, ForcedRewatch, HandleEvents, WaitTimeout, WaitFails,
                    Wake, Poll, Nap, InitInotify, SwapFlag, ReadConfig, vars, Procs
<1>9. QED
  BY <1>2, <1>3, <1>4, <1>5, <1>6, <1>7, <1>8 DEF Next, DiskNext, HandlerNext, Procs

\* Handlers leave the loader where it is.
LEMMA LoaderStays ==
  ASSUME PlaceTypeOK, LoadTypeOK, NEW h \in Handlers, HandlerNext(h)
  PROVE  pc'[Loader] = pc[Loader] /\ mtime' = mtime /\ got'[Loader] = got[Loader] /\ ret' = ret
<1>1. h \in Procs /\ Loader \in Procs /\ h # Loader
  BY DEF Procs
<1>2. CASE Reload(h)
  <2>1. \/ pc' = pc \/ \E place \in LoaderPlaces \cup HandlerPlaces : pc' = [pc EXCEPT ![h] = place]
    BY <1>1, <1>2 DEF Reload, Stat, Read, Store, Announce, Return, Goto, After, HandlerPlaces,
                      LoadPlaces
  <2>2. pc'[Loader] = pc[Loader]
    BY <1>1, <2>1 DEF PlaceTypeOK
  <2>3. mtime' = mtime /\ ret' = ret
    BY <1>1, <1>2 DEF Reload, Stat, Read, Store, Announce, Return
  <2>4. got'[Loader] = got[Loader]
    BY <1>1, <1>2 DEF Reload, Stat, Read, Store, Announce, LoadTypeOK
  <2>5. QED  BY <2>2, <2>3, <2>4
<1>3. CASE ~Reload(h)
  BY <1>1, <1>3 DEF HandlerNext, EditRule, SetPath, SetCpuset, SetForce, Goto, PlaceTypeOK
<1>4. QED  BY <1>2, <1>3

\* The watch: without inotify there is none, no event is left, and nothing to renew.
LEMMA WatchType == TypeOK /\ [Next]_vars => WatchTypeOK'
<1> SUFFICES ASSUME DiskTypeOK, WatchTypeOK, PlaceTypeOK, LoadTypeOK, [Next]_vars PROVE WatchTypeOK'
  BY DEF TypeOK
<1> USE DEF WatchTypeOK, watchVars
<1>1. ASSUME NEW p \in Paths, Unlinked(p), supported' = supported, pc'[Loader] = pc[Loader]
      PROVE  WatchTypeOK'
  BY <1>1 DEF Unlinked
<1>2. ASSUME NEW p \in Paths, Replace(p) \/ Truncate(p) \/ CloseWrite(p) \/ Remove(p)
      PROVE  WatchTypeOK'
  BY <1>1, <1>2 DEF Replace, Truncate, CloseWrite, Remove, loadVars
<1>3. ASSUME NEW h \in Handlers, HandlerNext(h) PROVE WatchTypeOK'
  <2>1. pc'[Loader] = pc[Loader]
    BY <1>3, LoaderStays
  <2>2. supported' = supported /\ (UNCHANGED watchVars \/ Unlinked(path))
    BY <1>3 DEF HandlerNext, EditRule, SetCpuset, SetForce, SetPath, Reload, Stat, Read, Store,
                Announce
  <2>3. QED  BY <1>1, <2>1, <2>2 DEF DiskTypeOK
<1>4. CASE Reload(Loader)
  <2>1. UNCHANGED watchVars
    BY <1>4 DEF Reload, Stat, Read, Store, Announce
  <2>2. pc'[Loader] \notin {"sleep", "rewatch"}
    BY <1>4 DEF Reload, Stat, Read, Store, Announce, Return, Goto, After, PlaceTypeOK, Procs
  <2>3. QED  BY <2>1, <2>2
<1>5. CASE InitInotify
  BY <1>5 DEF InitInotify, Disable, DiskTypeOK, PlaceTypeOK, Procs, Goto
<1>6. CASE ForcedRewatch \/ Wake
  BY <1>6 DEF ForcedRewatch, Wake, RewatchOk, RewatchFails, Disable, DiskTypeOK, PlaceTypeOK,
              Procs, Goto
<1>7. CASE TakeForce \/ HandleEvents \/ WaitTimeout \/ WaitFails \/ Poll \/ Nap
  BY <1>7 DEF TakeForce, HandleEvents, WaitTimeout, WaitFails, Poll, Nap, Disable, PlaceTypeOK,
              Procs, Goto
<1>8. CASE SwapFlag \/ ReadConfig \/ UNCHANGED vars
  BY <1>8 DEF SwapFlag, ReadConfig, vars, loadVars
<1>9. QED
  BY <1>2, <1>3, <1>4, <1>5, <1>6, <1>7, <1>8 DEF Next, DiskNext, LoaderNext

\* Threads go from place to place of their own.
LEMMA PlaceType == PlaceTypeOK /\ [Next]_vars => PlaceTypeOK'
<1> SUFFICES ASSUME PlaceTypeOK, [Next]_vars PROVE PlaceTypeOK'
  OBVIOUS
<1> USE DEF LoaderPlaces, LoadPlaces, HandlerPlaces, Procs
<1>1. ASSUME NEW t \in Procs, NEW place \in LoaderPlaces \cup HandlerPlaces, Goto(t, place),
             place \in IF t = Loader THEN LoaderPlaces ELSE HandlerPlaces,
             ret' \in {"wait", "nap", "top"}
      PROVE  PlaceTypeOK'
  BY <1>1 DEF Goto, PlaceTypeOK
<1>2. ASSUME NEW t \in Procs, Reload(t) PROVE PlaceTypeOK'
  <2>1. CASE Return(t)
    <3>1. After(t) \in (IF t = Loader THEN {"wait", "nap", "top"} ELSE {"idle"})
          /\ ret' \in {"wait", "nap", "top"}
      BY <2>1 DEF Return, After, PlaceTypeOK
    <3>2. QED  BY <2>1, <3>1, <1>1 DEF Return
  <2>2. CASE ret' = ret /\ \E place \in {"read", "store", "announce"} : Goto(t, place)
    BY <2>2, <1>1 DEF PlaceTypeOK
  <2>3. QED  BY <1>2, <2>1, <2>2 DEF Reload, Stat, Read, Store, Announce
<1>3. ASSUME NEW h \in Handlers, HandlerNext(h) PROVE PlaceTypeOK'
  <2>1. CASE Reload(h)  BY <2>1, <1>2
  <2>2. CASE ~Reload(h)
    <3>1. ret' = ret /\ \E place \in {"stat", "force", "idle"} : Goto(h, place)
      BY <1>3, <2>2 DEF HandlerNext, EditRule, SetPath, SetCpuset, SetForce
    <3>2. QED  BY <3>1, <1>1 DEF PlaceTypeOK
  <2>3. QED  BY <2>1, <2>2
<1>4. CASE LoaderNext \/ InitInotify
  <2>1. CASE Reload(Loader)  BY <2>1, <1>2
  <2>2. CASE ~Reload(Loader)
    <3>1. ret' \in {"wait", "nap", "top"}
          /\ \E place \in {"top", "stat", "wait", "rewatch", "sleep"} : Goto(Loader, place)
      BY <1>4, <2>2 DEF LoaderNext, InitInotify, TakeForce, ForcedRewatch, HandleEvents,
         WaitTimeout, WaitFails, Wake, Poll, Nap, PlaceTypeOK
    <3>2. QED  BY <3>1, <1>1
  <2>3. QED  BY <2>1, <2>2
<1>5. CASE DiskNext \/ SwapFlag \/ ReadConfig \/ UNCHANGED vars
  BY <1>5 DEF DiskNext, Replace, Truncate, CloseWrite, Remove, SwapFlag, ReadConfig, vars,
              loadVars, PlaceTypeOK
<1>6. QED  BY <1>3, <1>4, <1>5 DEF Next

-----------------------------------------------------------------------------
(* The steps of load_config *)

Home == {"wait", "nap", "top", "idle"}

Others(t) == \A u \in Procs \ {t} : pc'[u] = pc[u] /\ got'[u] = got[u]

LEMMA Returns ==
  ASSUME PlaceTypeOK, NEW t \in Procs, Return(t)
  PROVE  pc'[t] \in Home /\ \A u \in Procs \ {t} : pc'[u] = pc[u]
BY DEF Return, Goto, After, PlaceTypeOK, Home

\* The path and the time of the file are taken, or there is nothing to do.
LEMMA StatStep ==
  ASSUME TypeOK, NEW t \in Procs, Stat(t)
  PROVE  /\ pc[t] = "stat" /\ Others(t) /\ got' \in [Procs -> Load]
         /\ \/ files[path] \in {0, Last(t)} /\ pc'[t] \in Home /\ got'[t] = got[t]
            \/ /\ files[path] \notin {0, Last(t)} /\ pc'[t] = "read"
               /\ got'[t].path = path /\ got'[t].mtime = files[path]
<1> USE DEF TypeOK, LoadTypeOK, Others
<1>1. CASE files[path] \in {0, Last(t)}
  BY <1>1, Returns DEF Stat
<1>2. CASE files[path] \notin {0, Last(t)}
  <2>1. got[t] \in Load /\ path \in Paths /\ files[path] \in Versions
    BY DEF DiskTypeOK
  <2>2. got' = [got EXCEPT ![t].path = path, ![t].mtime = files[path]] /\ Goto(t, "read")
        /\ pc[t] = "stat"
    BY <1>2 DEF Stat
  <2>3. got'[t] = [got[t] EXCEPT !.path = path, !.mtime = files[path]]
        /\ \A u \in Procs \ {t} : got'[u] = got[u]
    BY <2>2
  <2>4. got'[t] \in Load /\ got'[t].path = path /\ got'[t].mtime = files[path]
    BY <2>1, <2>3 DEF Load
  <2>5. got' \in [Procs -> Load]
    BY <2>2, <2>4
  <2>6. pc'[t] = "read" /\ \A u \in Procs \ {t} : pc'[u] = pc[u]
    BY <2>2 DEF Goto, PlaceTypeOK
  <2>7. QED  BY <1>2, <2>2, <2>3, <2>4, <2>5, <2>6
<1>3. QED  BY <1>1, <1>2

\* The content is taken, or the file has gone.
LEMMA ReadStep ==
  ASSUME TypeOK, NEW t \in Procs, Read(t)
  PROVE  /\ pc[t] = "read" /\ Others(t) /\ got' \in [Procs -> Load]
         /\ got[t].path \in Paths /\ got'[t].mtime = 0
         /\ \/ files[got[t].path] = 0 /\ pc'[t] \in Home /\ mtime' = mtime
            \/ /\ files[got[t].path] # 0 /\ pc'[t] = "store"
               /\ got'[t].content = files[got[t].path]
               /\ mtime' = IF t = Loader THEN got[t].mtime ELSE mtime
<1> USE DEF TypeOK, LoadTypeOK, Others
<1>1. pc[t] = "read"
  BY DEF Read
<1>2. got[t].path \in Paths /\ files[got[t].path] \in Versions
  BY <1>1 DEF Load, DiskTypeOK
<1>3. CASE files[got[t].path] = 0
  BY <1>1, <1>2, <1>3, Returns DEF Read, NoLoad, Load, Versions
<1>4. CASE files[got[t].path] # 0
  <2> DEFINE new == [NoLoad EXCEPT !.content = files[got[t].path]]
  <2>1. new \in Load /\ new.mtime = 0 /\ new.content = files[got[t].path]
    BY <1>2 DEF NoLoad, Load, Versions
  <2> HIDE DEF new
  <2>2. got' = [got EXCEPT ![t] = new] /\ Goto(t, "store")
        /\ mtime' = IF t = Loader THEN got[t].mtime ELSE mtime
    BY <1>4 DEF Read, new
  <2>3. pc'[t] = "store" /\ \A u \in Procs \ {t} : pc'[u] = pc[u]
    BY <2>2 DEF Goto, PlaceTypeOK
  <2>4. QED  BY <1>1, <1>2, <1>4, <2>1, <2>2, <2>3
<1>5. QED  BY <1>3, <1>4

\* The content becomes the configuration.
LEMMA StoreStep ==
  ASSUME TypeOK, NEW t \in Procs, Store(t)
  PROVE  /\ pc[t] = "store" /\ Others(t) /\ got' \in [Procs -> Load]
         /\ got'[t].mtime = 0 /\ pc'[t] = "announce"
         /\ current' = got[t].content
         /\ lost' = (t # Loader /\ got[t].content # files[path])
<1>1. got' = [got EXCEPT ![t] = NoLoad] /\ Goto(t, "announce") /\ NoLoad \in Load /\ NoLoad.mtime = 0
  BY DEF Store, NoLoad, Load, Versions
<1>2. pc'[t] = "announce" /\ \A u \in Procs \ {t} : pc'[u] = pc[u]
  BY <1>1 DEF Goto, PlaceTypeOK, TypeOK
<1>3. QED  BY <1>1, <1>2 DEF Store, TypeOK, LoadTypeOK, Others

LEMMA AnnounceStep ==
  ASSUME TypeOK, NEW t \in Procs, Announce(t)
  PROVE  pc[t] = "announce" /\ Others(t) /\ got' = got /\ pc'[t] \in Home
BY Returns DEF Announce, TypeOK, Others

-----------------------------------------------------------------------------
\* What load_config has in hand comes from the disk.
LEMMA LoadType == TypeOK /\ [Next]_vars => LoadTypeOK'
<1> SUFFICES ASSUME TypeOK, [Next]_vars PROVE LoadTypeOK'
  OBVIOUS
<1>1. ASSUME NEW t \in Procs, Reload(t) PROVE LoadTypeOK'
  <2> USE DEF LoadTypeOK, TypeOK
  <2>1. CASE Stat(t)
    <3>1. mtime' = mtime  BY <2>1 DEF Stat
    <3>2. path \in Paths  BY DEF DiskTypeOK
    <3>3. QED  BY <2>1, <3>1, <3>2, StatStep DEF Others, Home
  <2>2. CASE Read(t)
    <3>1. mtime' \in Versions \cup {-1}
      BY <2>2, ReadStep DEF Load
    <3>2. QED  BY <2>2, <3>1, ReadStep DEF Others, Home
  <2>3. CASE Store(t)
    <3>1. mtime' = mtime  BY <2>3 DEF Store
    <3>2. QED  BY <2>3, <3>1, StoreStep DEF Others
  <2>4. CASE Announce(t)
    <3>1. mtime' = mtime  BY <2>4 DEF Announce
    <3>2. QED  BY <2>4, <3>1, AnnounceStep DEF Others, Home
  <2>5. QED  BY <1>1, <2>1, <2>2, <2>3, <2>4 DEF Reload
<1>2. ASSUME NEW t \in Procs, got' = got, mtime' \in {mtime, -1},
             NEW place \in {"stat", "force", "idle", "top", "rewatch", "wait", "sleep"}, Goto(t, place)
      PROVE  LoadTypeOK'
  BY <1>2 DEF Goto, PlaceTypeOK, LoadTypeOK, TypeOK
<1>3. ASSUME NEW h \in Handlers, HandlerNext(h) PROVE LoadTypeOK'
  <2>1. CASE Reload(h)  BY <2>1, <1>1 DEF Procs
  <2>2. CASE ~Reload(h)
    BY <1>2, <1>3, <2>2 DEF HandlerNext, EditRule, SetPath, SetCpuset, SetForce, Procs
  <2>3. QED  BY <2>1, <2>2
<1>4. CASE LoaderNext \/ InitInotify
  <2>1. CASE Reload(Loader)  BY <2>1, <1>1 DEF Procs
  <2>2. CASE ~Reload(Loader)
    <3>1. got' = got /\ mtime' \in {mtime, -1}
      BY <1>4, <2>2 DEF LoaderNext, InitInotify, TakeForce, ForcedRewatch, HandleEvents,
         WaitTimeout, WaitFails, Wake, Poll, Nap, loadVars
    <3>2. \E place \in {"top", "stat", "wait", "rewatch", "sleep"} : Goto(Loader, place)
      BY <1>4, <2>2 DEF LoaderNext, InitInotify, TakeForce, ForcedRewatch, HandleEvents,
         WaitTimeout, WaitFails, Wake, Poll, Nap
    <3>3. QED  BY <3>1, <3>2, <1>2 DEF Procs
  <2>3. QED  BY <2>1, <2>2
<1>5. CASE DiskNext \/ SwapFlag \/ ReadConfig \/ UNCHANGED vars
  BY <1>5 DEF DiskNext, Replace, Truncate, CloseWrite, Remove, SwapFlag, ReadConfig, vars,
              loadVars, LoadTypeOK, TypeOK
<1>6. QED  BY <1>3, <1>4, <1>5 DEF Next

\* The main thread only takes configurations that were stored.
LEMMA MainType == TypeOK /\ [Next]_vars => MainTypeOK'
<1> SUFFICES ASSUME TypeOK, [Next]_vars PROVE MainTypeOK'
  OBVIOUS
<1> USE DEF MainTypeOK, TypeOK, mainVars
<1>1. ASSUME NEW t \in Procs, Reload(t) PROVE MainTypeOK'
  <2>1. got[t].content \in Versions
    BY DEF LoadTypeOK, Load
  <2>2. QED  BY <1>1, <2>1 DEF Reload, Stat, Read, Store, Announce
<1>2. ASSUME NEW h \in Handlers, HandlerNext(h) PROVE MainTypeOK'
  BY <1>1, <1>2 DEF HandlerNext, EditRule, SetPath, SetCpuset, SetForce, Procs
<1>3. CASE LoaderNext \/ InitInotify
  BY <1>1, <1>3 DEF LoaderNext, InitInotify, TakeForce, ForcedRewatch, HandleEvents,
     WaitTimeout, WaitFails, Wake, Poll, Nap, Procs, Disable
<1>4. CASE SwapFlag \/ ReadConfig
  BY <1>4 DEF SwapFlag, ReadConfig
<1>5. CASE DiskNext \/ UNCHANGED vars
  BY <1>5 DEF DiskNext, Replace, Truncate, CloseWrite, Remove, vars
<1>6. QED  BY <1>2, <1>3, <1>4, <1>5 DEF Next

LEMMA StepType == TypeOK /\ [Next]_vars => TypeOK'
BY DiskType, WatchType, PlaceType, LoadType, MainType DEF TypeOK

-----------------------------------------------------------------------------
(* Changes of a file *)

\* A file gets the version v, by hand or through a handler at its first step.
FileChange(p, v) ==
  /\ files' = [files EXCEPT ![p] = v] /\ v \in {0, version + 1} /\ version' = version + 1
  /\ UNCHANGED <<path, force, supported, got, mtime, current, lost>>
  /\ pc'[Loader] = pc[Loader]
  /\ \A h \in Handlers : pc[h] = "force" => pc'[h] = "force"
  /\ \A q \in open : q = p \/ q \in open'
  /\ \/ Unlinked(p)
     \/ watch' = watch /\ pending' = IF watch = p THEN pending \cup {"write"} ELSE pending
     \/ watch' = watch /\ pending' = pending /\ p \in open'

LEMMA FileChangeKeeps ==
  ASSUME ReloadInv, NEW p \in Paths, NEW v, FileChange(p, v)
  PROVE  /\ VersionsDiffer' /\ TimesPast' /\ NothingNoted' /\ ReadSound' /\ StoreSound'
         /\ MtimeSound' /\ WatchSound'
         /\ p = path /\ Started /\ v # 0 => ChangeAttended'
         /\ Attended /\ p # path /\ (\A t \in Procs : Loading(t) => Loading(t)') => Attended'
<1> USE DEF ReloadInv, TypeOK
<1>1. /\ \A q \in Paths \ {p} : files'[q] = files[q]
      /\ files'[p] = v /\ v \in Nat /\ version \in Nat
      /\ \A q \in Paths : files[q] \in Nat /\ files[q] <= version
      /\ version' = version + 1 /\ (v = 0 \/ v = version + 1)
  BY DEF FileChange, DiskTypeOK, Versions
<1>2. /\ path' = path /\ force' = force /\ supported' = supported /\ got' = got
      /\ mtime' = mtime /\ current' = current /\ lost' = lost /\ pc'[Loader] = pc[Loader]
  BY DEF FileChange
<1>3. PathTold => PathTold'
  BY DEF FileChange, PathTold
<1>4. /\ pending \subseteq pending' /\ (watch' = watch \/ "gone" \in pending')
      /\ watch = p => pending' # {} \/ p \in open'
  BY DEF FileChange, Unlinked
<1>5. \A q \in open : q = p \/ q \in open'
  BY DEF FileChange
<1>6. mtime \in Int /\ mtime <= version /\ path \in Paths
      /\ \A t \in Procs : got[t].mtime \in Nat /\ got[t].mtime <= version
  BY DEF TimesPast, LoadTypeOK, Load, Versions, DiskTypeOK
<1>7. VersionsDiffer'
  BY <1>1 DEF VersionsDiffer
<1>8. TimesPast'
  BY <1>1, <1>2, <1>6 DEF TimesPast
<1>9. NothingNoted'
  BY <1>2 DEF NothingNoted
<1>10. ReadSound'
  BY <1>1, <1>2, <1>3, <1>6 DEF ReadSound, Procs
<1>11. WatchSound'
  BY <1>2, <1>3, <1>4 DEF WatchSound, Started
<1>12. Started /\ supported /\ p = path =>
        PathTold' \/ pending' # {} \/ path' \in open' \/ pc'[Loader] \in {"sleep", "rewatch"}
  BY <1>2, <1>3, <1>4 DEF WatchSound
<1>13. StoreSound'
  <2> SUFFICES ASSUME pc[Loader] = "store" PROVE StoreSound'
    BY <1>2 DEF StoreSound
  <2>1. mtime' # 0 /\ (got'[Loader].content = mtime' \/ \A q \in Paths : files'[q] # mtime')
    BY <1>1, <1>2, <1>6 DEF StoreSound
  <2>2. CASE p = path
    BY <2>1, <2>2, <1>2, <1>12 DEF StoreSound, Started
  <2>3. CASE p # path
    BY <2>1, <2>3, <1>1, <1>2, <1>3, <1>4, <1>5, <1>6 DEF StoreSound
  <2>4. QED  BY <2>2, <2>3
<1>14. MtimeSound'
  <2>1. CASE p = path
    BY <2>1, <1>1, <1>2, <1>6 DEF MtimeSound
  <2>2. CASE p # path
    BY <2>2, <1>1, <1>2, <1>3, <1>6 DEF MtimeSound
  <2>3. QED  BY <2>1, <2>2
<1>15. p = path /\ Started /\ v # 0 => ChangeAttended'
  <2>1. p = path /\ v # 0 => mtime' # files'[path']
    BY <1>1, <1>2, <1>6
  <2>2. supported \in BOOLEAN
    BY DEF WatchTypeOK
  <2>3. QED  BY <2>1, <2>2, <1>2, <1>12 DEF ChangeAttended, Attended
<1>16. Attended /\ p # path /\ (\A t \in Procs : Loading(t) => Loading(t)') => Attended'
  BY <1>1, <1>2, <1>3, <1>4, <1>5, <1>6 DEF Attended
<1>17. QED
  BY <1>7, <1>8, <1>9, <1>10, <1>11, <1>13, <1>14, <1>15, <1>16

\* The parts of the invariant beside the types.
Sound ==
  /\ VersionsDiffer /\ TimesPast /\ NothingNoted /\ ReadSound /\ StoreSound /\ MtimeSound
  /\ WatchSound /\ ChangeAttended

LEMMA FileChangeSound ==
  ASSUME ReloadInv, NEW p \in Paths, NEW v, FileChange(p, v),
         p # path => \A t \in Procs : Loading(t) => Loading(t)'
  PROVE  Sound'
<1>1. /\ files'[p] = v /\ \A q \in Paths \ {p} : files'[q] = files[q]
      /\ path' = path /\ path \in Paths /\ current' = current /\ lost' = lost
      /\ pc'[Loader] = pc[Loader]
  BY DEF FileChange, ReloadInv, TypeOK, DiskTypeOK
<1>2. ChangeAttended'
  <2>1. CASE p = path /\ v # 0
    BY <2>1, <1>1, FileChangeKeeps DEF ChangeAttended, Started
  <2>2. CASE p = path /\ v = 0
    BY <2>2, <1>1 DEF ChangeAttended
  <2>3. CASE p # path
    BY <2>3, <1>1, FileChangeKeeps DEF ChangeAttended, Started, ReloadInv
  <2>4. QED  BY <2>1, <2>2, <2>3
<1>3. QED  BY <1>2, FileChangeKeeps DEF Sound

\* People change files.
LEMMA DiskSound ==
  ASSUME ReloadInv, NEW p \in Paths, Replace(p) \/ Truncate(p) \/ CloseWrite(p) \/ Remove(p)
  PROVE  Sound'
<1>1. FileChange(p, version + 1) \/ FileChange(p, 0)
  <2>1. CASE Replace(p)
    BY <2>1 DEF Replace, FileChange, Written, Change, loadVars
  <2>2. CASE Truncate(p)
    BY <2>2 DEF Truncate, FileChange, Written, Change, loadVars, watchVars
  <2>3. CASE CloseWrite(p)
    BY <2>3 DEF CloseWrite, FileChange, Written, loadVars
  <2>4. CASE Remove(p)
    BY <2>4 DEF Remove, FileChange, Change, loadVars
  <2>5. QED  BY <2>1, <2>2, <2>3, <2>4
<1>2. /\ pc' = pc /\ got' = got /\ mtime' = mtime /\ path' = path
      /\ \A q \in Paths \ {p} : files'[q] = files[q]
  BY DEF Replace, Truncate, CloseWrite, Remove, Written, loadVars, ReloadInv, TypeOK, DiskTypeOK
<1>3. p # path => \A t \in Procs : Loading(t) => Loading(t)'
  BY <1>2 DEF Loading, Last, ReloadInv, TypeOK, DiskTypeOK
<1>4. QED  BY <1>1, <1>3, FileChangeSound

\* A handler replaces the file and starts parsing.
LEMMA EditSound ==
  ASSUME ReloadInv, NEW h \in Handlers, EditRule(h)
  PROVE  Sound'
<1>1. path \in Paths /\ h # Loader
  BY DEF ReloadInv, TypeOK, DiskTypeOK
<1>2. FileChange(path, version + 1)
  BY <1>1 DEF EditRule, FileChange, Written, Change, Goto, ReloadInv, TypeOK, PlaceTypeOK, Procs
<1>3. QED  BY <1>1, <1>2, FileChangeSound

\* Another path or cpuset directory: a handler is about to set FORCE_RELOAD, and does.
LEMMA SettingSound ==
  ASSUME ReloadInv, NEW h \in Handlers,
         (\E p \in Paths : SetPath(h, p)) \/ SetCpuset(h) \/ SetForce(h)
  PROVE  Sound'
<1> USE DEF ReloadInv, TypeOK
<1>1. h # Loader /\ h \in Procs /\ Loader \in Procs
  BY DEF Procs
<1>2. /\ pc'[Loader] = pc[Loader] /\ (pc'[h] = "force" \/ force')
      /\ \A t \in Handlers \ {h} : pc'[t] = pc[t]
  BY <1>1 DEF SetPath, SetCpuset, SetForce, Goto, PlaceTypeOK, Procs
<1>3. PathTold'
  BY <1>2 DEF PathTold
<1>4. UNCHANGED <<got, mtime, supported, current>>
  BY DEF SetPath, SetCpuset, SetForce, watchVars
<1>5. \E p \in Paths : \/ files' = [files EXCEPT ![p] = version + 1] /\ version' = version + 1
                       \/ files' = files /\ version' \in {version, version + 1}
  <2>1. CASE SetCpuset(h) \/ SetForce(h)
    BY <2>1 DEF SetCpuset, SetForce, Change, diskVars
  <2>2. CASE \E p \in Paths : SetPath(h, p)
    BY <2>2 DEF SetPath, Change, Written
  <2>3. QED  BY <2>1, <2>2
<1>6. /\ version \in Nat /\ version' \in Nat /\ version <= version'
      /\ \A q \in Paths : files'[q] = files[q] \/ files'[q] = version + 1
      /\ \A q \in Paths : files[q] \in Nat /\ files[q] <= version
  BY <1>5 DEF DiskTypeOK, Versions
<1>7. mtime \in Int /\ mtime <= version
      /\ \A t \in Procs : got[t].mtime \in Nat /\ got[t].mtime <= version
  BY DEF TimesPast, LoadTypeOK, Load, Versions
<1>8. VersionsDiffer'
  BY <1>5, <1>6 DEF VersionsDiffer, DiskTypeOK
<1>9. TimesPast'
  BY <1>4, <1>6, <1>7 DEF TimesPast
<1>10. NothingNoted'
  BY <1>2, <1>4 DEF NothingNoted
<1>11. ReadSound' /\ StoreSound'
  BY <1>1, <1>2, <1>3, <1>4, <1>6, <1>7 DEF ReadSound, StoreSound
<1>12. MtimeSound' /\ WatchSound' /\ ChangeAttended'
  BY <1>3 DEF MtimeSound, WatchSound, ChangeAttended, Attended
<1>13. QED  BY <1>8, <1>9, <1>10, <1>11, <1>12 DEF Sound

-----------------------------------------------------------------------------
(* The steps of load_config keep the invariant *)

\* Nothing outside of the thread changes before the store.
LEMMA LoadFrame ==
  ASSUME NEW t \in Procs, Stat(t) \/ Read(t) \/ Store(t) \/ Announce(t)
  PROVE  UNCHANGED <<files, version, open, path, force, supported, watch, pending>>
BY DEF Stat, Read, Store, Announce, diskVars, watchVars

\* Handlers that are about to set the flag are not parsing.
LEMMA ToldStays ==
  ASSUME TypeOK, NEW t \in Procs, Others(t), pc[t] # "force", force' = force, PathTold
  PROVE  PathTold'
BY DEF PathTold, Others, Procs

LEMMA StatSound == ASSUME ReloadInv, NEW t \in Procs, Stat(t) PROVE Sound'
<1> USE DEF ReloadInv, TypeOK
<1>1. UNCHANGED <<files, version, open, path, force, supported, watch, pending, mtime, current, lost>>
  BY LoadFrame DEF Stat
<1>2. /\ pc[t] = "stat" /\ \A u \in Procs \ {t} : pc'[u] = pc[u] /\ got'[u] = got[u]
      /\ \/ files[path] \in {0, Last(t)} /\ pc'[t] \in Home /\ got'[t] = got[t]
         \/ /\ files[path] \notin {0, Last(t)} /\ pc'[t] = "read"
            /\ got'[t].path = path /\ got'[t].mtime = files[path]
  BY StatStep DEF Others
<1>3. Loader \in Procs /\ path \in Paths
  BY DEF Procs, DiskTypeOK
<1>4. PathTold => PathTold'
  BY <1>1, <1>2, ToldStays, StatStep
<1>5. VersionsDiffer'
  BY <1>1 DEF VersionsDiffer
<1>6. TimesPast'
  BY <1>1, <1>2, <1>3 DEF TimesPast, DiskTypeOK
<1>7. NothingNoted' /\ WatchSound'
  BY <1>1, <1>2, <1>3, <1>4 DEF NothingNoted, WatchSound, Home, Started
<1>8. ReadSound'
  BY <1>1, <1>2, <1>3, <1>4 DEF ReadSound, VersionsDiffer, Home
<1>9. StoreSound' /\ MtimeSound'
  BY <1>1, <1>2, <1>3, <1>4 DEF StoreSound, MtimeSound, Home
<1>10. ASSUME NEW u \in Procs, Loading(u), files[path] # 0 PROVE Loading(u)'
  BY <1>1, <1>2, <1>10 DEF Loading, Last
<1>11. files[path] # 0 /\ Attended => Attended'
  BY <1>1, <1>2, <1>3, <1>4, <1>10 DEF Attended, Home
<1>12. ChangeAttended'
  BY <1>1, <1>2, <1>3, <1>11 DEF ChangeAttended, Started, Home
<1>13. QED  BY <1>5, <1>6, <1>7, <1>8, <1>9, <1>12 DEF Sound

LEMMA ReadSoundStep == ASSUME ReloadInv, NEW t \in Procs, Read(t) PROVE Sound'
<1> USE DEF ReloadInv, TypeOK
<1>1. UNCHANGED <<files, version, open, path, force, supported, watch, pending, current, lost>>
  BY LoadFrame DEF Read
<1>2. /\ pc[t] = "read" /\ \A u \in Procs \ {t} : pc'[u] = pc[u] /\ got'[u] = got[u]
      /\ got[t].path \in Paths /\ got'[t].mtime = 0
      /\ \/ files[got[t].path] = 0 /\ pc'[t] \in Home /\ mtime' = mtime
         \/ /\ files[got[t].path] # 0 /\ pc'[t] = "store"
            /\ got'[t].content = files[got[t].path]
            /\ mtime' = IF t = Loader THEN got[t].mtime ELSE mtime
  BY ReadStep DEF Others
<1>3. Loader \in Procs /\ path \in Paths /\ version \in Nat
  BY DEF Procs, DiskTypeOK, Versions
<1>4. PathTold => PathTold'
  BY <1>1, <1>2, ToldStays, ReadStep
<1>5. VersionsDiffer'
  BY <1>1 DEF VersionsDiffer
<1>6. TimesPast'
  BY <1>1, <1>2, <1>3 DEF TimesPast
<1>7. NothingNoted' /\ WatchSound' /\ ReadSound'
  BY <1>1, <1>2, <1>3, <1>4 DEF NothingNoted, WatchSound, ReadSound, Home, Started
<1>8. StoreSound'
  BY <1>1, <1>2, <1>3, <1>4 DEF StoreSound, ReadSound, Home
<1>9. MtimeSound'
  BY <1>1, <1>2, <1>3, <1>4 DEF MtimeSound, Home
<1>10. ASSUME NEW u \in Procs, Loading(u), files[path] # 0 PROVE Loading(u)'
  <2>1. CASE u = t
    BY <1>1, <1>2, <1>10, <2>1 DEF Loading
  <2>2. CASE u # t
    BY <1>1, <1>2, <1>10, <2>2 DEF Loading, Last
  <2>3. QED  BY <2>1, <2>2
<1>11. ASSUME files[path] # 0, ~supported, mtime # files[path] PROVE Attended'
  <2>1. CASE mtime' = mtime
    BY <1>1, <1>11, <2>1 DEF Attended
  <2>2. CASE t = Loader /\ got[Loader].path = path
    BY <1>1, <1>2, <1>11, <2>2, <1>10 DEF Attended, Loading
  <2>3. CASE t = Loader /\ got[Loader].path # path
    BY <1>2, <1>4, <2>3 DEF Attended, ReadSound
  <2>4. QED  BY <1>2, <2>1, <2>2, <2>3
<1>12. files[path] # 0 /\ Attended => Attended'
  <2> SUFFICES ASSUME files[path] # 0, Attended PROVE Attended'
    OBVIOUS
  <2>1. CASE \E u \in Procs : Loading(u)
    BY <2>1, <1>10 DEF Attended
  <2>2. CASE ~supported /\ mtime # files[path]
    BY <2>2, <1>11
  <2>3. CASE PathTold \/ pending # {} \/ path \in open \/ pc[Loader] \in {"sleep", "rewatch"}
    BY <2>3, <1>1, <1>2, <1>3, <1>4 DEF Attended
  <2>4. QED  BY <2>1, <2>2, <2>3 DEF Attended
<1>13. ChangeAttended'
  BY <1>1, <1>2, <1>3, <1>12 DEF ChangeAttended, Started, Home
<1>14. QED  BY <1>5, <1>6, <1>7, <1>8, <1>9, <1>13 DEF Sound

LEMMA StoreSoundStep == ASSUME ReloadInv, NEW t \in Procs, Store(t) PROVE Sound'
<1> USE DEF ReloadInv, TypeOK
<1>1. UNCHANGED <<files, version, open, path, force, supported, watch, pending, mtime>>
  BY LoadFrame DEF Store
<1>2. /\ pc[t] = "store" /\ \A u \in Procs \ {t} : pc'[u] = pc[u] /\ got'[u] = got[u]
      /\ got'[t].mtime = 0 /\ pc'[t] = "announce"
      /\ current' = got[t].content /\ lost' = (t # Loader /\ got[t].content # files[path])
  BY StoreStep DEF Others
<1>3. Loader \in Procs /\ path \in Paths /\ version \in Nat
  BY DEF Procs, DiskTypeOK, Versions
<1>4. PathTold => PathTold'
  BY <1>1, <1>2, ToldStays, StoreStep
<1>5. VersionsDiffer'
  BY <1>1 DEF VersionsDiffer
<1>6. TimesPast'
  BY <1>1, <1>2, <1>3 DEF TimesPast
<1>7. NothingNoted' /\ WatchSound' /\ ReadSound' /\ StoreSound'
  BY <1>1, <1>2, <1>3, <1>4 DEF NothingNoted, WatchSound, ReadSound, StoreSound, Started
<1>8. MtimeSound'
  <2>1. CASE t = Loader
    BY <2>1, <1>1, <1>2, <1>3 DEF MtimeSound, StoreSound
  <2>2. CASE t # Loader
    BY <2>2, <1>1, <1>2 DEF MtimeSound
  <2>3. QED  BY <2>1, <2>2
<1>9. ChangeAttended'
  <2>1. CASE t # Loader
    BY <2>1, <1>1, <1>2 DEF ChangeAttended
  <2>2. CASE t = Loader /\ supported
    BY <2>2, <1>1, <1>2, <1>4 DEF ChangeAttended, Attended, StoreSound
  <2>3. CASE t = Loader /\ ~supported
    BY <2>3, <1>1, <1>2, <1>3 DEF ChangeAttended, Attended, StoreSound
  <2>4. QED  BY <2>1, <2>2, <2>3
<1>10. QED  BY <1>5, <1>6, <1>7, <1>8, <1>9 DEF Sound

LEMMA AnnounceSound == ASSUME ReloadInv, NEW t \in Procs, Announce(t) PROVE Sound'
<1> USE DEF ReloadInv, TypeOK
<1>1. UNCHANGED <<files, version, open, path, force, supported, watch, pending, mtime, got, current,
                  lost>>
  BY LoadFrame DEF Announce
<1>2. /\ pc[t] = "announce" /\ \A u \in Procs \ {t} : pc'[u] = pc[u]
      /\ pc'[t] \in Home
  BY AnnounceStep DEF Others
<1>3. Loader \in Procs
  BY DEF Procs
<1>4. PathTold => PathTold'
  BY <1>1, <1>2, ToldStays, AnnounceStep
<1>5. VersionsDiffer' /\ TimesPast'
  BY <1>1 DEF VersionsDiffer, TimesPast
<1>6. NothingNoted' /\ WatchSound' /\ ReadSound' /\ StoreSound' /\ MtimeSound'
  BY <1>1, <1>2, <1>3, <1>4
     DEF NothingNoted, WatchSound, ReadSound, StoreSound, MtimeSound, Started, Home
<1>7. \A u \in Procs : Loading(u) => Loading(u)'
  BY <1>1, <1>2 DEF Loading, Last
<1>8. ChangeAttended'
  BY <1>1, <1>2, <1>3, <1>4, <1>7 DEF ChangeAttended, Attended, Started, Home
<1>9. QED  BY <1>5, <1>6, <1>8 DEF Sound

-----------------------------------------------------------------------------
(* The steps of the loader outside of load_config, and of the main thread *)

\* The loader goes on; nothing on the disk changes, and who tells it of a path still does.
LoaderMoves(place) ==
  /\ pc' = [pc EXCEPT ![Loader] = place]
  /\ UNCHANGED <<files, version, open, path, got, current>>

LEMMA LoaderFrame ==
  ASSUME ReloadInv, NEW place, LoaderMoves(place), place \notin {"read", "store"},
         mtime' \in {mtime, -1}
  PROVE  /\ VersionsDiffer' /\ TimesPast' /\ ReadSound' /\ StoreSound'
         /\ pc'[Loader] = place /\ \A h \in Handlers : pc'[h] = pc[h]
         /\ \A h \in Handlers : Loading(h) => Loading(h)'
         /\ force' = force /\ PathTold => PathTold'
<1> USE DEF ReloadInv, TypeOK
<1>1. pc'[Loader] = place /\ \A h \in Handlers : pc'[h] = pc[h] /\ h # Loader
  BY DEF LoaderMoves, PlaceTypeOK, Procs
<1>2. UNCHANGED <<files, version, open, path, got, current>>
  BY DEF LoaderMoves
<1>3. VersionsDiffer'
  BY <1>2 DEF VersionsDiffer
<1>4. TimesPast'
  <2>1. mtime' <= version
    BY DEF TimesPast, DiskTypeOK, Versions
  <2>2. QED  BY <1>2, <2>1 DEF TimesPast
<1>5. ReadSound' /\ StoreSound'
  BY <1>1 DEF ReadSound, StoreSound
<1>6. ASSUME NEW h \in Handlers, Loading(h) PROVE Loading(h)'
  BY <1>1, <1>2, <1>6 DEF Loading, Last
<1>7. force' = force /\ PathTold => PathTold'
  BY <1>1 DEF PathTold
<1>8. QED  BY <1>1, <1>3, <1>4, <1>5, <1>6, <1>7

\* Before the loader starts nothing has been noted, and the watch is set on what is there.
LEMMA InitInotifySound == ASSUME ReloadInv, InitInotify PROVE Sound'
<1> USE DEF ReloadInv, TypeOK
<1>1. LoaderMoves("top") /\ mtime' = mtime /\ mtime = -1 /\ UNCHANGED force
  BY DEF InitInotify, LoaderMoves, Goto, diskVars, NothingNoted
<1>2. VersionsDiffer' /\ TimesPast' /\ ReadSound' /\ StoreSound' /\ pc'[Loader] = "top"
  BY <1>1, LoaderFrame
<1>3. UNCHANGED <<files, path, current>> /\ files[path] \in Nat
  BY <1>1 DEF LoaderMoves, DiskTypeOK, Versions
<1>4. NothingNoted' /\ MtimeSound'
  BY <1>1, <1>2, <1>3 DEF NothingNoted, MtimeSound
<1>5. \/ supported' /\ watch' = path
      \/ ~supported'
  BY DEF InitInotify, Disable
<1>6. WatchSound'
  BY <1>3, <1>5 DEF WatchSound
<1>7. ChangeAttended'
  <2>1. CASE supported'
    <3>1. lost' = (files[path] # current)
      BY <2>1 DEF InitInotify
    <3>2. QED  BY <3>1, <1>3 DEF ChangeAttended
  <2>2. CASE ~supported'
    BY <2>2, <1>1, <1>3 DEF ChangeAttended, Attended
  <2>3. QED  BY <2>1, <2>2
<1>8. QED  BY <1>2, <1>4, <1>6, <1>7 DEF Sound

LEMMA TakeForceSound == ASSUME ReloadInv, TakeForce PROVE Sound'
<1> USE DEF ReloadInv, TypeOK
<1>1. CASE ~force
  <2>1. LoaderMoves("wait") /\ pc[Loader] = "top"
        /\ UNCHANGED <<mtime, force, supported, watch, pending, lost>>
    BY <1>1 DEF TakeForce, LoaderMoves, Goto, diskVars, watchVars, MainTypeOK
  <2>2. /\ VersionsDiffer' /\ TimesPast' /\ ReadSound' /\ StoreSound' /\ pc'[Loader] = "wait"
        /\ \A h \in Handlers : Loading(h) => Loading(h)'
        /\ PathTold => PathTold'
    BY <2>1, LoaderFrame
  <2>3. UNCHANGED <<files, path, current, open>>
    BY <2>1 DEF LoaderMoves
  <2>4. NothingNoted' /\ MtimeSound' /\ WatchSound'
    BY <2>1, <2>2, <2>3 DEF NothingNoted, MtimeSound, WatchSound, Started
  <2>5. ~Loading(Loader)
    BY <2>1 DEF Loading
  <2>6. ChangeAttended'
    BY <2>1, <2>2, <2>3, <2>5 DEF ChangeAttended, Attended, Started, Procs
  <2>7. QED  BY <2>2, <2>4, <2>6 DEF Sound
<1>2. CASE force
  <2>1. /\ LoaderMoves(IF supported THEN "rewatch" ELSE "stat")
        /\ mtime' = -1 /\ UNCHANGED <<supported, watch, pending, lost>>
    BY <1>2 DEF TakeForce, LoaderMoves, Goto, diskVars, watchVars
  <2>2. /\ VersionsDiffer' /\ TimesPast' /\ ReadSound' /\ StoreSound'
        /\ pc'[Loader] = IF supported THEN "rewatch" ELSE "stat"
    BY <2>1, LoaderFrame
  <2>3. UNCHANGED <<files, path, current>> /\ files[path] \in Nat
    BY <2>1 DEF LoaderMoves, DiskTypeOK, Versions
  <2>4. NothingNoted' /\ MtimeSound' /\ WatchSound'
    BY <2>1, <2>2, <2>3 DEF NothingNoted, MtimeSound, WatchSound
  <2>5. ChangeAttended'
    BY <2>1, <2>2, <2>3 DEF ChangeAttended, Attended
  <2>6. QED  BY <2>2, <2>4, <2>5 DEF Sound
<1>3. QED  BY <1>1, <1>2

\* A renewed watch is followed by a parse of whatever is there.
LEMMA RewatchSound == ASSUME ReloadInv, ForcedRewatch \/ Wake PROVE Sound'
<1> USE DEF ReloadInv, TypeOK
<1>1. mtime = -1 /\ pc[Loader] \in {"sleep", "rewatch"} /\ mtime' = mtime /\ UNCHANGED <<force, lost>>
  BY DEF ForcedRewatch, Wake, NothingNoted
<1>2. \/ LoaderMoves("stat") /\ watch' = path /\ supported' = supported
      \/ LoaderMoves("stat") /\ files[path] = 0 /\ supported' = FALSE
      \/ LoaderMoves("top") /\ files[path] = 0 /\ supported' = FALSE
  BY DEF ForcedRewatch, Wake, RewatchOk, RewatchFails, Disable, LoaderMoves, Goto, diskVars
<1>3. /\ VersionsDiffer' /\ TimesPast' /\ ReadSound' /\ StoreSound'
      /\ pc'[Loader] \in {"stat", "top"}
  BY <1>1, <1>2, LoaderFrame
<1>4. UNCHANGED <<files, path, current>> /\ files[path] \in Nat
  BY <1>2 DEF LoaderMoves, DiskTypeOK, Versions
<1>5. NothingNoted' /\ MtimeSound' /\ WatchSound'
  BY <1>1, <1>2, <1>3, <1>4 DEF NothingNoted, MtimeSound, WatchSound
<1>6. ChangeAttended'
  <2>1. CASE files[path] = 0
    BY <2>1, <1>4 DEF ChangeAttended
  <2>2. CASE files[path] # 0
    <3>1. LoaderMoves("stat") /\ pc'[Loader] = "stat"
      BY <2>2, <1>1, <1>2, LoaderFrame
    <3>2. Loading(Loader)' /\ Loader \in Procs
      BY <3>1, <1>1, <1>4 DEF Loading, Last, Procs
    <3>3. QED  BY <3>2 DEF ChangeAttended, Attended
  <2>3. QED  BY <2>1, <2>2
<1>7. QED  BY <1>3, <1>5, <1>6 DEF Sound

LEMMA EventsSound == ASSUME ReloadInv, HandleEvents PROVE Sound'
<1> USE DEF ReloadInv, TypeOK
<1>1. /\ LoaderMoves(IF "gone" \in pending THEN "sleep" ELSE "stat") /\ mtime' = -1
      /\ pc[Loader] = "wait" /\ UNCHANGED <<force, supported, watch, lost>>
  BY DEF HandleEvents, LoaderMoves, Goto, diskVars
<1>2. /\ VersionsDiffer' /\ TimesPast' /\ ReadSound' /\ StoreSound'
      /\ pc'[Loader] = IF "gone" \in pending THEN "sleep" ELSE "stat"
      /\ PathTold => PathTold'
  BY <1>1, LoaderFrame
<1>3. UNCHANGED <<files, path, current>> /\ files[path] \in Nat
  BY <1>1 DEF LoaderMoves, DiskTypeOK, Versions
<1>4. NothingNoted' /\ MtimeSound' /\ WatchSound'
  BY <1>1, <1>2, <1>3 DEF NothingNoted, MtimeSound, WatchSound, Started
<1>5. Loader \in Procs
  BY DEF Procs
<1>6. ChangeAttended'
  BY <1>1, <1>2, <1>3, <1>5 DEF ChangeAttended, Attended, Loading, Last
<1>7. QED  BY <1>2, <1>4, <1>6 DEF Sound

\* Without inotify the modification time tells.
LEMMA WaitFailsSound == ASSUME ReloadInv, WaitFails PROVE Sound'
<1> USE DEF ReloadInv, TypeOK
<1>1. /\ LoaderMoves("top") /\ mtime' = mtime /\ supported' = FALSE
      /\ pc[Loader] = "wait" /\ UNCHANGED <<force, lost>>
  BY DEF WaitFails, Disable, LoaderMoves, Goto, diskVars
<1>2. /\ VersionsDiffer' /\ TimesPast' /\ ReadSound' /\ StoreSound' /\ pc'[Loader] = "top"
      /\ PathTold => PathTold'
  BY <1>1, LoaderFrame
<1>3. UNCHANGED <<files, path, current>>
  BY <1>1 DEF LoaderMoves
<1>4. NothingNoted' /\ MtimeSound' /\ WatchSound'
  BY <1>1, <1>2, <1>3 DEF NothingNoted, MtimeSound, WatchSound
<1>5. ChangeAttended'
  BY <1>1, <1>2, <1>3 DEF ChangeAttended, Attended, MtimeSound
<1>6. QED  BY <1>2, <1>4, <1>5 DEF Sound

\* Waiting, polling and napping.
LEMMA IdleSound == ASSUME ReloadInv, WaitTimeout \/ Poll \/ Nap PROVE Sound'
<1> USE DEF ReloadInv, TypeOK
<1>1. /\ UNCHANGED <<mtime, force, supported, watch, pending, lost>>
      /\ pc[Loader] \in {"wait", "nap"}
      /\ LoaderMoves("top") \/ (LoaderMoves("stat") /\ ~supported)
  BY DEF WaitTimeout, Poll, Nap, LoaderMoves, Goto, diskVars, watchVars, loadVars
<1>2. /\ VersionsDiffer' /\ TimesPast' /\ ReadSound' /\ StoreSound'
      /\ pc'[Loader] = "top" \/ (pc'[Loader] = "stat" /\ ~supported)
      /\ \A h \in Handlers : Loading(h) => Loading(h)'
      /\ PathTold => PathTold'
  BY <1>1, LoaderFrame
<1>3. UNCHANGED <<files, path, current, open>>
  BY <1>1 DEF LoaderMoves
<1>4. NothingNoted' /\ MtimeSound' /\ WatchSound'
  BY <1>1, <1>2, <1>3 DEF NothingNoted, MtimeSound, WatchSound, Started
<1>5. ~Loading(Loader)
  BY <1>1 DEF Loading
<1>6. ChangeAttended'
  BY <1>1, <1>2, <1>3, <1>5 DEF ChangeAttended, Attended, Started, Procs
<1>7. QED  BY <1>2, <1>4, <1>6 DEF Sound

\* The main thread does not touch what the loader works by.
LEMMA MainSound ==
  ASSUME ReloadInv, SwapFlag \/ ReadConfig \/ UNCHANGED vars
  PROVE  Sound'
<1>1. UNCHANGED <<files, version, open, path, force, supported, watch, pending, pc, got, mtime,
                  current, lost>>
  BY DEF SwapFlag, ReadConfig, vars, diskVars, watchVars, loadVars
<1>2. PathTold' = PathTold /\ \A t \in Procs : Loading(t)' = Loading(t)
  BY <1>1 DEF PathTold, Loading, Last
<1>3. QED
  BY <1>1, <1>2 DEF ReloadInv, Sound, VersionsDiffer, TimesPast, NothingNoted, ReadSound, StoreSound,
     MtimeSound, WatchSound, ChangeAttended, Attended, Started

-----------------------------------------------------------------------------
(* Theorems *)

LEMMA InitInv == Init => ReloadInv
<1> SUFFICES ASSUME Init PROVE ReloadInv
  OBVIOUS
<1>1. TypeOK
  BY InitType
<1>2. \A t \in Procs : pc[t] \in {"start", "idle"} /\ got[t].mtime = 0
  BY DEF Init, NoLoad
<1>3. pc[Loader] = "start" /\ version = 2 /\ mtime = -1
  BY DEF Init, Procs
<1>4. VersionsDiffer /\ TimesPast
  BY <1>2, <1>3 DEF Init, TimesPast
<1>5. NothingNoted /\ ReadSound /\ StoreSound
  BY <1>3 DEF NothingNoted, ReadSound, StoreSound
<1>6. MtimeSound /\ WatchSound /\ ChangeAttended
  BY <1>3 DEF Init, MtimeSound, WatchSound, ChangeAttended, Started
<1>7. QED  BY <1>1, <1>4, <1>5, <1>6 DEF ReloadInv

LEMMA StepInv == ReloadInv /\ [Next]_vars => ReloadInv'
<1> SUFFICES ASSUME ReloadInv, [Next]_vars PROVE Sound'
  BY StepType DEF ReloadInv, Sound
<1>2. ASSUME NEW t \in Procs, Reload(t) PROVE Sound'
  BY <1>2, StatSound, ReadSoundStep, StoreSoundStep, AnnounceSound DEF Reload
<1>3. ASSUME NEW h \in Handlers, HandlerNext(h) PROVE Sound'
  BY <1>2, <1>3, EditSound, SettingSound DEF HandlerNext, Procs
<1>4. CASE LoaderNext
  <2>1. CASE TakeForce  BY <2>1, TakeForceSound
  <2>2. CASE ForcedRewatch \/ Wake  BY <2>2, RewatchSound
  <2>3. CASE HandleEvents  BY <2>3, EventsSound
  <2>4. CASE WaitFails  BY <2>4, WaitFailsSound
  <2>5. CASE WaitTimeout \/ Poll \/ Nap  BY <2>5, IdleSound
  <2>6. CASE Reload(Loader)  BY <2>6, <1>2 DEF Procs
  <2>7. QED  BY <1>4, <2>1, <2>2, <2>3, <2>4, <2>5, <2>6 DEF LoaderNext
<1>5. CASE DiskNext
  <2>1. PICK p \in Paths : Replace(p) \/ Truncate(p) \/ CloseWrite(p) \/ Remove(p)
    BY <1>5 DEF DiskNext
  <2>2. QED  BY <2>1, DiskSound
<1>6. CASE InitInotify  BY <1>6, InitInotifySound
<1>7. CASE SwapFlag \/ ReadConfig \/ UNCHANGED vars  BY <1>7, MainSound
<1>8. QED  BY <1>3, <1>4, <1>5, <1>6, <1>7 DEF Next

LEMMA Invariant == Spec => []ReloadInv
BY InitInv, StepInv, PTL DEF Spec

\* Types, with no watch, no event and nothing to renew without inotify.
THEOREM ReloadTypes == Spec => []TypeOK
<1>1. ReloadInv => TypeOK
  BY DEF ReloadInv
<1>2. QED  BY <1>1, Invariant, PTL

\* With inotify the loader watches the file at CONFIG_FILE or is about to, whatever is
\* replaced, removed or set meanwhile, for any number of files and web threads.
THEOREM WatchIsSound == Spec => []WatchSound
<1>1. ReloadInv => WatchSound
  BY DEF ReloadInv
<1>2. QED  BY <1>1, Invariant, PTL

\* A configuration that is not the file's is always going to be replaced, in inotify mode, in
\* polling mode and between them.
THEOREM ChangesAttended == Spec => []ChangeAttended
<1>1. ReloadInv => ChangeAttended
  BY DEF ReloadInv
<1>2. QED  BY <1>1, Invariant, PTL

-----------------------------------------------------------------------------
(* The threads implement the register: ImplementsRegister *)

LEMMA AnnouncingFinite == IsFiniteSet(Announcing) /\ Cardinality(Announcing) \in Nat
<1>1. IsFiniteSet(Procs)
  BY FS_AddElement DEF Procs
<1>2. Announcing \in SUBSET Procs
  BY DEF Announcing
<1>3. QED  BY <1>1, <1>2, FS_Subset, FS_CardinalityType

\* The steps that the register does not see.
LEMMA RegisterStutters ==
  ASSUME UNCHANGED <<current, updated, stage, changed, used>>,
         NEW t \in Procs, pc' = pc \/ \E place : pc' = [pc EXCEPT ![t] = place] /\ place # "announce",
         PlaceTypeOK, pc' = pc \/ pc[t] # "announce"
  PROVE  UNCHANGED Register!vars
<1>1. Announcing' = Announcing
  BY DEF Announcing, PlaceTypeOK
<1>2. QED  BY <1>1 DEF Register!vars

LEMMA StorePublishes ==
  ASSUME TypeOK, NEW t \in Procs, Store(t)
  PROVE  Register!Publish
<1>1. Announcing' = Announcing \cup {t} /\ t \notin Announcing
  BY StoreStep DEF Announcing, Others
<1>2. Cardinality(Announcing)' = Cardinality(Announcing) + 1
  BY <1>1, AnnouncingFinite, FS_AddElement
<1>3. current' \in Versions
  BY StoreStep DEF TypeOK, LoadTypeOK, Load
<1>4. UNCHANGED <<updated, stage, changed, used>>
  BY DEF Store, mainVars
<1>5. QED  BY <1>2, <1>3, <1>4 DEF Register!Publish

LEMMA AnnounceAnnounces ==
  ASSUME TypeOK, NEW t \in Procs, Announce(t)
  PROVE  Register!Announce
<1>1. Announcing' = Announcing \ {t} /\ t \in Announcing
  BY AnnounceStep DEF Announcing, Others, Home
<1>2. Cardinality(Announcing)' = Cardinality(Announcing) - 1
  BY <1>1, AnnouncingFinite, FS_RemoveElement
<1>3. Cardinality(Announcing) # 0
  BY <1>1, AnnouncingFinite, FS_EmptySet
<1>4. updated' = TRUE /\ UNCHANGED <<current, stage, changed, used>>
  BY DEF Announce, mainVars
<1>5. QED  BY <1>2, <1>3, <1>4, AnnouncingFinite DEF Register!Announce

\* Every step is one of the register's, or none of its concern.
LEMMA RegisterStep == TypeOK /\ [Next]_vars => [Register!Next]_Register!vars
<1> SUFFICES ASSUME TypeOK, [Next]_vars PROVE Register!Next \/ UNCHANGED Register!vars
  OBVIOUS
<1> USE DEF TypeOK
<1>1. ASSUME NEW t \in Procs, Reload(t) PROVE Register!Next \/ UNCHANGED Register!vars
  <2>1. CASE Stat(t) \/ Read(t)
    <3>1. UNCHANGED <<current, updated, stage, changed, used>> /\ pc[t] # "announce"
      BY <2>1 DEF Stat, Read, mainVars
    <3>2. \E place : pc' = [pc EXCEPT ![t] = place] /\ place # "announce"
      BY <2>1 DEF Stat, Read, Return, Goto, After, PlaceTypeOK
    <3>3. QED  BY <3>1, <3>2, RegisterStutters
  <2>2. CASE Store(t)
    BY <2>2, StorePublishes DEF Register!Next
  <2>3. CASE Announce(t)
    BY <2>3, AnnounceAnnounces DEF Register!Next
  <2>4. QED  BY <1>1, <2>1, <2>2, <2>3 DEF Reload
<1>2. ASSUME NEW t \in Procs, NEW place, Goto(t, place), place # "announce", pc[t] # "announce",
             UNCHANGED <<current, updated, stage, changed, used>>
      PROVE  UNCHANGED Register!vars
  BY <1>2, RegisterStutters DEF Goto
<1>3. ASSUME NEW h \in Handlers, HandlerNext(h) PROVE Register!Next \/ UNCHANGED Register!vars
  <2>1. CASE Reload(h)  BY <2>1, <1>1 DEF Procs
  <2>2. CASE ~Reload(h)
    BY <1>2, <1>3, <2>2 DEF HandlerNext, EditRule, SetPath, SetCpuset, SetForce, Procs, mainVars
  <2>3. QED  BY <2>1, <2>2
<1>4. CASE LoaderNext \/ InitInotify
  <2>1. CASE Reload(Loader)  BY <2>1, <1>1 DEF Procs
  <2>2. CASE ~Reload(Loader)
    <3>1. UNCHANGED <<current, updated, stage, changed, used>> /\ pc[Loader] # "announce"
      BY <1>4, <2>2 DEF LoaderNext, InitInotify, TakeForce, ForcedRewatch, HandleEvents,
         WaitTimeout, WaitFails, Wake, Poll, Nap, mainVars
    <3>2. \E place \in {"top", "stat", "wait", "rewatch", "sleep"} : Goto(Loader, place)
      BY <1>4, <2>2 DEF LoaderNext, InitInotify, TakeForce, ForcedRewatch, HandleEvents,
         WaitTimeout, WaitFails, Wake, Poll, Nap
    <3>3. QED  BY <3>1, <3>2, <1>2 DEF Procs
  <2>3. QED  BY <2>1, <2>2
<1>5. CASE DiskNext \/ UNCHANGED vars
  <2>1. UNCHANGED <<current, updated, stage, changed, used, pc>>
    BY <1>5 DEF DiskNext, Replace, Truncate, CloseWrite, Remove, vars, loadVars, mainVars
  <2>2. QED  BY <2>1 DEF Register!vars, Announcing
<1>6. CASE SwapFlag
  <2>1. Register!Swap
    BY <1>6 DEF SwapFlag, Register!Swap, loadVars, Announcing
  <2>2. QED  BY <2>1 DEF Register!Next
<1>7. CASE ReadConfig
  <2>1. Register!Take
    BY <1>7 DEF ReadConfig, Register!Take, loadVars, Announcing
  <2>2. QED  BY <2>1 DEF Register!Next
<1>8. QED  BY <1>3, <1>4, <1>5, <1>6, <1>7 DEF Next

\* Loader, any number of web threads and the main thread implement the register: what
\* ConfigRegister promises of it holds for them.
THEOREM ReloadImplementsRegister == Spec => ImplementsRegister
<1>1. Init => Register!Init
  <2> SUFFICES ASSUME Init PROVE Register!Init
    OBVIOUS
  <2>1. Announcing = {}
    BY DEF Init, Announcing
  <2>2. Cardinality(Announcing) = 0
    BY <2>1, FS_EmptySet
  <2>3. current \in Versions /\ used \in Versions
    BY DEF Init, Versions
  <2>4. QED  BY <2>2, <2>3 DEF Init, Register!Init
<1>2. QED  BY <1>1, InitType, StepType, RegisterStep, PTL
           DEF Spec, ImplementsRegister, Register!Spec

\* What the register promises: Register!Fresh, by what is known between the two steps of the
\* main thread.
LEMMA RegisterFresh == Register!Spec => []Register!Fresh
<1>1. Register!Init => Register!FreshInv
  BY DEF Register!Init, Register!FreshInv
<1>2. Register!FreshInv /\ [Register!Next]_Register!vars => Register!FreshInv'
  <2> SUFFICES ASSUME Register!FreshInv, [Register!Next]_Register!vars PROVE Register!FreshInv'
    OBVIOUS
  <2> USE DEF Register!FreshInv
  <2>1. CASE Register!Publish  BY <2>1 DEF Register!Publish
  <2>2. CASE Register!Announce  BY <2>2 DEF Register!Announce
  <2>3. CASE Register!Swap  BY <2>3 DEF Register!Swap
  <2>4. CASE Register!Take  BY <2>4 DEF Register!Take
  <2>5. CASE UNCHANGED Register!vars  BY <2>5 DEF Register!vars
  <2>6. QED  BY <2>1, <2>2, <2>3, <2>4, <2>5 DEF Register!Next
<1>3. Register!FreshInv => Register!Fresh
  BY DEF Register!FreshInv, Register!Fresh
<1>4. QED  BY <1>1, <1>2, <1>3, PTL DEF Register!Spec

\* No configuration that the loader or a handler announces is missed by the main thread: once
\* the flag is down and nobody is between store and flag, it works by the one stored last.
THEOREM NothingMissed == Spec => []Register!Fresh
BY ReloadImplementsRegister, RegisterFresh, PTL DEF ImplementsRegister
=============================================================================
