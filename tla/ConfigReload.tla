----------------------------- MODULE ConfigReload -----------------------------
(***************************************************************************)
(* How a change of the configuration file reaches the main thread          *)
(* (config.rs config_loader, inotify_handle, config_reload, load_config;   *)
(* the rule and settings handlers of web.rs; the start of main.rs): the    *)
(* loader thread waits for inotify events, sleeps and renews its watch     *)
(* when the file has been replaced, polls by modification time once a      *)
(* watch could not be set, and obeys FORCE_RELOAD; web handlers replace    *)
(* the file, parse it themselves, or point CONFIG_FILE elsewhere; people   *)
(* edit, replace and remove the files by hand.                             *)
(*                                                                         *)
(* Every write of a file gives it a new version, which stands for its      *)
(* content and for its modification time alike; version 0 is a missing     *)
(* file. A half-written file has a version of its own.                     *)
(***************************************************************************)
EXTENDS Integers, FiniteSets

CONSTANTS
  Paths,      \* places of configuration files
  NoPath,     \* no path
  Handlers,   \* web threads
  Loader,     \* the thread ConfigLoader
  MaxVersion  \* bound: nothing is changed from outside once the versions have reached it

Procs == Handlers \cup {Loader}

ASSUME ReloadAssumption ==
  /\ NoPath \notin Paths /\ Loader \notin Handlers /\ Paths # {}
  /\ IsFiniteSet(Handlers)
  /\ MaxVersion \in Nat

VARIABLES
  files,    \* path -> version, 0 if there is no file
  version,  \* the latest version of any file
  open,     \* paths that somebody is writing in place
  path,     \* CONFIG_FILE
  force,    \* FORCE_RELOAD
  supported, watch, pending, \* INOTIFY_SUPPORTED, the path INOTIFY_WD is on, unread events
  pc,       \* thread -> place
  got,      \* thread -> what load_config has in hand
  ret,      \* loader: what follows config_reload
  mtime,    \* loader: last_mtime (-1: none)
  current, updated, stage, changed, used, \* as in ConfigRegister
  lost      \* history: the file differed from the configuration when the watch was first
            \* set, or a handler stored a content that was no longer the file's

diskVars == <<files, version, open>>
watchVars == <<supported, watch, pending>>
loadVars == <<pc, got, ret, mtime>>
mainVars == <<stage, changed, used>>
vars == <<diskVars, path, force, watchVars, loadVars, current, updated, mainVars, lost>>

Versions == Nat
LoadPlaces == {"stat", "read", "store", "announce"}
LoaderPlaces == LoadPlaces \cup {"start", "top", "rewatch", "wait", "sleep", "nap"}
HandlerPlaces == LoadPlaces \cup {"idle", "force"}

\* What a thread has in hand while it is in load_config.
Load == [path : Paths \cup {NoPath}, mtime : Versions, content : Versions]
NoLoad == [path |-> NoPath, mtime |-> 0, content |-> 0]

\* No two files are of one version.
VersionsDiffer == \A p, q \in Paths : files[p] = files[q] /\ files[p] # 0 => p = q

DiskTypeOK ==
  /\ files \in [Paths -> Versions] /\ version \in Versions
  /\ \A p \in Paths : files[p] <= version
  /\ open \in SUBSET Paths /\ path \in Paths

WatchTypeOK ==
  /\ supported \in BOOLEAN /\ watch \in Paths \cup {NoPath}
  /\ pending \in SUBSET {"write", "gone"}
  /\ ~supported => watch = NoPath /\ pending = {}
  /\ pc[Loader] \in {"sleep", "rewatch"} => supported

PlaceTypeOK ==
  /\ pc \in [Procs -> LoaderPlaces \cup HandlerPlaces]
  /\ pc[Loader] \in LoaderPlaces
  /\ \A h \in Handlers : pc[h] \in HandlerPlaces
  /\ ret \in {"wait", "nap", "top"}

LoadTypeOK ==
  /\ got \in [Procs -> Load]
  /\ \A t \in Procs : pc[t] = "read" => got[t].path # NoPath
  /\ mtime \in Versions \cup {-1}

MainTypeOK ==
  /\ current \in Versions /\ used \in Versions
  /\ force \in BOOLEAN /\ updated \in BOOLEAN
  /\ stage \in {"swap", "read"} /\ changed \in BOOLEAN
  /\ lost \in BOOLEAN

TypeOK == DiskTypeOK /\ WatchTypeOK /\ PlaceTypeOK /\ LoadTypeOK /\ MainTypeOK

\* The main thread has loaded the file at its path and not yet set the watch.
Init ==
  /\ version = 2
  /\ path \in Paths
  /\ files \in [Paths -> {0, 1, 2}] /\ files[path] = 1
  /\ VersionsDiffer
  /\ open = {}
  /\ force = FALSE
  /\ supported = FALSE /\ watch = NoPath /\ pending = {}
  /\ pc = [p \in Procs |-> IF p = Loader THEN "start" ELSE "idle"]
  /\ got = [p \in Procs |-> NoLoad]
  /\ ret = "top" /\ mtime = -1
  /\ current = 1 /\ updated = TRUE
  /\ stage = "swap" /\ changed = FALSE /\ used = 1
  /\ lost = FALSE

Goto(t, place) == pc' = [pc EXCEPT ![t] = place]

-----------------------------------------------------------------------------
(* The disk *)

\* Every change from outside takes a version, so that their number is bounded.
Change == version < MaxVersion /\ version' = version + 1

Written(p) == files' = [files EXCEPT ![p] = version + 1]

\* The file at p loses its name: the watch is on a file without one.
Unlinked(p) ==
  IF watch = p THEN watch' = NoPath /\ pending' = pending \cup {"gone"}
  ELSE UNCHANGED <<watch, pending>>

\* By hand: an editor writes a new file and renames it over the old one, ...
Replace(p) ==
  /\ p \notin open
  /\ Change /\ Written(p) /\ Unlinked(p)
  /\ UNCHANGED <<open, path, force, supported, loadVars, current, updated, mainVars, lost>>

\* ... truncates the file and writes it in place, ...
Truncate(p) ==
  /\ files[p] # 0 /\ p \notin open
  /\ Change /\ Written(p)
  /\ open' = open \cup {p}
  /\ UNCHANGED <<path, force, watchVars, loadVars, current, updated, mainVars, lost>>

CloseWrite(p) ==
  /\ p \in open
  /\ version' = version + 1
  /\ Written(p)
  /\ open' = open \ {p}
  /\ pending' = IF watch = p THEN pending \cup {"write"} ELSE pending
  /\ UNCHANGED <<path, force, supported, watch, loadVars, current, updated, mainVars, lost>>

\* ... or moves it away.
Remove(p) ==
  /\ files[p] # 0 /\ p \notin open
  /\ Change
  /\ files' = [files EXCEPT ![p] = 0]
  /\ Unlinked(p)
  /\ UNCHANGED <<open, path, force, supported, loadVars, current, updated, mainVars, lost>>

-----------------------------------------------------------------------------
(* config_reload, in the loader or in a web handler *)

After(t) == IF t = Loader THEN ret ELSE "idle"
Return(t) == Goto(t, After(t)) /\ ret' = IF t = Loader THEN "top" ELSE ret
Last(t) == IF t = Loader THEN mtime ELSE -1

\* The path and the modification time: nothing to do if it is the one of last time.
Stat(t) ==
  /\ pc[t] = "stat"
  /\ IF files[path] = 0 \/ files[path] = Last(t)
     THEN Return(t) /\ UNCHANGED got
     ELSE /\ Goto(t, "read")
          /\ got' = [got EXCEPT ![t].path = path, ![t].mtime = files[path]]
          /\ UNCHANGED ret
  /\ UNCHANGED <<diskVars, path, force, watchVars, mtime, current, updated, mainVars, lost>>

\* Mutant: the modification time is taken after the content.
ReadStatAfter(t) ==
  /\ pc[t] = "read"
  /\ IF files[got[t].path] = 0
     THEN Return(t) /\ got' = [got EXCEPT ![t] = NoLoad] /\ UNCHANGED mtime
     ELSE /\ Goto(t, "store") /\ UNCHANGED ret
          /\ got' = [got EXCEPT ![t] = [NoLoad EXCEPT !.content = got[t].mtime]]
          /\ mtime' = IF t = Loader THEN files[got[t].path] ELSE mtime
  /\ UNCHANGED <<diskVars, path, force, watchVars, current, updated, mainVars, lost>>

Read(t) ==
  /\ pc[t] = "read"
  /\ IF files[got[t].path] = 0
     THEN Return(t) /\ got' = [got EXCEPT ![t] = NoLoad] /\ UNCHANGED mtime
     ELSE /\ Goto(t, "store") /\ UNCHANGED ret
          /\ got' = [got EXCEPT ![t] = [NoLoad EXCEPT !.content = files[got[t].path]]]
          /\ mtime' = IF t = Loader THEN got[t].mtime ELSE mtime
  /\ UNCHANGED <<diskVars, path, force, watchVars, current, updated, mainVars, lost>>

Store(t) ==
  /\ pc[t] = "store"
  /\ Goto(t, "announce")
  /\ current' = got[t].content
  /\ got' = [got EXCEPT ![t] = NoLoad]
  /\ lost' = (t # Loader /\ got[t].content # files[path])
  /\ UNCHANGED <<diskVars, path, force, watchVars, ret, mtime, updated, mainVars>>

\* Mutant: the flag is set by the loader only.
AnnounceLoader(t) ==
  /\ pc[t] = "announce"
  /\ Return(t)
  /\ updated' = (updated \/ t = Loader)
  /\ UNCHANGED <<diskVars, path, force, watchVars, got, mtime, current, mainVars, lost>>

Announce(t) ==
  /\ pc[t] = "announce"
  /\ Return(t)
  /\ updated' = TRUE
  /\ UNCHANGED <<diskVars, path, force, watchVars, got, mtime, current, mainVars, lost>>

Reload(t) == Stat(t) \/ Read(t) \/ Store(t) \/ Announce(t)

-----------------------------------------------------------------------------
(* The web handlers *)

Started == pc[Loader] # "start"

\* A rule is edited: the file is replaced as a whole, then parsed.
EditRule(h) ==
  /\ Started /\ pc[h] = "idle"
  /\ path \notin open
  /\ Change /\ Written(path) /\ Unlinked(path)
  /\ Goto(h, "stat")
  /\ UNCHANGED <<open, path, force, supported, got, ret, mtime, current, updated, mainVars, lost>>

\* Another configuration file, created if it is not there; the loader is told afterwards.
SetPath(h, p) ==
  /\ Started /\ pc[h] = "idle"
  /\ Change
  /\ IF files[p] = 0 THEN Written(p) ELSE UNCHANGED files
  /\ path' = p
  /\ Goto(h, "force")
  /\ UNCHANGED <<open, force, watchVars, got, ret, mtime, current, updated, mainVars, lost>>

\* Another cpuset directory: the rules have to be read again.
SetCpuset(h) ==
  /\ Started /\ pc[h] = "idle"
  /\ Change
  /\ Goto(h, "force")
  /\ UNCHANGED <<files, open, path, force, watchVars, got, ret, mtime, current, updated, mainVars, lost>>

SetForce(h) ==
  /\ pc[h] = "force"
  /\ force' = TRUE
  /\ Goto(h, "idle")
  /\ UNCHANGED <<diskVars, path, watchVars, got, ret, mtime, current, updated, mainVars, lost>>

-----------------------------------------------------------------------------
(* inotify *)

\* Mutant: the watch and its events stay.
DisableFlagOnly == supported' = FALSE /\ UNCHANGED <<watch, pending>>

Disable == supported' = FALSE /\ watch' = NoPath /\ pending' = {}

\* init_inotify, before the web server and the loader start; it may fail.
InitInotify ==
  /\ pc[Loader] = "start"
  /\ Goto(Loader, "top")
  /\ \/ files[path] # 0 /\ supported' = TRUE /\ watch' = path /\ pending' = {}
     \/ Disable
  /\ lost' = (supported' /\ files[path] # current)
  /\ UNCHANGED <<diskVars, path, force, got, ret, mtime, current, updated, mainVars>>

\* inotify_rewatch: the watch is set on whatever stands at the path now.
RewatchOk ==
  /\ files[path] # 0
  /\ watch' = path
  /\ UNCHANGED <<supported, pending>>

RewatchFails == files[path] = 0 /\ Disable

-----------------------------------------------------------------------------
(* The loader thread *)

\* The top of the loop: FORCE_RELOAD, then events or polling.
TakeForce ==
  /\ pc[Loader] = "top"
  /\ IF force
     THEN /\ mtime' = -1 /\ ret' = "wait"
          /\ Goto(Loader, IF supported THEN "rewatch" ELSE "stat")
     ELSE Goto(Loader, "wait") /\ UNCHANGED <<mtime, ret>>
  /\ force' = FALSE
  /\ UNCHANGED <<diskVars, path, watchVars, got, current, updated, mainVars, lost>>

ForcedRewatch ==
  /\ pc[Loader] = "rewatch"
  /\ RewatchOk \/ RewatchFails
  /\ Goto(Loader, "stat")
  /\ UNCHANGED <<diskVars, path, force, got, ret, mtime, current, updated, mainVars, lost>>

\* inotify_handle reads all the events there are.
HandleEvents ==
  /\ pc[Loader] = "wait" /\ supported /\ pending # {}
  /\ pending' = {}
  /\ mtime' = -1 /\ ret' = "top"
  /\ Goto(Loader, IF "gone" \in pending THEN "sleep" ELSE "stat")
  /\ UNCHANGED <<diskVars, path, force, supported, watch, got, current, updated, mainVars, lost>>

WaitTimeout ==
  /\ pc[Loader] = "wait" /\ supported /\ pending = {}
  /\ Goto(Loader, "top")
  /\ UNCHANGED <<diskVars, path, force, watchVars, got, ret, mtime, current, updated, mainVars, lost>>

\* poll or read fails: the loader polls from now on.
WaitFails ==
  /\ pc[Loader] = "wait" /\ supported
  /\ Disable
  /\ Goto(Loader, "top")
  /\ UNCHANGED <<diskVars, path, force, got, ret, mtime, current, updated, mainVars, lost>>

\* Mutant: the watch is not renewed.
WakeKeepsWatch ==
  /\ pc[Loader] = "sleep"
  /\ Goto(Loader, "stat")
  /\ UNCHANGED <<diskVars, path, force, watchVars, got, ret, mtime, current, updated, mainVars, lost>>

\* The interval after a replacement has passed: watch the new file, then parse it.
Wake ==
  /\ pc[Loader] = "sleep"
  /\ \/ RewatchOk /\ Goto(Loader, "stat")
     \/ RewatchFails /\ Goto(Loader, "top")
  /\ UNCHANGED <<diskVars, path, force, got, ret, mtime, current, updated, mainVars, lost>>

Poll ==
  /\ pc[Loader] = "wait" /\ ~supported
  /\ ret' = "nap"
  /\ Goto(Loader, "stat")
  /\ UNCHANGED <<diskVars, path, force, watchVars, got, mtime, current, updated, mainVars, lost>>

Nap ==
  /\ pc[Loader] = "nap"
  /\ Goto(Loader, "top")
  /\ UNCHANGED <<diskVars, path, force, watchVars, got, ret, mtime, current, updated, mainVars, lost>>

LoaderNext ==
  \/ TakeForce \/ ForcedRewatch \/ HandleEvents \/ WaitTimeout \/ WaitFails \/ Wake
  \/ Poll \/ Nap \/ Reload(Loader)

-----------------------------------------------------------------------------
(* The main thread: the flag, then the configuration *)

SwapFlag ==
  /\ Started /\ stage = "swap"
  /\ stage' = "read"
  /\ changed' = updated /\ updated' = FALSE
  /\ UNCHANGED <<diskVars, path, force, watchVars, loadVars, current, used, lost>>

\* Mutant: the flag is cleared again when the configuration is read.
ReadConfigClears ==
  /\ stage = "read"
  /\ stage' = "swap"
  /\ used' = IF changed THEN current ELSE used
  /\ changed' = FALSE /\ updated' = FALSE
  /\ UNCHANGED <<diskVars, path, force, watchVars, loadVars, current, lost>>

ReadConfig ==
  /\ stage = "read"
  /\ stage' = "swap"
  /\ used' = IF changed THEN current ELSE used
  /\ changed' = FALSE
  /\ UNCHANGED <<diskVars, path, force, watchVars, loadVars, current, updated, lost>>

HandlerNext(h) ==
  EditRule(h) \/ SetCpuset(h) \/ SetForce(h) \/ Reload(h) \/ \E p \in Paths : SetPath(h, p)

DiskNext == \E p \in Paths : Replace(p) \/ Truncate(p) \/ CloseWrite(p) \/ Remove(p)

Next ==
  \/ LoaderNext \/ InitInotify \/ SwapFlag \/ ReadConfig \/ DiskNext
  \/ \E h \in Handlers : HandlerNext(h)

\* Threads keep running, time passes, and who opens a file for writing closes it.
\* Nothing obliges people and pages to change anything.
Fairness ==
  /\ WF_vars(InitInotify) /\ WF_vars(SwapFlag) /\ WF_vars(ReadConfig)
  /\ WF_vars(LoaderNext)
  /\ \A h \in Handlers : WF_vars(SetForce(h) \/ Reload(h))
  /\ \A p \in Paths : WF_vars(CloseWrite(p))

Spec == Init /\ [][Next]_vars
FairSpec == Spec /\ Fairness

-----------------------------------------------------------------------------
(* Properties *)

PathTold == force \/ \E h \in Handlers : pc[h] = "force"

\* With inotify the watch is on the file that stands at CONFIG_FILE, or the loader is
\* about to renew it, whatever was replaced, removed or set meanwhile.
WatchSound ==
  Started /\ supported =>
    watch = path \/ "gone" \in pending \/ pc[Loader] \in {"sleep", "rewatch"} \/ PathTold

\* The thread will store what the file holds now.
Loading(t) ==
  \/ pc[t] = "stat" /\ files[path] # Last(t)
  \/ pc[t] = "read" /\ got[t].path = path
  \/ pc[t] = "store" /\ got[t].content = files[path]

Attended ==
  \/ PathTold \/ pending # {} \/ path \in open
  \/ pc[Loader] \in {"sleep", "rewatch"}
  \/ ~supported /\ mtime # files[path]
  \/ \E t \in Procs : Loading(t)

\* A configuration that is not the file's is going to be replaced: an event is waiting,
\* a thread is parsing, or polling will notice. `lost' excepts a change between the first load
\* and the watch, or under the eyes of a handler that parses the file.
ChangeAttended == Started /\ files[path] # 0 /\ current # files[path] => lost \/ Attended

\* A file edited by hand is loaded (web/index.html:354): not so for a change between the
\* first load and the watch, or under the eyes of a handler that parses the file.
EveryChangeAttended == Started /\ files[path] # 0 /\ current # files[path] => Attended

\* The main thread comes to work by what the file at CONFIG_FILE holds, whichever way the
\* change was made and whether inotify works or not.
HotReload == []<>(used = files[path] \/ files[path] = 0 \/ lost)

\* The threads between the store and the flag.
Announcing == {t \in Procs : pc[t] = "announce"}

Register == INSTANCE ConfigRegister WITH
  Configs <- Versions,
  unannounced <- Cardinality(Announcing)

\* Threads and files implement the register the main thread relies on: no
\* announced configuration is missed, handlers' included (NothingMissed of ConfigReloadProofs).
ImplementsRegister == Register!Spec
=============================================================================
