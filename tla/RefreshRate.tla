------------------------------ MODULE RefreshRate ------------------------------
(***************************************************************************)
(* The refresh-rate thread of the daemon (refresh.rs): an epoll loop over  *)
(* an eventfd that announces input and configuration changes, a timerfd    *)
(* that counts the seconds to the idle rate, and a socket on which the     *)
(* process observer names the package that came to the foreground.  The    *)
(* other threads are the main thread, which passes input events on, the    *)
(* observer, and a web handler that saves the configuration file.          *)
(*                                                                         *)
(* Time is counted in seconds and told by ages: st.lastReset and sinceInput*)
(* are the whole seconds since that instant, st.timer the seconds left     *)
(* until the timer expires (0: expired and not yet read).                  *)
(***************************************************************************)
EXTENDS Integers, Sequences, FiniteSets

CONSTANTS
  Pkgs,      \* packages that come to the foreground
  NoPkg,     \* the empty package name
  Rates,     \* refresh rates
  Files,     \* contents the configuration file may have
  Empty,     \* the file between its truncation and its writing
  None,      \* an absent instant, timer or package configuration
  Slack,     \* the last seconds of the timeout in which input is not debounced (10)
  Throttle,  \* seconds between two inputs that are looked at (1)
  MaxAge,    \* bound: ages are not told apart beyond it
  MaxEnv     \* bound: events from outside in a behaviour

\* What web.rs lets into the file has a timeout of at least a second.
Setting == [timeout : 1..MaxAge, active : Rates, idle : Rates]
File == [global : Setting, apps : [Pkgs -> Setting \cup {None}]]

ASSUME RefreshAssumption ==
  /\ NoPkg \notin Pkgs
  /\ None \notin Nat \cup Setting
  /\ Files # {} /\ Files \subseteq File /\ Empty \notin File
  /\ Slack \in Nat /\ Throttle \in Nat \ {0}
  /\ MaxAge \in Nat \ {0} /\ MaxEnv \in Nat

VARIABLES
  st,         \* RefreshState, as far as the rate and the timer go, and the timerfd
  global, apps,     \* its global and per-package configuration
  pkg,        \* current_package, which is always last_applied_pkg too
  sinceInput, \* last_input_time
  file, force,      \* refresh_config.conf, REFRESH_FORCE_RELOAD
  wake,       \* is the eventfd readable?
  inputs, fgs,      \* the channel of input events (how many), the socket
  pc, batch,  \* place in the epoll loop, events of the batch not yet handled
  ipc, wpc,   \* the main thread in refresh_on_event, the web handler
  env         \* events from outside left (bound)

fileVars == <<file, wpc>>
threadVars == <<st, global, apps, pkg, sinceInput, pc, batch>>
vars == <<st, global, apps, pkg, sinceInput, file, force, wake, inputs, fgs, pc, batch, ipc, wpc, env>>

Ages == 0..MaxAge
TypeOK ==
  /\ st \in [cur : Setting, applied : Rates, paused : BOOLEAN, enabled : BOOLEAN,
             lastReset : Ages \cup {None}, timer : Ages \cup {None}]
  /\ global \in Setting /\ apps \in [Pkgs -> Setting \cup {None}]
  /\ pkg \in Pkgs \cup {NoPkg}
  /\ sinceInput \in Ages \cup {None}
  /\ file \in Files \cup {Empty}
  /\ force \in BOOLEAN /\ wake \in BOOLEAN
  /\ inputs \in Nat /\ fgs \in Seq(Pkgs)
  /\ pc \in {"wait", "batch", "inputs", "global", "apps", "idle"}
  /\ batch \in Seq({"wake", "timer", "fg"})
  /\ ipc \in {"idle", "wake"} /\ wpc \in {"idle", "write", "flag", "wake"}
  /\ env \in Nat

-----------------------------------------------------------------------------
(* The functions on RefreshState *)

SetRate(s, mode) == [s EXCEPT !.applied = mode]

UseSetting(s, setting) ==
  [s EXCEPT !.cur = setting, !.enabled = setting.idle # setting.active]

\* apply_app_config: the package's own configuration, else the global one.
AppConfig(p, g, a) == IF p \in Pkgs /\ a[p] # None THEN a[p] ELSE g

Configured(p) == p \in Pkgs /\ apps[p] # None

\* Mutant: input is debounced for the whole timeout.
ResetTimerNoSlack(s, forced) ==
  LET debounced == ~forced /\ s.applied = s.cur.active /\ s.lastReset # None
  IN  IF ~s.enabled THEN [s EXCEPT !.timer = None, !.lastReset = None]
      ELSE IF debounced THEN [s EXCEPT !.paused = FALSE]
      ELSE [s EXCEPT !.paused = FALSE, !.timer = s.cur.timeout, !.lastReset = 0]

\* Mutant: the timer is set to more than the timeout.
ResetTimerLong(s, forced) ==
  IF ~s.enabled THEN [s EXCEPT !.timer = None, !.lastReset = None]
  ELSE [s EXCEPT !.paused = FALSE, !.timer = s.cur.timeout + Slack, !.lastReset = 0]

\* reset_timer: while the active rate is on, a reset that is not forced has to
\* wait until only Slack seconds are left.
ResetTimer(s, forced) ==
  LET debounced == /\ ~forced
                   /\ s.applied = s.cur.active /\ s.cur.active # s.cur.idle
                   /\ s.lastReset # None /\ s.lastReset < s.cur.timeout - Slack
  IN  IF ~s.enabled THEN [s EXCEPT !.timer = None, !.lastReset = None]
      ELSE IF debounced THEN [s EXCEPT !.paused = FALSE]
      ELSE [s EXCEPT !.paused = FALSE, !.timer = s.cur.timeout, !.lastReset = 0]

\* Mutant: the instant of the last reset is kept.
SwitchToIdleRunning(s) ==
  IF ~s.enabled THEN s ELSE [SetRate(s, s.cur.idle) EXCEPT !.paused = TRUE, !.timer = None]

SwitchToIdle(s) ==
  IF ~s.enabled THEN s
  ELSE [SetRate(s, s.cur.idle) EXCEPT !.paused = TRUE, !.timer = None, !.lastReset = None]

\* Mutant: what the package that leaves the foreground had is not asked.
HandleFgChangeNew(s, p) ==
  LET t == UseSetting(s, AppConfig(p, global, apps))
  IN  ResetTimer(IF Configured(p) THEN SetRate(t, t.cur.active) ELSE t, TRUE)

HandleFgChange(s, p) ==
  LET t == UseSetting(s, AppConfig(p, global, apps))
  IN  ResetTimer(IF Configured(pkg) \/ Configured(p) THEN SetRate(t, t.cur.active) ELSE t, TRUE)

HandleInput(s) ==
  IF s.lastReset = None
  THEN ResetTimer([SetRate(s, s.cur.active) EXCEPT !.paused = FALSE], TRUE)
  ELSE ResetTimer(s, FALSE)

\* check_config after the file has been read.
Reconfigure(s, setting) ==
  LET t == SetRate(UseSetting(s, setting), setting.active)
  IN  IF t.lastReset # None THEN ResetTimer(t, TRUE) ELSE t

\* refresh_init: the timer is not started.
Init ==
  /\ file \in Files
  /\ global = file.global /\ apps = file.apps
  /\ st = [cur |-> global, applied |-> global.active, paused |-> FALSE,
           enabled |-> global.idle # global.active, lastReset |-> None, timer |-> None]
  /\ pkg = NoPkg /\ sinceInput = None
  /\ force = FALSE /\ wake = FALSE /\ inputs = 0 /\ fgs = <<>>
  /\ pc = "wait" /\ batch = <<>>
  /\ ipc = "idle" /\ wpc = "idle"
  /\ env = MaxEnv

-----------------------------------------------------------------------------
(* Time and the other threads *)

EnvStep == env > 0 /\ env' = env - 1

Older(age) == IF age = None \/ age = MaxAge THEN age ELSE age + 1

Tick ==
  /\ st' = [st EXCEPT !.lastReset = Older(st.lastReset),
                      !.timer = IF st.timer \in {None, 0} THEN st.timer ELSE st.timer - 1]
  /\ sinceInput' = Older(sinceInput)
  /\ UNCHANGED <<global, apps, pkg, fileVars, force, wake, inputs, fgs, pc, batch, ipc, env>>

\* refresh_on_event: an input event is sent, ...
SendInput ==
  /\ EnvStep
  /\ ipc = "idle"
  /\ inputs' = inputs + 1
  /\ ipc' = "wake"
  /\ UNCHANGED <<threadVars, fileVars, force, wake, fgs>>

\* ... then the eventfd is written.
WakeInput ==
  /\ ipc = "wake"
  /\ wake' = TRUE
  /\ ipc' = "idle"
  /\ UNCHANGED <<threadVars, fileVars, force, inputs, fgs, env>>

\* The process observer sends the package of the foreground.
Foreground(p) ==
  /\ EnvStep
  /\ fgs' = Append(fgs, p)
  /\ UNCHANGED <<threadVars, fileVars, force, wake, inputs, ipc>>

\* A web handler truncates the file, ...
Truncate ==
  /\ EnvStep
  /\ wpc = "idle"
  /\ file' = Empty
  /\ wpc' = "write"
  /\ UNCHANGED <<threadVars, force, wake, inputs, fgs, ipc>>

\* ... writes it, ...
Write(f) ==
  /\ wpc = "write"
  /\ file' = f
  /\ wpc' = "flag"
  /\ UNCHANGED <<threadVars, force, wake, inputs, fgs, ipc, env>>

\* ... sets REFRESH_FORCE_RELOAD ...
SetFlag ==
  /\ wpc = "flag"
  /\ force' = TRUE
  /\ wpc' = "wake"
  /\ UNCHANGED <<threadVars, file, wake, inputs, fgs, ipc, env>>

\* ... and wakes the refresh-rate thread.
WakeConfig ==
  /\ wpc = "wake"
  /\ wake' = TRUE
  /\ wpc' = "idle"
  /\ UNCHANGED <<threadVars, file, force, inputs, fgs, ipc, env>>

-----------------------------------------------------------------------------
(* The epoll loop *)

others == <<fileVars, ipc, env>>

Ready == {e \in {"wake"} : wake} \cup {e \in {"timer"} : st.timer = 0} \cup {e \in {"fg"} : fgs # <<>>}

\* epoll_wait returns every descriptor that is ready, in the order in which they
\* got onto its list, which may be any.
EpollWait ==
  /\ pc = "wait" /\ Ready # {}
  /\ \E b \in [1..Cardinality(Ready) -> Ready] :
       /\ \A i, j \in DOMAIN b : b[i] = b[j] => i = j
       /\ batch' = b
  /\ pc' = "batch"
  /\ UNCHANGED <<st, global, apps, pkg, sinceInput, force, wake, inputs, fgs, others>>

BatchDone ==
  /\ pc = "batch" /\ batch = <<>>
  /\ pc' = "wait"
  /\ UNCHANGED <<st, global, apps, pkg, sinceInput, batch, force, wake, inputs, fgs, others>>

Handle(e, place) ==
  /\ pc = "batch" /\ batch # <<>> /\ Head(batch) = e
  /\ batch' = Tail(batch)
  /\ pc' = place

\* The eventfd is read ...
HandleWake ==
  /\ Handle("wake", "inputs")
  /\ wake' = FALSE
  /\ UNCHANGED <<st, global, apps, pkg, sinceInput, force, inputs, fgs, others>>

Throttled == sinceInput # None /\ sinceInput < Throttle

\* ... and the channel emptied.
TakeInput ==
  /\ pc = "inputs" /\ inputs > 0
  /\ inputs' = inputs - 1
  /\ IF Throttled THEN UNCHANGED <<st, sinceInput>>
     ELSE st' = HandleInput(st) /\ sinceInput' = 0
  /\ UNCHANGED <<global, apps, pkg, pc, batch, force, wake, fgs, others>>

\* check_config swaps the flag ...
CheckConfig ==
  /\ pc = "inputs" /\ inputs = 0
  /\ force' = FALSE
  /\ pc' = IF force THEN "global" ELSE "batch"
  /\ UNCHANGED <<st, global, apps, pkg, sinceInput, batch, wake, inputs, fgs, others>>

\* ... and reads the file for the global keys, ...
LoadGlobal ==
  /\ pc = "global"
  /\ global' = IF file = Empty THEN global ELSE file.global
  /\ pc' = "apps"
  /\ UNCHANGED <<st, apps, pkg, sinceInput, batch, force, wake, inputs, fgs, others>>

\* Mutant: the flag is cleared once the file has been read.
LoadAppsClears ==
  /\ pc = "apps"
  /\ apps' = IF file = Empty THEN [p \in Pkgs |-> None] ELSE file.apps
  /\ st' = Reconfigure(st, AppConfig(pkg, global, apps'))
  /\ pc' = "batch"
  /\ force' = FALSE
  /\ UNCHANGED <<global, pkg, sinceInput, batch, wake, inputs, fgs, others>>

\* ... and again for the packages.
LoadApps ==
  /\ pc = "apps"
  /\ apps' = IF file = Empty THEN [p \in Pkgs |-> None] ELSE file.apps
  /\ st' = Reconfigure(st, AppConfig(pkg, global, apps'))
  /\ pc' = "batch"
  /\ UNCHANGED <<global, pkg, sinceInput, batch, force, wake, inputs, fgs, others>>

\* The timerfd is read, which fails if it has been set again, ...
HandleTimer ==
  /\ Handle("timer", "idle")
  /\ st' = IF st.timer = 0 THEN [st EXCEPT !.timer = None] ELSE st
  /\ UNCHANGED <<global, apps, pkg, sinceInput, force, wake, inputs, fgs, others>>

\* ... and the idle rate is set in either case.
Idle ==
  /\ pc = "idle"
  /\ st' = SwitchToIdle(st)
  /\ pc' = "batch"
  /\ UNCHANGED <<global, apps, pkg, sinceInput, batch, force, wake, inputs, fgs, others>>

\* One datagram is received; the package that is in the foreground already and
\* is named again changes nothing.
HandleFg ==
  /\ Handle("fg", "batch")
  /\ fgs' = Tail(fgs)
  /\ IF Head(fgs) = pkg THEN UNCHANGED <<st, pkg>>
     ELSE st' = HandleFgChange(st, Head(fgs)) /\ pkg' = Head(fgs)
  /\ UNCHANGED <<global, apps, sinceInput, force, wake, inputs, others>>

-----------------------------------------------------------------------------
Refresh ==
  \/ EpollWait \/ BatchDone
  \/ HandleWake \/ TakeInput \/ CheckConfig \/ LoadGlobal \/ LoadApps
  \/ HandleTimer \/ Idle \/ HandleFg

Web == (\E f \in Files : Write(f)) \/ SetFlag \/ WakeConfig

Next ==
  \/ Refresh \/ Web \/ WakeInput \/ Tick
  \/ SendInput \/ Truncate \/ \E p \in Pkgs : Foreground(p)

\* Time passes and the threads run; nobody has to touch the screen.
Fairness == WF_vars(Refresh) /\ WF_vars(Web) /\ WF_vars(WakeInput) /\ WF_vars(Tick)

Spec == Init /\ [][Next]_vars
FairSpec == Spec /\ Fairness

-----------------------------------------------------------------------------
(* Properties *)

\* When the thread has nothing left to do, it works by what the file says: no
\* save is missed between the flag, the eventfd and the two reads of the file,
\* and no truncated file stays loaded.
ReloadNotMissed ==
  pc = "wait" /\ ~wake /\ wpc = "idle" => global = file.global /\ apps = file.apps

\* The rate on the screen is one of the two of the package in the foreground,
\* through all saves of the configuration and changes of the foreground; it is
\* the active one if the two are the same.
RateOfForeground ==
  pc = "wait" => /\ st.cur = AppConfig(pkg, global, apps)
                 /\ st.applied \in {st.cur.active, st.cur.idle}

\* While the thread believes its timer runs, the timer is armed: otherwise the
\* debounce would keep input from ever arming it.
TimerArmed == pc # "idle" /\ st.lastReset # None => st.timer # None /\ (pc = "wait" => st.enabled)

\* A timer that really expired has not been expiring under the user's fingers:
\* debouncing drops resets only while more than Slack seconds are left.
IdleNotEarly ==
  [][pc = "batch" /\ pc' = "idle" /\ st.timer = 0 /\ sinceInput # None =>
       sinceInput >= st.cur.timeout \/ sinceInput >= Slack]_vars

\* A running timer ends in the idle rate once the events from outside cease.
SettlesIdle ==
  st.lastReset # None ~> st.lastReset = None /\ (st.applied = st.cur.idle \/ ~st.enabled)

-----------------------------------------------------------------------------
(* What the repository says and the code does not do *)

\* refresh.rs, handle_input: a stopped timer means the idle state, so that input
\* while the timer runs need not set the active rate.
RunningMeansActive == pc = "wait" /\ st.lastReset # None => st.applied = st.cur.active

\* web/index.html shows is_paused as being idle.
PausedMeansIdle == pc = "wait" /\ st.paused => st.applied = st.cur.idle

\* refresh.rs, handle_input: user activity brings the active rate back and starts
\* the timer again.  The round that has handled input ends at the active rate.
InputActivates ==
  pc = "wait" /\ sinceInput = 0 /\ st.enabled /\ st.cur.timeout > 1 => st.applied = st.cur.active
=============================================================================
