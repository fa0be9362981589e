----------------------------- MODULE RefreshProofs -----------------------------
(***************************************************************************)
(* Proofs about RefreshRate for every set of packages, rates and files,    *)
(* any timeouts and any number of events: the timer the thread believes in *)
(* is armed, the rate belongs to the package in the foreground, and no     *)
(* save of the configuration is missed.                                    *)
(***************************************************************************)
EXTENDS RefreshRate, FiniteSetTheorems, TLAPS

USE RefreshAssumption

-----------------------------------------------------------------------------
(* The invariant *)

\* A datagram that is in the batch is in the socket, and each descriptor is there once.
BatchInv ==
  /\ \A i \in DOMAIN batch : batch[i] = "fg" => fgs # <<>>
  /\ \A i, j \in DOMAIN batch : batch[i] = batch[j] => i = j

\* An instant of the last reset means a timer, but for the moment after it expired.
TimerInv ==
  /\ st.lastReset # None => st.enabled
  /\ pc # "idle" /\ st.lastReset # None => st.timer # None

\* The configuration in use is the foreground's, but between the two reads of the file.
RateInv ==
  /\ pc # "apps" => st.cur = AppConfig(pkg, global, apps)
  /\ st.applied \in {st.cur.active, st.cur.idle}

Loaded == global = file.global /\ apps = file.apps

\* What is not loaded is announced by the flag or being loaded, and the flag by the eventfd.
FileInv ==
  /\ file = Empty <=> wpc = "write"
  /\ wpc \in {"idle", "wake"} =>
       force \/ pc = "global" \/ (pc = "apps" /\ global = file.global) \/ Loaded
  /\ wpc = "idle" /\ force => wake \/ pc = "inputs"

RefreshInv == TypeOK /\ BatchInv /\ TimerInv /\ RateInv /\ FileInv

-----------------------------------------------------------------------------
(* The functions on RefreshState *)

State == [cur : Setting, applied : Rates, paused : BOOLEAN, enabled : BOOLEAN,
          lastReset : Ages \cup {None}, timer : Ages \cup {None}]

LEMMA NoneIsNothing == None \notin Ages /\ 0 \in Ages /\ \A s \in Setting : s.timeout \in Ages
BY DEF Ages, Setting

\* A reset leaves a timer behind, or what was there, or nothing if there is no idle rate.
LEMMA ResetTimerKeeps ==
  ASSUME NEW s \in State, NEW forced \in BOOLEAN
  PROVE  /\ ResetTimer(s, forced) \in State
         /\ ResetTimer(s, forced).cur = s.cur /\ ResetTimer(s, forced).applied = s.applied
         /\ ResetTimer(s, forced).lastReset # None => ResetTimer(s, forced).enabled
         /\ \/ ResetTimer(s, forced).lastReset # None => ResetTimer(s, forced).timer # None
            \/ /\ ~forced /\ ResetTimer(s, forced).lastReset = s.lastReset
               /\ ResetTimer(s, forced).timer = s.timer
BY NoneIsNothing DEF ResetTimer, State

LEMMA SetRateKeeps ==
  ASSUME NEW s \in State, NEW rate \in Rates
  PROVE  /\ SetRate(s, rate) \in State
         /\ SetRate(s, rate).cur = s.cur /\ SetRate(s, rate).applied = rate
         /\ SetRate(s, rate).enabled = s.enabled
         /\ SetRate(s, rate).lastReset = s.lastReset /\ SetRate(s, rate).timer = s.timer
BY DEF SetRate, State

LEMMA UseSettingKeeps ==
  ASSUME NEW s \in State, NEW setting \in Setting
  PROVE  /\ UseSetting(s, setting) \in State
         /\ UseSetting(s, setting).cur = setting /\ UseSetting(s, setting).applied = s.applied
         /\ UseSetting(s, setting).lastReset = s.lastReset /\ UseSetting(s, setting).timer = s.timer
BY DEF UseSetting, State

LEMMA AppConfigType ==
  ASSUME NEW p, NEW g \in Setting, NEW a \in [Pkgs -> Setting \cup {None}]
  PROVE  AppConfig(p, g, a) \in Setting
BY DEF AppConfig

LEMMA HandleInputKeeps ==
  ASSUME NEW s \in State, s.lastReset # None => s.enabled /\ s.timer # None,
         s.applied \in {s.cur.active, s.cur.idle}
  PROVE  /\ HandleInput(s) \in State /\ HandleInput(s).cur = s.cur
         /\ HandleInput(s).applied \in {s.cur.active, s.cur.idle}
         /\ HandleInput(s).lastReset # None => HandleInput(s).enabled /\ HandleInput(s).timer # None
<1> DEFINE a == SetRate(s, s.cur.active)
           t == [a EXCEPT !.paused = FALSE]
<1>1. s.cur.active \in Rates
  BY DEF State, Setting
<1>5. a \in State /\ a.cur = s.cur /\ a.applied = s.cur.active
  BY <1>1, SetRateKeeps
<1>2. t \in State /\ t.cur = s.cur /\ t.applied = s.cur.active
  <2> HIDE DEF a
  <2>1. QED  BY <1>5 DEF State
<1> HIDE DEF t
<1>3. HandleInput(s) = IF s.lastReset = None THEN ResetTimer(t, TRUE) ELSE ResetTimer(s, FALSE)
  BY DEF HandleInput, t, a
<1>4. QED  BY <1>2, <1>3, ResetTimerKeeps

LEMMA ReconfigureKeeps ==
  ASSUME NEW s \in State, NEW setting \in Setting, s.lastReset # None => s.timer # None
  PROVE  /\ Reconfigure(s, setting) \in State /\ Reconfigure(s, setting).cur = setting
         /\ Reconfigure(s, setting).applied = setting.active
         /\ Reconfigure(s, setting).lastReset # None =>
              Reconfigure(s, setting).enabled /\ Reconfigure(s, setting).timer # None
<1> DEFINE u == UseSetting(s, setting)
           t == SetRate(u, setting.active)
<1>1. u \in State /\ u.cur = setting /\ u.lastReset = s.lastReset /\ u.timer = s.timer
  BY UseSettingKeeps
<1>2. setting.active \in Rates
  BY DEF Setting
<1>3. /\ t \in State /\ t.cur = setting /\ t.applied = setting.active
      /\ t.lastReset = s.lastReset /\ t.timer = s.timer
  <2> HIDE DEF u
  <2>1. QED  BY <1>1, <1>2, SetRateKeeps
<1>4. Reconfigure(s, setting) = IF t.lastReset # None THEN ResetTimer(t, TRUE) ELSE t
  BY DEF Reconfigure
<1> HIDE DEF t
<1>5. QED  BY <1>3, <1>4, ResetTimerKeeps

LEMMA HandleFgChangeKeeps ==
  ASSUME TypeOK, NEW p \in Pkgs, st.cur = AppConfig(pkg, global, apps),
         st.applied \in {st.cur.active, st.cur.idle}
  PROVE  /\ HandleFgChange(st, p) \in State
         /\ HandleFgChange(st, p).cur = AppConfig(p, global, apps)
         /\ HandleFgChange(st, p).applied \in
              {HandleFgChange(st, p).cur.active, HandleFgChange(st, p).cur.idle}
         /\ HandleFgChange(st, p).lastReset # None =>
              HandleFgChange(st, p).enabled /\ HandleFgChange(st, p).timer # None
<1> DEFINE new == AppConfig(p, global, apps)
           t == UseSetting(st, new)
           u == IF Configured(pkg) \/ Configured(p) THEN SetRate(t, t.cur.active) ELSE t
<1>1. st \in State /\ new \in Setting
  BY AppConfigType DEF TypeOK, State
<1>2. t \in State /\ t.cur = new /\ t.applied = st.applied
  <2> HIDE DEF new
  <2>1. QED  BY <1>1, UseSettingKeeps
<1>3. new.active \in Rates
  BY <1>1 DEF Setting
<1>4. ~Configured(pkg) /\ ~Configured(p) => new = st.cur
  BY DEF Configured, AppConfig, TypeOK
<1> HIDE DEF new, t
<1>5. u \in State /\ u.cur = new /\ u.applied \in {new.active, new.idle}
  <2>1. CASE Configured(pkg) \/ Configured(p)
    BY <2>1, <1>2, <1>3, SetRateKeeps
  <2>2. CASE ~Configured(pkg) /\ ~Configured(p)
    BY <2>2, <1>2, <1>4
  <2>3. QED  BY <2>1, <2>2
<1>6. HandleFgChange(st, p) = ResetTimer(u, TRUE)
  BY DEF HandleFgChange, t, new
<1> HIDE DEF u
<1>7. LET r == ResetTimer(u, TRUE)
      IN  /\ r \in State /\ r.cur = u.cur /\ r.applied = u.applied
          /\ r.lastReset # None => r.enabled /\ r.timer # None
  BY <1>5, ResetTimerKeeps
<1>8. AppConfig(p, global, apps) = new
  BY DEF new
<1>9. QED  BY <1>5, <1>6, <1>7, <1>8

-----------------------------------------------------------------------------
(* The batch *)

Descriptors == {"wake", "timer", "fg"}

LEMMA ReadyFew == Ready \subseteq Descriptors /\ Cardinality(Ready) \in Nat
<1>1. Ready \subseteq Descriptors
  BY DEF Ready, Descriptors
<1>2. IsFiniteSet(Descriptors)
  <2>1. IsFiniteSet({}) /\ IsFiniteSet({} \cup {"wake"})
    BY FS_EmptySet, FS_AddElement
  <2>2. IsFiniteSet(({} \cup {"wake"}) \cup {"timer"})
    BY <2>1, FS_AddElement
  <2>3. IsFiniteSet((({} \cup {"wake"}) \cup {"timer"}) \cup {"fg"})
    BY <2>2, FS_AddElement
  <2>4. Descriptors = (({} \cup {"wake"}) \cup {"timer"}) \cup {"fg"}
    BY DEF Descriptors
  <2>5. QED  BY <2>3, <2>4
<1>3. QED  BY <1>1, <1>2, FS_Subset, FS_CardinalityType

\* What is left of a batch has none of the descriptor that was handled.
LEMMA RestOfBatch ==
  ASSUME NEW S, NEW b \in Seq(S), b # <<>>, \A i, j \in DOMAIN b : b[i] = b[j] => i = j
  PROVE  /\ Tail(b) \in Seq(S)
         /\ \A i, j \in DOMAIN Tail(b) : Tail(b)[i] = Tail(b)[j] => i = j
         /\ \A i \in DOMAIN Tail(b) : i + 1 \in DOMAIN b /\ Tail(b)[i] = b[i + 1] /\ Tail(b)[i] # Head(b)
<1>1. Tail(b) \in Seq(S) /\ Len(Tail(b)) = Len(b) - 1 /\ Len(b) \in Nat /\ Len(b) >= 1
  OBVIOUS
<1>2. DOMAIN b = 1..Len(b) /\ DOMAIN Tail(b) = 1..Len(b) - 1
  BY <1>1
<1>3. \A i \in DOMAIN Tail(b) : i + 1 \in DOMAIN b /\ Tail(b)[i] = b[i + 1]
  BY <1>1, <1>2
<1>4. \A i \in DOMAIN Tail(b) : i + 1 # 1 /\ 1 \in DOMAIN b /\ Head(b) = b[1]
  BY <1>1, <1>2
<1>5. \A i \in DOMAIN Tail(b) : Tail(b)[i] # Head(b)
  BY <1>3, <1>4
<1>6. \A i, j \in DOMAIN Tail(b) : Tail(b)[i] = Tail(b)[j] => i = j
  <2>1. SUFFICES ASSUME NEW i \in DOMAIN Tail(b), NEW j \in DOMAIN Tail(b), Tail(b)[i] = Tail(b)[j]
                 PROVE  i = j
    OBVIOUS
  <2>2. i + 1 = j + 1
    BY <1>3, <2>1
  <2>3. QED  BY <1>2, <2>2
<1>7. QED  BY <1>1, <1>3, <1>5, <1>6

-----------------------------------------------------------------------------
(* Steps *)

LEMMA InitHolds == Init => RefreshInv
<1> SUFFICES ASSUME Init PROVE RefreshInv
  OBVIOUS
<1>1. /\ file \in File /\ file # Empty
      /\ global \in Setting /\ apps \in [Pkgs -> Setting \cup {None}]
  BY DEF Init, File
<1>5. st \in State
  BY <1>1 DEF Init, State, Setting
<1>2. TypeOK
  <2>1. fgs \in Seq(Pkgs) /\ batch \in Seq({"wake", "timer", "fg"}) /\ inputs \in Nat /\ env \in Nat
    BY DEF Init
  <2>2. file \in Files /\ sinceInput = None /\ force = FALSE /\ wake = FALSE /\ pkg = NoPkg
    BY DEF Init
  <2>3. pc = "wait" /\ ipc = "idle" /\ wpc = "idle"
    BY DEF Init
  <2>4. QED  BY <1>1, <1>5, <2>1, <2>2, <2>3 DEF TypeOK, State
<1>3. RateInv
  BY DEF Init, RateInv, AppConfig
<1>4. QED  BY <1>1, <1>2, <1>3 DEF Init, RefreshInv, BatchInv, TimerInv, FileInv, Loaded

LEMMA OthersKeep ==
  RefreshInv /\ (Web \/ WakeInput \/ SendInput \/ Truncate \/ \E p \in Pkgs : Foreground(p))
    => RefreshInv'
<1> SUFFICES ASSUME RefreshInv, Web \/ WakeInput \/ SendInput \/ Truncate \/ \E p \in Pkgs : Foreground(p)
             PROVE  RefreshInv'
  OBVIOUS
<1> USE DEF threadVars, fileVars, EnvStep
<1>1. UNCHANGED threadVars
  BY DEF Web, WakeInput, SendInput, Truncate, Foreground, Write, SetFlag, WakeConfig
<1>2. TimerInv' /\ RateInv'
  BY <1>1 DEF RefreshInv, TimerInv, RateInv, AppConfig
<1>3. CASE WakeInput
  BY <1>2, <1>3 DEF WakeInput, RefreshInv, TypeOK, BatchInv, FileInv, Loaded
<1>9. CASE SendInput
  <2>1. inputs' \in Nat /\ env' \in Nat
    BY <1>9 DEF SendInput, RefreshInv, TypeOK
  <2>2. TypeOK'
    BY <1>9, <2>1 DEF SendInput, RefreshInv, TypeOK
  <2>3. QED  BY <1>2, <1>9, <2>2 DEF SendInput, RefreshInv, BatchInv, FileInv, Loaded
<1>4. ASSUME NEW p \in Pkgs, Foreground(p) PROVE RefreshInv'
  <2>1. fgs' \in Seq(Pkgs) /\ fgs' # <<>>
    BY <1>4 DEF Foreground, RefreshInv, TypeOK
  <2>2. QED  BY <1>2, <1>4, <2>1 DEF Foreground, RefreshInv, TypeOK, BatchInv, FileInv, Loaded
<1>5. CASE Truncate
  BY <1>2, <1>5 DEF Truncate, RefreshInv, TypeOK, BatchInv, FileInv, Loaded
<1>6. ASSUME NEW f \in Files, Write(f) PROVE RefreshInv'
  BY <1>2, <1>6 DEF Write, RefreshInv, TypeOK, BatchInv, FileInv, Loaded
<1>7. CASE SetFlag \/ WakeConfig
  BY <1>2, <1>7 DEF SetFlag, WakeConfig, RefreshInv, TypeOK, BatchInv, FileInv, Loaded
<1>8. QED  BY <1>3, <1>4, <1>5, <1>6, <1>7, <1>9 DEF Web

LEMMA OlderAge == \A a \in Ages \cup {None} : Older(a) \in Ages \cup {None} /\ (Older(a) = None <=> a = None)
BY NoneIsNothing DEF Older, Ages

LEMMA TickKeeps == RefreshInv /\ Tick => RefreshInv'
<1> SUFFICES ASSUME RefreshInv, Tick PROVE RefreshInv'
  OBVIOUS
<1> DEFINE left == IF st.timer \in {None, 0} THEN st.timer ELSE st.timer - 1
<1>1. /\ st \in State /\ st.lastReset \in Ages \cup {None} /\ st.timer \in Ages \cup {None}
      /\ sinceInput \in Ages \cup {None}
  BY DEF RefreshInv, TypeOK, State
<1>2. left \in Ages \cup {None} /\ (left = None <=> st.timer = None)
  BY <1>1, NoneIsNothing DEF Ages
<1>3. st' = [st EXCEPT !.lastReset = Older(st.lastReset), !.timer = left]
  BY DEF Tick
<1> HIDE DEF left
<1>4. /\ st' \in State /\ st'.cur = st.cur /\ st'.applied = st.applied /\ st'.enabled = st.enabled
      /\ st'.lastReset = None <=> st.lastReset = None
      /\ st'.timer = None <=> st.timer = None
  BY <1>1, <1>2, <1>3, OlderAge DEF State
<1>5. TypeOK'
  BY <1>1, <1>4, OlderAge DEF Tick, RefreshInv, TypeOK, State, fileVars
<1>6. QED  BY <1>4, <1>5
  DEF Tick, RefreshInv, BatchInv, TimerInv, RateInv, AppConfig, FileInv, Loaded, fileVars

LEMMA EpollKeeps == RefreshInv /\ (EpollWait \/ BatchDone) => RefreshInv'
<1> SUFFICES ASSUME RefreshInv, EpollWait \/ BatchDone PROVE RefreshInv'
  OBVIOUS
<1> USE DEF others, fileVars
<1>1. batch' \in Seq(Descriptors) /\ BatchInv'
  <2>1. CASE EpollWait
    <3>1. PICK b \in [1..Cardinality(Ready) -> Ready] :
             (\A i, j \in DOMAIN b : b[i] = b[j] => i = j) /\ batch' = b
      BY <2>1 DEF EpollWait
    <3>2. batch' \in Seq(Descriptors)
      BY <3>1, ReadyFew
    <3>3. ASSUME NEW i \in DOMAIN b, b[i] = "fg" PROVE fgs' # <<>>
      BY <2>1, <3>1, <3>3 DEF Ready, EpollWait
    <3>4. QED  BY <3>1, <3>2, <3>3 DEF BatchInv
  <2>2. CASE BatchDone
    BY <2>2 DEF BatchDone, RefreshInv, TypeOK, BatchInv, Descriptors
  <2>3. QED  BY <2>1, <2>2
<1>2. TypeOK'
  BY <1>1 DEF EpollWait, BatchDone, RefreshInv, TypeOK, Descriptors
<1>3. QED  BY <1>1, <1>2
  DEF EpollWait, BatchDone, RefreshInv, TimerInv, RateInv, AppConfig, FileInv, Loaded

\* The eventfd is read, the channel emptied, the flag swapped.
LEMMA WakeKeeps == RefreshInv /\ (HandleWake \/ TakeInput \/ CheckConfig) => RefreshInv'
<1> SUFFICES ASSUME RefreshInv, HandleWake \/ TakeInput \/ CheckConfig PROVE RefreshInv'
  OBVIOUS
<1> USE DEF others, fileVars
<1>1. CASE HandleWake
  <2>1. batch' \in Seq(Descriptors) /\ BatchInv'
    BY <1>1, RestOfBatch DEF HandleWake, Handle, RefreshInv, TypeOK, BatchInv, Descriptors
  <2>2. TypeOK'
    BY <1>1, <2>1 DEF HandleWake, Handle, RefreshInv, TypeOK, Descriptors
  <2>3. QED  BY <1>1, <2>1, <2>2
    DEF HandleWake, Handle, RefreshInv, TimerInv, RateInv, AppConfig, FileInv, Loaded
<1>2. CASE TakeInput
  <2>1. /\ st \in State /\ (st.lastReset # None => st.enabled /\ st.timer # None)
        /\ st.cur = AppConfig(pkg, global, apps) /\ st.applied \in {st.cur.active, st.cur.idle}
    BY <1>2 DEF TakeInput, RefreshInv, TypeOK, State, TimerInv, RateInv
  <2>2. /\ st' \in State /\ st'.cur = st.cur /\ st'.applied \in {st.cur.active, st.cur.idle}
        /\ st'.lastReset # None => st'.enabled /\ st'.timer # None
    <3>1. CASE Throttled
      BY <1>2, <2>1, <3>1 DEF TakeInput
    <3>2. CASE ~Throttled
      BY <1>2, <2>1, <3>2, HandleInputKeeps DEF TakeInput
    <3>3. QED  BY <3>1, <3>2
  <2>3. sinceInput' \in Ages \cup {None}
    BY <1>2, NoneIsNothing DEF TakeInput, RefreshInv, TypeOK
  <2>4. TypeOK'
    BY <1>2, <2>2, <2>3 DEF TakeInput, RefreshInv, TypeOK, State
  <2>5. TimerInv' /\ RateInv'
    BY <1>2, <2>1, <2>2 DEF TakeInput, TimerInv, RateInv, AppConfig
  <2>6. QED  BY <1>2, <2>4, <2>5 DEF TakeInput, RefreshInv, BatchInv, FileInv, Loaded
<1>3. CASE CheckConfig
  <2>1. TypeOK' /\ BatchInv'
    <3>1. /\ pc' \in {"wait", "batch", "inputs", "global", "apps", "idle"} /\ force' \in BOOLEAN
          /\ UNCHANGED <<st, global, apps, pkg, sinceInput, batch, wake, inputs, fgs, file, wpc, ipc, env>>
      BY <1>3 DEF CheckConfig
    <3>2. QED  BY <3>1 DEF RefreshInv, TypeOK, BatchInv
  <2>2. TimerInv' /\ RateInv'
    BY <1>3 DEF CheckConfig, RefreshInv, TimerInv, RateInv, AppConfig
  <2>3. FileInv'
    BY <1>3 DEF CheckConfig, RefreshInv, FileInv, Loaded
  <2>4. QED  BY <2>1, <2>2, <2>3 DEF RefreshInv
<1>4. QED  BY <1>1, <1>2, <1>3

\* The two reads of the file.
LEMMA LoadKeeps == RefreshInv /\ (LoadGlobal \/ LoadApps) => RefreshInv'
<1> SUFFICES ASSUME RefreshInv, LoadGlobal \/ LoadApps PROVE RefreshInv'
  OBVIOUS
<1> USE DEF others, fileVars
<1>1. file # Empty => file \in Files /\ file.global \in Setting /\ file.apps \in [Pkgs -> Setting \cup {None}]
  BY DEF RefreshInv, TypeOK, File
<1>2. CASE LoadGlobal
  <2>1. TypeOK'
    BY <1>1, <1>2 DEF LoadGlobal, RefreshInv, TypeOK
  <2>2. FileInv'
    BY <1>2 DEF LoadGlobal, RefreshInv, FileInv, Loaded
  <2>3. QED  BY <1>2, <2>1, <2>2 DEF LoadGlobal, RefreshInv, BatchInv, TimerInv, RateInv
<1>3. CASE LoadApps
  <2> DEFINE new == AppConfig(pkg, global, apps')
  <2>1. apps' \in [Pkgs -> Setting \cup {None}]
    BY <1>1, <1>3 DEF LoadApps
  <2>2. /\ new \in Setting /\ st \in State /\ (st.lastReset # None => st.timer # None)
        /\ st' = Reconfigure(st, new)
    BY <1>3, <2>1, AppConfigType DEF LoadApps, RefreshInv, TypeOK, State, TimerInv
  <2>3. new = AppConfig(pkg', global', apps')
    BY <1>3 DEF LoadApps
  <2> HIDE DEF new
  <2>4. /\ st' \in State /\ st'.cur = new /\ st'.applied = new.active
        /\ st'.lastReset # None => st'.enabled /\ st'.timer # None
    BY <2>2, ReconfigureKeeps
  <2>5. TypeOK'
    BY <1>3, <2>1, <2>4 DEF LoadApps, RefreshInv, TypeOK, State
  <2>6. TimerInv' /\ RateInv'
    BY <2>3, <2>4 DEF TimerInv, RateInv
  <2>7. FileInv'
    BY <1>3 DEF LoadApps, RefreshInv, FileInv, Loaded
  <2>8. QED  BY <1>3, <2>5, <2>6, <2>7 DEF LoadApps, RefreshInv, BatchInv
<1>4. QED  BY <1>2, <1>3

\* The timer is read and the rate switched.
LEMMA TimerKeeps == RefreshInv /\ (HandleTimer \/ Idle) => RefreshInv'
<1> SUFFICES ASSUME RefreshInv, HandleTimer \/ Idle PROVE RefreshInv'
  OBVIOUS
<1> USE DEF others, fileVars
<1>1. st \in State /\ st.cur \in Setting
  BY DEF RefreshInv, TypeOK, State
<1>2. CASE HandleTimer
  <2>1. batch' \in Seq(Descriptors) /\ BatchInv'
    <3>1. batch # <<>> /\ batch' = Tail(batch) /\ UNCHANGED fgs
      BY <1>2 DEF HandleTimer, Handle
    <3>2. batch \in Seq(Descriptors) /\ BatchInv
      BY DEF RefreshInv, TypeOK, Descriptors
    <3>3. QED  BY <3>1, <3>2, RestOfBatch DEF BatchInv
  <2>2. /\ st' \in State /\ st'.cur = st.cur /\ st'.applied = st.applied
        /\ st'.lastReset = st.lastReset /\ st'.enabled = st.enabled
    BY <1>1, <1>2 DEF HandleTimer, State
  <2>3. TypeOK'
    BY <1>2, <2>1, <2>2 DEF HandleTimer, Handle, RefreshInv, TypeOK, State, Descriptors
  <2>4. TimerInv' /\ RateInv'
    BY <1>2, <2>2 DEF HandleTimer, Handle, RefreshInv, TimerInv, RateInv, AppConfig
  <2>5. QED  BY <1>2, <2>1, <2>3, <2>4 DEF HandleTimer, Handle, RefreshInv, FileInv, Loaded
<1>3. CASE Idle
  <2>1. /\ st' \in State /\ st'.cur = st.cur /\ st'.applied \in {st.applied, st.cur.idle}
        /\ st'.lastReset = None
    <3>1. CASE st.enabled
      <4>1. st' = [SetRate(st, st.cur.idle) EXCEPT !.paused = TRUE, !.timer = None, !.lastReset = None]
        BY <1>3, <3>1 DEF Idle, SwitchToIdle
      <4>2. st.cur.idle \in Rates
        BY <1>1 DEF Setting
      <4>3. QED  BY <1>1, <4>1, <4>2 DEF SetRate, State
    <3>2. CASE ~st.enabled
      BY <1>1, <1>3, <3>2 DEF Idle, SwitchToIdle, RefreshInv, TimerInv
    <3>3. QED  BY <3>1, <3>2
  <2>2. TypeOK'
    BY <1>3, <2>1 DEF Idle, RefreshInv, TypeOK, State
  <2>3. TimerInv' /\ RateInv'
    BY <1>3, <2>1 DEF Idle, RefreshInv, TimerInv, RateInv, AppConfig
  <2>4. QED  BY <1>3, <2>2, <2>3 DEF Idle, RefreshInv, BatchInv, FileInv, Loaded
<1>4. QED  BY <1>2, <1>3

\* A package comes to the foreground.
LEMMA FgKeeps == RefreshInv /\ HandleFg => RefreshInv'
<1> SUFFICES ASSUME RefreshInv, HandleFg PROVE RefreshInv'
  OBVIOUS
<1> USE DEF others, fileVars
<1>1. /\ pc = "batch" /\ batch # <<>> /\ Head(batch) = "fg" /\ batch' = Tail(batch) /\ pc' = "batch"
      /\ fgs' = Tail(fgs)
  BY DEF HandleFg, Handle
<1>2. 1 \in DOMAIN batch /\ batch[1] = "fg"
  BY <1>1 DEF RefreshInv, TypeOK
<1>3. fgs # <<>> /\ fgs \in Seq(Pkgs) /\ Head(fgs) \in Pkgs /\ Tail(fgs) \in Seq(Pkgs)
  <2>1. fgs # <<>> /\ fgs \in Seq(Pkgs)
    BY <1>2 DEF RefreshInv, BatchInv, TypeOK
  <2>2. QED  BY <2>1
<1>4. batch' \in Seq(Descriptors) /\ BatchInv'
  <2>1. /\ Tail(batch) \in Seq(Descriptors)
        /\ \A i, j \in DOMAIN Tail(batch) : Tail(batch)[i] = Tail(batch)[j] => i = j
        /\ \A i \in DOMAIN Tail(batch) : Tail(batch)[i] # "fg"
    BY <1>1, RestOfBatch DEF RefreshInv, TypeOK, BatchInv, Descriptors
  <2>2. QED  BY <1>1, <2>1 DEF BatchInv
<1>5. /\ st \in State /\ (st.lastReset # None => st.enabled /\ st.timer # None)
      /\ st.cur = AppConfig(pkg, global, apps) /\ st.applied \in {st.cur.active, st.cur.idle}
  BY <1>1 DEF RefreshInv, TypeOK, State, TimerInv, RateInv
<1>6. UNCHANGED <<global, apps>>
  BY DEF HandleFg
<1>7. /\ st' \in State /\ pkg' \in Pkgs \cup {NoPkg}
      /\ st'.cur = AppConfig(pkg', global, apps) /\ st'.applied \in {st'.cur.active, st'.cur.idle}
      /\ st'.lastReset # None => st'.enabled /\ st'.timer # None
  <2>1. CASE Head(fgs) = pkg
    BY <1>5, <2>1 DEF HandleFg, RefreshInv, TypeOK
  <2>2. CASE Head(fgs) # pkg
    <3>1. st' = HandleFgChange(st, Head(fgs)) /\ pkg' = Head(fgs)
      BY <2>2 DEF HandleFg
    <3>2. TypeOK
      BY DEF RefreshInv
    <3>3. QED  BY <1>3, <1>5, <3>1, <3>2, HandleFgChangeKeeps
  <2>3. QED  BY <2>1, <2>2
<1>8. TypeOK'
  BY <1>1, <1>3, <1>4, <1>7 DEF HandleFg, RefreshInv, TypeOK, State, Descriptors
<1>9. TimerInv' /\ RateInv'
  BY <1>6, <1>7 DEF TimerInv, RateInv, AppConfig
<1>10. QED  BY <1>1, <1>4, <1>8, <1>9 DEF HandleFg, RefreshInv, FileInv, Loaded

LEMMA StepKeeps == RefreshInv /\ [Next]_vars => RefreshInv'
<1> SUFFICES ASSUME RefreshInv, [Next]_vars PROVE RefreshInv'
  OBVIOUS
<1>1. CASE Web \/ WakeInput \/ SendInput \/ Truncate \/ \E p \in Pkgs : Foreground(p)
  BY <1>1, OthersKeep
<1>2. CASE Tick
  BY <1>2, TickKeeps
<1>3. CASE Refresh
  BY <1>3, EpollKeeps, WakeKeeps, LoadKeeps, TimerKeeps, FgKeeps DEF Refresh
<1>4. CASE UNCHANGED vars
  BY <1>4 DEF vars, RefreshInv, TypeOK, BatchInv, TimerInv, RateInv, AppConfig, FileInv, Loaded
<1>5. QED  BY <1>1, <1>2, <1>3, <1>4 DEF Next

LEMMA Invariance == Spec => []RefreshInv
BY InitHolds, StepKeeps, PTL DEF Spec

-----------------------------------------------------------------------------
(* The timer *)

\* A timer that is set expires no sooner than the timeout after the last reset, and than
\* the timeout or Slack seconds after the last input i that was looked at.
Counted(s, i) ==
  s.timer # None =>
    /\ s.lastReset # None /\ s.timer + s.lastReset >= s.cur.timeout
    /\ i # None => s.timer + i >= s.cur.timeout \/ s.timer + i >= Slack

CountInv == Counted(st, sinceInput)

LEMMA Timeouts == \A s \in State : s.cur.timeout \in 1..MaxAge
BY DEF State, Setting

\* A forced reset starts the timeout anew, or there is no timer.
LEMMA ForcedCounts ==
  ASSUME NEW s \in State, NEW i \in Ages \cup {None}
  PROVE  Counted(ResetTimer(s, TRUE), i)
<1>1. CASE ~s.enabled
  BY <1>1 DEF ResetTimer, Counted, State
<1>2. CASE s.enabled
  <2> DEFINE r == ResetTimer(s, TRUE)
  <2>1. r.timer = s.cur.timeout /\ r.lastReset = 0 /\ r.cur = s.cur
    BY <1>2 DEF ResetTimer, State
  <2>2. s.cur.timeout \in 1..MaxAge
    BY Timeouts
  <2> HIDE DEF r
  <2>3. r.lastReset # None /\ r.timer + r.lastReset >= r.cur.timeout
    BY <2>1, <2>2
  <2>4. ASSUME i # None PROVE r.timer + i >= r.cur.timeout
    BY <2>1, <2>2, <2>4 DEF Ages
  <2>5. Counted(r, i)
    BY <2>3, <2>4 DEF Counted
  <2>6. QED  BY <2>5 DEF r
<1>3. QED  BY <1>1, <1>2

\* The debounce lets go of a reset only while the timer has more than Slack seconds left.
LEMMA InputCounts ==
  ASSUME NEW s \in State, NEW i \in Ages \cup {None}, Counted(s, i)
  PROVE  Counted(HandleInput(s), 0)
<1>1. CASE s.lastReset = None
  <2> DEFINE a == SetRate(s, s.cur.active)
             t == [a EXCEPT !.paused = FALSE]
  <2>1. s.cur.active \in Rates
    BY DEF State, Setting
  <2>2. a \in State
    BY <2>1, SetRateKeeps
  <2>3. t \in State
    <3> HIDE DEF a
    <3>1. QED  BY <2>2 DEF State
  <2>4. HandleInput(s) = ResetTimer(t, TRUE)
    BY <1>1 DEF HandleInput
  <2> HIDE DEF t
  <2>5. QED  BY <2>3, <2>4, ForcedCounts, NoneIsNothing
<1>2. CASE s.lastReset # None
  <2> DEFINE r == ResetTimer(s, FALSE)
  <2>1. HandleInput(s) = r
    BY <1>2 DEF HandleInput
  <2>2. r.cur = s.cur
    BY ResetTimerKeeps
  <2>3. \/ r.timer = None
        \/ r.timer = s.cur.timeout /\ r.lastReset = 0
        \/ r.timer = s.timer /\ r.lastReset = s.lastReset /\ s.lastReset < s.cur.timeout - Slack
    BY <1>2 DEF ResetTimer, State
  <2> HIDE DEF r
  <2>4. s.lastReset \in Ages /\ s.timer \in Ages \cup {None}
    BY <1>2 DEF State
  <2>5. QED  BY <2>1, <2>2, <2>3, <2>4, Timeouts, NoneIsNothing DEF Counted, Ages
<1>3. QED  BY <1>1, <1>2

\* The file was read: a timer that runs starts anew.
LEMMA ReconfigureCounts ==
  ASSUME NEW s \in State, NEW setting \in Setting, NEW i \in Ages \cup {None}, Counted(s, i)
  PROVE  Counted(Reconfigure(s, setting), i)
<1> DEFINE u == UseSetting(s, setting)
           t == SetRate(u, setting.active)
<1>1. u \in State /\ u.lastReset = s.lastReset /\ u.timer = s.timer
  BY UseSettingKeeps
<1>2. setting.active \in Rates
  BY DEF Setting
<1>3. t \in State /\ t.lastReset = s.lastReset /\ t.timer = s.timer
  <2> HIDE DEF u
  <2>1. QED  BY <1>1, <1>2, SetRateKeeps
<1>4. Reconfigure(s, setting) = IF t.lastReset # None THEN ResetTimer(t, TRUE) ELSE t
  BY DEF Reconfigure
<1> HIDE DEF t
<1>5. CASE s.lastReset # None
  BY <1>3, <1>4, <1>5, ForcedCounts
<1>6. CASE s.lastReset = None
  BY <1>3, <1>4, <1>6 DEF Counted
<1>7. QED  BY <1>5, <1>6

LEMMA FgChangeCounts ==
  ASSUME TypeOK, NEW p \in Pkgs
  PROVE  Counted(HandleFgChange(st, p), sinceInput)
<1> DEFINE t == UseSetting(st, AppConfig(p, global, apps))
           u == IF Configured(pkg) \/ Configured(p) THEN SetRate(t, t.cur.active) ELSE t
<1>1. st \in State /\ AppConfig(p, global, apps) \in Setting /\ sinceInput \in Ages \cup {None}
  BY AppConfigType DEF TypeOK, State
<1>2. t \in State
  BY <1>1, UseSettingKeeps
<1> HIDE DEF t
<1>3. t.cur.active \in Rates
  BY <1>2 DEF State, Setting
<1>4. u \in State
  BY <1>2, <1>3, SetRateKeeps
<1>5. HandleFgChange(st, p) = ResetTimer(u, TRUE)
  BY DEF HandleFgChange, t
<1> HIDE DEF u
<1>6. QED  BY <1>1, <1>4, <1>5, ForcedCounts

LEMMA CountKept == RefreshInv /\ CountInv /\ [Next]_vars => CountInv'
<1> SUFFICES ASSUME RefreshInv, CountInv, [Next]_vars PROVE CountInv'
  OBVIOUS
<1>1. /\ TypeOK /\ st \in State /\ sinceInput \in Ages \cup {None} /\ Counted(st, sinceInput)
      /\ st.lastReset \in Ages \cup {None} /\ st.timer \in Ages \cup {None}
  BY DEF RefreshInv, TypeOK, State, CountInv
<1>2. CASE Tick
  <2>1. /\ st'.cur = st.cur /\ st'.lastReset = Older(st.lastReset) /\ sinceInput' = Older(sinceInput)
        /\ st'.timer = IF st.timer \in {None, 0} THEN st.timer ELSE st.timer - 1
    BY <1>1, <1>2 DEF Tick, State
  <2>2. CASE st.timer = None
    BY <2>1, <2>2 DEF CountInv, Counted
  <2>3. CASE st.timer # None
    <3>1. \A a \in Ages : Older(a) \in Ages /\ (Older(a) = a + 1 \/ (Older(a) = a /\ a = MaxAge))
      BY NoneIsNothing DEF Older, Ages
    <3>2. st.timer \in Ages /\ st.lastReset \in Ages
      BY <1>1, <2>3 DEF Counted
    <3>3. st'.timer \in Ages /\ (st'.timer = st.timer - 1 \/ (st.timer = 0 /\ st'.timer = 0))
      BY <2>1, <3>2, NoneIsNothing DEF Ages
    <3>4. st'.lastReset # None /\ st'.timer + st'.lastReset >= st.cur.timeout
      BY <1>1, <2>1, <2>3, <3>1, <3>2, <3>3, Timeouts, NoneIsNothing DEF Counted, Ages
    <3>5. ASSUME sinceInput' # None
          PROVE  st'.timer + sinceInput' >= st.cur.timeout \/ st'.timer + sinceInput' >= Slack
      <4>1. sinceInput \in Ages
        BY <1>1, <2>1, <3>5, OlderAge
      <4>2. st.timer + sinceInput >= st.cur.timeout \/ st.timer + sinceInput >= Slack
        BY <1>1, <2>3, <4>1, NoneIsNothing DEF Counted
      <4>3. QED  BY <1>1, <2>1, <3>1, <3>2, <3>3, <4>1, <4>2, Timeouts DEF Ages
    <3>6. QED  BY <2>1, <3>4, <3>5 DEF CountInv, Counted
  <2>4. QED  BY <2>2, <2>3
<1>3. CASE TakeInput
  <2>1. CASE Throttled
    BY <1>3, <2>1 DEF TakeInput, CountInv, Counted
  <2>2. CASE ~Throttled
    BY <1>1, <1>3, <2>2, InputCounts DEF TakeInput, CountInv
  <2>3. QED  BY <2>1, <2>2
<1>4. CASE LoadApps
  <2>1. apps' \in [Pkgs -> Setting \cup {None}] /\ global \in Setting
    BY <1>1, <1>4 DEF LoadApps, TypeOK, File
  <2>2. AppConfig(pkg, global, apps') \in Setting
    BY <2>1, AppConfigType
  <2>3. sinceInput' = sinceInput /\ st' = Reconfigure(st, AppConfig(pkg, global, apps'))
    BY <1>4 DEF LoadApps
  <2>4. QED  BY <1>1, <2>2, <2>3, ReconfigureCounts DEF CountInv
<1>5. CASE HandleTimer
  <2>1. st' = st \/ st'.timer = None
    BY <1>1, <1>5 DEF HandleTimer, State
  <2>2. QED  BY <1>5, <2>1 DEF HandleTimer, CountInv, Counted
<1>6. CASE Idle
  <2>1. st' = st \/ st'.timer = None
    <3>1. st.cur.idle \in Rates
      BY <1>1 DEF State, Setting
    <3>2. SetRate(st, st.cur.idle) \in State
      BY <1>1, <3>1, SetRateKeeps
    <3>3. QED  BY <1>6, <3>2 DEF Idle, SwitchToIdle, State
  <2>2. QED  BY <1>6, <2>1 DEF Idle, CountInv, Counted
<1>7. CASE HandleFg
  <2>1. /\ sinceInput' = sinceInput
        /\ (st' = st \/ st' = HandleFgChange(st, Head(fgs)))
    BY <1>7 DEF HandleFg
  <2>2. Head(fgs) \in Pkgs
    <3>1. 1 \in DOMAIN batch /\ batch[1] = "fg"
      BY <1>1, <1>7 DEF HandleFg, Handle, TypeOK
    <3>2. fgs # <<>> /\ fgs \in Seq(Pkgs)
      BY <1>1, <3>1 DEF RefreshInv, BatchInv, TypeOK
    <3>3. QED  BY <3>2
  <2>3. QED  BY <1>1, <2>1, <2>2, FgChangeCounts DEF CountInv
<1>8. CASE UNCHANGED <<st, sinceInput>>
  BY <1>8 DEF CountInv, Counted
<1>9. QED  BY <1>2, <1>3, <1>4, <1>5, <1>6, <1>7, <1>8
  DEF Next, Refresh, Web, EpollWait, BatchDone, HandleWake, CheckConfig, LoadGlobal, WakeInput,
      SendInput, Truncate, Foreground, Write, SetFlag, WakeConfig, threadVars, vars

LEMMA CountInvariance == Spec => []CountInv
<1>1. Init => CountInv
  BY DEF Init, CountInv, Counted
<1>2. QED  BY <1>1, CountKept, Invariance, PTL DEF Spec

-----------------------------------------------------------------------------
(* Theorems *)

\* The variables of the refresh-rate thread and of those who wake it keep their types.
THEOREM RefreshTypes == Spec => []TypeOK
<1>1. RefreshInv => TypeOK
  BY DEF RefreshInv
<1>2. QED  BY <1>1, Invariance, PTL

\* Once the thread waits and no announcement is under way, it works by what the file says.
THEOREM SavesAttended == Spec => []ReloadNotMissed
<1>1. RefreshInv => ReloadNotMissed
  BY DEF RefreshInv, FileInv, Loaded, ReloadNotMissed
<1>2. QED  BY <1>1, Invariance, PTL

\* Between two rounds the rate on the screen is one of the foreground's package.
THEOREM RateFollowsForeground == Spec => []RateOfForeground
<1>1. RefreshInv => RateOfForeground
  BY DEF RefreshInv, RateInv, RateOfForeground
<1>2. QED  BY <1>1, Invariance, PTL

\* A timer that the thread takes for running is armed.
THEOREM TimerBelieved == Spec => []TimerArmed
<1>1. RefreshInv => TimerArmed
  BY DEF RefreshInv, TimerInv, TimerArmed
<1>2. QED  BY <1>1, Invariance, PTL

\* The idle rate is not set under the user's fingers: a timer that expired was set the
\* timeout ago, and the last input that was looked at was so too, or at least Slack seconds ago.
THEOREM IdleIsNotEarly == Spec => IdleNotEarly
<1>1. RefreshInv /\ CountInv =>
        (pc = "batch" /\ pc' = "idle" /\ st.timer = 0 /\ sinceInput # None =>
           sinceInput >= st.cur.timeout \/ sinceInput >= Slack)
  <2>1. SUFFICES ASSUME RefreshInv, CountInv, st.timer = 0, sinceInput # None
                 PROVE  sinceInput >= st.cur.timeout \/ sinceInput >= Slack
    OBVIOUS
  <2>2. 0 + sinceInput >= st.cur.timeout \/ 0 + sinceInput >= Slack
    BY <2>1, NoneIsNothing DEF CountInv, Counted
  <2>3. sinceInput \in Ages
    BY <2>1 DEF RefreshInv, TypeOK
  <2>4. QED  BY <2>2, <2>3 DEF Ages
<1>2. QED  BY <1>1, Invariance, CountInvariance, PTL DEF IdleNotEarly
================================================================================
