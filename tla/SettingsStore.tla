----------------------------- MODULE SettingsStore -----------------------------
(***************************************************************************)
(* AppOpt.json (web.rs Settings, settings_load, settings_save,             *)
(* config_set_api; the start of main.rs).  A web thread stores the fields  *)
(* of a request one by one, then takes a snapshot of all fields one by     *)
(* one, and only then takes SAVE_LOCK to write it to a temporary file and   *)
(* rename that over AppOpt.json.  The main thread saves once when it       *)
(* starts.  The process may be killed between any two steps and is then    *)
(* started again, perhaps with values on its command line.                 *)
(***************************************************************************)
EXTENDS Naturals, FiniteSets, SequencesExt

CONSTANTS
  Fields,   \* the order in which fields are stored and read: a sequence without repetitions
  Values,   \* values of a field
  Default,  \* the default settings
  Web,      \* web threads
  Main,     \* the main thread
  None,     \* nobody, or no file
  MaxEvents, \* bound: events of the observer, and requests, which count as Cost events
  Cost,
  MaxKills  \* bound: crashes

Savers == Web \cup {Main}
Names == Range(Fields)
Settings == [Names -> Values]

ASSUME StoreAssumption ==
  /\ Fields \in Seq(Names)
  /\ Default \in Settings /\ None \notin Settings \cup Savers /\ Main \notin Web
  /\ MaxEvents \in Nat /\ Cost \in Nat /\ MaxKills \in Nat

VARIABLES
  mem,    \* the atomics and CONFIG_FILE: field -> value
  disk,   \* AppOpt.json: settings, or None
  tmp,    \* AppOpt.json.tmp: settings, or None while it is empty or partly written
  holder, \* who holds SAVE_LOCK
  saver,  \* thread -> what it is at: place, request, fields still to go, snapshot, its number
  spent, kills, \* what events and crashes there were, against their bounds
  taken,  \* history: snapshots begun so far
  newest, \* history: number of the newest snapshot whose save has ended
  behind  \* history: a save failed, or put an older snapshot over a newer one

storeVars == <<mem, disk, tmp, holder, saver, spent, kills, taken, newest, behind>>

\* Values for some of the fields: a request, or a command line.
PartialSettings == UNION {[S -> Values] : S \in SUBSET Names}

Spend(n) == spent + n <= MaxEvents /\ spent' = spent + n

Idle == [at |-> "idle", req |-> <<>>, left |-> <<>>, snap |-> Default, no |-> 0]
At(t, place) == saver[t].at = place

\* Two saves and a crash at any moment never leave a mutilated AppOpt.json behind, which
\* would be read as the default settings: disk is never None.
StoreTypeOK ==
  /\ mem \in Settings /\ disk \in Settings /\ tmp \in Settings \cup {None}
  /\ holder \in Savers \cup {None}
  /\ saver \in [Savers ->
       [at : {"idle", "set", "snap", "create", "write", "rename"}, req : PartialSettings,
        left : Seq(Names), snap : Settings, no : Nat]]
  /\ behind \in BOOLEAN

-----------------------------------------------------------------------------
(* config_set_api: the fields, then settings_save *)

Request(t, req) ==
  /\ At(t, "idle") /\ Spend(Cost)
  /\ saver' = [saver EXCEPT ![t] = [Idle EXCEPT !.at = "set", !.req = req, !.left = Fields]]
  /\ UNCHANGED <<mem, disk, tmp, holder, kills, taken, newest, behind>>

\* One field after the other is stored, if the request names it.
SetField(t) ==
  /\ At(t, "set") /\ saver[t].left # <<>>
  /\ LET f == Head(saver[t].left)
     IN  mem' = [mem EXCEPT ![f] = IF f \in DOMAIN saver[t].req THEN saver[t].req[f] ELSE @]
  /\ saver' = [saver EXCEPT ![t].left = Tail(@)]
  /\ UNCHANGED <<disk, tmp, holder, spent, kills, taken, newest, behind>>

\* settings_save reads every field ...
BeginSnapshot(t) ==
  /\ At(t, "set") /\ saver[t].left = <<>>
  /\ taken' = taken + 1
  /\ saver' = [saver EXCEPT ![t] = [Idle EXCEPT !.at = "snap", !.left = Fields, !.no = taken + 1]]
  /\ UNCHANGED <<mem, disk, tmp, holder, spent, kills, newest, behind>>

ReadField(t) ==
  /\ At(t, "snap") /\ saver[t].left # <<>>
  /\ LET f == Head(saver[t].left)
     IN  saver' = [saver EXCEPT ![t].snap[f] = mem[f], ![t].left = Tail(@)]
  /\ UNCHANGED <<mem, disk, tmp, holder, spent, kills, taken, newest, behind>>

\* Mutant: Settings::save without the lock.
LockNot(t) ==
  /\ At(t, "snap") /\ saver[t].left = <<>>
  /\ saver' = [saver EXCEPT ![t].at = "create"]
  /\ UNCHANGED <<mem, disk, tmp, holder, spent, kills, taken, newest, behind>>

\* ... and Settings::save takes the lock after that.
Lock(t) ==
  /\ At(t, "snap") /\ saver[t].left = <<>> /\ holder = None
  /\ holder' = t
  /\ saver' = [saver EXCEPT ![t].at = "create"]
  /\ UNCHANGED <<mem, disk, tmp, spent, kills, taken, newest, behind>>

Create(t) ==
  /\ At(t, "create")
  /\ tmp' = None
  /\ saver' = [saver EXCEPT ![t].at = "write"]
  /\ UNCHANGED <<mem, disk, holder, spent, kills, taken, newest, behind>>

Write(t) ==
  /\ At(t, "write")
  /\ tmp' = saver[t].snap
  /\ saver' = [saver EXCEPT ![t].at = "rename"]
  /\ UNCHANGED <<mem, disk, holder, spent, kills, taken, newest, behind>>

Larger(m, n) == IF m < n THEN n ELSE m

Rename(t) ==
  /\ At(t, "rename")
  /\ disk' = tmp /\ tmp' = None
  /\ newest' = Larger(newest, saver[t].no)
  /\ behind' = (saver[t].no < newest)
  /\ holder' = None
  /\ saver' = [saver EXCEPT ![t] = Idle]
  /\ UNCHANGED <<mem, spent, kills, taken>>

\* The disk is full, or read-only: a warning, and the request is answered as if saved.
SaveFails(t) ==
  /\ saver[t].at \in {"create", "write", "rename"}
  /\ newest' = Larger(newest, saver[t].no)
  /\ behind' = (behind \/ saver[t].no > newest)
  /\ holder' = None
  /\ saver' = [saver EXCEPT ![t] = Idle]
  /\ UNCHANGED <<mem, disk, tmp, spent, kills, taken>>

-----------------------------------------------------------------------------
(* main: settings_load, the command line, and a first save when the web server is on *)

Starting(saved, cli) ==
  [mem |-> [f \in Names |-> IF f \in DOMAIN cli THEN cli[f] ELSE saved[f]],
   saver |-> [t \in Savers |-> IF t = Main THEN [Idle EXCEPT !.at = "set"] ELSE Idle]]

\* Mutant: the command line is used, and not saved.
RestartUnsaved(cli) ==
  /\ kills < MaxKills
  /\ kills' = kills + 1
  /\ mem' = Starting(disk, cli).mem
  /\ saver' = [t \in Savers |-> Idle]
  /\ holder' = None /\ taken' = 0 /\ newest' = 0 /\ behind' = FALSE
  /\ UNCHANGED <<disk, tmp, spent>>

\* Killed and started again: what was in memory is gone, a temporary file may be left.
Restart(cli) ==
  /\ kills < MaxKills
  /\ kills' = kills + 1
  /\ mem' = Starting(disk, cli).mem
  /\ saver' = Starting(disk, cli).saver
  /\ holder' = None /\ taken' = 0 /\ newest' = 0 /\ behind' = FALSE
  /\ UNCHANGED <<disk, tmp, spent>>

\* The first start found no file, has written the default settings, and is over.
StoreInit ==
  /\ mem = Default /\ disk = Default /\ tmp = None
  /\ saver = [t \in Savers |-> Idle]
  /\ holder = None /\ spent = 0 /\ kills = 0 /\ taken = 0 /\ newest = 0 /\ behind = FALSE

SaveStep(t) ==
  \/ SetField(t) \/ BeginSnapshot(t) \/ ReadField(t)
  \/ Lock(t) \/ Create(t) \/ Write(t) \/ Rename(t) \/ SaveFails(t)

-----------------------------------------------------------------------------
(* Properties *)

\* Whenever no save is under way, AppOpt.json holds what is in memory, so that a restart
\* loses nothing that was answered -- unless an older snapshot overtook a newer one on the
\* way to the lock, or the write failed, neither of which any answer tells.
SavedWhenIdle == (\A t \in Savers : At(t, "idle")) => disk = mem \/ behind
=============================================================================
