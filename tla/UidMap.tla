-------------------------------- MODULE UidMap --------------------------------
(***************************************************************************)
(* The map from user ids to packages of process_observer.rs: loaded from   *)
(* packages.list at the start, and again before a look-up when the         *)
(* modification time of the list, in whole seconds, is not the one noted.  *)
(* The time is noted after the content has been read.  The calls of the    *)
(* observer are oneway and arrive one at a time.                           *)
(***************************************************************************)
EXTENDS Integers

VARIABLES
  list,      \* packages.list: number of the last write, its second, first write in that second
  map, noted, \* UID_MAP: the write it is of, 0 for none, and last_mtime
  obs,       \* the observer's thread: place, what it has read; history: what its event found
             \* written (since), and that it could not read the list or its time (failed)
  torn,      \* history: the list changed between the content and the time in hand
  late       \* history: so it did for what is in the map

uidVars == <<list, map, noted, obs, torn, late>>

NoTime == -1
Waiting == [at |-> "idle", no |-> 0, mtime |-> NoTime, since |-> 0, failed |-> FALSE]

UidTypeOK ==
  /\ list \in [no : Nat, mtime : Nat, first : Nat]
  /\ map \in Nat /\ noted \in Int
  /\ obs \in [at : {"idle", "check", "read", "stat", "store", "lookup"}, no : Nat,
              mtime : Int, since : Nat, failed : BOOLEAN]
  /\ torn \in BOOLEAN /\ late \in BOOLEAN

\* init_uid_map has loaded the list.
UidInit ==
  /\ list = [no |-> 1, mtime |-> 1, first |-> 1]
  /\ map = 1 /\ noted = 1
  /\ obs = Waiting
  /\ torn = FALSE /\ late = FALSE

\* The daemon is killed and started again: init_uid_map loads the list, if it can.
UidRestart ==
  /\ \/ map' = list.no /\ noted' = list.mtime
     \/ map' = 0 /\ noted' = NoTime
  /\ obs' = Waiting
  /\ torn' = FALSE /\ late' = FALSE
  /\ UNCHANGED list

\* A package is installed or removed, in the same second as the last time or later.
Install ==
  /\ \/ list' = [list EXCEPT !.no = @ + 1]
     \/ list' = [no |-> list.no + 1, mtime |-> list.mtime + 1, first |-> list.no + 1]
  /\ torn' = (torn \/ (obs.at = "stat" /\ list'.mtime # list.mtime))
  /\ UNCHANGED <<map, noted, obs, late>>

\* on_transact: an application comes to the foreground.
FgChanged ==
  /\ obs.at = "idle"
  /\ obs' = [Waiting EXCEPT !.at = "check", !.since = list.first]
  /\ UNCHANGED <<list, map, noted, torn, late>>

\* The time of the list, if it can be had.
Times == {list.mtime, NoTime}

\* Mutant: once loaded, the list is not loaded again.
CheckMtimeOnce ==
  /\ obs.at = "check"
  /\ obs' = [obs EXCEPT !.at = IF noted # NoTime THEN "lookup" ELSE "read"]
  /\ UNCHANGED <<list, map, noted, torn, late>>

\* reload_if_mtime_changed
CheckMtime ==
  /\ obs.at = "check"
  /\ \E m \in Times :
       obs' = [obs EXCEPT !.at = IF noted = m THEN "lookup" ELSE "read",
                          !.failed = noted = m /\ m = NoTime]
  /\ UNCHANGED <<list, map, noted, torn, late>>

\* load_packages_list reads the content, or gives up and leaves the map as it is, ...
ReadList ==
  /\ obs.at = "read"
  /\ \/ obs' = [obs EXCEPT !.at = "stat", !.no = list.no] /\ torn' = FALSE
     \/ obs' = [obs EXCEPT !.at = "lookup", !.failed = TRUE] /\ UNCHANGED torn
  /\ UNCHANGED <<list, map, noted, late>>

\* ... takes the time ...
StatList ==
  /\ obs.at = "stat"
  /\ \E m \in Times : obs' = [obs EXCEPT !.at = "store", !.mtime = m]
  /\ UNCHANGED <<list, map, noted, torn, late>>

\* ... and stores both.
StoreMap ==
  /\ obs.at = "store"
  /\ map' = obs.no /\ noted' = obs.mtime
  /\ late' = torn
  /\ obs' = [obs EXCEPT !.at = "lookup"]
  /\ UNCHANGED <<list, torn>>

\* get_package_name, and the message to the refresh thread.
LookUp ==
  /\ obs.at = "lookup"
  /\ obs' = Waiting
  /\ UNCHANGED <<list, map, noted, torn, late>>

UidStep == CheckMtime \/ ReadList \/ StatList \/ StoreMap \/ LookUp

\* When the map is used it knows what was written before the application came to the
\* foreground (process_observer.rs:243), with three exceptions: what was written in the
\* second of the last write, after the first write of that second; a list that was written,
\* in another second, between its content and its time being read (late), which later events
\* do not repair; and an event that cannot read the list or its time (failed).
LookupFresh == obs.at = "lookup" => map >= obs.since \/ late \/ obs.failed
=============================================================================
