-------------------------------- MODULE Stores --------------------------------
(***************************************************************************)
(* The files of the daemon other than the rules: AppOpt.json and           *)
(* refresh_config.conf, which the web threads write, each thread one       *)
(* request at a time, and packages.list, which it only reads.  A crash     *)
(* strikes all of them.                                                    *)
(***************************************************************************)
EXTENDS SettingsStore, UidMap

CONSTANTS
  Keys, Pkgs, Note, Rates, FirstFiles, \* of RefreshConfig
  Requests,     \* requests to config_set_api: values for some of the settings
  CommandLines  \* values given at a restart

VARIABLES file, editor
Refresh == INSTANCE RefreshConfig

ASSUME RequestAssumption ==
  /\ Requests \subseteq PartialSettings /\ CommandLines \subseteq PartialSettings
  /\ Keys \in Seq(Range(Keys)) /\ FirstFiles \subseteq Seq(Refresh!Line)

vars == <<storeVars, uidVars, file, editor>>

TypeOK == StoreTypeOK /\ UidTypeOK /\ Refresh!EditTypeOK

Init == StoreInit /\ UidInit /\ Refresh!EditInit

\* A thread that is free takes a request, as long as the bound lasts.
Free(t) == At(t, "idle") /\ ~Refresh!Editing(t)
StoreSame == UNCHANGED <<mem, disk, tmp, holder, saver, kills, taken, newest, behind>>

ConfigSet(t) ==
  /\ Free(t)
  /\ \E req \in Requests : Request(t, req)
  /\ UNCHANGED <<uidVars, file, editor>>

RefreshSet(t) ==
  /\ Free(t) /\ Spend(Cost)
  /\ \/ \E vals \in [Range(Keys) -> Rates] : Refresh!SetGlobal(t, vals)
     \/ \E p \in Pkgs, v \in Rates : Refresh!AddPkg(t, p, v)
     \/ \E p \in Pkgs : Refresh!DelPkg(t, p)
  /\ StoreSame /\ UNCHANGED uidVars

RefreshWrite(t) ==
  /\ Refresh!TruncateFile(t) \/ Refresh!FillFile(t)
  /\ UNCHANGED <<storeVars, uidVars>>

Save == (\E t \in Savers : SaveStep(t)) /\ UNCHANGED <<uidVars, file, editor>>

\* Installations and foreground changes count as events as well.
System == Install \/ FgChanged
Observer == System /\ Spend(1) /\ StoreSame /\ UNCHANGED <<file, editor>>
Observe == UidStep /\ UNCHANGED <<storeVars, file, editor>>

\* A file that was being written stays as it is, a load starts anew.
Kill ==
  /\ \E cli \in CommandLines : Restart(cli)
  /\ editor' = [t \in Web |-> Refresh!Resting]
  /\ UidRestart
  /\ UNCHANGED file

Next ==
  \/ Save \/ Observer \/ Observe \/ Kill
  \/ \E t \in Web : ConfigSet(t) \/ RefreshSet(t) \/ RefreshWrite(t)

Spec == Init /\ [][Next]_vars

\* A save of refresh_config.conf that no other save overlaps and no crash cuts short leaves
\* every other package, setting and line as it was (refresh.rs:500), and the loader reads the
\* new values -- but of a package that somebody has written down twice it goes on reading the
\* last line.
SaveKeepsRest == [][kills' = kills => Refresh!KeepsRest]_vars
=============================================================================
