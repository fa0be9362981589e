---------------------------- MODULE ConfigRegister ----------------------------
(***************************************************************************)
(* What the threads that parse the configuration and the main thread       *)
(* promise each other: CURRENT_CONFIG is stored and then CONFIG_UPDATED     *)
(* set; the main thread swaps the flag and then reads the configuration,   *)
(* and works by it if the flag was set (config.rs config_reload, main.rs). *)
(* EbpfMode implements this specification with the whole rescan as the     *)
(* work, ConfigReload with files, watches and several parsing threads      *)
(* behind the store.                                                       *)
(***************************************************************************)
EXTENDS Integers

CONSTANT Configs

VARIABLES
  current,     \* CURRENT_CONFIG
  updated,     \* CONFIG_UPDATED
  unannounced, \* number of threads between the store and the flag
  stage,       \* main thread: "swap" or "read"
  changed,     \* main thread: config_changed
  used         \* the configuration the main thread has last worked by

vars == <<current, updated, unannounced, stage, changed, used>>

Init ==
  /\ current \in Configs /\ used \in Configs
  /\ updated = TRUE /\ unannounced = 0
  /\ stage = "swap" /\ changed = FALSE

Publish ==
  /\ current' \in Configs
  /\ unannounced' = unannounced + 1
  /\ UNCHANGED <<updated, stage, changed, used>>

Announce ==
  /\ unannounced > 0
  /\ updated' = TRUE
  /\ unannounced' = unannounced - 1
  /\ UNCHANGED <<current, stage, changed, used>>

Swap ==
  /\ stage = "swap"
  /\ stage' = "read"
  /\ changed' = updated
  /\ updated' = FALSE
  /\ UNCHANGED <<current, unannounced, used>>

Take ==
  /\ stage = "read"
  /\ stage' = "swap"
  /\ used' = IF changed THEN current ELSE used
  /\ changed' = FALSE
  /\ UNCHANGED <<current, updated, unannounced>>

Next == Publish \/ Announce \/ Swap \/ Take

Spec == Init /\ [][Next]_vars

\* Once nothing is outstanding the main thread works by the configuration that
\* was stored last: the order store, flag / flag, read loses no update.
Fresh == stage = "swap" /\ ~updated /\ unannounced = 0 => used = current

\* Fresh with what is known between the two steps of the main thread.
FreshInv ==
  /\ unannounced \in Nat
  /\ stage \in {"swap", "read"}
  /\ ~updated /\ unannounced = 0 =>
       /\ stage = "swap" => used = current
       /\ stage = "read" => changed \/ used = current
=============================================================================
