------------------------------- MODULE MCReload -------------------------------
(* Two files and one web thread. *)
EXTENDS ConfigReload

CONSTANTS a, b, none, web, loader

MCPaths == {a, b}
MCHandlers == {web}
=============================================================================
