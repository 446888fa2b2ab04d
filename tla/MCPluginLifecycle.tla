--------------------------- MODULE MCPluginLifecycle ---------------------------
(* Instances of PluginLifecycle for TLC. *)
EXTENDS PluginLifecycle, TLC
================================================================================
