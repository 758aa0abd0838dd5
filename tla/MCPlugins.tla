----------------------------- MODULE MCPlugins ------------------------------
(* Small instances of PluginSystem for TLC: every driver, in the image or  *)
(* to be downloaded, has the name of the one engine it serves.             *)
EXTENDS PluginSystem

OwnEngine == [d \in Drivers |-> {d}]
OwnName == [e \in Engines |-> e]
=============================================================================
