--------------------------- MODULE MCPluginServer ---------------------------
(* Instances of PluginServer for TLC.                                      *)
EXTENDS PluginServer, TLC

CONSTANTS t1, t2

\* The first task is asked to stop twice, the second never.
MCStops == (t1 :> 2) @@ (t2 :> 0)
=============================================================================
