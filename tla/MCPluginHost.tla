---------------------------- MODULE MCPluginHost ----------------------------
(* Instances of PluginHost for TLC.                                        *)
EXTENDS PluginHost, TLC

\* The tasks are interchangeable.
TaskSymmetry == Permutations(Tasks)
=============================================================================
