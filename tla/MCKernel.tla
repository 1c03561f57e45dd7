------------------------------ MODULE MCKernel ------------------------------
(* Instances of Kernel for TLC.                                            *)
EXTENDS Kernel

\* A background unit before and between the foreground units.
BackgroundPair == {1, 3}
=============================================================================
