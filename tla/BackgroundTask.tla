--------------------------- MODULE BackgroundTask ---------------------------
(***************************************************************************)
(* What contract.BackgroundTask promises the kernel once Start has         *)
(* returned it (benchkit/contract/types.go): Done completes once, with a   *)
(* fatal error or without, and says that the worker has exited; Stop waits *)
(* for that and publishes what the worker has done, all of it, once.       *)
(***************************************************************************)

VARIABLES
  done,      \* Done: "open", or completed: "failed" with an error, "closed" without
  work,      \* what the worker has done, whatever that is
  stop,      \* the last call of Stop: "none", "waiting", "gaveUp", "ok" or "err"
  published  \* nothing, or what the outputs say of the work, and the answer of Stop

vars == <<done, work, stop, published>>

Init == done = "open" /\ stop = "none" /\ published = <<>>

\* The worker works, until it exits.
Work == done = "open" /\ UNCHANGED <<done, stop, published>>

Exit ==
  /\ done = "open" /\ done' \in {"failed", "closed"}
  /\ UNCHANGED <<work, stop, published>>

\* The kernel calls Stop, the plugin server perhaps again.
Stop == stop # "waiting" /\ stop' = "waiting" /\ UNCHANGED <<done, work, published>>

\* The context of the call is over before the worker has exited, or after.
GiveUp == stop = "waiting" /\ stop' = "gaveUp" /\ UNCHANGED <<done, work, published>>

\* The first call that sees the worker gone publishes, also when that fails;
Publish ==
  /\ stop = "waiting" /\ done # "open" /\ published = <<>>
  /\ stop' \in {"ok", "err"} /\ published' = <<[work |-> work, answer |-> stop']>>
  /\ UNCHANGED <<done, work>>

\* every later one repeats its answer.
Repeat ==
  /\ stop = "waiting" /\ published # <<>>
  /\ stop' = published[1].answer
  /\ UNCHANGED <<done, work, published>>

Next == Work \/ Exit \/ Stop \/ GiveUp \/ Publish \/ Repeat

Spec == Init /\ [][Next]_vars
=============================================================================
