---------------------------- MODULE SessionPool ----------------------------
(***************************************************************************)
(* The WKProto sessions: Pool and Unit.Run of                              *)
(* units/wkproto/session_pool/unit.go, and wkClient of client.go with the  *)
(* server at the other end of each connection.                             *)
(*                                                                         *)
(* The pool connects one client per identity.  Then the goroutines of the  *)
(* traffic units call SendAndWaitAck: one call at a time on each client,   *)
(* which writes the send and reads frames until its sendack comes or its   *)
(* deadline passes.  When the run is over the pool is closed, and calls    *)
(* may still be in progress.                                               *)
(*                                                                         *)
(* A call is a request r: the client it is made on is Via[r], its          *)
(* ClientMsgNo is NoOf[r].  Payloads, keys and encryption are left out;    *)
(* every unit of the program gives a ClientMsgNo, so clientSeq, which only *)
(* stands in for a missing one, is left out too.                           *)
(***************************************************************************)
EXTENDS Naturals, Sequences, FiniteSets

CONSTANTS
  Clients,    \* the clients of the pool, one per identity
  Requests,   \* the calls of SendAndWaitAck
  NoRequest,  \* no call at all
  Via,        \* the client of each call
  NoOf,       \* the ClientMsgNo of each call
  MaxPush     \* a bound on the frames the server sends unasked

ASSUME NoRequestAssumption == NoRequest \notin Requests
ASSUME ViaAssumption == Via \in [Requests -> Clients]
ASSUME PushAssumption == MaxPush \in Nat

VARIABLES
  pool,      \* where Unit.Run and the life of the pool are
  conn,      \* the connection of each client
  opMu,      \* the call that holds the client's opMu, or NoRequest
  at,        \* where each call is
  runCtx,    \* the context of the run
  inbox,     \* the requests each server has got and not answered
  down,      \* the frames on their way to the client
  torn,      \* a deadline has cut a frame in two: the stream is out of step
  pushed,    \* how many frames were sent unasked
  acked      \* history: the requests the server has acknowledged as successful

vars == <<pool, conn, opMu, at, runCtx, inbox, down, torn, pushed, acked>>
poolVars == <<pool, conn, runCtx>>
callVars == <<opMu, at>>
wireVars == <<inbox, down, torn, pushed, acked>>

Ack(r, ok) == [kind |-> "ack", no |-> NoOf[r], ok |-> ok]
Recv == [kind |-> "recv", no |-> NoRequest, ok |-> TRUE]

Init ==
  /\ pool = "connecting" /\ runCtx = "live"
  /\ conn = [c \in Clients |-> "none"]
  /\ opMu = [c \in Clients |-> NoRequest]
  /\ at = [r \in Requests |-> "none"]
  /\ inbox = [c \in Clients |-> {}]
  /\ down = [c \in Clients |-> <<>>]
  /\ torn = [c \in Clients |-> FALSE]
  /\ pushed = 0 /\ acked = {}

-----------------------------------------------------------------------------
(* Unit.Run and Pool.Close.                                                *)

\* A client is dialled only when those before it are connected.
Dial(c) ==
  /\ pool = "connecting"
  /\ conn[c] = "none" /\ \A d \in Clients : conn[d] \in {"none", "open", "reset"}
  /\ \/ /\ runCtx = "live"
        /\ conn' = [conn EXCEPT ![c] = "dialed"]
        /\ UNCHANGED pool
     \/ /\ pool' = "failing"
        /\ UNCHANGED conn
  /\ UNCHANGED <<callVars, runCtx, wireVars>>

\* readFrame looks at the context once more after the connack.
Connected(c) ==
  /\ conn[c] = "dialed" /\ runCtx = "live"
  /\ conn' = [conn EXCEPT ![c] = "open"]
  /\ UNCHANGED <<pool, callVars, runCtx, wireVars>>

\* No connack, or a refusal: NewProductionClient closes the client, and Run the
\* pool, which does not hold it.
LeaveOpen(c) == UNCHANGED conn
CloseOwn(c) == conn' = [conn EXCEPT ![c] = "closed"]
ConnectFails(c) ==
  /\ conn[c] = "dialed"
  /\ CloseOwn(c)
  /\ pool' = "failing"
  /\ UNCHANGED <<callVars, runCtx, wireVars>>

\* Every identity has its client: the pool is an output.
PoolReady ==
  /\ pool = "connecting"
  /\ \A c \in Clients : conn[c] \in {"open", "reset"}
  /\ pool' = "ready"
  /\ UNCHANGED <<conn, callVars, runCtx, wireVars>>

\* The units have returned, which they do with calls in progress only when their
\* context is over: the kernel closes its outputs.
StartClose ==
  /\ pool = "ready"
  /\ runCtx = "live" => \A r \in Requests : at[r] \in {"none", "ok", "err"}
  /\ pool' = "closing"
  /\ UNCHANGED <<conn, callVars, runCtx, wireVars>>

\* Pool.Close, one client after the other.
InPool(c) == conn[c] \in {"open", "reset"}
CloseClient(c) ==
  /\ pool \in {"failing", "closing"}
  /\ InPool(c)
  /\ conn' = [conn EXCEPT ![c] = "closed"]
  /\ UNCHANGED <<pool, callVars, runCtx, wireVars>>

PoolClosed ==
  /\ pool \in {"failing", "closing"}
  /\ \A c \in Clients : ~InPool(c)
  /\ pool' = IF pool = "failing" THEN "failed" ELSE "closed"
  /\ UNCHANGED <<conn, callVars, runCtx, wireVars>>

RunCancelled ==
  /\ runCtx = "live"
  /\ runCtx' = "cancelled"
  /\ UNCHANGED <<pool, conn, callVars, wireVars>>

-----------------------------------------------------------------------------
(* SendAndWaitAck.                                                         *)

Call(r) ==
  /\ pool = "ready" /\ at[r] = "none"
  /\ at' = [at EXCEPT ![r] = "lock"]
  /\ UNCHANGED <<poolVars, opMu, wireVars>>

UnlockOnSuccess(r) ==
  opMu' = IF at'[r] = "ok" THEN [opMu EXCEPT ![Via[r]] = NoRequest] ELSE opMu
Unlock(r) == opMu' = [opMu EXCEPT ![Via[r]] = NoRequest]

\* The call returns, and gives opMu back.
Return(r, result) ==
  /\ at' = [at EXCEPT ![r] = result]
  /\ Unlock(r)

\* The lock is waited for without the context; the deadline is set after it.
Free(c) == opMu[c] = NoRequest
Lock(r) ==
  /\ at[r] = "lock" /\ Free(Via[r])
  /\ opMu' = [opMu EXCEPT ![Via[r]] = r]
  /\ at' = [at EXCEPT ![r] = "write"]
  /\ UNCHANGED <<poolVars, wireVars>>

\* The send is written whatever has become of the context, which is looked at
\* afterwards; the deadline may have passed as well.
Write(r) ==
  /\ at[r] = "write" /\ conn[Via[r]] = "open"
  /\ inbox' = [inbox EXCEPT ![Via[r]] = @ \cup {r}]
  /\ \/ /\ runCtx = "live"
        /\ at' = [at EXCEPT ![r] = "read"]
        /\ UNCHANGED opMu
     \/ Return(r, "err")
  /\ UNCHANGED <<poolVars, down, torn, pushed, acked>>

\* The connection is closed or broken, or the deadline stops the write.
WriteFails(r) ==
  /\ at[r] = "write"
  /\ Return(r, "err")
  /\ UNCHANGED <<poolVars, wireVars>>

\* sendackMatchesRequest.
MatchesAny(f, r) == f.kind = "ack"
Matches(f, r) == f.kind = "ack" /\ f.no = NoOf[r]

\* A frame is read, and passed over when it is not the sendack. The call fails on
\* any frame, its sendack too, when the context is over by then, and on a message
\* that cannot be decrypted.
Read(r) ==
  LET c == Via[r]  f == Head(down[c]) IN
  /\ at[r] = "read" /\ conn[c] \in {"open", "reset"} /\ ~torn[c] /\ down[c] # <<>>
  /\ down' = [down EXCEPT ![c] = Tail(@)]
  /\ \/ runCtx = "live" /\ Matches(f, r) /\ Return(r, IF f.ok THEN "ok" ELSE "err")
     \/ runCtx = "live" /\ ~Matches(f, r) /\ UNCHANGED callVars
     \/ Return(r, "err")
  /\ UNCHANGED <<poolVars, inbox, torn, pushed, acked>>

\* The connection is closed by the pool or reset by the server, or what comes is
\* not a frame.
ReadFails(r) ==
  /\ at[r] = "read" /\ (conn[Via[r]] # "open" \/ torn[Via[r]])
  /\ Return(r, "err")
  /\ UNCHANGED <<poolVars, wireVars>>

\* The deadline passes: before a frame, or in the middle of one, which is then
\* lost and leaves the stream out of step.
TimesOut(r) ==
  LET c == Via[r] IN
  /\ at[r] = "read"
  /\ Return(r, "err")
  /\ \/ UNCHANGED <<down, torn>>
     \/ /\ down[c] # <<>> /\ conn[c] = "open"
        /\ down' = [down EXCEPT ![c] = Tail(@)]
        /\ torn' = [torn EXCEPT ![c] = TRUE]
  /\ UNCHANGED <<poolVars, inbox, pushed, acked>>

-----------------------------------------------------------------------------
(* The servers.                                                            *)

\* A send is answered, in any order.
Answer(c, r, ok) ==
  /\ conn[c] = "open" /\ r \in inbox[c]
  /\ inbox' = [inbox EXCEPT ![c] = @ \ {r}]
  /\ down' = [down EXCEPT ![c] = Append(@, Ack(r, ok))]
  /\ acked' = IF ok THEN acked \cup {r} ELSE acked
  /\ UNCHANGED <<poolVars, callVars, torn, pushed>>

\* A message for this user, a pong.
Push(c) ==
  /\ conn[c] = "open" /\ pushed < MaxPush
  /\ pushed' = pushed + 1
  /\ down' = [down EXCEPT ![c] = Append(@, Recv)]
  /\ UNCHANGED <<poolVars, callVars, inbox, torn, acked>>

Reset(c) ==
  /\ conn[c] = "open"
  /\ conn' = [conn EXCEPT ![c] = "reset"]
  /\ UNCHANGED <<pool, runCtx, callVars, wireVars>>

-----------------------------------------------------------------------------
PoolStep == PoolReady \/ PoolClosed
            \/ \E c \in Clients : Dial(c) \/ Connected(c) \/ ConnectFails(c) \/ CloseClient(c)

Caller(r) == Lock(r) \/ Write(r) \/ WriteFails(r) \/ Read(r) \/ ReadFails(r) \/ TimesOut(r)

Over == pool \in {"failed", "closed"} /\ UNCHANGED vars

Next == \/ PoolStep \/ StartClose \/ RunCancelled
        \/ \E r \in Requests : Call(r) \/ Caller(r)
        \/ \E c \in Clients : Push(c) \/ Reset(c) \/ \E r \in Requests, ok \in BOOLEAN : Answer(c, r, ok)
        \/ Over

Spec == Init /\ [][Next]_vars

\* The goroutines take the steps they can take, and every deadline passes; the
\* servers owe nothing.
FairSpec == Spec /\ WF_vars(PoolStep) /\ \A r \in Requests : WF_vars(Caller(r))

-----------------------------------------------------------------------------
(* Properties.                                                             *)

Frames == [kind : {"ack", "recv"}, no : {NoOf[r] : r \in Requests} \cup {NoRequest}, ok : BOOLEAN]

\* Every variable stays in its domain, and opMu is held by the call that writes or
\* reads on its client (wkClient.opMu).
TypeOK ==
  /\ pool \in {"connecting", "ready", "failing", "failed", "closing", "closed"}
  /\ conn \in [Clients -> {"none", "dialed", "open", "reset", "closed"}]
  /\ opMu \in [Clients -> Requests \cup {NoRequest}]
  /\ at \in [Requests -> {"none", "lock", "write", "read", "ok", "err"}]
  /\ runCtx \in {"live", "cancelled"}
  /\ inbox \in [Clients -> SUBSET Requests]
  /\ down \in [Clients -> Seq(Frames)]
  /\ torn \in [Clients -> BOOLEAN]
  /\ pushed \in 0..MaxPush /\ acked \subseteq Requests
  /\ \A r \in Requests : at[r] \in {"write", "read"} <=> opMu[Via[r]] = r

\* The calls on a client that give the same number: two traffic units on one pool
\* count theirs each from one (runEnv.NextID).
Alike(r) == {s \in Requests : Via[s] = Via[r] /\ NoOf[s] = NoOf[r]}
Succeeded(r) == {s \in Alike(r) : at[s] = "ok"}
Acknowledged(r) == Alike(r) \cap acked

\* No sendack is counted twice, and none for a message of another number: of the calls
\* that give a number on a client, at most as many succeed as the server has acknowledged.
\* A call whose number nobody else gives succeeds only if its own message was, and never
\* on the late sendack of a call that gave up; units that share a pool may take each
\* other's, one for one (SendAndWaitAck, sendackMatchesRequest, wkClient.opMu).
AcksCountOnce ==
  \A r \in Requests : Cardinality(Succeeded(r)) <= Cardinality(Acknowledged(r))

\* The sendack of a call that waits is not taken by another call: it is still on
\* its way, as long as the connection is whole.
AckNotStolen ==
  \A r \in Requests :
    at[r] = "read" /\ r \in acked /\ conn[Via[r]] = "open" /\ ~torn[Via[r]]
      => \E i \in DOMAIN down[Via[r]] : down[Via[r]][i] = Ack(r, TRUE)

\* When Run has failed or the kernel has closed the pool no connection is left
\* open, whichever client failed and however far it had come.
NoLeak == pool \in {"failed", "closed"} => \A c \in Clients : conn[c] \in {"none", "closed"}

\* Every call returns: it may wait for the calls before it, but each of them ends
\* with its deadline at the latest.
CallReturns == \A r \in Requests : at[r] = "lock" ~> at[r] \in {"ok", "err"}
=============================================================================
