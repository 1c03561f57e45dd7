------------------------- MODULE SessionPoolProofs -------------------------
(***************************************************************************)
(* What SessionPool's safety properties rest on, and their proofs for any  *)
(* number of clients and calls.                                            *)
(***************************************************************************)
EXTENDS SessionPool, FiniteSetTheorems, TLAPS

\* Where a value occurs in a sequence.
Places(s, e) == {i \in DOMAIN s : s[i] = e}

\* The successful sendacks of a number on their way to its client.
ComingTo(r) == Places(down[Via[r]], Ack(r, TRUE))

\* The successful calls of a number and the sendacks that may make another one succeed
\* are together no more than the messages the server has acknowledged.
Balanced(r) ==
  /\ IsFiniteSet(Succeeded(r)) /\ IsFiniteSet(ComingTo(r)) /\ IsFiniteSet(Acknowledged(r))
  /\ Cardinality(Succeeded(r)) + Cardinality(ComingTo(r)) <= Cardinality(Acknowledged(r))

\* The server knows only messages that have been written.
KnownAreWritten ==
  \A r \in Requests :
    r \in acked \/ (\E c \in Clients : r \in inbox[c]) => at[r] \in {"read", "ok", "err"}

\* A server has the messages of its own connection.
InboxIsOwn == \A c \in Clients : \A r \in inbox[c] : Via[r] = c

\* A server acknowledges a message once.
NotTwice == \A c \in Clients : inbox[c] \cap acked = {}

\* One client at a time is being connected, and only before the pool is ready.
OneDialed ==
  /\ \A c \in Clients : conn[c] = "dialed" => pool = "connecting"
  /\ \A c, d \in Clients : conn[c] = "dialed" /\ conn[d] = "dialed" => c = d

Types == TypeOK /\ KnownAreWritten /\ InboxIsOwn
PoolInv == OneDialed /\ NoLeak
AckInv == NotTwice /\ \A r \in Requests : Balanced(r)

-----------------------------------------------------------------------------
\* Taking the first element off a sequence moves the others down by one.
LEMMA TailShifts ==
  ASSUME NEW S, NEW s \in Seq(S), s # <<>>
  PROVE  /\ Tail(s) \in Seq(S)
         /\ Head(s) = s[1] /\ Head(s) \in S
         /\ \A i \in DOMAIN Tail(s) : i + 1 \in DOMAIN s /\ Tail(s)[i] = s[i + 1]
         /\ \A i \in DOMAIN s : i # 1 => i - 1 \in DOMAIN Tail(s) /\ Tail(s)[i - 1] = s[i]
  BY SMT

\* Appending keeps what is there and puts the new element last.
LEMMA AppendKeeps ==
  ASSUME NEW S, NEW s \in Seq(S), NEW e \in S
  PROVE  /\ Append(s, e) \in Seq(S)
         /\ \A i \in DOMAIN s : i \in DOMAIN Append(s, e) /\ Append(s, e)[i] = s[i]
         /\ \A i \in DOMAIN Append(s, e) : i \in DOMAIN s \/ Append(s, e)[i] = e
         /\ \E i \in DOMAIN Append(s, e) : Append(s, e)[i] = e
  <1>1. Append(s, e)[Len(s) + 1] = e /\ Len(s) + 1 \in DOMAIN Append(s, e)
    BY SMT
  <1> QED BY <1>1, SMT

\* A function stays in its domain when one value is replaced by another.
LEMMA ExceptKeeps ==
  ASSUME NEW S, NEW T, NEW f \in [S -> T], NEW a \in S, NEW v \in T
  PROVE  [f EXCEPT ![a] = v] \in [S -> T]
  OBVIOUS

\* What the servers send are frames.
LEMMA FramesHold ==
  /\ \A r \in Requests, ok \in BOOLEAN : Ack(r, ok) \in Frames
  /\ Recv \in Frames
  BY DEF Ack, Recv, Frames
-----------------------------------------------------------------------------
LEMMA TypeInit == Init => Types
  BY NoRequestAssumption, ViaAssumption, PushAssumption
  DEF Init, Types, TypeOK, KnownAreWritten, InboxIsOwn

\* One step per action: each keeps the domains, the owner of opMu and what the
\* servers know.
LEMMA TypeStep == ASSUME Types, [Next]_vars PROVE Types'
  <1> USE NoRequestAssumption, ViaAssumption, PushAssumption
      DEF Types, poolVars, callVars, wireVars
  <1>1. ASSUME PoolStep \/ StartClose \/ RunCancelled \/ Over \/ UNCHANGED vars PROVE Types'
    <2>1. ASSUME NEW c \in Clients, Dial(c) PROVE Types'
      BY <2>1 DEF TypeOK, KnownAreWritten, InboxIsOwn, Dial
    <2>2. ASSUME NEW c \in Clients, Connected(c) \/ ConnectFails(c) \/ CloseClient(c) PROVE Types'
      BY <2>2 DEF TypeOK, KnownAreWritten, InboxIsOwn, Connected, ConnectFails, CloseOwn, CloseClient
    <2>3. CASE PoolReady \/ PoolClosed \/ StartClose \/ RunCancelled \/ Over \/ UNCHANGED vars
      BY <2>3 DEF TypeOK, KnownAreWritten, InboxIsOwn, PoolReady, PoolClosed, StartClose, RunCancelled, Over, vars
    <2> QED BY <1>1, <2>1, <2>2, <2>3 DEF PoolStep
  <1>2. ASSUME NEW r \in Requests, Call(r) PROVE Types'
    BY <1>2 DEF TypeOK, KnownAreWritten, InboxIsOwn, Call
  <1>3. ASSUME NEW r \in Requests, Lock(r) PROVE Types'
    BY <1>3 DEF TypeOK, KnownAreWritten, InboxIsOwn, Lock, Free
  <1>4. ASSUME NEW r \in Requests, Write(r) PROVE Types'
    <2>1. /\ inbox' \in [Clients -> SUBSET Requests]
          /\ \A s \in Requests : (\E c \in Clients : s \in inbox'[c])
                               => s = r \/ \E c \in Clients : s \in inbox[c]
          /\ \A c \in Clients : \A s \in inbox'[c] : Via[s] = c
      BY <1>4 DEF TypeOK, InboxIsOwn, Write
    <2>2. /\ at[r] = "write" /\ UNCHANGED <<poolVars, down, torn, pushed, acked>>
          /\ \/ at' = [at EXCEPT ![r] = "read"] /\ UNCHANGED opMu
             \/ Return(r, "err")
      BY <1>4 DEF Write
    <2>3. /\ at' \in [Requests -> {"none", "lock", "write", "read", "ok", "err"}]
          /\ opMu' \in [Clients -> Requests \cup {NoRequest}]
          /\ \A s \in Requests : at'[s] \in {"write", "read"} <=> opMu'[Via[s]] = s
          /\ at'[r] \in {"read", "err"} /\ \A s \in Requests \ {r} : at'[s] = at[s]
      <3>1. /\ at \in [Requests -> {"none", "lock", "write", "read", "ok", "err"}]
            /\ opMu \in [Clients -> Requests \cup {NoRequest}]
            /\ \A s \in Requests : at[s] \in {"write", "read"} <=> opMu[Via[s]] = s
        BY DEF TypeOK
      <3>2. CASE at' = [at EXCEPT ![r] = "read"] /\ UNCHANGED opMu
        BY <2>2, <3>1, <3>2
      <3>3. CASE Return(r, "err")
        BY <2>2, <3>1, <3>3 DEF Return, Unlock
      <3> QED BY <2>2, <3>2, <3>3
    <2>4. TypeOK'
      BY <2>1, <2>2, <2>3 DEF TypeOK
    <2>5. KnownAreWritten'
      BY <2>1, <2>2, <2>3 DEF KnownAreWritten
    <2> QED BY <2>1, <2>4, <2>5 DEF InboxIsOwn
  <1>5. ASSUME NEW r \in Requests, WriteFails(r) PROVE Types'
    BY <1>5 DEF TypeOK, KnownAreWritten, InboxIsOwn, WriteFails, Return, Unlock
  <1>6. ASSUME NEW r \in Requests, Read(r) PROVE Types'
    <2>1. Via[r] \in Clients /\ Tail(down[Via[r]]) \in Seq(Frames)
      BY <1>6, TailShifts DEF Read, TypeOK
    <2>2. down' \in [Clients -> Seq(Frames)]
      BY <1>6, <2>1 DEF Read, TypeOK
    <2>3. UNCHANGED callVars \/ \E res \in {"ok", "err"} : Return(r, res)
      BY <1>6 DEF Read
    <2> HIDE DEF callVars
    <2>4. CASE UNCHANGED callVars
      BY <1>6, <2>2, <2>4 DEF TypeOK, KnownAreWritten, InboxIsOwn, Read, callVars
    <2>5. CASE \E res \in {"ok", "err"} : Return(r, res)
      BY <1>6, <2>2, <2>5 DEF TypeOK, KnownAreWritten, InboxIsOwn, Read, Return, Unlock
    <2> QED BY <2>3, <2>4, <2>5
  <1>7. ASSUME NEW r \in Requests, ReadFails(r) PROVE Types'
    BY <1>7 DEF TypeOK, KnownAreWritten, InboxIsOwn, ReadFails, Return, Unlock
  <1>8. ASSUME NEW r \in Requests, TimesOut(r) PROVE Types'
    <2>1. down[Via[r]] # <<>> => Tail(down[Via[r]]) \in Seq(Frames)
      BY <1>8, TailShifts DEF TypeOK
    <2> DEFINE c == Via[r]
    <2>2. c \in Clients /\ down \in [Clients -> Seq(Frames)] /\ torn \in [Clients -> BOOLEAN]
      BY DEF TypeOK
    <2>3. \/ UNCHANGED <<down, torn>>
          \/ /\ Tail(down[c]) \in Seq(Frames)
             /\ down' = [down EXCEPT ![c] = Tail(down[c])]
             /\ torn' = [torn EXCEPT ![c] = TRUE]
      BY <1>8, <2>1 DEF TimesOut
    <2> HIDE DEF c
    <2> DEFINE rest == Tail(down[c])
    <2>a. /\ rest \in Seq(Frames) => [down EXCEPT ![c] = rest] \in [Clients -> Seq(Frames)]
          /\ [torn EXCEPT ![c] = TRUE] \in [Clients -> BOOLEAN]
      <3> HIDE DEF rest
      <3> QED BY <2>2
    <2>4. down' \in [Clients -> Seq(Frames)] /\ torn' \in [Clients -> BOOLEAN]
      BY <2>2, <2>3, <2>a, Zenon
    <2>5. at[r] = "read" /\ Return(r, "err") /\ UNCHANGED <<poolVars, inbox, pushed, acked>>
      BY <1>8 DEF TimesOut
    <2> QED BY <2>2, <2>4, <2>5 DEF TypeOK, KnownAreWritten, InboxIsOwn, Return, Unlock
  <1>9. ASSUME NEW c \in Clients, Push(c) PROVE Types'
    <2>1. Append(down[c], Recv) \in Seq(Frames)
      BY FramesHold, AppendKeeps DEF TypeOK
    <2>2. down' = [down EXCEPT ![c] = Append(down[c], Recv)]
      BY <1>9 DEF Push
    <2>3. down' \in [Clients -> Seq(Frames)]
      BY <2>1, <2>2, ExceptKeeps, Zenon DEF TypeOK
    <2>4. UNCHANGED <<poolVars, callVars, inbox, torn, acked>> /\ pushed' \in 0..MaxPush
      BY <1>9 DEF Push, TypeOK
    <2> QED BY <2>3, <2>4 DEF TypeOK, KnownAreWritten, InboxIsOwn
  <1>10. ASSUME NEW c \in Clients, Reset(c) PROVE Types'
    BY <1>10 DEF TypeOK, KnownAreWritten, InboxIsOwn, Reset
  <1>11. ASSUME NEW c \in Clients, NEW r \in Requests, NEW ok \in BOOLEAN, Answer(c, r, ok)
         PROVE  Types'
    <2>1. Append(down[c], Ack(r, ok)) \in Seq(Frames)
      BY FramesHold, AppendKeeps DEF TypeOK
    <2>2. down' \in [Clients -> Seq(Frames)]
      BY <1>11, <2>1 DEF Answer, TypeOK
    <2> QED BY <1>11, <2>2 DEF TypeOK, KnownAreWritten, InboxIsOwn, Answer
  <1> QED BY <1>1, <1>2, <1>3, <1>4, <1>5, <1>6, <1>7, <1>8, <1>9, <1>10, <1>11 DEF Next, Caller

\* Every variable stays in its domain and opMu has the right owner, for any number
\* of clients and calls (wkClient).
THEOREM TypeCorrect == Spec => []TypeOK
  <1>1. Spec => []Types
    BY TypeInit, TypeStep, PTL DEF Spec
  <1>2. Types => TypeOK
    BY DEF Types
  <1> QED BY <1>1, <1>2, PTL
-----------------------------------------------------------------------------
\* The connections: only steps of the pool and resets touch them.
LEMMA PoolStepKeeps == ASSUME Types, PoolInv, [Next]_vars PROVE PoolInv'
  <1> USE DEF Types, PoolInv, OneDialed, NoLeak
  <1>0. conn \in [Clients -> {"none", "dialed", "open", "reset", "closed"}]
    BY DEF TypeOK
  <1>1. ASSUME NEW c \in Clients, Dial(c) PROVE PoolInv'
    BY <1>0, <1>1 DEF Dial
  <1>2. ASSUME NEW c \in Clients, Connected(c) PROVE PoolInv'
    BY <1>0, <1>2 DEF Connected
  <1>3. ASSUME NEW c \in Clients, ConnectFails(c) PROVE PoolInv'
    BY <1>0, <1>3 DEF ConnectFails, CloseOwn
  <1>4. ASSUME NEW c \in Clients, CloseClient(c) PROVE PoolInv'
    BY <1>0, <1>4 DEF CloseClient, InPool
  <1>5. CASE PoolReady
    BY <1>0, <1>5 DEF PoolReady
  <1>6. CASE PoolClosed
    BY <1>0, <1>6 DEF PoolClosed, InPool
  <1>7. CASE StartClose
    BY <1>0, <1>7 DEF StartClose
  <1>8. ASSUME NEW c \in Clients, Reset(c) PROVE PoolInv'
    BY <1>0, <1>8 DEF Reset
  <1>9. CASE UNCHANGED <<pool, conn>>
    BY <1>9
  <1>10. ASSUME NEW r \in Requests, Call(r) \/ Caller(r) PROVE UNCHANGED <<pool, conn>>
    BY <1>10 DEF Call, Caller, Lock, Write, WriteFails, Read, ReadFails, TimesOut, poolVars
  <1>11. ASSUME NEW c \in Clients, Push(c) \/ \E r \in Requests, ok \in BOOLEAN : Answer(c, r, ok)
         PROVE  UNCHANGED <<pool, conn>>
    BY <1>11 DEF Push, Answer, poolVars
  <1>12. CASE RunCancelled \/ Over \/ UNCHANGED vars
    BY <1>9, <1>12 DEF RunCancelled, Over, vars
  <1> QED BY <1>1, <1>2, <1>3, <1>4, <1>5, <1>6, <1>7, <1>8, <1>9, <1>10, <1>11, <1>12
          DEF Next, PoolStep

\* No connection is left open when Run has failed or the pool is closed, for any
\* number of clients (Pool.Close, NewProductionClient).
THEOREM NothingLeaks == Spec => []NoLeak
  <1>1. Init => PoolInv
    BY DEF Init, PoolInv, OneDialed, NoLeak
  <1>2. Types /\ PoolInv /\ [Next]_vars => PoolInv'
    BY PoolStepKeeps
  <1>3. Spec => []PoolInv
    BY <1>1, <1>2, TypeInit, TypeStep, PTL DEF Spec
  <1>4. PoolInv => NoLeak
    BY DEF PoolInv
  <1> QED BY <1>3, <1>4, PTL
-----------------------------------------------------------------------------
\* Taking the first element off a sequence leaves the others where they were but for one
\* place: how often a value occurs drops when it was the first.
LEMMA TailCounts ==
  ASSUME NEW S, NEW s \in Seq(S), s # <<>>, NEW e,
         IsFiniteSet(Places(s, e))
  PROVE  /\ IsFiniteSet(Places(Tail(s), e))
         /\ Cardinality(Places(Tail(s), e))
              <= Cardinality(Places(s, e))
         /\ s[1] = e => Cardinality(Places(Tail(s), e)) + 1
                          <= Cardinality(Places(s, e))
  <1> DEFINE before == Places(s, e)
             after == Places(Tail(s), e)
             rest == before \ {1}
             down1 == [i \in rest |-> i - 1]
  <1>1. /\ before \subseteq Nat /\ 1 \in DOMAIN s
        /\ \A i \in after : i + 1 \in rest /\ (i + 1) - 1 = i
        /\ \A i \in rest : i - 1 \in after
    <2>1. DOMAIN s = 1..Len(s) /\ Len(s) \in Nat /\ DOMAIN Tail(s) = 1..(Len(s) - 1) /\ Len(s) > 0
      BY SMT
    <2>2. /\ \A i \in DOMAIN Tail(s) : i + 1 \in DOMAIN s /\ Tail(s)[i] = s[i + 1]
          /\ \A i \in DOMAIN s : i # 1 => i - 1 \in DOMAIN Tail(s) /\ Tail(s)[i - 1] = s[i]
      BY TailShifts
    <2> QED BY <2>1, <2>2, SMT DEF Places
  <1>2. down1 \in Surjection(rest, after)
    <2>1. down1 \in [rest -> after]
      BY <1>1
    <2>2. \A j \in after : \E i \in rest : down1[i] = j
      <3> SUFFICES ASSUME NEW j \in after PROVE \E i \in rest : down1[i] = j
        OBVIOUS
      <3>1. j + 1 \in rest /\ down1[j + 1] = j
        BY <1>1
      <3> QED BY <3>1
    <2> HIDE DEF down1, rest, after
    <2> QED BY <2>1, <2>2 DEF Surjection
  <1>3. /\ IsFiniteSet(rest)
        /\ Cardinality(rest) = IF 1 \in before THEN Cardinality(before) - 1 ELSE Cardinality(before)
    <2> HIDE DEF before
    <2> QED BY FS_RemoveElement DEF before
  <1>4. IsFiniteSet(after) /\ Cardinality(after) <= Cardinality(rest)
    <2> HIDE DEF rest, after, down1
    <2> QED BY <1>2, <1>3, FS_Surjection
  <1>5. Cardinality(before) \in Nat /\ Cardinality(after) \in Nat
    <2> HIDE DEF before, after
    <2> QED BY <1>4, FS_CardinalityType DEF before
  <1>6. s[1] = e => 1 \in before
    BY <1>1 DEF Places
  <1> HIDE DEF before, after, rest, down1
  <1>7. /\ IsFiniteSet(after) /\ Cardinality(after) <= Cardinality(before)
        /\ s[1] = e => Cardinality(after) + 1 <= Cardinality(before)
    BY <1>3, <1>4, <1>5, <1>6
  <1> QED BY <1>7 DEF before, after

\* Appending a value adds one occurrence of it, and none of another.
LEMMA AppendCounts ==
  ASSUME NEW S, NEW s \in Seq(S), NEW x \in S, NEW e,
         IsFiniteSet(Places(s, e))
  PROVE  /\ IsFiniteSet(Places(Append(s, x), e))
         /\ Cardinality(Places(Append(s, x), e))
              <= Cardinality(Places(s, e)) + 1
         /\ x # e => Cardinality(Places(Append(s, x), e))
                       <= Cardinality(Places(s, e))
  <1> DEFINE before == Places(s, e)
             after == Places(Append(s, x), e)
             more == before \cup {Len(s) + 1}
  <1>1. after \subseteq more /\ (x # e => after \subseteq before)
    BY SMT DEF Places
  <1>2. IsFiniteSet(more) /\ Cardinality(more) <= Cardinality(before) + 1
        /\ Cardinality(before) \in Nat
    <2> HIDE DEF before
    <2>1. IsFiniteSet(before)
      BY DEF before
    <2>2. Cardinality(before) \in Nat
      BY <2>1, FS_CardinalityType
    <2> DEFINE last == Len(s) + 1
    <2> HIDE DEF last
    <2>3. /\ IsFiniteSet(before \cup {last})
          /\ Cardinality(before \cup {last})
               = IF last \in before THEN Cardinality(before) ELSE Cardinality(before) + 1
      BY <2>1, FS_AddElement
    <2>4. IsFiniteSet(before \cup {last}) /\ Cardinality(before \cup {last}) <= Cardinality(before) + 1
      BY <2>2, <2>3
    <2> QED BY <2>2, <2>4 DEF last
  <1> HIDE DEF before, after, more
  <1>3. IsFiniteSet(after) /\ Cardinality(after) <= Cardinality(more)
    BY <1>1, <1>2, FS_Subset
  <1>4. x # e => Cardinality(after) <= Cardinality(before)
    BY <1>1, FS_Subset DEF before
  <1>5. Cardinality(after) \in Nat /\ Cardinality(more) \in Nat
    BY <1>2, <1>3, FS_CardinalityType
  <1>6. /\ IsFiniteSet(after) /\ Cardinality(after) <= Cardinality(before) + 1
        /\ x # e => Cardinality(after) <= Cardinality(before)
    BY <1>2, <1>3, <1>4, <1>5
  <1> QED BY <1>6 DEF before, after

\* The three counts of a number are natural numbers.
LEMMA CountsAreNat ==
  ASSUME NEW r, Balanced(r)
  PROVE  /\ Cardinality(Succeeded(r)) \in Nat /\ Cardinality(ComingTo(r)) \in Nat
         /\ Cardinality(Acknowledged(r)) \in Nat
  BY FS_CardinalityType DEF Balanced

\* A step that lets no call of a number succeed keeps its balance when no sendack of the
\* number is added.
LEMMA NothingComes ==
  ASSUME NEW r \in Requests, Balanced(r), Succeeded(r)' = Succeeded(r),
         Acknowledged(r)' = Acknowledged(r), IsFiniteSet(ComingTo(r)'),
         Cardinality(ComingTo(r)') <= Cardinality(ComingTo(r))
  PROVE  Balanced(r)'
  <1>1. Cardinality(ComingTo(r)') \in Nat
    BY FS_CardinalityType
  <1> QED BY <1>1, CountsAreNat DEF Balanced

\* A step that leaves alone the calls that have succeeded, the frames and what is acknowledged.
LEMMA NothingChanges ==
  ASSUME NEW r \in Requests, Balanced(r), UNCHANGED <<down, acked>>,
         \A s \in Requests : at'[s] = "ok" <=> at[s] = "ok"
  PROVE  Balanced(r)'
  <1>1. /\ Succeeded(r)' = Succeeded(r) /\ Acknowledged(r)' = Acknowledged(r)
        /\ ComingTo(r)' = ComingTo(r)
    BY DEF Succeeded, Alike, Acknowledged, ComingTo
  <1> QED BY <1>1 DEF Balanced

\* A frame is taken off, and the call that reads it does not succeed.
LEMMA FrameDropped ==
  ASSUME NEW r \in Requests, Types, Balanced(r), NEW c \in Clients, down[c] # <<>>,
         down' = [down EXCEPT ![c] = Tail(@)], UNCHANGED acked,
         \A s \in Requests : at'[s] = "ok" <=> at[s] = "ok"
  PROVE  Balanced(r)'
  <1>1. Succeeded(r)' = Succeeded(r) /\ Acknowledged(r)' = Acknowledged(r)
    BY DEF Succeeded, Alike, Acknowledged
  <1>2. /\ down \in [Clients -> Seq(Frames)] /\ Via[r] \in Clients
        /\ down[c] \in Seq(Frames)
    BY ViaAssumption DEF Types, TypeOK
  <1>3. CASE c = Via[r]
    <2>1. down'[c] = Tail(down[c])
      BY <1>2
    <2>2. IsFiniteSet(Places(down[c], Ack(r, TRUE)))
      BY <1>3 DEF Balanced, ComingTo
    <2>3. /\ IsFiniteSet(ComingTo(r)') /\ Cardinality(ComingTo(r)') <= Cardinality(ComingTo(r))
      BY <1>2, <1>3, <2>1, <2>2, TailCounts DEF ComingTo
    <2> QED BY <1>1, <2>3, NothingComes
  <1>4. CASE c # Via[r]
    <2>1. ComingTo(r)' = ComingTo(r)
      BY <1>2, <1>4 DEF ComingTo
    <2> QED BY <1>1, <2>1 DEF Balanced
  <1> QED BY <1>3, <1>4

\* A call reads its sendack and succeeds.
LEMMA CallSucceeds ==
  ASSUME NEW r \in Requests, Types, Balanced(r), NEW q \in Requests, at[q] = "read",
         down[Via[q]] # <<>>, Matches(Head(down[Via[q]]), q), Head(down[Via[q]]).ok,
         down' = [down EXCEPT ![Via[q]] = Tail(@)], UNCHANGED acked,
         at' = [at EXCEPT ![q] = "ok"]
  PROVE  Balanced(r)'
  <1>0. /\ down \in [Clients -> Seq(Frames)] /\ Via[q] \in Clients /\ Via[r] \in Clients
        /\ down[Via[q]] \in Seq(Frames)
        /\ at \in [Requests -> {"none", "lock", "write", "read", "ok", "err"}]
    BY ViaAssumption DEF Types, TypeOK
  <1>1. Acknowledged(r)' = Acknowledged(r)
    BY DEF Acknowledged, Alike
  <1>2. CASE q \in Alike(r)
    <2>1. Via[q] = Via[r] /\ NoOf[q] = NoOf[r]
      BY <1>2 DEF Alike
    <2>2. Head(down[Via[q]]) = down[Via[q]][1] /\ down[Via[q]][1] \in Frames
      BY <1>0, TailShifts
    <2>3. down[Via[r]][1] = Ack(r, TRUE)
      BY <2>1, <2>2 DEF Matches, Frames, Ack
    <2>4. down'[Via[r]] = Tail(down[Via[r]])
      BY <1>0, <2>1
    <2>5. IsFiniteSet(Places(down[Via[r]], Ack(r, TRUE)))
      BY DEF Balanced, ComingTo
    <2>6. IsFiniteSet(ComingTo(r)') /\ Cardinality(ComingTo(r)') + 1 <= Cardinality(ComingTo(r))
      BY <1>0, <2>1, <2>3, <2>4, <2>5, TailCounts DEF ComingTo
    <2>7. Succeeded(r)' = Succeeded(r) \cup {q} /\ q \notin Succeeded(r)
      BY <1>0, <1>2 DEF Succeeded, Alike
    <2>8. /\ IsFiniteSet(Succeeded(r)')
          /\ Cardinality(Succeeded(r)') = Cardinality(Succeeded(r)) + 1
      BY <2>7, FS_AddElement DEF Balanced
    <2>9. Cardinality(ComingTo(r)') \in Nat
      BY <2>6, FS_CardinalityType
    <2> QED BY <1>1, <2>6, <2>8, <2>9, CountsAreNat DEF Balanced
  <1>3. CASE q \notin Alike(r)
    <2>1. Succeeded(r)' = Succeeded(r)
      BY <1>0, <1>3 DEF Succeeded, Alike
    <2>2. CASE Via[q] # Via[r]
      <3>1. ComingTo(r)' = ComingTo(r)
        BY <1>0, <2>2 DEF ComingTo
      <3> QED BY <1>1, <2>1, <3>1 DEF Balanced
    <2>3. CASE Via[q] = Via[r]
      <3>1. down'[Via[r]] = Tail(down[Via[r]])
        BY <1>0, <2>3
      <3>2. IsFiniteSet(Places(down[Via[r]], Ack(r, TRUE)))
        BY DEF Balanced, ComingTo
      <3>3. IsFiniteSet(ComingTo(r)') /\ Cardinality(ComingTo(r)') <= Cardinality(ComingTo(r))
        BY <1>0, <2>3, <3>1, <3>2, TailCounts DEF ComingTo
      <3> QED BY <1>1, <2>1, <3>3, NothingComes
    <2> QED BY <2>2, <2>3
  <1> QED BY <1>2, <1>3

\* A frame is added: a successful sendack with the message it is for, which was not
\* acknowledged yet, or anything else.
LEMMA FrameAdded ==
  ASSUME NEW r \in Requests, Types, Balanced(r), NEW c \in Clients, NEW f \in Frames,
         down' = [down EXCEPT ![c] = Append(@, f)], UNCHANGED at,
         \/ UNCHANGED acked /\ (f.kind # "ack" \/ f.ok # TRUE)
         \/ \E q \in Requests : q \notin acked /\ acked' = acked \cup {q}
                                /\ Via[q] = c /\ f = Ack(q, TRUE)
  PROVE  Balanced(r)'
  <1>0. /\ down \in [Clients -> Seq(Frames)] /\ Via[r] \in Clients /\ down[c] \in Seq(Frames)
    BY ViaAssumption DEF Types, TypeOK
  <1>1. Succeeded(r)' = Succeeded(r)
    BY DEF Succeeded, Alike
  <1>2. IsFiniteSet(Places(down[Via[r]], Ack(r, TRUE)))
    BY DEF Balanced, ComingTo
  <1>3. /\ IsFiniteSet(ComingTo(r)')
        /\ Cardinality(ComingTo(r)') <= Cardinality(ComingTo(r)) + 1
        /\ c # Via[r] \/ f # Ack(r, TRUE) => Cardinality(ComingTo(r)') <= Cardinality(ComingTo(r))
    <2>1. CASE c = Via[r]
      <3>1. down'[Via[r]] = Append(down[Via[r]], f)
        BY <1>0, <2>1
      <3> QED BY <1>0, <1>2, <2>1, <3>1, AppendCounts DEF ComingTo
    <2>2. CASE c # Via[r]
      <3>1. ComingTo(r)' = ComingTo(r)
        BY <1>0, <2>2 DEF ComingTo
      <3>2. IsFiniteSet(ComingTo(r)) /\ Cardinality(ComingTo(r)) \in Nat
        BY CountsAreNat DEF Balanced
      <3>3. IsFiniteSet(ComingTo(r)') /\ Cardinality(ComingTo(r)') = Cardinality(ComingTo(r))
        BY <3>1, <3>2, Zenon
      <3>4. \A n \in Nat : n <= n + 1 /\ n <= n
        OBVIOUS
      <3>5. /\ Cardinality(ComingTo(r)') <= Cardinality(ComingTo(r)) + 1
            /\ Cardinality(ComingTo(r)') <= Cardinality(ComingTo(r))
        BY <3>2, <3>3, <3>4, Zenon
      <3> QED BY <3>3, <3>5, Zenon
    <2> QED BY <2>1, <2>2
  <1>4. CASE UNCHANGED acked /\ (f.kind # "ack" \/ f.ok # TRUE)
    <2>1. Acknowledged(r)' = Acknowledged(r)
      BY <1>4 DEF Acknowledged, Alike
    <2>2. f # Ack(r, TRUE)
      <3>1. Ack(r, TRUE).kind = "ack" /\ Ack(r, TRUE).ok = TRUE
        BY DEF Ack
      <3> QED BY <1>4, <3>1, Zenon
    <2> QED BY <1>1, <1>3, <2>1, <2>2, NothingComes
  <1>5. ASSUME NEW q \in Requests, q \notin acked, acked' = acked \cup {q},
               Via[q] = c, f = Ack(q, TRUE)
        PROVE  Balanced(r)'
    <2>1. CASE q \in Alike(r)
      <3>1. Acknowledged(r)' = Acknowledged(r) \cup {q} /\ q \notin Acknowledged(r)
        BY <1>5, <2>1 DEF Acknowledged, Alike
      <3>2. /\ IsFiniteSet(Acknowledged(r)')
            /\ Cardinality(Acknowledged(r)') = Cardinality(Acknowledged(r)) + 1
        BY <3>1, FS_AddElement DEF Balanced
      <3>3. Cardinality(ComingTo(r)') \in Nat
        BY <1>3, FS_CardinalityType
      <3> QED BY <1>1, <1>3, <3>2, <3>3, CountsAreNat DEF Balanced
    <2>2. CASE q \notin Alike(r)
      <3>1. Acknowledged(r)' = Acknowledged(r)
        BY <1>5, <2>2 DEF Acknowledged, Alike
      <3>2. c # Via[r] \/ f # Ack(r, TRUE)
        BY <1>5, <2>2 DEF Alike, Ack
      <3> QED BY <1>1, <1>3, <3>1, <3>2, NothingComes
    <2> QED BY <2>1, <2>2
  <1> QED BY <1>4, <1>5

\* A message that is sent has not been acknowledged, and one that is answered is
\* answered no more.
LEMMA NotTwiceStep == ASSUME Types, NotTwice, [Next]_vars PROVE NotTwice'
  <1>0. /\ inbox \in [Clients -> SUBSET Requests]
        /\ \A r \in Requests : Via[r] \in Clients
    BY ViaAssumption DEF Types, TypeOK
  <1>1. ASSUME UNCHANGED <<inbox, acked>> PROVE NotTwice'
    BY <1>1 DEF NotTwice
  <1>2. ASSUME NEW r \in Requests, Write(r) PROVE NotTwice'
    <2>1. r \notin acked
      BY <1>2 DEF Write, Types, KnownAreWritten
    <2> QED BY <1>0, <1>2, <2>1 DEF NotTwice, Write
  <1>3. ASSUME NEW c \in Clients, NEW r \in Requests, NEW ok \in BOOLEAN, Answer(c, r, ok)
        PROVE  NotTwice'
    <2>1. \A d \in Clients \ {c} : r \notin inbox[d]
      BY <1>3 DEF Answer, Types, InboxIsOwn
    <2> QED BY <1>0, <1>3, <2>1 DEF NotTwice, Answer
  <1>4. CASE PoolStep \/ StartClose \/ RunCancelled \/ Over \/ UNCHANGED vars
    BY <1>1, <1>4 DEF PoolStep, StartClose, RunCancelled, Over, PoolReady, PoolClosed, Dial,
       Connected, ConnectFails, CloseClient, wireVars, vars
  <1>5. ASSUME NEW r \in Requests,
               Call(r) \/ Lock(r) \/ WriteFails(r) \/ Read(r) \/ ReadFails(r) \/ TimesOut(r)
        PROVE  NotTwice'
    BY <1>1, <1>5 DEF Call, Lock, WriteFails, Read, ReadFails, TimesOut, wireVars
  <1>6. ASSUME NEW c \in Clients, Push(c) \/ Reset(c) PROVE NotTwice'
    BY <1>1, <1>6 DEF Push, Reset, wireVars
  <1> QED BY <1>2, <1>3, <1>4, <1>5, <1>6 DEF Next, Caller

\* One step per action: what a call may take, or the server adds, keeps the balance.
LEMMA BalanceStep ==
  ASSUME Types, NotTwice, [Next]_vars, NEW r \in Requests, Balanced(r)
  PROVE  Balanced(r)'
  <1>0. at \in [Requests -> {"none", "lock", "write", "read", "ok", "err"}]
    BY DEF Types, TypeOK
  <1>1. CASE PoolStep \/ StartClose \/ RunCancelled \/ Over \/ UNCHANGED vars
    BY <1>1, NothingChanges DEF PoolStep, StartClose, RunCancelled, Over, PoolReady, PoolClosed,
       Dial, Connected, ConnectFails, CloseClient, callVars, wireVars, vars
  <1>2. ASSUME NEW q \in Requests,
               Call(q) \/ Lock(q) \/ Write(q) \/ WriteFails(q) \/ ReadFails(q)
        PROVE  Balanced(r)'
    <2>1. UNCHANGED <<down, acked>>
      BY <1>2 DEF Call, Lock, Write, WriteFails, ReadFails, wireVars
    <2>2. \A s \in Requests : at'[s] = "ok" <=> at[s] = "ok"
      BY <1>0, <1>2 DEF Call, Lock, Write, WriteFails, ReadFails, Return
    <2> QED BY <2>1, <2>2, NothingChanges
  <1>3. ASSUME NEW q \in Requests, Read(q) PROVE Balanced(r)'
    <2>1. /\ at[q] = "read" /\ down[Via[q]] # <<>> /\ UNCHANGED acked
          /\ down' = [down EXCEPT ![Via[q]] = Tail(@)] /\ Via[q] \in Clients
      BY <1>3, ViaAssumption DEF Read
    <2>2. CASE at' = [at EXCEPT ![q] = "ok"] /\ Matches(Head(down[Via[q]]), q) /\ Head(down[Via[q]]).ok
      BY <2>1, <2>2, CallSucceeds
    <2>3. CASE UNCHANGED at \/ at' = [at EXCEPT ![q] = "err"]
      <3>1. \A s \in Requests : at'[s] = "ok" <=> at[s] = "ok"
        BY <1>0, <2>1, <2>3
      <3> QED BY <2>1, <3>1, FrameDropped
    <2> QED BY <1>3, <2>2, <2>3 DEF Read, Return, callVars
  <1>4. ASSUME NEW q \in Requests, TimesOut(q) PROVE Balanced(r)'
    <2>1. \A s \in Requests : at'[s] = "ok" <=> at[s] = "ok"
      BY <1>0, <1>4 DEF TimesOut, Return
    <2>2. /\ Via[q] \in Clients /\ UNCHANGED acked
          /\ UNCHANGED down \/ (down[Via[q]] # <<>> /\ down' = [down EXCEPT ![Via[q]] = Tail(@)])
      BY <1>4, ViaAssumption DEF TimesOut
    <2> QED BY <2>1, <2>2, FrameDropped, NothingChanges
  <1>5. ASSUME NEW c \in Clients, Push(c) PROVE Balanced(r)'
    <2>1. Recv \in Frames /\ Recv.kind # "ack" /\ UNCHANGED <<at, acked>>
          /\ down' = [down EXCEPT ![c] = Append(@, Recv)]
      BY <1>5, FramesHold DEF Push, Recv, callVars
    <2> QED BY <2>1, FrameAdded
  <1>6. ASSUME NEW c \in Clients, NEW q \in Requests, NEW ok \in BOOLEAN, Answer(c, q, ok)
        PROVE  Balanced(r)'
    <2>1. /\ Ack(q, ok) \in Frames /\ UNCHANGED at
          /\ down' = [down EXCEPT ![c] = Append(@, Ack(q, ok))]
          /\ Via[q] = c /\ q \notin acked
      BY <1>6, FramesHold DEF Answer, Types, InboxIsOwn, NotTwice, callVars
    <2>2. CASE ok
      <3>1. ok = TRUE /\ acked' = acked \cup {q}
        BY <1>6, <2>2 DEF Answer
      <3> QED BY <2>1, <3>1, FrameAdded
    <2>3. CASE ~ok
      <3>1. Ack(q, ok).ok # TRUE /\ UNCHANGED acked
        BY <1>6, <2>3 DEF Answer, Ack
      <3> QED BY <2>1, <3>1, FrameAdded
    <2> QED BY <2>2, <2>3
  <1>7. ASSUME NEW c \in Clients, Reset(c) PROVE Balanced(r)'
    BY <1>7, NothingChanges DEF Reset, callVars, wireVars
  <1> QED BY <1>1, <1>2, <1>3, <1>4, <1>5, <1>6, <1>7 DEF Next, Caller

\* What the counting rests on holds throughout.
LEMMA AckInvHolds == Spec => []AckInv
  <1>1. Init => AckInv
    <2> SUFFICES ASSUME Init PROVE AckInv
      OBVIOUS
    <2>1. NotTwice
      BY DEF Init, NotTwice
    <2>2. ASSUME NEW r \in Requests PROVE Balanced(r)
      <3>1. Succeeded(r) = {} /\ Acknowledged(r) = {}
        BY DEF Init, Succeeded, Alike, Acknowledged
      <3>2. ComingTo(r) = {}
        <4>1. down[Via[r]] = <<>>
          BY ViaAssumption DEF Init
        <4>2. Places(<<>>, Ack(r, TRUE)) = {}
          BY DEF Places
        <4> QED BY <4>1, <4>2 DEF ComingTo
      <3> QED BY <3>1, <3>2, FS_EmptySet DEF Balanced
    <2> QED BY <2>1, <2>2 DEF AckInv
  <1>2. Types /\ AckInv /\ [Next]_vars => AckInv'
    BY NotTwiceStep, BalanceStep DEF AckInv
  <1> QED BY <1>1, <1>2, TypeInit, TypeStep, PTL DEF Spec

\* No sendack is counted twice or for a message of another number, for any clients, calls
\* and numbers, those of several units on one pool too (SendAndWaitAck,
\* sendackMatchesRequest).
THEOREM AcksCounted == Spec => []AcksCountOnce
  <1>1. AckInv => AcksCountOnce
    BY CountsAreNat DEF AckInv, AcksCountOnce, Balanced
  <1> QED BY <1>1, AckInvHolds, PTL

\* So a call whose number no other one on its client gives succeeds only when the server
\* has acknowledged its own message, whatever the numbers of the others are: no late
\* sendack of a call that gave up is taken for it (SendAndWaitAck).
THEOREM SuccessIsOwn ==
  Spec => [](\A r \in Requests : at[r] = "ok" /\ Alike(r) = {r} => r \in acked)
  <1> DEFINE Own == \A r \in Requests : at[r] = "ok" /\ Alike(r) = {r} => r \in acked
  <1>1. AckInv => Own
    <2> SUFFICES ASSUME NEW r \in Requests, Balanced(r), Alike(r) = {r}, at[r] = "ok", r \notin acked
                 PROVE  FALSE
      BY DEF AckInv
    <2>1. Acknowledged(r) = {} /\ Succeeded(r) = {r}
      BY DEF Acknowledged, Succeeded
    <2>2. Cardinality(Acknowledged(r)) = 0 /\ Cardinality(Succeeded(r)) = 1
      BY <2>1, FS_EmptySet, FS_Singleton
    <2>3. /\ Cardinality(ComingTo(r)) \in Nat
          /\ Cardinality(Succeeded(r)) + Cardinality(ComingTo(r)) <= Cardinality(Acknowledged(r))
      BY CountsAreNat DEF Balanced
    <2> QED BY <2>2, <2>3
  <1> QED BY <1>1, AckInvHolds, PTL
-----------------------------------------------------------------------------
\* A call is made on a pool that is ready, so every client has been connected.
PoolStarted == \A r \in Requests : at[r] # "none" => pool \in {"ready", "closing", "closed"}

Waits(r) == at[r] = "read" /\ r \in acked /\ conn[Via[r]] = "open" /\ ~torn[Via[r]]
OnItsWay(r) == \E i \in DOMAIN down[Via[r]] : down[Via[r]][i] = Ack(r, TRUE)

LEMMA StartedStep == ASSUME PoolStarted, OneDialed, [Next]_vars PROVE PoolStarted'
  <1>1. CASE PoolStep \/ StartClose \/ RunCancelled \/ Over \/ UNCHANGED vars
    BY <1>1 DEF PoolStarted, OneDialed, PoolStep, StartClose, RunCancelled, Over, PoolReady,
       PoolClosed, Dial, Connected, ConnectFails, CloseClient, callVars, vars
  <1>2. ASSUME NEW r \in Requests, Call(r) \/ Caller(r) PROVE PoolStarted'
    BY <1>2 DEF PoolStarted, Caller, Call, Lock, Write, WriteFails, Read, ReadFails, TimesOut,
       Return, poolVars, callVars
  <1>3. ASSUME NEW c \in Clients,
               Push(c) \/ Reset(c) \/ \E r \in Requests, ok \in BOOLEAN : Answer(c, r, ok)
        PROVE  PoolStarted'
    BY <1>3 DEF PoolStarted, Push, Reset, Answer, poolVars, callVars
  <1> QED BY <1>1, <1>2, <1>3 DEF Next

\* What makes a call wait for a sendack of its own is the server's answer; from
\* then on nobody else takes it off.
LEMMA WaitsStep ==
  ASSUME Types, OneDialed, PoolStarted, [Next]_vars, NEW r \in Requests, Waits(r)',
         Waits(r) => OnItsWay(r)
  PROVE  OnItsWay(r)'
  <1>0. /\ Via[r] \in Clients /\ down \in [Clients -> Seq(Frames)]
        /\ conn \in [Clients -> {"none", "dialed", "open", "reset", "closed"}]
        /\ torn \in [Clients -> BOOLEAN]
        /\ at \in [Requests -> {"none", "lock", "write", "read", "ok", "err"}]
        /\ \A s \in Requests : at[s] \in {"write", "read"} <=> opMu[Via[s]] = s
    BY ViaAssumption DEF Types, TypeOK
  <1>1. ASSUME PoolStep \/ StartClose \/ RunCancelled \/ Over \/ UNCHANGED vars
        PROVE  UNCHANGED <<down, at, acked, torn>> /\ conn[Via[r]] = "open"
    BY <1>0, <1>1 DEF Waits, OneDialed, PoolStarted, PoolStep, StartClose, RunCancelled, Over,
       PoolReady, PoolClosed, Dial, Connected, ConnectFails, CloseOwn, CloseClient,
       callVars, wireVars, vars
  <1>2. ASSUME NEW s \in Requests, Call(s) \/ Lock(s) \/ Write(s) \/ WriteFails(s) \/ ReadFails(s)
        PROVE  UNCHANGED <<down, acked, torn, conn>> /\ at[r] = "read"
    BY <1>0, <1>2 DEF Waits, Types, KnownAreWritten, Call, Lock, Write, WriteFails, ReadFails,
       Return, poolVars, wireVars
  <1>3. ASSUME NEW s \in Requests, Read(s) \/ TimesOut(s), Via[s] = Via[r]
        PROVE  /\ down[Via[r]] # <<>> /\ down'[Via[r]] = Tail(down[Via[r]])
               /\ Head(down[Via[r]]) # Ack(r, TRUE)
               /\ Waits(r)
    <2>1. at[r] = "read"
      BY <1>0, <1>3 DEF Waits, Read, TimesOut, Return, callVars
    <2>2. s = r
      BY <1>0, <1>3, <2>1 DEF Read, TimesOut
    <2>3. at'[r] = "read"
      BY DEF Waits
    <2>4. Read(r)
      BY <1>0, <1>3, <2>2, <2>3 DEF TimesOut, Return
    <2>5. ~Matches(Head(down[Via[r]]), r)
      BY <1>0, <2>3, <2>4 DEF Read, Return
    <2> QED BY <1>0, <2>1, <2>4, <2>5 DEF Read, Waits, Matches, Ack, poolVars
  <1>4. ASSUME NEW s \in Requests, Read(s) \/ TimesOut(s), Via[s] # Via[r]
        PROVE  down'[Via[r]] = down[Via[r]] /\ Waits(r)
    BY <1>0, <1>4 DEF Waits, Read, TimesOut, Return, poolVars, callVars
  <1>5. ASSUME NEW c \in Clients, NEW s \in Requests, NEW ok \in BOOLEAN, Answer(c, s, ok)
        PROVE  OnItsWay(r)'
    <2>1. /\ Ack(s, ok) \in Frames
          /\ down' = [down EXCEPT ![c] = Append(@, Ack(s, ok))]
          /\ UNCHANGED <<at, conn, torn>> /\ (acked' = acked \/ (ok /\ acked' = acked \cup {s}))
          /\ Via[s] = c
      BY <1>5, FramesHold DEF Answer, Types, InboxIsOwn, poolVars, callVars
    <2>2. CASE r \in acked
      <3>1. OnItsWay(r)
        BY <2>1, <2>2 DEF Waits
      <3>2. CASE Via[r] # c
        BY <1>0, <2>1, <3>1, <3>2 DEF OnItsWay
      <3>3. CASE Via[r] = c
        <4>1. down'[c] = Append(down[c], Ack(s, ok)) /\ down[c] \in Seq(Frames)
          BY <1>0, <2>1
        <4> QED BY <2>1, <3>1, <3>3, <4>1, AppendKeeps DEF OnItsWay, Ack
      <3> QED BY <3>2, <3>3
    <2>3. CASE r \notin acked
      <3>1. s = r /\ ok /\ Via[r] = c
        BY <2>1, <2>3 DEF Waits
      <3>2. down'[c] = Append(down[c], Ack(s, ok)) /\ down[c] \in Seq(Frames)
        BY <1>0, <2>1
      <3>3. \E i \in DOMAIN down'[c] : down'[c][i] = Ack(s, ok)
        BY <2>1, <3>2, AppendKeeps
      <3> QED BY <3>1, <3>3 DEF OnItsWay, Ack
    <2> QED BY <2>2, <2>3
  <1>6. ASSUME NEW c \in Clients, Push(c) PROVE OnItsWay(r)'
    <2>1. down' = [down EXCEPT ![c] = Append(@, Recv)] /\ UNCHANGED <<at, acked, conn, torn>>
      BY <1>6 DEF Push, poolVars, callVars
    <2>2. OnItsWay(r)
      BY <2>1 DEF Waits
    <2>3. CASE Via[r] # c
      BY <1>0, <2>1, <2>2, <2>3 DEF OnItsWay
    <2>4. CASE Via[r] = c
      <3>1. down'[c] = Append(down[c], Recv) /\ down[c] \in Seq(Frames) /\ Recv \in Frames
        BY <1>0, <2>1, FramesHold
      <3> QED BY <2>2, <2>4, <3>1, AppendKeeps DEF OnItsWay, Ack
    <2> QED BY <2>3, <2>4
  <1>7. ASSUME NEW c \in Clients, Reset(c)
        PROVE  UNCHANGED <<down, at, acked, torn>> /\ conn[Via[r]] = "open"
    BY <1>0, <1>7 DEF Waits, Reset, callVars, wireVars
  <1>8. ASSUME UNCHANGED down, Waits(r) PROVE OnItsWay(r)'
    BY <1>8 DEF OnItsWay, Ack
  <1>9. ASSUME down[Via[r]] # <<>>, down'[Via[r]] = Tail(down[Via[r]]),
               Head(down[Via[r]]) # Ack(r, TRUE), OnItsWay(r)
        PROVE  OnItsWay(r)'
    <2>1. down[Via[r]] \in Seq(Frames)
      BY <1>0
    <2>2. PICK i \in DOMAIN down[Via[r]] : down[Via[r]][i] = Ack(r, TRUE)
      BY <1>9 DEF OnItsWay
    <2>3. i - 1 \in DOMAIN Tail(down[Via[r]]) /\ Tail(down[Via[r]])[i - 1] = down[Via[r]][i]
      BY <1>9, <2>1, <2>2, TailShifts
    <2> QED BY <1>9, <2>2, <2>3 DEF OnItsWay, Ack
  <1>10. ASSUME NEW s \in Requests, Call(s) \/ Caller(s) PROVE OnItsWay(r)'
    <2>1. CASE Call(s) \/ Lock(s) \/ Write(s) \/ WriteFails(s) \/ ReadFails(s)
      BY <1>2, <1>8, <2>1 DEF Waits
    <2>2. CASE Read(s) \/ TimesOut(s)
      <3>1. CASE UNCHANGED down
        <4>1. at'[r] = "read" /\ r \in acked' /\ conn'[Via[r]] = "open" /\ ~torn'[Via[r]]
          BY DEF Waits
        <4>2. acked' = acked /\ conn' = conn
          BY <2>2 DEF Read, TimesOut, poolVars
        <4>3. at[r] = "read"
          BY <1>0, <2>2, <4>1 DEF Read, TimesOut, Return, callVars
        <4>4. ~torn[Via[r]]
          BY <1>0, <2>2, <4>1 DEF Read, TimesOut
        <4> QED BY <1>8, <3>1, <4>1, <4>2, <4>3, <4>4 DEF Waits
      <3>2. CASE Via[s] # Via[r]
        BY <1>4, <2>2, <3>2 DEF OnItsWay, Ack
      <3>3. CASE Via[s] = Via[r] /\ ~UNCHANGED down
        BY <1>3, <1>9, <2>2, <3>3
      <3> QED BY <3>1, <3>2, <3>3
    <2> QED BY <1>10, <2>1, <2>2 DEF Caller
  <1> QED BY <1>1, <1>5, <1>6, <1>7, <1>8, <1>10 DEF Next, Waits

\* The sendack of a waiting call is not taken by another one, whatever the numbers
\* of the calls are: opMu lets one call at a time read (wkClient.opMu).
THEOREM AckNeverStolen == Spec => []AckNotStolen
  <1> DEFINE Inv == PoolInv /\ PoolStarted /\ AckNotStolen
  <1>1. Init => Inv
    BY DEF Init, PoolInv, OneDialed, NoLeak, PoolStarted, AckNotStolen
  <1>2. Types /\ Inv /\ [Next]_vars => Inv'
    <2> SUFFICES ASSUME Types, Inv, [Next]_vars PROVE Inv'
      OBVIOUS
    <2>1. PoolInv' /\ PoolStarted'
      BY PoolStepKeeps, StartedStep DEF PoolInv
    <2>2. AckNotStolen'
      BY WaitsStep DEF AckNotStolen, PoolInv, Waits, OnItsWay
    <2> QED BY <2>1, <2>2
  <1>3. Spec => []Inv
    BY <1>1, <1>2, TypeInit, TypeStep, PTL DEF Spec
  <1> QED BY <1>3, PTL DEF Inv
=============================================================================
