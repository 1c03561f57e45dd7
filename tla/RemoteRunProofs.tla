-------------------------- MODULE RemoteRunProofs --------------------------
(***************************************************************************)
(* Proofs about RemoteRun: what is left when the run of a unit in a plugin *)
(* is over, where the values of its sensitive outputs go, and that it is a *)
(* run in the process of the engine, for any definitions of outputs and    *)
(* inputs, any documents and any sizes; and the rank of a percentile for   *)
(* any number of samples.                                                  *)
(***************************************************************************)
EXTENDS RemoteRun, FiniteSetTheorems, TLAPS

\* The pipe holds frames, and those that close a handle name one of the run.
PipeInv ==
  /\ \E S : pipe \in Seq(S)
  /\ \A i \in DOMAIN pipe : pipe[i].t = "close" => pipe[i].h \in DOMAIN files

\* The handles of a run.
Writer(f) == f = [name |-> f.name, size |-> f.size, open |-> f.open]
Writers(fs) == (\E S : fs \in Seq(S)) /\ \A h \in DOMAIN fs : Writer(fs[h])

\* A closed handle is in the result, and nothing else is.
FilesInv ==
  /\ Writers(files)
  /\ DOMAIN recorded \subseteq {files[h].name : h \in DOMAIN files}
  /\ \A h \in DOMAIN files : files[h].open \/ files[h].name \in DOMAIN recorded
  /\ result # "running" => OpenHandles = {}

\* A report goes with the outputs that are not sensitive, in the pipe and after it.
ReportInv ==
  /\ \A i \in DOMAIN pipe : pipe[i].t = "output" /\ pipe[i].reported => ~DefOf(pipe[i].port).sensitive
  /\ SecretsStay

Inv == PipeInv /\ FilesInv /\ ReportInv

-----------------------------------------------------------------------------
(* Lemmas on the pipe.                                                     *)

\* A queue that loses its head has the frames it had.
LEMMA TailKeeps ==
  ASSUME NEW s, \E S : s \in Seq(S), s # <<>>
  PROVE  /\ \E S : Tail(s) \in Seq(S)
         /\ \A i \in DOMAIN Tail(s) : i + 1 \in DOMAIN s /\ Tail(s)[i] = s[i + 1]
         /\ 1 \in DOMAIN s /\ Head(s) = s[1]
  <1>1. PICK S : s \in Seq(S)
    OBVIOUS
  <1>2. Tail(s) \in Seq(S)
    BY <1>1
  <1>3. \A i \in DOMAIN Tail(s) : i + 1 \in DOMAIN s /\ Tail(s)[i] = s[i + 1]
    BY <1>1
  <1>4. 1 \in DOMAIN s /\ Head(s) = s[1]
    BY <1>1
  <1> QED BY <1>2, <1>3, <1>4

\* A queue that gains frames has them and those it had.
LEMMA ConcatKeeps ==
  ASSUME NEW s, NEW new, \E S : s \in Seq(S), \E S : new \in Seq(S)
  PROVE  /\ \E S : s \o new \in Seq(S)
         /\ \A i \in DOMAIN (s \o new) :
              \/ i \in DOMAIN s /\ (s \o new)[i] = s[i]
              \/ i - Len(s) \in DOMAIN new /\ (s \o new)[i] = new[i - Len(s)]
  <1>1. PICK S, T : s \in Seq(S) /\ new \in Seq(T)
    OBVIOUS
  <1>2. s \in Seq(S \cup T) /\ new \in Seq(S \cup T)
    BY <1>1
  <1>3. s \o new \in Seq(S \cup T)
    BY <1>2
  <1>4. \A i \in DOMAIN (s \o new) :
          \/ i \in DOMAIN s /\ (s \o new)[i] = s[i]
          \/ i - Len(s) \in DOMAIN new /\ (s \o new)[i] = new[i - Len(s)]
    BY <1>2
  <1> QED BY <1>3, <1>4

LEMMA AppendKeeps ==
  ASSUME NEW s, NEW x, \E S : s \in Seq(S)
  PROVE  /\ \E S : Append(s, x) \in Seq(S)
         /\ \A i \in DOMAIN Append(s, x) :
               \/ i \in DOMAIN s /\ Append(s, x)[i] = s[i]
               \/ Append(s, x)[i] = x
         /\ DOMAIN Append(s, x) = DOMAIN s \cup {Len(s) + 1} /\ Len(s) + 1 \notin DOMAIN s
         /\ Append(s, x)[Len(s) + 1] = x
         /\ \A i \in DOMAIN s : Append(s, x)[i] = s[i]
  <1>1. PICK S : s \in Seq(S)
    OBVIOUS
  <1>2. s \in Seq(S \cup {x})
    BY <1>1
  <1>3. Append(s, x) \in Seq(S \cup {x})
    BY <1>2
  <1>4. /\ \A i \in DOMAIN Append(s, x) :
               \/ i \in DOMAIN s /\ Append(s, x)[i] = s[i]
               \/ Append(s, x)[i] = x
        /\ DOMAIN Append(s, x) = DOMAIN s \cup {Len(s) + 1} /\ Len(s) + 1 \notin DOMAIN s
        /\ Append(s, x)[Len(s) + 1] = x
        /\ \A i \in DOMAIN s : Append(s, x)[i] = s[i]
    BY <1>2
  <1> QED BY <1>3, <1>4

\* A queue whose elements are replaced is a queue.
LEMMA SameLength ==
  ASSUME NEW s, \E S : s \in Seq(S), NEW g, g = [i \in DOMAIN s |-> g[i]]
  PROVE  (\E S : g \in Seq(S)) /\ DOMAIN g = DOMAIN s
  <1>1. PICK S : s \in Seq(S)
    OBVIOUS
  <1> DEFINE T == {g[i] : i \in DOMAIN s}
  <1>2. DOMAIN s = 1..Len(s) /\ Len(s) \in Nat
    BY <1>1
  <1>3. \A i \in DOMAIN s : g[i] \in T
    OBVIOUS
  <1> HIDE DEF T
  <1>4. g \in [1..Len(s) -> T]
    BY <1>2, <1>3
  <1>5. g \in Seq(T)
    BY <1>2, <1>4
  <1>6. DOMAIN g = DOMAIN s
    BY <1>2, <1>4
  <1> QED BY <1>5, <1>6

\* A writer whose size or state changes is a writer.
LEMMA WriterGrows ==
  ASSUME NEW f, Writer(f), NEW x, NEW g, g = [f EXCEPT !.size = x]
  PROVE  Writer(g) /\ g.name = f.name /\ g.open = f.open
  <1>1. PICK n, z, o : f = [name |-> n, size |-> z, open |-> o]
    BY DEF Writer
  <1>2. [f EXCEPT !.size = x] = [name |-> n, size |-> x, open |-> o]
    BY <1>1
  <1> QED BY <1>1, <1>2 DEF Writer

LEMMA WriterCloses ==
  ASSUME NEW f, Writer(f), NEW g, g = [f EXCEPT !.open = FALSE]
  PROVE  Writer(g) /\ g.name = f.name /\ g.open = FALSE
  <1>1. PICK n, z, o : f = [name |-> n, size |-> z, open |-> o]
    BY DEF Writer
  <1>2. \A no : [f EXCEPT !.open = no] = [name |-> n, size |-> z, open |-> no]
    BY <1>1
  <1>3. [f EXCEPT !.open = FALSE] = [name |-> n, size |-> z, open |-> FALSE]
    BY <1>2, Zenon
  <1> QED BY <1>1, <1>3 DEF Writer

\* Writers in place of writers.
LEMMA WritersChange ==
  ASSUME NEW fs, Writers(fs), NEW g, g = [h \in DOMAIN fs |-> g[h]],
         \A h \in DOMAIN fs : Writer(g[h])
  PROVE  Writers(g) /\ DOMAIN g = DOMAIN fs
  BY SameLength DEF Writers

-----------------------------------------------------------------------------
(* Steps of the unit and of the plugin: they add to the pipe.              *)

LEMMA PipeStays ==
  ASSUME Inv, UNCHANGED <<pipe, hostVars>>
  PROVE  Inv'
  BY DEF Inv, PipeInv, FilesInv, ReportInv, SecretsStay, hostVars, OpenHandles

\* What may be put into the pipe.
Harmless(frame) ==
  /\ frame.t = "close" => frame.h \in DOMAIN files
  /\ frame.t = "output" /\ frame.reported => ~DefOf(frame.port).sensitive

LEMMA PipeGrows ==
  ASSUME Inv, UNCHANGED hostVars, NEW frames, \E S : frames \in Seq(S), pipe' = pipe \o frames,
         \A i \in DOMAIN frames : Harmless(frames[i])
  PROVE  Inv'
  <1>1. PipeInv'
    BY ConcatKeeps DEF Inv, PipeInv, Harmless, hostVars
  <1>2. FilesInv'
    BY DEF Inv, FilesInv, hostVars, OpenHandles
  <1>3. ReportInv'
    BY ConcatKeeps DEF Inv, PipeInv, ReportInv, SecretsStay, Harmless, hostVars
  <1> QED BY <1>1, <1>2, <1>3 DEF Inv

LEMMA OneFrame ==
  ASSUME Inv, UNCHANGED hostVars, NEW frame, pipe' = Append(pipe, frame), Harmless(frame)
  PROVE  Inv'
  <1>1. PipeInv'
    <2>1. \E S : pipe' \in Seq(S)
      BY AppendKeeps DEF Inv, PipeInv
    <2>2. \A i \in DOMAIN pipe' : pipe'[i] = frame \/ (i \in DOMAIN pipe /\ pipe'[i] = pipe[i])
      BY AppendKeeps DEF Inv, PipeInv
    <2>3. files' = files
      BY DEF hostVars
    <2> QED BY <2>1, <2>2, <2>3 DEF Inv, PipeInv, Harmless
  <1>2. FilesInv'
    BY DEF Inv, FilesInv, hostVars, OpenHandles
  <1>3. ReportInv'
    BY AppendKeeps DEF Inv, PipeInv, ReportInv, SecretsStay, Harmless, hostVars
  <1> QED BY <1>1, <1>2, <1>3 DEF Inv

LEMMA ChunksAreFrames ==
  ASSUME NEW h, NEW n \in Nat
  PROVE  /\ \E S : Chunks(h, n) \in Seq(S)
         /\ \A i \in DOMAIN Chunks(h, n) : Chunks(h, n)[i].t = "chunk"
  <1> DEFINE k == (n + ChunkMax - 1) \div ChunkMax
             frame(i) == [t |-> "chunk", h |-> h, n |-> IF i * ChunkMax > n THEN n % ChunkMax ELSE ChunkMax]
  <1>1. k \in Nat
    BY ChunkAssumption
  <1>2. Chunks(h, n) = [i \in 1..k |-> frame(i)]
    BY DEF Chunks
  <1> HIDE DEF k
  <1>3. Chunks(h, n) \in Seq({frame(i) : i \in 1..k})
    BY <1>1, <1>2
  <1>4. DOMAIN Chunks(h, n) = 1..k /\ \A i \in 1..k : Chunks(h, n)[i] = frame(i)
    BY <1>2
  <1>5. \A i : frame(i).t = "chunk"
    OBVIOUS
  <1> HIDE DEF frame
  <1> QED BY <1>3, <1>4, <1>5

LEMMA UnitSteps ==
  ASSUME Inv, UnitEmits \/ UnitReturns \/ UnitFails \/ PluginWritesOutput \/ PluginAnswers
              \/ (\E name \in Artifacts : UnitOpens(name))
              \/ (\E h \in OpenHandles, n \in Amounts : UnitWrites(h, n))
              \/ (\E h \in OpenHandles : UnitCloses(h))
              \/ (\E p \in Ports \cup {StrayPort}, v \in Documents \cup {Unencodable} : UnitSetsOutput(p, v))
  PROVE  Inv'
  <1>1. CASE UnitEmits
    BY <1>1, PipeStays DEF UnitEmits
  <1>2. CASE UnitReturns
    BY <1>2, PipeStays DEF UnitReturns
  <1>3. CASE UnitFails
    BY <1>3, OneFrame DEF UnitFails, Harmless
  <1>4. CASE PluginWritesOutput
    <2> DEFINE p == Outputs[looked + 1].name
               f == [t |-> "output", port |-> p, doc |-> env.outputs[p], reported |-> Reported(p)]
    <2>1. \/ UNCHANGED pipe
          \/ pipe' = Append(pipe, [t |-> "error"])
          \/ pipe' = Append(pipe, f)
      BY <1>4 DEF PluginWritesOutput
    <2>2. UNCHANGED hostVars
      BY <1>4 DEF PluginWritesOutput
    <2>3. Harmless(f)
      BY DEF Harmless, Reported
    <2>4. Harmless([t |-> "error"])
      BY DEF Harmless
    <2> QED BY <2>1, <2>2, <2>3, <2>4, PipeStays, OneFrame
  <1>5. CASE PluginAnswers
    <2> DEFINE done == [t |-> "done"]
               flush == [t |-> "flush", metrics |-> env.metrics]
    <2>1. LastFrames = <<done>> \/ LastFrames = <<flush, done>>
      BY DEF LastFrames
    <2>2. Harmless(done) /\ Harmless(flush)
      BY DEF Harmless
    <2> HIDE DEF done, flush
    <2>3. <<done>> \in Seq({done, flush}) /\ <<flush, done>> \in Seq({done, flush})
      OBVIOUS
    <2>4. \A i \in DOMAIN LastFrames : Harmless(LastFrames[i])
      BY <2>1, <2>2
    <2> QED BY <1>5, <2>1, <2>3, <2>4, PipeGrows DEF PluginAnswers
  <1>6. CASE \E name \in Artifacts : UnitOpens(name)
    BY <1>6, OneFrame DEF UnitOpens, Harmless
  <1>7. CASE \E h \in OpenHandles, n \in Amounts : UnitWrites(h, n)
    <2>1. PICK h \in OpenHandles, n \in Amounts : UnitWrites(h, n)
      BY <1>7
    <2>2. n \in Nat
      BY AmountsAssumption
    <2>3. \A i \in DOMAIN Chunks(h, n) : Harmless(Chunks(h, n)[i])
      BY <2>2, ChunksAreFrames DEF Harmless
    <2> QED BY <2>1, <2>2, <2>3, ChunksAreFrames, PipeGrows DEF UnitWrites
  <1>8. CASE \E h \in OpenHandles : UnitCloses(h)
    BY <1>8, OneFrame DEF UnitCloses, Harmless, OpenHandles
  <1>9. CASE \E p \in Ports \cup {StrayPort}, v \in Documents \cup {Unencodable} : UnitSetsOutput(p, v)
    BY <1>9, PipeStays DEF UnitSetsOutput
  <1> QED BY <1>1, <1>2, <1>3, <1>4, <1>5, <1>6, <1>7, <1>8, <1>9

-----------------------------------------------------------------------------
(* Steps of the host.                                                      *)

\* The host takes the next frame: what is left in the pipe is as it was, and the
\* frame it has was harmless.
LEMMA HostTakes ==
  ASSUME Inv, pipe # <<>>, pipe' = Tail(pipe), DOMAIN files \subseteq DOMAIN files'
  PROVE  /\ PipeInv'
         /\ \A i \in DOMAIN pipe' :
              pipe'[i].t = "output" /\ pipe'[i].reported => ~DefOf(pipe'[i].port).sensitive
         /\ Harmless(Head(pipe))
  <1>1. \A i \in DOMAIN pipe' : i + 1 \in DOMAIN pipe /\ pipe'[i] = pipe[i + 1]
    BY TailKeeps DEF Inv, PipeInv
  <1>2. 1 \in DOMAIN pipe /\ Head(pipe) = pipe[1] /\ \E S : pipe' \in Seq(S)
    BY TailKeeps DEF Inv, PipeInv
  <1> QED BY <1>1, <1>2 DEF Inv, PipeInv, ReportInv, Harmless

\* When the run is over, every handle is closed and in the result.
LEMMA LeavesNothing ==
  ASSUME NEW writers, Writers(writers), Leave(writers),
         DOMAIN recorded \subseteq {writers[h].name : h \in DOMAIN writers},
         \A h \in DOMAIN writers : writers[h].open \/ writers[h].name \in DOMAIN recorded
  PROVE  FilesInv' /\ DOMAIN files' = DOMAIN writers
  <1>1. files' = [h \in DOMAIN writers |-> [writers[h] EXCEPT !.open = FALSE]]
    BY DEF Leave, CloseAll
  <1>2. /\ files' = [h \in DOMAIN writers |-> files'[h]]
        /\ \A h \in DOMAIN writers : files'[h] = [writers[h] EXCEPT !.open = FALSE]
    BY <1>1
  <1>3. \A h \in DOMAIN writers : /\ Writer(files'[h]) /\ files'[h].name = writers[h].name
                                  /\ ~files'[h].open
    BY <1>2, WriterCloses DEF Writers
  <1>4. Writers(files') /\ DOMAIN files' = DOMAIN writers
    BY <1>2, <1>3, WritersChange
  <1>5. DOMAIN recorded' = DOMAIN recorded \cup {writers[h].name : h \in {h \in DOMAIN writers : writers[h].open}}
    BY DEF Leave, CloseAll
  <1>6. DOMAIN recorded' = {files'[h].name : h \in DOMAIN files'}
    BY <1>3, <1>4, <1>5
  <1>7. OpenHandles' = {}
    BY <1>3, <1>4 DEF OpenHandles
  <1>8. Writers(files)'
    BY <1>4 DEF Writers
  <1> QED BY <1>3, <1>4, <1>6, <1>7, <1>8 DEF FilesInv

LEMMA HostFileSteps ==
  ASSUME Inv, HostOpens \/ HostWrites \/ HostCloses
  PROVE  Inv'
  <1>1. FilesInv
    BY DEF Inv
  <1>2. /\ pipe # <<>> /\ pipe' = Tail(pipe) /\ result' = "running"
        /\ UNCHANGED <<outputs, given>>
    BY DEF HostOpens, HostWrites, HostCloses, Arrives
  <1>3. FilesInv' /\ DOMAIN files \subseteq DOMAIN files'
    <2>1. CASE HostOpens
      <3> DEFINE w == [name |-> Head(pipe).name, size |-> 0, open |-> TRUE]
      <3>1. files' = Append(files, w) /\ recorded' = recorded
        BY <2>1 DEF HostOpens
      <3>2. w.open /\ Writer(w)
        BY DEF Writer
      <3> HIDE DEF w
      <3>3. \E S : files' \in Seq(S)
        BY <1>1, <3>1, AppendKeeps DEF FilesInv, Writers
      <3>4. /\ DOMAIN files \subseteq DOMAIN files'
            /\ \A h \in DOMAIN files : files'[h] = files[h]
            /\ \A h \in DOMAIN files' : h \in DOMAIN files \/ files'[h] = w
        BY <1>1, <3>1, AppendKeeps DEF FilesInv, Writers
      <3>5. Writers(files)'
        BY <1>1, <3>2, <3>3, <3>4 DEF FilesInv, Writers, Writer
      <3>6. DOMAIN recorded' \subseteq {files'[h].name : h \in DOMAIN files'}
        BY <1>1, <3>1, <3>4 DEF FilesInv
      <3>7. \A h \in DOMAIN files' : files'[h].open \/ files'[h].name \in DOMAIN recorded'
        BY <1>1, <3>1, <3>2, <3>4 DEF FilesInv
      <3> QED BY <1>2, <3>4, <3>5, <3>6, <3>7 DEF FilesInv
    <2>2. CASE HostWrites
      <3> DEFINE x == files[Head(pipe).h].size + Head(pipe).n
      <3>1. files' = [files EXCEPT ![Head(pipe).h].size = x] /\ recorded' = recorded
        BY <2>2 DEF HostWrites
      <3> HIDE DEF x
      <3>2. /\ files' = [h \in DOMAIN files |-> files'[h]]
            /\ \A h \in DOMAIN files : files'[h] = files[h] \/ files'[h] = [files[h] EXCEPT !.size = x]
        BY <3>1
      <3>3. \A h \in DOMAIN files : /\ Writer(files'[h]) /\ files'[h].name = files[h].name
                                    /\ files'[h].open = files[h].open
        <4>1. SUFFICES ASSUME NEW h \in DOMAIN files
                       PROVE  Writer(files'[h]) /\ files'[h].name = files[h].name /\ files'[h].open = files[h].open
          OBVIOUS
        <4>2. Writer(files[h])
          BY <1>1 DEF FilesInv, Writers
        <4>3. CASE files'[h] = files[h]
          BY <4>2, <4>3
        <4>4. CASE files'[h] = [files[h] EXCEPT !.size = x]
          BY <4>2, <4>4, WriterGrows, SMTT(30)
        <4> QED BY <3>2, <4>3, <4>4
      <3>4. Writers(files') /\ DOMAIN files' = DOMAIN files
        BY <1>1, <3>2, <3>3, WritersChange DEF FilesInv
      <3>5. Writers(files)'
        BY <3>4 DEF Writers
      <3> QED BY <1>1, <1>2, <3>1, <3>3, <3>4, <3>5 DEF FilesInv
    <2>3. CASE HostCloses
      <3> DEFINE h == Head(pipe).h
      <3>1. h \in DOMAIN files
        BY <1>2, <2>3, HostTakes, TailKeeps DEF Inv, PipeInv, HostCloses, Arrives
      <3>2. /\ files' = [files EXCEPT ![h].open = FALSE]
            /\ DOMAIN recorded' = DOMAIN recorded \cup {files[h].name}
        BY <2>3 DEF HostCloses, Put
      <3> HIDE DEF h
      <3>3. /\ files' = [g \in DOMAIN files |-> files'[g]]
            /\ \A g \in DOMAIN files : files'[g] = files[g] \/ files'[g] = [files[g] EXCEPT !.open = FALSE]
            /\ \A g \in DOMAIN files : g # h => files'[g] = files[g]
        BY <3>2
      <3>4. \A g \in DOMAIN files : Writer(files'[g]) /\ files'[g].name = files[g].name
        BY <1>1, <3>3, WriterCloses DEF FilesInv, Writers
      <3>5. Writers(files') /\ DOMAIN files' = DOMAIN files
        BY <1>1, <3>3, <3>4, WritersChange DEF FilesInv
      <3>6. Writers(files)'
        BY <3>5 DEF Writers
      <3>7. \A g \in DOMAIN files : files'[g].open \/ files[g].name \in DOMAIN recorded'
        BY <1>1, <3>2, <3>3 DEF FilesInv
      <3> QED BY <1>1, <1>2, <3>1, <3>2, <3>4, <3>5, <3>6, <3>7 DEF FilesInv
    <2> QED BY <2>1, <2>2, <2>3
  <1>4. PipeInv' /\ ReportInv'
    BY <1>2, <1>3, HostTakes DEF Inv, ReportInv, SecretsStay
  <1> QED BY <1>3, <1>4 DEF Inv

LEMMA HostDataSteps ==
  ASSUME Inv, HostSetsOutput \/ HostFlushes
  PROVE  Inv'
  <1>1. pipe # <<>> /\ pipe' = Tail(pipe) /\ UNCHANGED <<result, files, recorded, given>>
    BY DEF HostSetsOutput, HostFlushes, Arrives
  <1>2. FilesInv'
    BY <1>1 DEF Inv, FilesInv, OpenHandles
  <1>3. Harmless(Head(pipe))
    BY <1>1, HostTakes
  <1>4. SecretsStay'
    <2>1. CASE HostFlushes
      BY <2>1 DEF HostFlushes, Inv, ReportInv, SecretsStay
    <2>2. CASE HostSetsOutput
      <3> DEFINE f == Head(pipe)
      <3>1. /\ f.t = "output" /\ given' = given
            /\ outputs' = Put(outputs, f.port, [doc |-> f.doc, reported |-> f.reported])
        BY <2>2 DEF HostSetsOutput, Arrives
      <3>2. f.reported => ~DefOf(f.port).sensitive
        BY <1>3, <3>1 DEF Harmless
      <3> QED BY <3>1, <3>2 DEF Put, Inv, ReportInv, SecretsStay
    <2> QED BY <2>1, <2>2
  <1> QED BY <1>1, <1>2, <1>4, HostTakes DEF Inv, ReportInv

LEMMA HostLeaves ==
  ASSUME Inv, HostReturns \/ HostFails \/ WriteFails
  PROVE  Inv'
  <1>1. UNCHANGED <<outputs, given>>
    BY DEF HostReturns, HostFails, WriteFails
  <1>3. FilesInv' /\ DOMAIN files' = DOMAIN files
    <2>1. CASE HostReturns \/ HostFails
      BY <2>1, LeavesNothing DEF HostReturns, HostFails, Inv, FilesInv
    <2>2. CASE WriteFails
      <3>1. PICK n : Leave([files EXCEPT ![Head(pipe).h].size = @ + n])
        BY <2>2 DEF WriteFails
      <3> DEFINE x == files[Head(pipe).h].size + n
                 writers == [files EXCEPT ![Head(pipe).h].size = x]
      <3>2. Leave(writers)
        BY <3>1
      <3> HIDE DEF x
      <3>3. /\ writers = [h \in DOMAIN files |-> writers[h]]
            /\ \A h \in DOMAIN files : writers[h] = files[h] \/ writers[h] = [files[h] EXCEPT !.size = x]
        OBVIOUS
      <3> HIDE DEF writers
      <3>4. \A h \in DOMAIN files : /\ Writer(writers[h]) /\ writers[h].name = files[h].name
                                    /\ writers[h].open = files[h].open
        <4>1. SUFFICES ASSUME NEW h \in DOMAIN files
                       PROVE  Writer(writers[h]) /\ writers[h].name = files[h].name /\ writers[h].open = files[h].open
          OBVIOUS
        <4>2. Writer(files[h])
          BY DEF Inv, FilesInv, Writers
        <4>3. CASE writers[h] = files[h]
          BY <4>2, <4>3
        <4>4. CASE writers[h] = [files[h] EXCEPT !.size = x]
          BY <4>2, <4>4, WriterGrows
        <4> QED BY <3>3, <4>3, <4>4
      <3>5. Writers(writers) /\ DOMAIN writers = DOMAIN files
        BY <3>3, <3>4, WritersChange DEF Inv, FilesInv
      <3> QED BY <3>2, <3>4, <3>5, LeavesNothing DEF Inv, FilesInv
    <2> QED BY <2>1, <2>2
  <1>4. PipeInv' /\ \A i \in DOMAIN pipe' :
              pipe'[i].t = "output" /\ pipe'[i].reported => ~DefOf(pipe'[i].port).sensitive
    <2>1. CASE HostReturns
      BY <2>1, <1>3, HostTakes DEF HostReturns, Arrives
    <2>2. CASE HostFails \/ WriteFails
      <3>1. pipe' = <<>>
        BY <2>2 DEF HostFails, WriteFails
      <3>2. pipe' \in Seq({})
        BY <3>1
      <3> QED BY <3>1, <3>2 DEF PipeInv
    <2> QED BY <2>1, <2>2
  <1> QED BY <1>1, <1>3, <1>4 DEF Inv, ReportInv, SecretsStay

\* What crosses is the value of an output that is not sensitive.
LEMMA NextUnitStep ==
  ASSUME Inv, NEW p \in Ports, NEW def \in InputDefs, NextUnitRuns(p, def)
  PROVE  Inv'
  <1>1. UNCHANGED <<pipe, result, files, recorded, outputs>>
    BY DEF NextUnitRuns
  <1>2. DefOf(p) \in PortDefs
    BY OutputsAssumption DEF DefOf, Ports, ToSet
  <1>3. Crosses(DefOf(p)) => ~DefOf(p).sensitive
    BY <1>2 DEF Crosses, Metadata, PortDefs
  <1>4. given'.got = "input" => given'.port = p /\ Crosses(DefOf(p))
    BY DEF NextUnitRuns, Encodes
  <1>5. SecretsStay'
    BY <1>1, <1>3, <1>4 DEF Inv, ReportInv, SecretsStay
  <1> QED BY <1>1, <1>5 DEF Inv, PipeInv, FilesInv, ReportInv, OpenHandles

-----------------------------------------------------------------------------
LEMMA Initially == Init => Inv
  <1> SUFFICES ASSUME Init PROVE Inv
    OBVIOUS
  <1>1. files \in Seq({}) /\ pipe \in Seq({}) /\ DOMAIN files = {}
    BY DEF Init
  <1> QED BY <1>1 DEF Init, Inv, PipeInv, FilesInv, Writers, ReportInv, SecretsStay

LEMMA Inductive == Inv /\ [Next]_vars => Inv'
  <1> SUFFICES ASSUME Inv, [Next]_vars PROVE Inv'
    OBVIOUS
  <1>1. CASE UNCHANGED vars
    BY <1>1, PipeStays DEF vars, hostVars
  <1>2. CASE Next
    BY <1>2, UnitSteps, HostFileSteps, HostDataSteps, HostLeaves, NextUnitStep DEF Next
  <1> QED BY <1>1, <1>2

\* The invariant holds of every run of a unit in a plugin, from RemoteUnit.Run to
\* the frames of StdioClient.Run.
THEOREM InvHolds == Spec => []Inv
  BY Initially, Inductive, PTL DEF Spec

\* However the run of a unit in a plugin ends, no artifact is left open and every
\* one that was opened is in the result (NothingLeftOpen).
THEOREM NothingIsLeft == Spec => []NothingLeftOpen
  <1>1. Inv => NothingLeftOpen
    BY DEF Inv, FilesInv, NothingLeftOpen, OpenHandles
  <1> QED BY <1>1, InvHolds, PTL

\* A sensitive output is neither reported nor sent on, whatever the inputs it is
\* wired to declare (SecretsStay).
THEOREM SecretsAreKept == Spec => []SecretsStay
  <1>1. Inv => SecretsStay
    BY DEF Inv, ReportInv
  <1> QED BY <1>1, InvHolds, PTL

\* percentileNearestRank takes the nearest rank: the smallest of which at least the
\* given share of the samples are not above it, for any number of samples.
THEOREM RankIsNearest ==
  ASSUME NEW n \in Nat \ {0}, NEW percent \in 1..100
  PROVE  LET rank == LocalRun!NearestRank(n, percent)
         IN rank \in 1..n /\ 100 * rank >= percent * n /\ 100 * (rank - 1) < percent * n
  <1> DEFINE m == percent * n
             q == (m + 99) \div 100
  <1>1. m \in Nat /\ 1 <= m /\ m <= 100 * n
    <2>1. n <= percent * n /\ percent * n <= 100 * n
      OBVIOUS
    <2> QED BY <2>1
  <1>2. LocalRun!NearestRank(n, percent) = IF q < 1 THEN 1 ELSE IF q > n THEN n ELSE q
    BY DEF LocalRun!NearestRank
  <1> HIDE DEF m
  <1>3. q \in Nat /\ 100 * q <= m + 99 /\ m + 99 < 100 * q + 100
    BY <1>1
  <1> HIDE DEF q
  <1>4. q \in 1..n
    BY <1>1, <1>3
  <1>5. LocalRun!NearestRank(n, percent) = q
    BY <1>2, <1>4
  <1>6. 100 * q >= m /\ 100 * (q - 1) < m
    BY <1>1, <1>3
  <1> QED BY <1>4, <1>5, <1>6 DEF m

-----------------------------------------------------------------------------
(* The run as a run in the process of the engine: the invariant.           *)

\* What the plugin keeps: a key that is no duration has no smallest and no largest.
Aggregate(s, key) ==
  /\ s \in [count : Nat, sum : Nat, min : Nat, max : Nat]
  /\ key \notin Durations => s.min = 0 /\ s.max = 0
KeptInv ==
  /\ pc \in {"run", "ask", "outputs", "gone"} /\ result \in {"running", "ok", "failed"}
  /\ env = [metrics |-> env.metrics, outputs |-> env.outputs]
  /\ env.metrics = [key \in DOMAIN env.metrics |-> env.metrics[key]]
  /\ \A key \in DOMAIN env.metrics : Aggregate(env.metrics[key], key)

\* A frame says what the plugin has, and is about a handle that is open: p, open, e, m
\* and l are the state of the plugin, the open handles, its environment, the metrics of
\* the host and the outputs looked at.
Fits(f, p, open, e, m, l) ==
  /\ f.t = "open" => f.name \in Artifacts /\ p = "ask"
  /\ f.t \in {"chunk", "close"} => f.h \in open
  /\ f.t = "chunk" => f.n \in Nat
  /\ f.t = "close" => p = "ask"
  /\ f.t = "output" =>
       f.port \in DOMAIN e.outputs \cap Ports /\ f.doc = e.outputs[f.port] /\ p \in {"outputs", "gone"}
  /\ f.t = "flush" => f.metrics = e.metrics /\ m = <<>> /\ p = "gone"
  /\ f.t = "done" => p = "gone" /\ l = Len(Outputs)
FrameSound(f) == Fits(f, pc, OpenHandles, env, metrics, looked)
SoundNext(f) == Fits(f, pc', OpenHandles', env', metrics', looked')

\* A question is the last frame until it is answered; the response of the run is the
\* last one, after the metrics if there are any.
FramesInv ==
  \A i \in DOMAIN pipe :
    /\ FrameSound(pipe[i])
    /\ pipe[i].t \in {"open", "close", "done"} => i = Len(pipe)
    /\ pipe[i].t = "flush" => i = Len(pipe) - 1
    /\ pipe[i].t = "done" => metrics = env.metrics \/ (i # 1 /\ pipe[i - 1].t = "flush")

\* The host has the outputs the plugin has looked at, or they are on their way.
Sent(p) ==
  \/ p \in DOMAIN outputs
  \/ \E i \in DOMAIN pipe : pipe[i].t = "error" \/ (pipe[i].t = "output" /\ pipe[i].port = p)
OutputsInv ==
  /\ looked \in 0..Len(Outputs)
  /\ pc \in {"run", "ask"} => looked = 0 /\ DOMAIN outputs = {}
  /\ DOMAIN outputs \subseteq DOMAIN env.outputs \cap Ports
  /\ \A p \in DOMAIN outputs : outputs[p].doc = env.outputs[p]
  /\ result = "running" =>
       \A i \in 1..looked : Outputs[i].name \in DOMAIN env.outputs => Sent(Outputs[i].name)

\* The host has the metrics of the plugin, or none.
MetricsInv == metrics = <<>> \/ (pc = "gone" /\ metrics = env.metrics)

\* The result has the size of one of the files of each artifact.
RecordedInv ==
  /\ \A h \in DOMAIN files : files[h].size \in Nat
  /\ \A n \in DOMAIN recorded : \E h \in DOMAIN files :
        files[h].name = n /\ files[h].size = recorded[n] /\ ~files[h].open

RunInv == KeptInv /\ FramesInv /\ OutputsInv /\ MetricsInv /\ RecordedInv
-----------------------------------------------------------------------------
(* The bytes on their way.                                                 *)

FrameBytes(h, f) == IF f.t = "chunk" /\ f.h = h THEN f.n ELSE 0
Countable(s) == (\E S : s \in Seq(S)) /\ \A i \in DOMAIN s : s[i].t = "chunk" => s[i].n \in Nat

LEMMA BytesAre ==
  ASSUME NEW h, NEW s, NEW e
  PROVE  e \in Bytes(h, s) <=>
           \E i \in DOMAIN s : \E k \in 1..s[i].n : s[i].t = "chunk" /\ s[i].h = h /\ e = <<i, k>>
  BY DEF Bytes

LEMMA Places == \A n \in Nat : IsFiniteSet(1..n) /\ Cardinality(1..n) = n
  <1> TAKE n \in Nat
  <1> QED BY FS_Interval

LEMMA BytesFinite ==
  ASSUME NEW h, NEW s, Countable(s)
  PROVE  IsFiniteSet(Bytes(h, s)) /\ Cardinality(Bytes(h, s)) \in Nat
  <1> DEFINE I == {j \in DOMAIN s : s[j].t = "chunk" /\ s[j].h = h}
             part(i) == {i} \X (1..s[i].n)
             parts == {part(i) : i \in I}
             f == [i \in I |-> part(i)]
  <1>1. IsFiniteSet(I)
    <2>1. PICK S : s \in Seq(S)
      BY DEF Countable
    <2>2. DOMAIN s = 1..Len(s) /\ Len(s) \in Nat
      BY <2>1
    <2>3. IsFiniteSet(1..Len(s))
      BY <2>2, FS_Interval
    <2>4. I \in SUBSET (1..Len(s))
      BY <2>2
    <2> HIDE DEF I
    <2> QED BY <2>3, <2>4, FS_Subset
  <1>2. f \in Surjection(I, parts)
    BY DEF Surjection
  <1>3. \A i \in I : IsFiniteSet(part(i))
    <2> TAKE i \in I
    <2>1. s[i].n \in Nat
      BY DEF Countable
    <2>2. IsFiniteSet(1..s[i].n) /\ IsFiniteSet({i})
      BY <2>1, Places, FS_Singleton
    <2> QED BY <2>2, FS_Product
  <1>4. Bytes(h, s) = UNION parts
    BY DEF Bytes
  <1> HIDE DEF I, f, part
  <1>5. IsFiniteSet(parts)
    BY <1>1, <1>2, FS_Surjection
  <1>6. IsFiniteSet(UNION parts)
    BY <1>3, <1>5, FS_UNION
  <1> QED BY <1>4, <1>6, FS_CardinalityType

\* Frames that follow others add their bytes.
LEMMA BytesConcat ==
  ASSUME NEW h, NEW s, NEW r, Countable(s), Countable(r)
  PROVE  Countable(s \o r) /\ Cardinality(Bytes(h, s \o r)) = Cardinality(Bytes(h, s)) + Cardinality(Bytes(h, r))
  <1>1. PICK S, T : s \in Seq(S) /\ r \in Seq(T)
    BY DEF Countable
  <1>2. s \in Seq(S \cup T) /\ r \in Seq(S \cup T)
    BY <1>1
  <1>3. /\ s \o r \in Seq(S \cup T) /\ Len(s) \in Nat /\ DOMAIN s = 1..Len(s)
        /\ \A i \in DOMAIN s : i \in DOMAIN (s \o r) /\ (s \o r)[i] = s[i]
        /\ \A i \in DOMAIN r : i \in Nat \ {0} /\ i + Len(s) \in DOMAIN (s \o r) /\ (s \o r)[i + Len(s)] = r[i]
        /\ \A i \in DOMAIN (s \o r) : i \in DOMAIN s \/ (i \in Nat /\ i - Len(s) \in DOMAIN r)
    BY <1>2
  <1> DEFINE move(e) == <<e[1] + Len(s), e[2]>>
             B == Bytes(h, r)
             moved == {move(e) : e \in B}
             f == [e \in B |-> move(e)]
  <1>4. Countable(s \o r)
    <2> SUFFICES ASSUME NEW i \in DOMAIN (s \o r), (s \o r)[i].t = "chunk" PROVE (s \o r)[i].n \in Nat
      BY <1>3 DEF Countable
    <2>1. CASE i \in DOMAIN s
      BY <1>3, <2>1 DEF Countable
    <2>2. CASE i \in Nat /\ i - Len(s) \in DOMAIN r
      <3>1. i = (i - Len(s)) + Len(s)
        BY <1>3, <2>2
      <3> QED BY <1>3, <2>2, <3>1 DEF Countable
    <2> QED BY <1>3, <2>1, <2>2
  <1>5. \A e \in B : /\ e = <<e[1], e[2]>> /\ e[1] \in DOMAIN r /\ e[2] \in 1..r[e[1]].n
                     /\ r[e[1]].t = "chunk" /\ r[e[1]].h = h
    BY BytesAre
  <1>6. Bytes(h, s \o r) = Bytes(h, s) \cup moved
    <2>1. ASSUME NEW e \in Bytes(h, s \o r) PROVE e \in Bytes(h, s) \cup moved
      <3>0. \E i \in DOMAIN (s \o r) : \E k \in 1..(s \o r)[i].n :
               (s \o r)[i].t = "chunk" /\ (s \o r)[i].h = h /\ e = <<i, k>>
        <4> DEFINE q == s \o r
        <4>1. e \in Bytes(h, q)
          BY <2>1
        <4> HIDE DEF q
        <4>2. \E i \in DOMAIN q : \E k \in 1..q[i].n : q[i].t = "chunk" /\ q[i].h = h /\ e = <<i, k>>
          BY <4>1 DEF Bytes
        <4> QED BY <4>2 DEF q
      <3>1. PICK i \in DOMAIN (s \o r) : \E k \in 1..(s \o r)[i].n :
                 (s \o r)[i].t = "chunk" /\ (s \o r)[i].h = h /\ e = <<i, k>>
        BY <3>0, Zenon
      <3>2. PICK k \in 1..(s \o r)[i].n : (s \o r)[i].t = "chunk" /\ (s \o r)[i].h = h /\ e = <<i, k>>
        BY <3>1
      <3>3. CASE i \in DOMAIN s
        <4>1. (s \o r)[i] = s[i]
          BY <1>3, <3>3
        <4> QED BY <3>2, <3>3, <4>1, BytesAre
      <3>4. CASE i \in Nat /\ i - Len(s) \in DOMAIN r
        <4> DEFINE j == i - Len(s)
        <4>1. i = j + Len(s) /\ j \in DOMAIN r
          BY <1>3, <3>4
        <4>2. (s \o r)[i] = r[j]
          BY <1>3, <4>1
        <4> HIDE DEF j
        <4>3. <<j, k>> \in B
          BY <3>2, <4>1, <4>2, BytesAre
        <4>4. move(<<j, k>>) = e
          BY <3>2, <4>1
        <4> QED BY <4>3, <4>4
      <3> QED BY <1>3, <3>3, <3>4
    <2>2. ASSUME NEW e \in Bytes(h, s) PROVE e \in Bytes(h, s \o r)
      <3>1. PICK i \in DOMAIN s : \E k \in 1..s[i].n : s[i].t = "chunk" /\ s[i].h = h /\ e = <<i, k>>
        BY <2>2, BytesAre
      <3>2. (s \o r)[i] = s[i] /\ i \in DOMAIN (s \o r)
        BY <1>3
      <3> QED BY <3>1, <3>2, BytesAre, ZenonT(30)
    <2>3. ASSUME NEW e \in B PROVE move(e) \in Bytes(h, s \o r)
      <3>1. (s \o r)[e[1] + Len(s)] = r[e[1]] /\ e[1] + Len(s) \in DOMAIN (s \o r)
        BY <1>3, <1>5
      <3>2. \E i \in DOMAIN (s \o r) : \E k \in 1..(s \o r)[i].n :
               (s \o r)[i].t = "chunk" /\ (s \o r)[i].h = h /\ move(e) = <<i, k>>
        BY <1>5, <3>1
      <3> QED BY <3>2, BytesAre, Zenon
    <2> QED BY <2>1, <2>2, <2>3
  <1>7. Bytes(h, s) \cap moved = {}
    <2> SUFFICES ASSUME NEW e \in B, move(e) \in Bytes(h, s) PROVE FALSE
      OBVIOUS
    <2>1. e[1] + Len(s) \in DOMAIN s
      BY BytesAre
    <2> QED BY <1>3, <1>5, <2>1
  <1>8. f \in Bijection(B, moved)
    <2>1. \A a, b \in B : move(a) = move(b) => a = b
      <3> SUFFICES ASSUME NEW a \in B, NEW b \in B, move(a) = move(b) PROVE a = b
        OBVIOUS
      <3>1. a[1] + Len(s) = b[1] + Len(s) /\ a[2] = b[2]
        OBVIOUS
      <3>2. a[1] \in Nat /\ b[1] \in Nat
        BY <1>3, <1>5
      <3>3. a[1] = b[1]
        BY <1>3, <3>1, <3>2
      <3> QED BY <1>5, <3>1, <3>3
    <2> HIDE DEF move, B
    <2> QED BY <2>1 DEF Bijection, Injection, Surjection, IsInjective
  <1> HIDE DEF moved, f
  <1>9. /\ IsFiniteSet(Bytes(h, s)) /\ Cardinality(Bytes(h, s)) \in Nat
        /\ IsFiniteSet(B) /\ Cardinality(B) \in Nat
    BY BytesFinite
  <1>10. IsFiniteSet(moved) /\ Cardinality(moved) = Cardinality(B)
    BY <1>8, <1>9, FS_Bijection DEF ExistsBijection
  <1>11. Cardinality(Bytes(h, s) \cup moved) = Cardinality(Bytes(h, s)) + Cardinality(moved) - 0
    BY <1>7, <1>9, <1>10, FS_Union, FS_EmptySet
  <1> QED BY <1>4, <1>6, <1>9, <1>10, <1>11

LEMMA BytesOfOne ==
  ASSUME NEW h, NEW f, f.t = "chunk" => f.n \in Nat
  PROVE  Countable(<<f>>) /\ Cardinality(Bytes(h, <<f>>)) = FrameBytes(h, f)
  <1>1. Countable(<<f>>)
    <2>1. <<f>> \in Seq({f}) /\ DOMAIN <<f>> = {1} /\ <<f>>[1] = f
      OBVIOUS
    <2> QED BY <2>1 DEF Countable
  <1>2. CASE f.t = "chunk" /\ f.h = h
    <2>1. \A e : e \in Bytes(h, <<f>>) <=> e \in {1} \X (1..f.n)
      BY <1>2, BytesAre
    <2>2. Bytes(h, <<f>>) = {1} \X (1..f.n)
      BY <2>1 DEF Bytes
    <2>3. /\ IsFiniteSet({1}) /\ Cardinality({1}) = 1
          /\ IsFiniteSet(1..f.n) /\ Cardinality(1..f.n) = f.n
      BY <1>2, FS_Singleton, Places
    <2>4. Cardinality({1} \X (1..f.n)) = Cardinality({1}) * Cardinality(1..f.n)
      BY <2>3, FS_Product
    <2>5. Cardinality({1}) * Cardinality(1..f.n) = f.n
      BY <1>2, <2>3
    <2>6. Cardinality(Bytes(h, <<f>>)) = f.n
      BY <2>2, <2>4, <2>5, Zenon
    <2> QED BY <1>1, <1>2, <2>6 DEF FrameBytes
  <1>3. CASE ~(f.t = "chunk" /\ f.h = h)
    <2>1. \A e : e \notin Bytes(h, <<f>>)
      BY <1>3, BytesAre
    <2>2. Bytes(h, <<f>>) = {}
      BY <2>1
    <2> QED BY <1>1, <1>3, <2>2, FS_EmptySet DEF FrameBytes
  <1> QED BY <1>2, <1>3

LEMMA BytesAppend ==
  ASSUME NEW h, NEW s, NEW f, Countable(s), f.t = "chunk" => f.n \in Nat
  PROVE  /\ Countable(Append(s, f))
         /\ Cardinality(Bytes(h, Append(s, f))) = Cardinality(Bytes(h, s)) + FrameBytes(h, f)
  <1>1. Append(s, f) = s \o <<f>>
    <2>1. PICK S : s \in Seq(S)
      BY DEF Countable
    <2>2. s \in Seq(S \cup {f})
      BY <2>1
    <2> QED BY <2>2
  <1> QED BY <1>1, BytesConcat, BytesOfOne

LEMMA BytesTail ==
  ASSUME NEW h, NEW s, Countable(s), s # <<>>
  PROVE  /\ Countable(Tail(s)) /\ (Head(s).t = "chunk" => Head(s).n \in Nat)
         /\ Cardinality(Bytes(h, s)) = Cardinality(Bytes(h, Tail(s))) + FrameBytes(h, Head(s))
         /\ Cardinality(Bytes(h, Tail(s))) \in Nat
  <1>1. s = <<Head(s)>> \o Tail(s)
    <2>1. PICK S : s \in Seq(S)
      BY DEF Countable
    <2> QED BY <2>1
  <1>2. Countable(Tail(s)) /\ (Head(s).t = "chunk" => Head(s).n \in Nat)
    BY TailKeeps DEF Countable
  <1>3. Cardinality(Bytes(h, s)) = Cardinality(Bytes(h, <<Head(s)>>)) + Cardinality(Bytes(h, Tail(s)))
    <2>1. Countable(<<Head(s)>>)
      BY <1>2, BytesOfOne
    <2>2. Cardinality(Bytes(h, <<Head(s)>> \o Tail(s)))
            = Cardinality(Bytes(h, <<Head(s)>>)) + Cardinality(Bytes(h, Tail(s)))
      BY <1>2, <2>1, BytesConcat
    <2> QED BY <1>1, <2>2
  <1>4. Cardinality(Bytes(h, <<Head(s)>>)) = FrameBytes(h, Head(s))
    BY <1>2, BytesOfOne
  <1>5. Cardinality(Bytes(h, Tail(s))) \in Nat /\ FrameBytes(h, Head(s)) \in Nat
    BY <1>2, BytesFinite DEF FrameBytes
  <1> QED BY <1>2, <1>3, <1>4, <1>5

LEMMA Times ==
  ASSUME NEW c \in Nat, NEW i \in Nat, NEW j \in Nat, i <= j
  PROVE  i * c <= j * c
  OBVIOUS

LEMMA Euclid ==
  ASSUME NEW a \in Nat, NEW c \in Nat \ {0}
  PROVE  /\ a \div c \in Nat /\ a % c \in Nat /\ a % c < c /\ a = (a \div c) * c + (a % c)
         /\ \A i, r \in Nat : a = i * c + r /\ r < c => i = a \div c /\ r = a % c
  <1>1. a \div c \in Nat /\ a % c \in Nat /\ a % c < c /\ a = (a \div c) * c + (a % c)
    OBVIOUS
  <1> DEFINE q == a \div c
             m == a % c
  <1>2. ASSUME NEW i \in Nat, NEW r \in Nat, a = i * c + r, r < c PROVE i = q /\ r = m
    <2> HIDE DEF q, m
    <2>0. q \in Nat /\ m \in Nat /\ m < c /\ a = q * c + m
      BY <1>1 DEF q, m
    <2>1. CASE i < q
      <3>1. (i + 1) * c <= q * c
        BY <2>0, <2>1, Times
      <3>2. (i + 1) * c = i * c + c
        OBVIOUS
      <3> QED BY <1>2, <2>0, <3>1, <3>2
    <2>2. CASE q < i
      <3>1. (q + 1) * c <= i * c
        BY <2>0, <2>2, Times
      <3>2. (q + 1) * c = q * c + c
        BY <2>0
      <3> QED BY <1>2, <2>0, <3>1, <3>2
    <2> QED BY <1>2, <2>0, <2>1, <2>2
  <1> QED BY <1>1, <1>2

\* remoteArtifactWriter.Write sends all it was given, in chunks.
LEMMA BytesOfChunks ==
  ASSUME NEW h, NEW n \in Nat
  PROVE  /\ Countable(Chunks(h, n)) /\ Cardinality(Bytes(h, Chunks(h, n))) = n
         /\ \A g : g # h => Cardinality(Bytes(g, Chunks(h, n))) = 0
         /\ \A i \in DOMAIN Chunks(h, n) : Chunks(h, n)[i].t = "chunk" /\ Chunks(h, n)[i].h = h
  <1> DEFINE q == (n + ChunkMax - 1) \div ChunkMax
             size(i) == IF i * ChunkMax > n THEN n % ChunkMax ELSE ChunkMax
             chunk(i) == [t |-> "chunk", h |-> h, n |-> size(i)]
             C == Chunks(h, n)
  <1>1. C = [i \in 1..q |-> chunk(i)]
    BY DEF Chunks
  <1>2. ChunkMax \in Nat \ {0}
    BY ChunkAssumption
  <1>3. q \in Nat /\ n <= q * ChunkMax /\ q * ChunkMax < n + ChunkMax
    <2>1. n + ChunkMax - 1 \in Nat
      BY <1>2
    <2> QED BY <1>2, <2>1, Euclid
  <1>4. \A i : chunk(i).t = "chunk" /\ chunk(i).h = h /\ chunk(i).n = size(i)
    OBVIOUS
  <1>5. \A i \in Nat : size(i) \in Nat /\ size(i) <= ChunkMax
    BY <1>2, Euclid
  <1>6. ASSUME NEW i \in 1..q
        PROVE  (i - 1) * ChunkMax + size(i) <= n
    <2>1. CASE i * ChunkMax > n
      <3> DEFINE r == n - (i - 1) * ChunkMax
      <3>1. (i - 1) * ChunkMax <= (q - 1) * ChunkMax
        <4>1. i - 1 \in Nat /\ q - 1 \in Nat /\ i - 1 <= q - 1
          BY <1>3
        <4> QED BY <1>2, <4>1, Times
      <3>2. (q - 1) * ChunkMax = q * ChunkMax - ChunkMax /\ (i - 1) * ChunkMax = i * ChunkMax - ChunkMax
        BY <1>2, <1>3
      <3>3. r \in Nat /\ r < ChunkMax /\ i - 1 \in Nat /\ n = (i - 1) * ChunkMax + r
        BY <1>2, <1>3, <2>1, <3>1, <3>2
      <3> HIDE DEF r
      <3>4. r = n % ChunkMax
        BY <1>2, <3>3, Euclid
      <3> QED BY <2>1, <3>3, <3>4
    <2>2. CASE ~(i * ChunkMax > n)
      <3>1. (i - 1) * ChunkMax = i * ChunkMax - ChunkMax
        BY <1>2
      <3> QED BY <1>2, <2>2, <3>1
    <2> QED BY <2>1, <2>2
  <1>7. ASSUME NEW i \in 1..q, i * ChunkMax > n PROVE (i - 1) * ChunkMax + size(i) = n
    <2> DEFINE r == n - (i - 1) * ChunkMax
    <2>1. (i - 1) * ChunkMax <= (q - 1) * ChunkMax
      <3>1. i - 1 \in Nat /\ q - 1 \in Nat /\ i - 1 <= q - 1
        BY <1>3
      <3> QED BY <1>2, <3>1, Times
    <2>2. (q - 1) * ChunkMax = q * ChunkMax - ChunkMax /\ (i - 1) * ChunkMax = i * ChunkMax - ChunkMax
      BY <1>2, <1>3
    <2>3. r \in Nat /\ r < ChunkMax /\ i - 1 \in Nat /\ n = (i - 1) * ChunkMax + r
      BY <1>2, <1>3, <1>7, <2>1, <2>2
    <2> HIDE DEF r
    <2>4. r = n % ChunkMax
      BY <1>2, <2>3, Euclid
    <2> QED BY <1>7, <2>3, <2>4
  <1> HIDE DEF q
  <1>8. DOMAIN C = 1..q /\ \A i \in 1..q : C[i] = chunk(i)
    BY <1>1
  <1>9. Countable(C)
    <2>1. C \in Seq({chunk(i) : i \in 1..q})
      BY <1>1, <1>3
    <2> QED BY <1>4, <1>5, <1>8, <2>1, SMTT(30) DEF Countable
  <1> HIDE DEF chunk, C
  <1> DEFINE B == Bytes(h, C)
             f == [e \in B |-> (e[1] - 1) * ChunkMax + e[2]]
  <1>10. \A e : e \in B <=> \E i \in 1..q : \E k \in 1..size(i) : e = <<i, k>>
    <2>1. \A e : e \in B <=> \E i \in DOMAIN C : \E k \in 1..C[i].n : C[i].t = "chunk" /\ C[i].h = h /\ e = <<i, k>>
      BY DEF Bytes
    <2>2. \A i \in DOMAIN C : C[i].t = "chunk" /\ C[i].h = h /\ C[i].n = size(i)
      BY <1>4, <1>8
    <2> HIDE DEF B, size
    <2> QED BY <1>8, <2>1, <2>2
  <1>11. \A e \in B : e = <<e[1], e[2]>> /\ e[1] \in 1..q /\ e[2] \in 1..size(e[1])
    BY <1>10
  <1>12. f \in [B -> 1..n]
    <2> SUFFICES ASSUME NEW e \in B PROVE (e[1] - 1) * ChunkMax + e[2] \in 1..n
      OBVIOUS
    <2>1. e[1] \in 1..q /\ e[2] \in 1..size(e[1]) /\ size(e[1]) \in Nat
      BY <1>5, <1>11
    <2>2. (e[1] - 1) * ChunkMax + size(e[1]) <= n
      BY <1>6, <2>1
    <2>3. (e[1] - 1) * ChunkMax \in Nat
      BY <1>2, <2>1
    <2> HIDE DEF size
    <2> QED BY <2>1, <2>2, <2>3
  <1>13. \A a, b \in B : f[a] = f[b] => a = b
    <2> SUFFICES ASSUME NEW a \in B, NEW b \in B,
                        (a[1] - 1) * ChunkMax + a[2] = (b[1] - 1) * ChunkMax + b[2]
                 PROVE  a = b
      OBVIOUS
    <2>1. /\ a[1] \in 1..q /\ b[1] \in 1..q /\ a[2] \in 1..ChunkMax /\ b[2] \in 1..ChunkMax
      BY <1>2, <1>5, <1>11
    <2> DEFINE x == (a[1] - 1) * ChunkMax + (a[2] - 1)
    <2>2. /\ x \in Nat /\ a[1] - 1 \in Nat /\ b[1] - 1 \in Nat /\ a[2] - 1 \in Nat /\ b[2] - 1 \in Nat
          /\ a[2] - 1 < ChunkMax /\ b[2] - 1 < ChunkMax
          /\ x = (a[1] - 1) * ChunkMax + (a[2] - 1) /\ x = (b[1] - 1) * ChunkMax + (b[2] - 1)
      BY <1>2, <2>1
    <2> HIDE DEF x
    <2> DEFINE the(i, r) == i = x \div ChunkMax /\ r = x % ChunkMax
    <2>a. \A i, r \in Nat : x = i * ChunkMax + r /\ r < ChunkMax => the(i, r)
      BY <1>2, <2>2, Euclid
    <2>b. the(a[1] - 1, a[2] - 1) /\ the(b[1] - 1, b[2] - 1)
      <3> HIDE DEF the
      <3> QED BY <2>2, <2>a, Zenon
    <2>3. a[1] - 1 = b[1] - 1 /\ a[2] - 1 = b[2] - 1
      BY <2>b
    <2>4. a[1] = b[1] /\ a[2] = b[2]
      BY <2>1, <2>3
    <2> QED BY <1>11, <2>4
  <1>14. ASSUME NEW m \in 1..n PROVE \E e \in B : f[e] = m
    <2> DEFINE i == ((m - 1) \div ChunkMax) + 1
               k == ((m - 1) % ChunkMax) + 1
    <2>1. i \in Nat /\ k \in 1..ChunkMax /\ 1 <= i /\ (i - 1) * ChunkMax + k = m
      <3>1. m - 1 \in Nat
        OBVIOUS
      <3> QED BY <1>2, <3>1, Euclid
    <2> HIDE DEF i, k
    <2>2. i <= q
      <3> SUFFICES ASSUME q <= i - 1 PROVE FALSE
        BY <1>3, <2>1
      <3>1. q * ChunkMax <= (i - 1) * ChunkMax
        <4>1. i - 1 \in Nat
          BY <2>1
        <4> QED BY <1>2, <1>3, <4>1, Times
      <3>2. (i - 1) * ChunkMax \in Nat /\ q * ChunkMax \in Nat
        BY <1>2, <1>3, <2>1
      <3> QED BY <1>3, <2>1, <3>1, <3>2
    <2>3. i \in 1..q
      BY <1>3, <2>1, <2>2
    <2>4. k <= size(i)
      <3>1. CASE i * ChunkMax > n
        <4>1. (i - 1) * ChunkMax + size(i) = n
          BY <1>7, <2>3, <3>1
        <4>2. (i - 1) * ChunkMax \in Nat /\ size(i) \in Nat
          BY <1>2, <1>5, <2>1
        <4> HIDE DEF size
        <4> QED BY <2>1, <4>1, <4>2
      <3>2. CASE ~(i * ChunkMax > n)
        BY <2>1, <3>2
      <3> QED BY <3>1, <3>2
    <2>5. k \in 1..size(i)
      BY <1>5, <2>1, <2>4
    <2>6. <<i, k>> \in B
      BY <1>10, <2>3, <2>5
    <2>7. f[<<i, k>>] = m
      BY <2>1, <2>6
    <2> QED BY <2>6, <2>7
  <1> HIDE DEF f, B
  <1>15. f \in Bijection(B, 1..n)
    BY <1>12, <1>13, <1>14 DEF Bijection, Injection, Surjection, IsInjective
  <1>16. IsFiniteSet(B)
    BY <1>9, BytesFinite DEF B
  <1>17. Cardinality(1..n) = Cardinality(B)
    BY <1>15, <1>16, FS_Bijection DEF ExistsBijection
  <1>18. Cardinality(B) = n
    BY <1>17, Places
  <1>19. ASSUME NEW g, g # h PROVE Cardinality(Bytes(g, C)) = 0
    <2>1. \A e : e \notin Bytes(g, C)
      <3>1. \A e : e \in Bytes(g, C) <=> \E i \in DOMAIN C : \E k \in 1..C[i].n : C[i].t = "chunk" /\ C[i].h = g /\ e = <<i, k>>
        BY DEF Bytes
      <3>2. \A i \in DOMAIN C : C[i].h = h
        BY <1>4, <1>8
      <3> QED BY <1>19, <3>1, <3>2
    <2>2. Bytes(g, C) = {}
      BY <2>1
    <2> QED BY <2>2, FS_EmptySet
  <1> QED BY <1>4, <1>8, <1>9, <1>18, <1>19 DEF B, C


-----------------------------------------------------------------------------
(* What the run looks like to the engine.                                  *)

LEMMA WriterIs ==
  ASSUME NEW f, Writer(f)
  PROVE  /\ \A x : [f EXCEPT !.size = x] = [name |-> f.name, size |-> x, open |-> f.open]
         /\ [f EXCEPT !.size = f.size] = f
         /\ \A x : [f EXCEPT !.open = x] = [name |-> f.name, size |-> f.size, open |-> x]
  <1>1. PICK n, z, o : f = [name |-> n, size |-> z, open |-> o]
    BY DEF Writer
  <1>2. \A x : [f EXCEPT !.size = x] = [name |-> n, size |-> x, open |-> o]
    BY <1>1
  <1>3. \A x : [f EXCEPT !.open = x] = [name |-> n, size |-> z, open |-> x]
    BY <1>1
  <1> QED BY <1>1, <1>2, <1>3

\* While the run goes on, with what is still in the plugin and in the pipe ...
SeenFile(h) == [name |-> files[h].name, size |-> Written(h), open |-> files[h].open]
AsRunning ==
  /\ FilesSeen = [h \in DOMAIN files |-> SeenFile(h)]
  /\ MetricsSeen = env.metrics
  /\ OutputsSeen = [p \in DOMAIN env.outputs \cap Ports |-> env.outputs[p]]
LEMMA SeenRunning == Inv /\ result = "running" => AsRunning
  <1> SUFFICES ASSUME Inv, result = "running" PROVE AsRunning
    OBVIOUS
  <1>1. FilesSeen = [h \in DOMAIN files |-> [files[h] EXCEPT !.size = Written(h)]]
    BY DEF FilesSeen
  <1>2. \A h \in DOMAIN files : [files[h] EXCEPT !.size = Written(h)] = SeenFile(h)
    BY WriterIs DEF Inv, FilesInv, Writers, SeenFile
  <1>3. FilesSeen = [h \in DOMAIN files |-> SeenFile(h)]
    BY <1>1, <1>2
  <1> QED BY <1>3 DEF MetricsSeen, OutputsSeen, AsRunning

\* ... and, when it is over, what the host has.
AsOver ==
  /\ FilesSeen = files /\ MetricsSeen = metrics
  /\ OutputsSeen = [p \in DOMAIN outputs |-> outputs[p].doc]
LEMMA SeenOver == Inv /\ result # "running" => AsOver
  <1> SUFFICES ASSUME Inv, result # "running" PROVE AsOver
    OBVIOUS
  <1>1. FilesSeen = [h \in DOMAIN files |-> [files[h] EXCEPT !.size = files[h].size]]
    BY DEF FilesSeen
  <1>2. \A h \in DOMAIN files : [files[h] EXCEPT !.size = files[h].size] = files[h]
    BY WriterIs DEF Inv, FilesInv, Writers
  <1>3. files = [h \in DOMAIN files |-> files[h]]
    <2>1. PICK S : files \in Seq(S)
      BY DEF Inv, FilesInv, Writers
    <2> QED BY <2>1
  <1>4. FilesSeen = files
    BY <1>1, <1>2, <1>3
  <1> QED BY <1>4 DEF MetricsSeen, OutputsSeen, AsOver

LEMMA SeenNext == Inv' => (result' = "running" => AsRunning') /\ (result' # "running" => AsOver')
  <1>1. Inv /\ result = "running" => AsRunning
    BY SeenRunning
  <1>2. Inv /\ result # "running" => AsOver
    BY SeenOver
  <1>3. Inv' => ((result = "running")' => AsRunning') /\ ((result # "running")' => AsOver')
    BY <1>1, <1>2, PTL
  <1> QED BY <1>3

LEMMA SameFiles ==
  ASSUME Inv, Inv', result = "running", UNCHANGED <<result, files>>,
         \A h \in DOMAIN files : Coming(h)' = Coming(h)
  PROVE  FilesSeen' = FilesSeen
  <1>1. AsRunning /\ AsRunning'
    BY SeenRunning, SeenNext
  <1>2. \A h \in DOMAIN files : SeenFile(h)' = SeenFile(h)
    BY DEF SeenFile, Written
  <1> QED BY <1>1, <1>2 DEF AsRunning

LEMMA SameOutputs ==
  ASSUME Inv, Inv', result = "running", UNCHANGED result,
         \A p \in Ports : /\ p \in DOMAIN env.outputs <=> p \in DOMAIN env'.outputs
                          /\ p \in DOMAIN env.outputs => env'.outputs[p] = env.outputs[p]
  PROVE  OutputsSeen' = OutputsSeen
  <1>1. AsRunning /\ AsRunning'
    BY SeenRunning, SeenNext
  <1> QED BY <1>1 DEF AsRunning

\* A step that changes nothing the engine can tell.
LEMMA Stutters ==
  ASSUME Inv, Inv', result = "running", UNCHANGED <<result, env, files, recorded>>,
         \A h \in DOMAIN files : Coming(h)' = Coming(h)
  PROVE  UNCHANGED LocalRun!vars
  <1>1. MetricsSeen' = MetricsSeen
    BY SeenRunning, SeenNext DEF AsRunning
  <1>2. FilesSeen' = FilesSeen /\ OutputsSeen' = OutputsSeen
    BY SameFiles, SameOutputs
  <1> QED BY <1>1, <1>2 DEF LocalRun!vars

-----------------------------------------------------------------------------
(* The frames.                                                             *)

LEMMA PipeCounts ==
  ASSUME Inv, FramesInv
  PROVE  Countable(pipe) /\ DOMAIN pipe = 1..Len(pipe) /\ Len(pipe) \in Nat
  <1>1. PICK S : pipe \in Seq(S)
    BY DEF Inv, PipeInv
  <1> QED BY <1>1 DEF Countable, FramesInv, FrameSound, Fits

\* While the plugin waits for nothing and has not answered, nothing is asked.
LEMMA NothingAsked ==
  ASSUME FramesInv, pc \in {"run", "outputs"}
  PROVE  \A i \in DOMAIN pipe : /\ pipe[i].t \notin {"open", "close", "flush", "done"}
                                /\ pc = "run" => pipe[i].t # "output"
  BY DEF FramesInv, FrameSound, Fits

\* What a frame in the pipe says does not change while the host does nothing.
LEMMA StaysSound ==
  ASSUME FramesInv, pc \in {"run", "outputs"}, UNCHANGED <<metrics, files>>,
         pc = "run" \/ (env' = env /\ pc' \in {"outputs", "gone"})
  PROVE  \A i \in DOMAIN pipe : SoundNext(pipe[i])
  BY NothingAsked DEF FramesInv, FrameSound, SoundNext, Fits, OpenHandles

\* Frames that are put into a pipe in which nothing is asked.
LEMMA FramesGrow ==
  ASSUME Inv, FramesInv, pc \in {"run", "outputs"},
         \A i \in DOMAIN pipe : SoundNext(pipe[i]),
         NEW new, \E S : new \in Seq(S), pipe' = pipe \o new,
         \A i \in DOMAIN new :
           /\ SoundNext(new[i])
           /\ new[i].t \in {"open", "close", "done"} => i = Len(new)
           /\ new[i].t = "flush" => i = Len(new) - 1
           /\ new[i].t = "done" => metrics' = env'.metrics \/ (i # 1 /\ new[i - 1].t = "flush")
  PROVE  FramesInv'
  <1>1. PICK S, T : pipe \in Seq(S) /\ new \in Seq(T)
    BY DEF Inv, PipeInv
  <1>2. pipe \in Seq(S \cup T) /\ new \in Seq(S \cup T)
    BY <1>1
  <1>3. /\ pipe' \in Seq(S \cup T) /\ Len(pipe) \in Nat /\ Len(new) \in Nat
        /\ Len(pipe') = Len(pipe) + Len(new)
        /\ \A i \in DOMAIN pipe' : \/ i \in DOMAIN pipe /\ pipe'[i] = pipe[i]
                                   \/ /\ i \in Nat /\ i - Len(pipe) \in DOMAIN new
                                      /\ pipe'[i] = new[i - Len(pipe)]
        /\ \A i \in DOMAIN new : i \in Nat \ {0} /\ pipe'[i + Len(pipe)] = new[i]
    BY <1>2
  <1>4. \A i \in DOMAIN pipe : pipe[i].t \notin {"open", "close", "flush", "done"}
    BY NothingAsked
  <1> SUFFICES ASSUME NEW i \in DOMAIN pipe'
               PROVE  /\ SoundNext(pipe'[i])
                      /\ pipe'[i].t \in {"open", "close", "done"} => i = Len(pipe')
                      /\ pipe'[i].t = "flush" => i = Len(pipe') - 1
                      /\ pipe'[i].t = "done" => metrics' = env'.metrics
                                                  \/ (i # 1 /\ pipe'[i - 1].t = "flush")
    BY DEF FramesInv, FrameSound, SoundNext
  <1>5. CASE i \in DOMAIN pipe /\ pipe'[i] = pipe[i]
    BY <1>4, <1>5
  <1>6. CASE i \in Nat /\ i - Len(pipe) \in DOMAIN new /\ pipe'[i] = new[i - Len(pipe)]
    <2> DEFINE j == i - Len(pipe)
    <2>1. j \in DOMAIN new /\ j \in Nat \ {0} /\ i = j + Len(pipe) /\ pipe'[i] = new[j]
      BY <1>3, <1>6
    <2> HIDE DEF j
    <2>2. SoundNext(pipe'[i])
      BY <2>1
    <2>3. /\ pipe'[i].t \in {"open", "close", "done"} => i = Len(pipe')
          /\ pipe'[i].t = "flush" => i = Len(pipe') - 1
      <3>1. /\ new[j].t \in {"open", "close", "done"} => j = Len(new)
            /\ new[j].t = "flush" => j = Len(new) - 1
        BY <2>1
      <3>2. j \in Nat /\ Len(pipe') = Len(pipe) + Len(new) /\ Len(pipe) \in Nat /\ Len(new) \in Nat
        BY <1>3, <2>1
      <3> QED BY <2>1, <3>1, <3>2
    <2>4. ASSUME pipe'[i].t = "done", metrics' # env'.metrics
          PROVE  i # 1 /\ pipe'[i - 1].t = "flush"
      <3>1. j # 1 /\ new[j - 1].t = "flush"
        BY <2>1, <2>4
      <3>2. j - 1 \in DOMAIN new
        BY <1>1, <2>1, <3>1
      <3>3. \A k \in DOMAIN new : pipe'[k + Len(pipe)] = new[k]
        BY <1>3
      <3>4. pipe'[(j - 1) + Len(pipe)] = new[j - 1]
        BY <3>2, <3>3
      <3>5. (j - 1) + Len(pipe) = i - 1 /\ i # 1
        <4>1. Len(pipe) \in Nat /\ j \in Nat \ {0} /\ i = j + Len(pipe)
          BY <1>3, <2>1
        <4> QED BY <3>1, <4>1
      <3> QED BY <3>1, <3>4, <3>5
    <2> QED BY <2>2, <2>3, <2>4
  <1> QED BY <1>3, <1>5, <1>6

LEMMA FrameIsAdded ==
  ASSUME Inv, FramesInv, pc \in {"run", "outputs"},
         \A i \in DOMAIN pipe : SoundNext(pipe[i]),
         NEW f, pipe' = Append(pipe, f), SoundNext(f), f.t \notin {"flush", "done"}
  PROVE  FramesInv'
  <1>1. PICK S : pipe \in Seq(S)
    BY DEF Inv, PipeInv
  <1>2. pipe \in Seq(S \cup {f})
    BY <1>1
  <1>3. pipe' = pipe \o <<f>>
    BY <1>2
  <1> DEFINE new == <<f>>
  <1>4. new \in Seq({f}) /\ Len(new) = 1 /\ \A i \in DOMAIN new : i = 1 /\ new[i] = f
    OBVIOUS
  <1>5. \E T : new \in Seq(T)
    BY <1>4
  <1> HIDE DEF new
  <1>6. pipe' = pipe \o new
    BY <1>3 DEF new
  <1>7. \A i \in DOMAIN new :
           /\ SoundNext(new[i])
           /\ new[i].t \in {"open", "close", "done"} => i = Len(new)
           /\ new[i].t = "flush" => i = Len(new) - 1
           /\ new[i].t = "done" => metrics' = env'.metrics \/ (i # 1 /\ new[i - 1].t = "flush")
    BY <1>4
  <1> QED BY <1>5, <1>6, <1>7, FramesGrow

\* A frame that is no chunk brings no bytes.
LEMMA NothingComes ==
  ASSUME Inv, FramesInv, NEW f, f.t # "chunk", pipe' = Append(pipe, f), NEW h
  PROVE  Coming(h)' = Coming(h)
  <1>1. Cardinality(Bytes(h, Append(pipe, f))) = Cardinality(Bytes(h, pipe)) + FrameBytes(h, f)
    BY PipeCounts, BytesAppend
  <1>2. FrameBytes(h, f) = 0 /\ Cardinality(Bytes(h, pipe)) \in Nat
    BY PipeCounts, BytesFinite DEF FrameBytes
  <1>3. Cardinality(Bytes(h, Append(pipe, f))) = Cardinality(Bytes(h, pipe))
    BY <1>1, <1>2
  <1>4. Bytes(h, pipe)' = Bytes(h, Append(pipe, f))
    BY DEF Bytes
  <1> QED BY <1>3, <1>4 DEF Coming

-----------------------------------------------------------------------------
(* The steps of the unit and of the plugin.                                *)

\* A step of the run in the process of the engine, or none.
LocalStep == LocalRun!Next \/ UNCHANGED LocalRun!vars

LEMMA UnitStays ==
  ASSUME RunInv, pc # "gone", UNCHANGED hostVars
  PROVE  MetricsInv' /\ RecordedInv' /\ metrics = <<>> /\ metrics' = <<>>
  <1>1. metrics = <<>> /\ UNCHANGED <<result, metrics, files, recorded, outputs, given>>
    BY DEF RunInv, MetricsInv, hostVars
  <1> QED BY <1>1 DEF RunInv, MetricsInv, RecordedInv

LEMMA EnvIs ==
  ASSUME env = [metrics |-> env.metrics, outputs |-> env.outputs], NEW x
  PROVE  /\ [env EXCEPT !.metrics = x] = [metrics |-> x, outputs |-> env.outputs]
         /\ [env EXCEPT !.outputs = x] = [metrics |-> env.metrics, outputs |-> x]
  <1>1. PICK m, o : env = [metrics |-> m, outputs |-> o]
    OBVIOUS
  <1> QED BY <1>1

LEMMA KeptAggregates ==
  ASSUME NEW items, items = [k \in DOMAIN items |-> items[k]],
         \A k \in DOMAIN items : Aggregate(items[k], k), NEW key, NEW n \in Nat
  PROVE  LET c == EmitCounter(items, key, n)
             d == ObserveDuration(items, key, n)
         IN /\ c = LocalRun!AddCounter(items, key, n) /\ c = [k \in DOMAIN c |-> c[k]]
            /\ \A k \in DOMAIN c : Aggregate(c[k], k)
            /\ d = LocalRun!AddDuration(items, key, n) /\ d = [k \in DOMAIN d |-> d[k]]
            /\ key \in Durations => \A k \in DOMAIN d : Aggregate(d[k], k)
  <1> DEFINE zero == [count |-> 0, sum |-> 0, min |-> 0, max |-> 0]
             one == [count |-> 0, sum |-> 0, min |-> n, max |-> n]
             oc == IF key \in DOMAIN items THEN items[key] ELSE zero
             od == IF key \in DOMAIN items THEN items[key] ELSE one
             nc == [count |-> oc.count + 1, sum |-> oc.sum + n, min |-> oc.min, max |-> oc.max]
             nd == [count |-> od.count + 1, sum |-> od.sum + n,
                    min |-> IF n < od.min THEN n ELSE od.min,
                    max |-> IF n > od.max THEN n ELSE od.max]
             c == EmitCounter(items, key, n)
             d == ObserveDuration(items, key, n)
  <1>1. c = [k \in DOMAIN items \cup {key} |-> IF k = key THEN nc ELSE items[k]]
    BY DEF EmitCounter, Put
  <1>2. d = [k \in DOMAIN items \cup {key} |-> IF k = key THEN nd ELSE items[k]]
    BY DEF ObserveDuration, Put
  <1>3. LocalRun!AddCounter(items, key, n) = [k \in DOMAIN items \cup {key} |-> IF k = key THEN nc ELSE items[k]]
    <2>1. LocalRun!AddCounter(items, key, n) = [k \in DOMAIN items \cup {key} |-> IF k # key THEN items[k] ELSE nc]
      BY DEF LocalRun!AddCounter
    <2> HIDE DEF nc
    <2> QED BY <2>1
  <1>4. LocalRun!AddDuration(items, key, n) = [k \in DOMAIN items \cup {key} |-> IF k = key THEN nd ELSE items[k]]
    <2>1. LocalRun!AddDuration(items, key, n) = [k \in DOMAIN items \cup {key} |-> IF k # key THEN items[k] ELSE nd]
      BY DEF LocalRun!AddDuration
    <2> HIDE DEF nd
    <2> QED BY <2>1
  <1>5. Aggregate(oc, key)
    <2>1. CASE key \in DOMAIN items
      BY <2>1
    <2>2. CASE key \notin DOMAIN items
      <3>1. oc = zero
        BY <2>2
      <3> QED BY <3>1 DEF Aggregate
    <2> QED BY <2>1, <2>2
  <1>6. key \in Durations => Aggregate(od, key)
    <2>1. CASE key \in DOMAIN items
      BY <2>1
    <2>2. CASE key \notin DOMAIN items
      <3>1. od = one
        BY <2>2
      <3> QED BY <3>1 DEF Aggregate
    <2> QED BY <2>1, <2>2
  <1> HIDE DEF oc, od
  <1>7. Aggregate(nc, key)
    BY <1>5 DEF Aggregate
  <1>8. key \in Durations => Aggregate(nd, key)
    BY <1>6 DEF Aggregate
  <1> HIDE DEF nc, nd, c, d
  <1>9. /\ DOMAIN c = DOMAIN items \cup {key} /\ c = [k \in DOMAIN c |-> c[k]]
        /\ \A k \in DOMAIN c : c[k] = IF k = key THEN nc ELSE items[k]
    BY <1>1
  <1>10. /\ DOMAIN d = DOMAIN items \cup {key} /\ d = [k \in DOMAIN d |-> d[k]]
         /\ \A k \in DOMAIN d : d[k] = IF k = key THEN nd ELSE items[k]
    BY <1>2
  <1>11. \A k \in DOMAIN c : Aggregate(c[k], k)
    BY <1>7, <1>9
  <1>12. key \in Durations => \A k \in DOMAIN d : Aggregate(d[k], k)
    BY <1>8, <1>10
  <1>13. c = LocalRun!AddCounter(items, key, n)
    BY <1>1, <1>3
  <1>14. d = LocalRun!AddDuration(items, key, n)
    BY <1>2, <1>4
  <1> QED BY <1>9, <1>10, <1>11, <1>12, <1>13, <1>14 DEF c, d

LEMMA EmitStep ==
  ASSUME Inv, Inv', RunInv, UnitEmits
  PROVE  RunInv' /\ LocalStep
  <1>1. /\ pc # "gone" /\ result = "running" /\ UNCHANGED <<pc, looked, pipe, hostVars>>
        /\ UNCHANGED <<result, metrics, files, recorded, outputs, given>>
    BY DEF UnitEmits, hostVars
  <1> DEFINE old == env.metrics
  <1>a. PICK n \in Amounts, key \in Counters \cup Durations :
          \/ key \in Counters /\ env' = [env EXCEPT !.metrics = EmitCounter(old, key, n)]
          \/ key \in Durations /\ env' = [env EXCEPT !.metrics = ObserveDuration(old, key, n)]
    BY DEF UnitEmits
  <1>2. PICK m :
          /\ env' = [env EXCEPT !.metrics = m]
          /\ \/ key \in Counters /\ m = EmitCounter(old, key, n)
             \/ key \in Durations /\ m = ObserveDuration(old, key, n)
    BY <1>a
  <1>3. env' = [metrics |-> m, outputs |-> env.outputs]
    BY <1>2, EnvIs DEF RunInv, KeptInv
  <1>4. /\ env'.metrics = m /\ env'.outputs = env.outputs
        /\ env' = [metrics |-> env'.metrics, outputs |-> env'.outputs]
    BY <1>3
  <1>5. n \in Nat
    BY AmountsAssumption
  <1>6. /\ EmitCounter(old, key, n) = LocalRun!AddCounter(old, key, n)
        /\ ObserveDuration(old, key, n) = LocalRun!AddDuration(old, key, n)
        /\ m = [k \in DOMAIN m |-> m[k]] /\ \A k \in DOMAIN m : Aggregate(m[k], k)
    BY <1>2, <1>5, KeptAggregates DEF RunInv, KeptInv
  <1>7. KeptInv'
    <2>1. /\ pc' \in {"run", "ask", "outputs", "gone"} /\ result' \in {"running", "ok", "failed"}
      BY <1>1 DEF RunInv, KeptInv
    <2> QED BY <1>4, <1>6, <2>1 DEF KeptInv, Aggregate
  <1>8. FramesInv'
    BY <1>1, <1>4 DEF RunInv, FramesInv, FrameSound, Fits, OpenHandles
  <1>9. OutputsInv'
    BY <1>1, <1>4 DEF RunInv, OutputsInv, Sent
  <1>10. MetricsInv' /\ RecordedInv'
    BY <1>1, UnitStays
  <1>11. RunInv'
    BY <1>7, <1>8, <1>9, <1>10 DEF RunInv
  <1>12. FilesSeen' = FilesSeen
    <2>1. \A h \in DOMAIN files : Coming(h)' = Coming(h)
      BY <1>1 DEF Coming, Bytes
    <2> QED BY <1>1, <2>1, SameFiles
  <1>13. OutputsSeen' = OutputsSeen
    BY <1>1, <1>4, SameOutputs
  <1>14. MetricsSeen = old /\ MetricsSeen' = m
    BY <1>1, <1>4 DEF MetricsSeen
  <1>16. \/ key \in Counters /\ LocalRun!EmitCounter(key, n)
         \/ key \in Durations /\ LocalRun!ObserveDuration(key, n)
    BY <1>1, <1>2, <1>6, <1>12, <1>13, <1>14 DEF LocalRun!EmitCounter, LocalRun!ObserveDuration
  <1>17. LocalRun!Next
    BY <1>16 DEF LocalRun!Next
  <1> QED BY <1>11, <1>17 DEF LocalStep

LEMMA SetOutputStep ==
  ASSUME Inv, Inv', RunInv, NEW p, NEW v \in Documents \cup {Unencodable}, UnitSetsOutput(p, v)
  PROVE  RunInv' /\ LocalStep
  <1>1. /\ pc = "run" /\ result = "running" /\ UNCHANGED <<pc, looked, pipe, hostVars>>
        /\ UNCHANGED <<result, metrics, files, recorded, outputs, given>>
    BY DEF UnitSetsOutput, hostVars
  <1>2. env' = [env EXCEPT !.outputs = Put(env.outputs, p, v)]
    BY DEF UnitSetsOutput
  <1>3. env' = [metrics |-> env.metrics, outputs |-> Put(env.outputs, p, v)]
    BY <1>2, EnvIs DEF RunInv, KeptInv
  <1>4. /\ env'.metrics = env.metrics
        /\ env' = [metrics |-> env'.metrics, outputs |-> env'.outputs]
        /\ DOMAIN env'.outputs = DOMAIN env.outputs \cup {p}
        /\ \A q \in DOMAIN env'.outputs : env'.outputs[q] = IF q = p THEN v ELSE env.outputs[q]
    BY <1>3 DEF Put
  <1>5. KeptInv'
    BY <1>1, <1>4 DEF RunInv, KeptInv, Aggregate
  <1>6. FramesInv'
    BY <1>1, <1>4, NothingAsked DEF RunInv, FramesInv, FrameSound, Fits, OpenHandles
  <1>7. OutputsInv'
    BY <1>1 DEF RunInv, OutputsInv
  <1>8. MetricsInv' /\ RecordedInv'
    BY <1>1, UnitStays
  <1>9. RunInv'
    BY <1>5, <1>6, <1>7, <1>8 DEF RunInv
  <1>10. FilesSeen' = FilesSeen
    <2>1. \A h \in DOMAIN files : Coming(h)' = Coming(h)
      BY <1>1 DEF Coming, Bytes
    <2> QED BY <1>1, <2>1, SameFiles
  <1>11. MetricsSeen' = MetricsSeen
    BY <1>1, <1>4 DEF MetricsSeen
  <1>12. CASE p \notin Ports
    <2>1. OutputsSeen' = OutputsSeen
      BY <1>1, <1>4, <1>12, SameOutputs
    <2> QED BY <1>1, <1>9, <1>10, <1>11, <2>1 DEF LocalStep, LocalRun!vars
  <1>13. CASE p \in Ports
    <2>1. /\ OutputsSeen = [q \in DOMAIN env.outputs \cap Ports |-> env.outputs[q]]
          /\ OutputsSeen' = [q \in DOMAIN env'.outputs \cap Ports |-> env'.outputs[q]]
      BY <1>1, SeenRunning, SeenNext DEF AsRunning
    <2>2. OutputsSeen' = [q \in DOMAIN OutputsSeen \cup {p} |-> IF q = p THEN v ELSE OutputsSeen[q]]
      BY <1>4, <1>13, <2>1
    <2>3. LocalRun!SetOutput(p, v)
      BY <1>1, <1>10, <1>11, <2>2 DEF LocalRun!SetOutput
    <2> QED BY <1>9, <1>13, <2>3 DEF LocalStep, LocalRun!Next
  <1> QED BY <1>12, <1>13

\* What is kept in the plugin does not change.
LEMMA KeptStays ==
  ASSUME KeptInv, UNCHANGED <<env, result>>, pc' \in {"run", "ask", "outputs", "gone"}
  PROVE  KeptInv'
  BY DEF KeptInv, Aggregate

\* The frames that were on their way still are.
LEMMA SentGrows ==
  ASSUME Inv, UNCHANGED outputs, NEW new, \E S : new \in Seq(S), pipe' = pipe \o new, NEW p, Sent(p)
  PROVE  Sent(p)'
  <1>1. PICK S, T : pipe \in Seq(S) /\ new \in Seq(T)
    BY DEF Inv, PipeInv
  <1>2. pipe \in Seq(S \cup T) /\ new \in Seq(S \cup T)
    BY <1>1
  <1>3. \A i \in DOMAIN pipe : i \in DOMAIN pipe' /\ pipe'[i] = pipe[i]
    BY <1>2
  <1> QED BY <1>3 DEF Sent

LEMMA SentAppend ==
  ASSUME Inv, UNCHANGED outputs, NEW f, pipe' = Append(pipe, f), NEW p
  PROVE  /\ Sent(p) => Sent(p)'
         /\ f.t = "error" \/ (f.t = "output" /\ f.port = p) => Sent(p)'
  <1>1. /\ \A i \in DOMAIN pipe : i \in DOMAIN pipe' /\ pipe'[i] = pipe[i]
        /\ Len(pipe) + 1 \in DOMAIN pipe' /\ pipe'[Len(pipe) + 1] = f
    BY AppendKeeps DEF Inv, PipeInv
  <1> QED BY <1>1 DEF Sent

\* A question, or the error that ends the run.
LEMMA AskStep ==
  ASSUME Inv, Inv', RunInv, pc = "run", result = "running", NEW f, pipe' = Append(pipe, f),
         UNCHANGED <<env, looked, hostVars>>,
         \/ f.t = "open" /\ f.name \in Artifacts /\ pc' = "ask"
         \/ f.t = "close" /\ f.h \in OpenHandles /\ pc' = "ask"
         \/ f.t = "error" /\ pc' = "gone"
  PROVE  RunInv' /\ LocalStep
  <1>1. UNCHANGED <<result, metrics, files, recorded, outputs, given>>
    BY DEF hostVars
  <1>2. KeptInv'
    BY <1>1, KeptStays DEF RunInv
  <1>3. FramesInv'
    <2>1. \A i \in DOMAIN pipe : SoundNext(pipe[i])
      BY <1>1, StaysSound DEF RunInv
    <2>2. SoundNext(f)
      BY <1>1 DEF SoundNext, Fits, OpenHandles
    <2> QED BY <2>1, <2>2, FrameIsAdded DEF RunInv
  <1>4. OutputsInv'
    <2>1. looked' = 0 /\ 0 \in 0..Len(Outputs) /\ DOMAIN outputs' = {}
      BY <1>1 DEF RunInv, OutputsInv
    <2> QED BY <2>1 DEF OutputsInv
  <1>5. MetricsInv' /\ RecordedInv'
    BY UnitStays
  <1>6. UNCHANGED LocalRun!vars
    <2>1. \A h \in DOMAIN files : Coming(h)' = Coming(h)
      BY NothingComes DEF RunInv
    <2> QED BY <1>1, <2>1, Stutters
  <1> QED BY <1>2, <1>3, <1>4, <1>5, <1>6 DEF RunInv, LocalStep

LEMMA ReturnsStep ==
  ASSUME Inv, Inv', RunInv, UnitReturns
  PROVE  RunInv' /\ LocalStep
  <1>1. /\ pc = "run" /\ pc' = "outputs" /\ result = "running"
        /\ UNCHANGED <<env, looked, pipe, result, metrics, files, recorded, outputs, given>>
    BY DEF UnitReturns, hostVars
  <1>2. KeptInv'
    BY <1>1, KeptStays DEF RunInv
  <1>3. FramesInv'
    BY <1>1, NothingAsked DEF RunInv, FramesInv, FrameSound, Fits, OpenHandles
  <1>4. OutputsInv'
    BY <1>1 DEF RunInv, OutputsInv, Sent
  <1>5. MetricsInv' /\ RecordedInv'
    BY <1>1, UnitStays DEF hostVars
  <1>6. UNCHANGED LocalRun!vars
    <2>1. \A h \in DOMAIN files : Coming(h)' = Coming(h)
      BY <1>1 DEF Coming, Bytes
    <2> QED BY <1>1, <2>1, Stutters
  <1> QED BY <1>2, <1>3, <1>4, <1>5, <1>6 DEF RunInv, LocalStep

\* A chunk takes the bytes of the call to the file.
LEMMA WriteStep ==
  ASSUME Inv, Inv', RunInv, NEW h \in OpenHandles, NEW n \in Amounts, UnitWrites(h, n)
  PROVE  RunInv' /\ LocalStep
  <1>1. /\ pc = "run" /\ result = "running" /\ pipe' = pipe \o Chunks(h, n)
        /\ UNCHANGED <<pc, env, looked, hostVars>>
        /\ UNCHANGED <<result, metrics, files, recorded, outputs, given>>
    BY DEF UnitWrites, hostVars
  <1>2. n \in Nat
    BY AmountsAssumption
  <1> DEFINE new == Chunks(h, n)
  <1>3. /\ Countable(new) /\ Cardinality(Bytes(h, new)) = n
        /\ \A g : g # h => Cardinality(Bytes(g, new)) = 0
        /\ \A i \in DOMAIN new : new[i].t = "chunk" /\ new[i].h = h
    BY <1>2, BytesOfChunks
  <1> HIDE DEF new
  <1>4. KeptInv'
    BY <1>1, KeptStays DEF RunInv, KeptInv
  <1>5. FramesInv'
    <2>1. \A i \in DOMAIN pipe : SoundNext(pipe[i])
      BY <1>1, StaysSound DEF RunInv
    <2>2. \A i \in DOMAIN new : SoundNext(new[i])
      BY <1>1, <1>3 DEF SoundNext, Fits, OpenHandles, Countable
    <2>3. \E S : new \in Seq(S)
      BY <1>3 DEF Countable
    <2>4. pipe' = pipe \o new
      BY <1>1 DEF new
    <2> QED BY <1>1, <1>3, <2>1, <2>2, <2>3, <2>4, FramesGrow DEF RunInv
  <1>6. OutputsInv'
    BY <1>1 DEF RunInv, OutputsInv
  <1>7. MetricsInv' /\ RecordedInv'
    BY <1>1, UnitStays
  <1>8. \A g : Coming(g)' = Coming(g) + Cardinality(Bytes(g, new)) /\ Coming(g) \in Nat
    <2> TAKE g
    <2>1. Cardinality(Bytes(g, pipe \o new)) = Cardinality(Bytes(g, pipe)) + Cardinality(Bytes(g, new))
      BY <1>3, PipeCounts, BytesConcat DEF RunInv
    <2>2. Coming(g)' = Cardinality(Bytes(g, pipe \o new))
      BY <1>1 DEF Coming, Bytes, new
    <2>3. Coming(g) \in Nat
      BY PipeCounts, BytesFinite DEF RunInv, Coming
    <2> QED BY <2>1, <2>2, <2>3 DEF Coming
  <1>9. FilesSeen' = [FilesSeen EXCEPT ![h].size = @ + n]
    <2>1. /\ FilesSeen = [g \in DOMAIN files |-> SeenFile(g)]
          /\ FilesSeen' = [g \in DOMAIN files |-> SeenFile(g)']
      BY <1>1, SeenRunning, SeenNext DEF AsRunning
    <2>2. h \in DOMAIN files
      BY DEF OpenHandles
    <2>3. \A g \in DOMAIN files : files[g].size \in Nat
      BY DEF RunInv, RecordedInv
    <2>4. ASSUME NEW g \in DOMAIN files, g # h PROVE SeenFile(g)' = SeenFile(g)
      <3>1. Coming(g)' = Coming(g)
        BY <1>3, <1>8, <2>4
      <3> QED BY <1>1, <3>1 DEF SeenFile, Written
    <2>5. SeenFile(h)' = [SeenFile(h) EXCEPT !.size = @ + n]
      <3> DEFINE w == files[h].size + Coming(h)
      <3>1. SeenFile(h) = [name |-> files[h].name, size |-> w, open |-> files[h].open]
        BY DEF SeenFile, Written
      <3>2. SeenFile(h)' = [name |-> files[h].name, size |-> files[h].size + Coming(h)', open |-> files[h].open]
        BY <1>1 DEF SeenFile, Written
      <3>3. files[h].size + Coming(h)' = w + n
        BY <1>2, <1>3, <1>8, <2>2, <2>3
      <3> HIDE DEF w
      <3> QED BY <3>1, <3>2, <3>3
    <2> HIDE DEF SeenFile
    <2> QED BY <2>1, <2>2, <2>4, <2>5
  <1>10. OutputsSeen' = OutputsSeen /\ MetricsSeen' = MetricsSeen
    BY <1>1, SameOutputs DEF MetricsSeen
  <1>11. h \in LocalRun!OpenHandles
    BY <1>1, SeenRunning DEF AsRunning, SeenFile, OpenHandles, LocalRun!OpenHandles
  <1>12. LocalRun!Write(h, n)
    BY <1>1, <1>9, <1>10, <1>11 DEF LocalRun!Write
  <1>13. LocalRun!Next
    BY <1>11, <1>12 DEF LocalRun!Next
  <1> QED BY <1>4, <1>5, <1>6, <1>7, <1>13 DEF RunInv, LocalStep

\* writeOutputs takes the next output of the definition.
LEMMA OutputStep ==
  ASSUME Inv, Inv', RunInv, PluginWritesOutput
  PROVE  RunInv' /\ LocalStep
  <1>0. PICK p : p = Outputs[looked + 1].name
    OBVIOUS
  <1> DEFINE bad == [t |-> "error"]
             sent == [t |-> "output", port |-> p, doc |-> env.outputs[p], reported |-> Reported(p)]
  <1>1. /\ pc = "outputs" /\ result = "running" /\ looked < Len(Outputs) /\ looked' = looked + 1
        /\ UNCHANGED <<env, result, metrics, files, recorded, outputs, given>> /\ UNCHANGED hostVars
    BY DEF PluginWritesOutput, hostVars
  <1>2. \/ p \notin DOMAIN env.outputs /\ UNCHANGED <<pc, pipe>>
        \/ pipe' = Append(pipe, bad) /\ pc' = "gone"
        \/ p \in DOMAIN env.outputs /\ pipe' = Append(pipe, sent) /\ UNCHANGED pc
    BY <1>0 DEF PluginWritesOutput
  <1>3. looked \in 0..Len(Outputs) /\ looked + 1 \in 1..Len(Outputs) /\ Len(Outputs) \in Nat
    BY <1>1, OutputsAssumption DEF RunInv, OutputsInv
  <1>4. p \in Ports
    <2>1. Outputs[looked + 1] \in ToSet(Outputs)
      BY <1>3, OutputsAssumption DEF ToSet
    <2> QED BY <1>0, <2>1 DEF Ports
  <1>5. KeptInv'
    BY <1>1, <1>2, KeptStays DEF RunInv, KeptInv
  <1>6. \A i \in DOMAIN pipe : SoundNext(pipe[i])
    BY <1>1, <1>2, StaysSound DEF RunInv
  <1>7. MetricsInv' /\ RecordedInv'
    BY <1>1, UnitStays
  <1>8. ASSUME \A q : Sent(q) => Sent(q)', p \in DOMAIN env.outputs => Sent(p)'
        PROVE  OutputsInv'
    <2>1. \A i \in 1..looked' : i \in 1..looked \/ i = looked + 1
      BY <1>1, <1>3
    <2>2. \A i \in 1..looked' : Outputs[i].name \in DOMAIN env.outputs => Sent(Outputs[i].name)'
      <3> SUFFICES ASSUME NEW i \in 1..looked', Outputs[i].name \in DOMAIN env.outputs
                   PROVE  Sent(Outputs[i].name)'
        OBVIOUS
      <3>1. CASE i \in 1..looked
        BY <1>1, <1>8, <3>1 DEF RunInv, OutputsInv
      <3>2. CASE i = looked + 1
        <4>1. p = Outputs[i].name
          BY <1>0, <3>2
        <4> QED BY <1>8, <4>1
      <3> QED BY <2>1, <3>1, <3>2
    <2>3. /\ looked' \in 0..Len(Outputs) /\ pc' \notin {"run", "ask"}
          /\ DOMAIN outputs' \subseteq DOMAIN env'.outputs \cap Ports
          /\ \A q \in DOMAIN outputs' : outputs'[q].doc = env'.outputs[q]
      BY <1>1, <1>2, <1>3 DEF RunInv, OutputsInv
    <2> QED BY <1>1, <2>2, <2>3 DEF OutputsInv, Sent
  <1>9. FramesInv' /\ OutputsInv' /\ \A h \in DOMAIN files : Coming(h)' = Coming(h)
    <2>1. CASE p \notin DOMAIN env.outputs /\ UNCHANGED <<pc, pipe>>
      <3>1. FramesInv'
        BY <1>1, <2>1, NothingAsked DEF RunInv, FramesInv, FrameSound, Fits, OpenHandles
      <3>2. \A q : Sent(q) => Sent(q)'
        BY <1>1, <2>1 DEF Sent
      <3>3. \A h \in DOMAIN files : Coming(h)' = Coming(h)
        BY <2>1 DEF Coming, Bytes
      <3> QED BY <1>8, <2>1, <3>1, <3>2, <3>3
    <2>2. ASSUME NEW f, pipe' = Append(pipe, f), SoundNext(f), f.t \in {"error", "output"},
                 f.t = "error" \/ f.port = p
          PROVE  FramesInv' /\ OutputsInv' /\ \A h \in DOMAIN files : Coming(h)' = Coming(h)
      <3>1. FramesInv'
        BY <1>1, <1>6, <2>2, FrameIsAdded DEF RunInv
      <3>2. \A q : Sent(q) => Sent(q)'
        BY <1>1, <2>2, SentAppend
      <3>3. Sent(p)'
        BY <1>1, <2>2, SentAppend
      <3>4. \A h \in DOMAIN files : Coming(h)' = Coming(h)
        BY <2>2, NothingComes DEF RunInv
      <3> QED BY <1>8, <3>1, <3>2, <3>3, <3>4
    <2>3. CASE pipe' = Append(pipe, bad) /\ pc' = "gone"
      <3>1. SoundNext(bad)
        BY DEF SoundNext, Fits
      <3> QED BY <2>2, <2>3, <3>1
    <2>4. CASE p \in DOMAIN env.outputs /\ pipe' = Append(pipe, sent) /\ UNCHANGED pc
      <3>1. SoundNext(sent)
        BY <1>1, <1>4, <2>4 DEF SoundNext, Fits
      <3> QED BY <2>2, <2>4, <3>1
    <2> QED BY <1>2, <2>1, <2>3, <2>4
  <1>10. UNCHANGED LocalRun!vars
    BY <1>1, <1>9, Stutters
  <1> QED BY <1>5, <1>7, <1>9, <1>10 DEF RunInv, LocalStep

\* The metrics, if there are any, and the response.
LEMMA AnswerStep ==
  ASSUME Inv, Inv', RunInv, PluginAnswers
  PROVE  RunInv' /\ LocalStep
  <1>1. /\ pc = "outputs" /\ pc' = "gone" /\ result = "running" /\ looked = Len(Outputs)
        /\ pipe' = pipe \o LastFrames /\ UNCHANGED <<env, looked, hostVars>>
        /\ UNCHANGED <<result, metrics, files, recorded, outputs, given>>
    BY DEF PluginAnswers, hostVars
  <1>2. PICK new : new = LastFrames
    OBVIOUS
  <1> DEFINE done == [t |-> "done"]
             flush == [t |-> "flush", metrics |-> env.metrics]
  <1>3. \/ new = <<done>> /\ DOMAIN env.metrics = {}
        \/ new = <<flush, done>>
    BY <1>2 DEF LastFrames
  <1>4. metrics = <<>>
    BY <1>1, UnitStays
  <1>5. DOMAIN env.metrics = {} => metrics' = env'.metrics
    BY <1>1, <1>4 DEF RunInv, KeptInv
  <1>6. SoundNext(done) /\ SoundNext(flush)
    BY <1>1, <1>4 DEF SoundNext, Fits
  <1>7. done.t = "done" /\ flush.t = "flush"
    OBVIOUS
  <1> HIDE DEF done, flush
  <1>8. (\E S : new \in Seq(S)) /\ Countable(new)
    <2>a. <<done>> \in Seq({done, flush}) /\ <<flush, done>> \in Seq({done, flush})
      OBVIOUS
    <2>b. new \in Seq({done, flush})
      BY <1>3, <2>a
    <2>1. new \in Seq({done, flush}) /\ \A i \in DOMAIN new : new[i] \in {done, flush}
      BY <2>b
    <2> QED BY <1>7, <2>1 DEF Countable
  <1>9. \A i \in DOMAIN new :
          /\ SoundNext(new[i])
          /\ new[i].t \in {"open", "close", "done"} => i = Len(new)
          /\ new[i].t = "flush" => i = Len(new) - 1
          /\ new[i].t = "done" => metrics' = env'.metrics \/ (i # 1 /\ new[i - 1].t = "flush")
    <2>1. CASE new = <<done>> /\ DOMAIN env.metrics = {}
      <3>1. DOMAIN new = {1} /\ new[1] = done /\ Len(new) = 1
        BY <2>1
      <3> QED BY <1>5, <1>6, <1>7, <2>1, <3>1
    <2>2. CASE new = <<flush, done>>
      <3>1. DOMAIN new = {1, 2} /\ new[1] = flush /\ new[2] = done /\ Len(new) = 2
        BY <2>2
      <3> QED BY <1>6, <1>7, <3>1
    <2> QED BY <1>3, <2>1, <2>2
  <1>10. FramesInv'
    <2>1. \A i \in DOMAIN pipe : SoundNext(pipe[i])
      BY <1>1, StaysSound DEF RunInv
    <2> QED BY <1>1, <1>2, <1>8, <1>9, <2>1, FramesGrow DEF RunInv
  <1>11. KeptInv'
    BY <1>1, KeptStays DEF RunInv
  <1>12. OutputsInv'
    <2>1. \A q : Sent(q) => Sent(q)'
      BY <1>1, <1>2, <1>8, SentGrows
    <2>2. \A i \in 1..looked' : Outputs[i].name \in DOMAIN env.outputs => Sent(Outputs[i].name)'
      BY <1>1, <2>1 DEF RunInv, OutputsInv
    <2>3. /\ looked' \in 0..Len(Outputs) /\ pc' \notin {"run", "ask"}
          /\ DOMAIN outputs' \subseteq DOMAIN env'.outputs \cap Ports
          /\ \A q \in DOMAIN outputs' : outputs'[q].doc = env'.outputs[q]
      BY <1>1 DEF RunInv, OutputsInv
    <2> QED BY <1>1, <2>2, <2>3 DEF OutputsInv, Sent
  <1>13. MetricsInv' /\ RecordedInv'
    BY <1>1, UnitStays
  <1>14. \A h \in DOMAIN files : Coming(h)' = Coming(h)
    <2> TAKE h \in DOMAIN files
    <2>1. Cardinality(Bytes(h, pipe \o new)) = Cardinality(Bytes(h, pipe)) + Cardinality(Bytes(h, new))
      BY <1>8, PipeCounts, BytesConcat DEF RunInv
    <2>2. Cardinality(Bytes(h, new)) = 0
      <3>1. \A e : e \in Bytes(h, new) <=> \E i \in DOMAIN new : \E k \in 1..new[i].n : new[i].t = "chunk" /\ new[i].h = h /\ e = <<i, k>>
        BY BytesAre
      <3>2. \A i \in DOMAIN new : new[i].t # "chunk"
        BY <1>3, <1>7
      <3>3. Bytes(h, new) = {}
        BY <3>1, <3>2
      <3> QED BY <3>3, FS_EmptySet
    <2>3. Coming(h)' = Cardinality(Bytes(h, pipe \o new))
      BY <1>1, <1>2 DEF Coming, Bytes
    <2>4. Coming(h) \in Nat
      BY PipeCounts, BytesFinite DEF RunInv, Coming
    <2> QED BY <2>1, <2>2, <2>3, <2>4 DEF Coming
  <1>15. UNCHANGED LocalRun!vars
    BY <1>1, <1>14, Stutters
  <1> QED BY <1>10, <1>11, <1>12, <1>13, <1>15 DEF RunInv, LocalStep

-----------------------------------------------------------------------------
(* The steps of the host.                                                  *)

LEMMA HeadIs ==
  ASSUME Inv, FramesInv, pipe # <<>>, pipe' = Tail(pipe)
  PROVE  /\ FrameSound(Head(pipe)) /\ 1 \in DOMAIN pipe /\ Head(pipe) = pipe[1]
         /\ Head(pipe).t \in {"open", "close", "done"} => pipe' = <<>>
         /\ Head(pipe).t = "done" => metrics = env.metrics
         /\ \A i \in DOMAIN pipe' : i \in Nat \ {0} /\ i + 1 \in DOMAIN pipe /\ pipe'[i] = pipe[i + 1]
         /\ Len(pipe') = Len(pipe) - 1 /\ Len(pipe) \in Nat
         /\ \A h : /\ Coming(h) = Coming(h)' + FrameBytes(h, Head(pipe))
                   /\ Coming(h)' \in Nat /\ Coming(h) \in Nat
                   /\ pipe' = <<>> => Coming(h)' = 0
  <1>1. PICK S : pipe \in Seq(S)
    BY DEF Inv, PipeInv
  <1>2. /\ 1 \in DOMAIN pipe /\ Head(pipe) = pipe[1]
        /\ \A i \in DOMAIN pipe' : i \in Nat \ {0} /\ i + 1 \in DOMAIN pipe /\ pipe'[i] = pipe[i + 1]
        /\ Len(pipe') = Len(pipe) - 1 /\ Len(pipe) \in Nat
    BY <1>1
  <1>3. FrameSound(Head(pipe))
    BY <1>2 DEF FramesInv
  <1>4. Head(pipe).t \in {"open", "close", "done"} => pipe' = <<>>
    <2> SUFFICES ASSUME Head(pipe).t \in {"open", "close", "done"} PROVE pipe' = <<>>
      OBVIOUS
    <2>1. Len(pipe) = 1
      BY <1>2 DEF FramesInv
    <2> QED BY <1>1, <2>1
  <1>5. Head(pipe).t = "done" => metrics = env.metrics
    BY <1>2 DEF FramesInv
  <1>6. ASSUME NEW h
        PROVE  /\ Coming(h) = Coming(h)' + FrameBytes(h, Head(pipe))
               /\ Coming(h)' \in Nat /\ Coming(h) \in Nat
               /\ pipe' = <<>> => Coming(h)' = 0
    <2>1. Countable(pipe)
      BY PipeCounts
    <2>2. /\ Cardinality(Bytes(h, pipe)) = Cardinality(Bytes(h, Tail(pipe))) + FrameBytes(h, Head(pipe))
          /\ Cardinality(Bytes(h, Tail(pipe))) \in Nat
      BY <2>1, BytesTail
    <2>3. Cardinality(Bytes(h, pipe)) \in Nat
      BY <2>1, BytesFinite
    <2>4. Coming(h)' = Cardinality(Bytes(h, Tail(pipe)))
      BY DEF Coming, Bytes
    <2>5. Bytes(h, <<>>) = {}
      BY BytesAre
    <2>6. pipe' = <<>> => Coming(h)' = 0
      BY <2>4, <2>5, FS_EmptySet
    <2> QED BY <2>2, <2>3, <2>4, <2>6 DEF Coming
  <1> QED BY <1>2, <1>3, <1>4, <1>5, <1>6

\* Frames that stay when the host has taken one.
LEMMA FramesShrink ==
  ASSUME Inv, FramesInv, pipe # <<>>, pipe' = Tail(pipe), UNCHANGED env,
         \A i \in DOMAIN pipe : i # 1 => SoundNext(pipe[i]),
         IF Head(pipe).t = "flush" THEN metrics' = env.metrics ELSE UNCHANGED metrics
  PROVE  FramesInv'
  <1>1. /\ 1 \in DOMAIN pipe /\ Head(pipe) = pipe[1]
        /\ \A i \in DOMAIN pipe' : i \in Nat \ {0} /\ i + 1 \in DOMAIN pipe /\ pipe'[i] = pipe[i + 1]
        /\ Len(pipe') = Len(pipe) - 1 /\ Len(pipe) \in Nat
    BY HeadIs
  <1> SUFFICES ASSUME NEW i \in DOMAIN pipe'
               PROVE  /\ SoundNext(pipe'[i])
                      /\ pipe'[i].t \in {"open", "close", "done"} => i = Len(pipe')
                      /\ pipe'[i].t = "flush" => i = Len(pipe') - 1
                      /\ pipe'[i].t = "done" => metrics' = env'.metrics
                                                  \/ (i # 1 /\ pipe'[i - 1].t = "flush")
    BY DEF FramesInv, FrameSound, SoundNext
  <1>2. i \in Nat \ {0} /\ i + 1 \in DOMAIN pipe /\ pipe'[i] = pipe[i + 1]
    BY <1>1
  <1>3. SoundNext(pipe'[i])
    BY <1>2
  <1>4. /\ pipe'[i].t \in {"open", "close", "done"} => i = Len(pipe')
        /\ pipe'[i].t = "flush" => i = Len(pipe') - 1
    <2>1. /\ pipe[i + 1].t \in {"open", "close", "done"} => i + 1 = Len(pipe)
          /\ pipe[i + 1].t = "flush" => i + 1 = Len(pipe) - 1
      BY <1>2 DEF FramesInv
    <2> QED BY <1>1, <1>2, <2>1
  <1>5. ASSUME pipe'[i].t = "done", metrics' # env'.metrics
        PROVE  i # 1 /\ pipe'[i - 1].t = "flush"
    <2>1. Head(pipe).t # "flush" /\ metrics' = metrics
      BY <1>5
    <2>2. pipe[(i + 1) - 1].t = "flush"
      BY <1>2, <1>5, <2>1 DEF FramesInv
    <2>3. (i + 1) - 1 = i
      BY <1>2
    <2>4. pipe[i].t = "flush" /\ i # 1
      BY <1>1, <2>1, <2>2, <2>3
    <2>5. i - 1 \in DOMAIN pipe' /\ (i - 1) + 1 = i
      <3>1. PICK S : pipe \in Seq(S)
        BY DEF Inv, PipeInv
      <3> QED BY <1>1, <1>2, <2>4, <3>1
    <2> QED BY <1>1, <2>4, <2>5
  <1> QED BY <1>3, <1>4, <1>5

\* What the host has not yet is still on its way.
LEMMA SentShrinks ==
  ASSUME Inv, FramesInv, pipe # <<>>, pipe' = Tail(pipe), UNCHANGED outputs,
         Head(pipe).t \notin {"error", "output"}, NEW p, Sent(p)
  PROVE  Sent(p)'
  <1>1. PICK S : pipe \in Seq(S)
    BY DEF Inv, PipeInv
  <1>2. \A i \in DOMAIN pipe : i = 1 \/ (i - 1 \in DOMAIN pipe' /\ pipe'[i - 1] = pipe[i])
    BY <1>1
  <1>3. Head(pipe) = pipe[1]
    BY <1>1
  <1> QED BY <1>2, <1>3 DEF Sent

LEMMA OutputsShrink ==
  ASSUME Inv, RunInv, pipe # <<>>, pipe' = Tail(pipe), UNCHANGED <<env, looked, outputs>>,
         Head(pipe).t \notin {"error", "output"}, pc' = pc \/ (pc = "ask" /\ pc' = "run"),
         result = "running"
  PROVE  OutputsInv'
  <1>1. \A q : Sent(q) => Sent(q)'
    BY SentShrinks DEF RunInv
  <1>2. \A i \in 1..looked : Outputs[i].name \in DOMAIN env.outputs => Sent(Outputs[i].name)'
    BY <1>1 DEF RunInv, OutputsInv
  <1> QED BY <1>2 DEF RunInv, OutputsInv, Sent

LEMMA AppendIs ==
  ASSUME NEW s, \E S : s \in Seq(S), NEW x
  PROVE  Append(s, x) = [i \in DOMAIN s \cup {Len(s) + 1} |-> IF i = Len(s) + 1 THEN x ELSE s[i]]
  <1>1. PICK S : s \in Seq(S)
    OBVIOUS
  <1>2. s \in Seq(S \cup {x})
    BY <1>1
  <1> DEFINE a == Append(s, x)
             D == DOMAIN s \cup {Len(s) + 1}
  <1>4. a = [i \in DOMAIN a |-> a[i]]
    <2>1. a \in Seq(S \cup {x})
      BY <1>2
    <2> HIDE DEF a
    <2> QED BY <2>1
  <1>5. DOMAIN a = D /\ \A i \in D : a[i] = IF i = Len(s) + 1 THEN x ELSE s[i]
    BY <1>2
  <1> HIDE DEF a, D
  <1>6. a = [i \in D |-> IF i = Len(s) + 1 THEN x ELSE s[i]]
    BY <1>4, <1>5
  <1> QED BY <1>6 DEF a, D

LEMMA OpenStep ==
  ASSUME Inv, Inv', RunInv, HostOpens
  PROVE  RunInv' /\ LocalStep
  <1> DEFINE w == [name |-> Head(pipe).name, size |-> 0, open |-> TRUE]
             new == Len(files) + 1
  <1>1. /\ pipe # <<>> /\ pipe' = Tail(pipe) /\ pc' = "run" /\ files' = Append(files, w)
        /\ result = "running" /\ Head(pipe).t = "open"
        /\ UNCHANGED <<env, looked, result, metrics, recorded, outputs, given>>
    BY DEF HostOpens, Arrives
  <1>2. /\ pipe' = <<>> /\ pc = "ask" /\ Head(pipe).name \in Artifacts
        /\ \A h : Coming(h)' = 0 /\ Coming(h) = 0
    <2>1. pipe' = <<>> /\ FrameSound(Head(pipe))
      BY <1>1, HeadIs DEF RunInv
    <2>2. pc = "ask" /\ Head(pipe).name \in Artifacts
      BY <1>1, <2>1 DEF FrameSound, Fits
    <2>3. \A h : Coming(h) = Coming(h)' + FrameBytes(h, Head(pipe)) /\ Coming(h)' = 0
      BY <1>1, <2>1, HeadIs DEF RunInv
    <2>4. \A h : FrameBytes(h, Head(pipe)) = 0
      BY <1>1 DEF FrameBytes
    <2>5. \A h : Coming(h) = 0
      BY <2>3, <2>4
    <2> QED BY <2>1, <2>2, <2>3, <2>5
  <1>3. /\ DOMAIN files' = DOMAIN files \cup {new} /\ new \notin DOMAIN files /\ files'[new] = w
        /\ \A h \in DOMAIN files : files'[h] = files[h]
    BY <1>1, AppendKeeps DEF Inv, FilesInv, Writers
  <1>4. w.name = Head(pipe).name /\ w.size = 0 /\ w.open
    OBVIOUS
  <1>5. KeptInv'
    BY <1>1, KeptStays DEF RunInv
  <1>6. FramesInv'
    BY <1>2 DEF FramesInv
  <1>7. OutputsInv' /\ MetricsInv'
    BY <1>1, <1>2, OutputsShrink DEF RunInv, MetricsInv
  <1>8. RecordedInv'
    <2> HIDE DEF w
    <2>1. \A h \in DOMAIN files' : files'[h].size \in Nat
      BY <1>3, <1>4 DEF RunInv, RecordedInv
    <2> QED BY <1>1, <1>3, <2>1 DEF RunInv, RecordedInv
  <1>9. FilesSeen' = Append(FilesSeen, w)
    <2>1. /\ FilesSeen = [h \in DOMAIN files |-> SeenFile(h)]
          /\ FilesSeen' = [h \in DOMAIN files' |-> SeenFile(h)']
      BY <1>1, SeenRunning, SeenNext DEF AsRunning
    <2>2. \A h \in DOMAIN files : SeenFile(h)' = SeenFile(h)
      BY <1>2, <1>3 DEF SeenFile, Written
    <2>3. PICK n : n = new
      OBVIOUS
    <2>4. SeenFile(n)' = w
      BY <1>2, <1>3, <2>3 DEF SeenFile, Written
    <2>5. (\E S : FilesSeen \in Seq(S)) /\ DOMAIN FilesSeen = DOMAIN files
      <3>1. FilesSeen = [h \in DOMAIN files |-> FilesSeen[h]]
        BY <2>1
      <3> QED BY <3>1, SameLength DEF Inv, FilesInv, Writers
    <2>6. Len(FilesSeen) = Len(files)
      <3>1. PICK S, T : FilesSeen \in Seq(S) /\ files \in Seq(T)
        BY <2>5 DEF Inv, FilesInv, Writers
      <3>2. 1..Len(FilesSeen) = 1..Len(files) /\ Len(FilesSeen) \in Nat /\ Len(files) \in Nat
        BY <2>5, <3>1
      <3> QED BY <3>2
    <2>7. Append(FilesSeen, w) = [h \in DOMAIN files \cup {n} |-> IF h = n THEN w ELSE FilesSeen[h]]
      <3> HIDE DEF w
      <3> QED BY <2>3, <2>5, <2>6, AppendIs
    <2> HIDE DEF w, SeenFile
    <2> QED BY <1>3, <2>1, <2>2, <2>3, <2>4, <2>7
  <1>10. OutputsSeen' = OutputsSeen /\ MetricsSeen' = MetricsSeen
    BY <1>1, SameOutputs DEF MetricsSeen
  <1>11. LocalRun!OpenArtifact(Head(pipe).name)
    BY <1>1, <1>9, <1>10 DEF LocalRun!OpenArtifact
  <1>12. LocalRun!Next
    BY <1>2, <1>11 DEF LocalRun!Next
  <1> QED BY <1>5, <1>6, <1>7, <1>8, <1>12 DEF RunInv, LocalStep

\* A chunk is written: the file has what was on its way.
LEMMA ChunkStep ==
  ASSUME Inv, Inv', RunInv, HostWrites
  PROVE  RunInv' /\ LocalStep
  <1> DEFINE f == Head(pipe)
  <1>1. /\ pipe # <<>> /\ pipe' = Tail(pipe) /\ f.t = "chunk" /\ result = "running"
        /\ files' = [files EXCEPT ![f.h].size = files[f.h].size + f.n]
        /\ UNCHANGED <<pc, env, looked, result, metrics, recorded, outputs, given>>
    BY DEF HostWrites, Arrives
  <1>2. f.h \in OpenHandles /\ f.n \in Nat
    BY <1>1, HeadIs DEF RunInv, FrameSound, Fits
  <1>3. PICK h \in OpenHandles, n \in Nat : h = f.h /\ n = f.n
    BY <1>2
  <1>4. \A g : /\ Coming(g) = Coming(g)' + (IF g = h THEN n ELSE 0)
               /\ Coming(g)' \in Nat /\ Coming(g) \in Nat
    <2>1. \A g : FrameBytes(g, f) = IF g = h THEN n ELSE 0
      BY <1>1, <1>3 DEF FrameBytes
    <2>2. \A g : Coming(g) = Coming(g)' + FrameBytes(g, f) /\ Coming(g)' \in Nat /\ Coming(g) \in Nat
      BY <1>1, HeadIs DEF RunInv
    <2> HIDE DEF f
    <2> QED BY <2>1, <2>2
  <1>5. h \in DOMAIN files /\ files[h].open /\ files[h].size \in Nat
    BY DEF OpenHandles, RunInv, RecordedInv
  <1>6. files' = [files EXCEPT ![h].size = files[h].size + n]
    BY <1>1, <1>3
  <1> HIDE DEF f
  <1>7. /\ DOMAIN files' = DOMAIN files
        /\ \A g \in DOMAIN files : g # h => files'[g] = files[g]
        /\ files'[h] = [files[h] EXCEPT !.size = files[h].size + n]
    BY <1>5, <1>6
  <1>8. files'[h] = [name |-> files[h].name, size |-> files[h].size + n, open |-> files[h].open]
    BY <1>5, <1>7, WriterIs DEF Inv, FilesInv, Writers
  <1>9. files'[h].name = files[h].name /\ files'[h].size = files[h].size + n /\ files'[h].open = files[h].open
    BY <1>8
  <1>10. OpenHandles' = OpenHandles
    BY <1>7, <1>9 DEF OpenHandles
  <1>11. KeptInv'
    BY <1>1, KeptStays DEF RunInv, KeptInv
  <1>12. FramesInv'
    <2>1. \A i \in DOMAIN pipe : SoundNext(pipe[i])
      BY <1>1, <1>10 DEF RunInv, FramesInv, FrameSound, SoundNext
    <2> QED BY <1>1, <2>1, FramesShrink DEF RunInv, f
  <1>13. OutputsInv' /\ MetricsInv'
    BY <1>1, OutputsShrink DEF RunInv, MetricsInv, f
  <1>14. RecordedInv'
    <2>1. \A g \in DOMAIN files' : files'[g].size \in Nat
      <3>1. files[h].size + n \in Nat
        BY <1>3, <1>5
      <3> QED BY <1>7, <1>9, <3>1 DEF RunInv, RecordedInv
    <2>2. ASSUME NEW a \in DOMAIN recorded'
          PROVE  \E g \in DOMAIN files' : files'[g].name = a /\ files'[g].size = recorded'[a] /\ ~files'[g].open
      <3>1. PICK g \in DOMAIN files : files[g].name = a /\ files[g].size = recorded[a] /\ ~files[g].open
        BY <1>1, <2>2 DEF RunInv, RecordedInv
      <3>2. g # h
        BY <1>5, <3>1
      <3> QED BY <1>1, <1>7, <3>1, <3>2
    <2> QED BY <2>1, <2>2 DEF RecordedInv
  <1>15. FilesSeen' = FilesSeen
    <2>1. /\ FilesSeen = [g \in DOMAIN files |-> SeenFile(g)]
          /\ FilesSeen' = [g \in DOMAIN files |-> SeenFile(g)']
      BY <1>1, <1>7, SeenRunning, SeenNext DEF AsRunning
    <2>2. ASSUME NEW g \in DOMAIN files, g # h PROVE SeenFile(g)' = SeenFile(g)
      <3>1. Coming(g)' = Coming(g)
        BY <1>4, <2>2
      <3> QED BY <1>7, <2>2, <3>1 DEF SeenFile, Written
    <2>3. SeenFile(h)' = SeenFile(h)
      <3>1. (files[h].size + n) + Coming(h)' = files[h].size + Coming(h)
        BY <1>4, <1>5
      <3>2. Written(h)' = Written(h)
        BY <1>9, <3>1 DEF Written
      <3> QED BY <1>9, <3>2 DEF SeenFile
    <2> HIDE DEF SeenFile
    <2> QED BY <2>1, <2>2, <2>3
  <1>16. OutputsSeen' = OutputsSeen /\ MetricsSeen' = MetricsSeen
    BY <1>1, SameOutputs DEF MetricsSeen
  <1>17. UNCHANGED LocalRun!vars
    BY <1>1, <1>15, <1>16 DEF LocalRun!vars
  <1> QED BY <1>11, <1>12, <1>13, <1>14, <1>17 DEF RunInv, LocalStep

LEMMA CloseStep ==
  ASSUME Inv, Inv', RunInv, HostCloses
  PROVE  RunInv' /\ LocalStep
  <1> DEFINE f == Head(pipe)
  <1>1. /\ pipe # <<>> /\ pipe' = Tail(pipe) /\ f.t = "close" /\ result = "running" /\ pc' = "run"
        /\ files' = [files EXCEPT ![f.h].open = FALSE]
        /\ recorded' = Put(recorded, files[f.h].name, files[f.h].size)
        /\ UNCHANGED <<env, looked, result, metrics, outputs, given>>
    BY DEF HostCloses, Arrives
  <1>2. pipe' = <<>> /\ FrameSound(f)
    BY <1>1, HeadIs DEF RunInv
  <1>3. f.h \in OpenHandles /\ pc = "ask"
    BY <1>1, <1>2 DEF FrameSound, Fits
  <1>4. \A g : Coming(g) = 0 /\ Coming(g)' = 0
    <2>1. \A g : FrameBytes(g, f) = 0
      BY <1>1 DEF FrameBytes
    <2>2. \A g : Coming(g) = Coming(g)' + FrameBytes(g, f) /\ Coming(g)' = 0
      BY <1>1, <1>2, HeadIs DEF RunInv
    <2> HIDE DEF f
    <2> QED BY <2>1, <2>2
  <1>5. PICK h \in OpenHandles : h = f.h
    BY <1>3
  <1>6. h \in DOMAIN files /\ files[h].open /\ files[h].size \in Nat
    BY DEF OpenHandles, RunInv, RecordedInv
  <1>7. files' = [files EXCEPT ![h].open = FALSE] /\ recorded' = Put(recorded, files[h].name, files[h].size)
    BY <1>1, <1>5
  <1> HIDE DEF f
  <1>8. /\ DOMAIN files' = DOMAIN files
        /\ \A g \in DOMAIN files : g # h => files'[g] = files[g]
        /\ files'[h] = [files[h] EXCEPT !.open = FALSE]
    BY <1>6, <1>7
  <1>9. files'[h] = [name |-> files[h].name, size |-> files[h].size, open |-> FALSE]
    BY <1>6, <1>8, WriterIs DEF Inv, FilesInv, Writers
  <1>10. files'[h].name = files[h].name /\ files'[h].size = files[h].size /\ files'[h].open = FALSE
    BY <1>9
  <1>11. /\ DOMAIN recorded' = DOMAIN recorded \cup {files[h].name}
         /\ \A a \in DOMAIN recorded' : recorded'[a] = IF a = files[h].name THEN files[h].size ELSE recorded[a]
    BY <1>7 DEF Put
  <1>12. KeptInv'
    BY <1>1, KeptStays DEF RunInv
  <1>13. FramesInv'
    BY <1>2 DEF FramesInv
  <1>14. OutputsInv' /\ MetricsInv'
    BY <1>1, <1>3, OutputsShrink DEF RunInv, MetricsInv, f
  <1>15. RecordedInv'
    <2>1. \A g \in DOMAIN files' : files'[g].size \in Nat
      BY <1>6, <1>8, <1>10 DEF RunInv, RecordedInv
    <2>2. ASSUME NEW a \in DOMAIN recorded'
          PROVE  \E g \in DOMAIN files' : files'[g].name = a /\ files'[g].size = recorded'[a] /\ ~files'[g].open
      <3>1. CASE a = files[h].name
        BY <1>6, <1>8, <1>10, <1>11, <2>2, <3>1
      <3>2. CASE a # files[h].name
        <4>1. PICK g \in DOMAIN files : files[g].name = a /\ files[g].size = recorded[a] /\ ~files[g].open
          BY <1>11, <2>2, <3>2 DEF RunInv, RecordedInv
        <4>2. g # h
          BY <1>6, <4>1
        <4> QED BY <1>8, <1>11, <2>2, <3>2, <4>1, <4>2
      <3> QED BY <3>1, <3>2
    <2> QED BY <2>1, <2>2 DEF RecordedInv
  <1>16. SeenFile(h) = [name |-> files[h].name, size |-> files[h].size, open |-> files[h].open]
    <2>1. Written(h) = files[h].size
      BY <1>4, <1>6 DEF Written
    <2> QED BY <1>6, <2>1 DEF SeenFile
  <1>17. /\ FilesSeen = [g \in DOMAIN files |-> SeenFile(g)]
         /\ FilesSeen' = [g \in DOMAIN files |-> SeenFile(g)']
    BY <1>1, <1>8, SeenRunning, SeenNext DEF AsRunning
  <1>18. FilesSeen[h].name = files[h].name /\ FilesSeen[h].size = files[h].size /\ FilesSeen[h].open
    BY <1>6, <1>16, <1>17
  <1>19. FilesSeen' = [FilesSeen EXCEPT ![h].open = FALSE]
    <2>1. ASSUME NEW g \in DOMAIN files, g # h PROVE SeenFile(g)' = SeenFile(g)
      BY <1>4, <1>8, <2>1 DEF SeenFile, Written
    <2>2. SeenFile(h)' = [name |-> files[h].name, size |-> files[h].size, open |-> FALSE]
      <3>1. Written(h)' = files[h].size
        BY <1>4, <1>6, <1>10 DEF Written
      <3> QED BY <1>10, <3>1 DEF SeenFile
    <2>3. [SeenFile(h) EXCEPT !.open = FALSE] = SeenFile(h)'
      <3> HIDE DEF SeenFile
      <3>1. \A x : [SeenFile(h) EXCEPT !.open = x] = [name |-> files[h].name, size |-> files[h].size, open |-> x]
        BY <1>16
      <3> QED BY <2>2, <3>1
    <2> HIDE DEF SeenFile
    <2> QED BY <1>6, <1>17, <2>1, <2>3
  <1>20. OutputsSeen' = OutputsSeen /\ MetricsSeen' = MetricsSeen
    BY <1>1, SameOutputs DEF MetricsSeen
  <1>21. h \in LocalRun!OpenHandles
    BY <1>6, <1>17, <1>18 DEF LocalRun!OpenHandles
  <1>22. LocalRun!Close(h)
    <2>1. recorded' = [a \in DOMAIN recorded \cup {files[h].name} |->
                         IF a = files[h].name THEN files[h].size ELSE recorded[a]]
      BY <1>7 DEF Put
    <2>2. recorded' = [a \in DOMAIN recorded \cup {FilesSeen[h].name} |->
                         IF a = FilesSeen[h].name THEN FilesSeen[h].size ELSE recorded[a]]
      BY <1>18, <2>1
    <2> QED BY <1>1, <1>19, <1>20, <1>21, <2>2 DEF LocalRun!Close
  <1>23. LocalRun!Next
    BY <1>21, <1>22 DEF LocalRun!Next
  <1> QED BY <1>12, <1>13, <1>14, <1>15, <1>23 DEF RunInv, LocalStep

LEMMA TakesOutputStep ==
  ASSUME Inv, Inv', RunInv, HostSetsOutput
  PROVE  RunInv' /\ LocalStep
  <1> DEFINE f == Head(pipe)
  <1>1. /\ pipe # <<>> /\ pipe' = Tail(pipe) /\ f.t = "output" /\ result = "running"
        /\ outputs' = Put(outputs, f.port, [doc |-> f.doc, reported |-> f.reported])
        /\ UNCHANGED <<pc, env, looked, result, metrics, files, recorded, given>>
    BY DEF HostSetsOutput, Arrives
  <1>2. FrameSound(f) /\ 1 \in DOMAIN pipe /\ f = pipe[1]
    BY <1>1, HeadIs DEF RunInv
  <1>3. PICK p \in DOMAIN env.outputs \cap Ports : p = f.port /\ f.doc = env.outputs[p] /\ pc \in {"outputs", "gone"}
    BY <1>1, <1>2 DEF FrameSound, Fits
  <1>4. /\ DOMAIN outputs' = DOMAIN outputs \cup {p} /\ outputs'[p].doc = env.outputs[p]
        /\ \A q \in DOMAIN outputs : q # p => outputs'[q] = outputs[q]
    <2>1. \A q \in DOMAIN outputs' : outputs'[q] = IF q = p THEN [doc |-> f.doc, reported |-> f.reported] ELSE outputs[q]
      BY <1>1, <1>3 DEF Put
    <2>2. DOMAIN outputs' = DOMAIN outputs \cup {p}
      BY <1>1, <1>3 DEF Put
    <2> QED BY <1>3, <2>1, <2>2
  <1> HIDE DEF f
  <1>5. \A g : Coming(g)' = Coming(g)
    <2>1. \A g : FrameBytes(g, f) = 0
      BY <1>1 DEF FrameBytes
    <2>2. \A g : Coming(g) = Coming(g)' + FrameBytes(g, f) /\ Coming(g)' \in Nat
      BY <1>1, HeadIs DEF RunInv, f
    <2> QED BY <2>1, <2>2
  <1>6. KeptInv'
    BY <1>1, KeptStays DEF RunInv, KeptInv
  <1>7. FramesInv'
    <2>1. \A i \in DOMAIN pipe : SoundNext(pipe[i])
      BY <1>1 DEF RunInv, FramesInv, FrameSound, SoundNext, OpenHandles
    <2> QED BY <1>1, <2>1, FramesShrink DEF RunInv, f
  <1>8. \A q : Sent(q) => Sent(q)'
    <2> SUFFICES ASSUME NEW q, Sent(q), q # p, q \notin DOMAIN outputs PROVE Sent(q)'
      BY <1>4 DEF Sent
    <2>1. PICK S : pipe \in Seq(S)
      BY DEF Inv, PipeInv
    <2>2. \A i \in DOMAIN pipe : i = 1 \/ (i - 1 \in DOMAIN pipe' /\ pipe'[i - 1] = pipe[i])
      BY <1>1, <2>1
    <2>3. PICK i \in DOMAIN pipe : pipe[i].t = "error" \/ (pipe[i].t = "output" /\ pipe[i].port = q)
      BY DEF Sent
    <2>4. i # 1
      BY <1>1, <1>2, <1>3, <2>3
    <2> QED BY <2>2, <2>3, <2>4 DEF Sent
  <1>9. OutputsInv'
    <2>1. \A i \in 1..looked : Outputs[i].name \in DOMAIN env.outputs => Sent(Outputs[i].name)'
      BY <1>1, <1>8 DEF RunInv, OutputsInv
    <2>2. /\ looked' \in 0..Len(Outputs) /\ pc' \notin {"run", "ask"}
          /\ DOMAIN outputs' \subseteq DOMAIN env'.outputs \cap Ports
          /\ \A q \in DOMAIN outputs' : outputs'[q].doc = env'.outputs[q]
      BY <1>1, <1>3, <1>4 DEF RunInv, OutputsInv
    <2> QED BY <1>1, <2>1, <2>2 DEF OutputsInv, Sent
  <1>10. MetricsInv' /\ RecordedInv'
    BY <1>1 DEF RunInv, MetricsInv, RecordedInv
  <1>11. UNCHANGED LocalRun!vars
    BY <1>1, <1>5, Stutters
  <1> QED BY <1>6, <1>7, <1>9, <1>10, <1>11 DEF RunInv, LocalStep

\* Metrics that are merged into none are as they were.
LEMMA MergedIntoNone ==
  ASSUME NEW m, m = [k \in DOMAIN m |-> m[k]], \A k \in DOMAIN m : Aggregate(m[k], k)
  PROVE  Merged(<<>>, m) = m
  <1> DEFINE zero == [count |-> 0, sum |-> 0, min |-> 0, max |-> 0]
  <1>1. ASSUME NEW k \in DOMAIN m PROVE Record(zero, m[k], k \in Durations) = m[k]
    <2>1. PICK s \in [count : Nat, sum : Nat, min : Nat, max : Nat] : s = m[k]
      BY DEF Aggregate
    <2>2. k \notin Durations => s.min = 0 /\ s.max = 0
      BY <2>1 DEF Aggregate
    <2>3. 0 + s.count = s.count /\ 0 + s.sum = s.sum
      OBVIOUS
    <2>4. s = [count |-> s.count, sum |-> s.sum, min |-> s.min, max |-> s.max]
      OBVIOUS
    <2>5. Record(zero, s, k \in Durations) =
            [count |-> 0 + s.count, sum |-> 0 + s.sum,
             min |-> IF k \in Durations THEN s.min ELSE 0, max |-> IF k \in Durations THEN s.max ELSE 0]
      BY DEF Record
    <2>6. CASE k \in Durations
      BY <2>1, <2>3, <2>4, <2>5, <2>6
    <2>7. CASE k \notin Durations
      BY <2>1, <2>2, <2>3, <2>4, <2>5, <2>7
    <2> QED BY <2>6, <2>7
  <1>2. DOMAIN <<>> = {}
    OBVIOUS
  <1>3. Merged(<<>>, m) = [k \in DOMAIN m |-> Record(zero, m[k], k \in Durations)]
    <2> DEFINE none == <<>>
    <2>1. Merged(none, m) = [k \in DOMAIN none \cup DOMAIN m |->
             IF k \notin DOMAIN m THEN none[k]
             ELSE Record(IF k \in DOMAIN none THEN none[k] ELSE zero, m[k], k \in Durations)]
      BY DEF Merged
    <2>2. DOMAIN none = {}
      OBVIOUS
    <2> HIDE DEF none, zero
    <2>3. Merged(none, m) = [k \in DOMAIN m |-> Record(zero, m[k], k \in Durations)]
      BY <2>1, <2>2
    <2> QED BY <2>3 DEF none
  <1> HIDE DEF zero
  <1> QED BY <1>1, <1>3

LEMMA FlushStep ==
  ASSUME Inv, Inv', RunInv, HostFlushes
  PROVE  RunInv' /\ LocalStep
  <1> DEFINE f == Head(pipe)
  <1>1. /\ pipe # <<>> /\ pipe' = Tail(pipe) /\ f.t = "flush" /\ result = "running"
        /\ metrics' = Merged(metrics, f.metrics)
        /\ UNCHANGED <<pc, env, looked, result, files, recorded, outputs, given>>
    BY DEF HostFlushes, Arrives
  <1>2. FrameSound(f) /\ 1 \in DOMAIN pipe /\ f = pipe[1] /\ Len(pipe) \in Nat
    BY <1>1, HeadIs DEF RunInv
  <1>3. f.metrics = env.metrics /\ metrics = <<>> /\ pc = "gone"
    BY <1>1, <1>2 DEF FrameSound, Fits
  <1>4. metrics' = env.metrics
    BY <1>1, <1>3, MergedIntoNone DEF RunInv, KeptInv
  <1> HIDE DEF f
  <1>5. \A g : Coming(g)' = Coming(g)
    <2>1. \A g : FrameBytes(g, f) = 0
      BY <1>1 DEF FrameBytes
    <2>2. \A g : Coming(g) = Coming(g)' + FrameBytes(g, f) /\ Coming(g)' \in Nat
      BY <1>1, HeadIs DEF RunInv, f
    <2> QED BY <2>1, <2>2
  <1>6. KeptInv'
    BY <1>1, KeptStays DEF RunInv, KeptInv
  <1>7. FramesInv'
    <2>1. \A i \in DOMAIN pipe : i # 1 => pipe[i].t # "flush"
      <3>1. Len(pipe) - 1 = 1
        BY <1>1, <1>2 DEF RunInv, FramesInv
      <3> QED BY <3>1 DEF RunInv, FramesInv
    <2>2. \A i \in DOMAIN pipe : i # 1 => SoundNext(pipe[i])
      BY <1>1, <2>1 DEF RunInv, FramesInv, FrameSound, SoundNext, Fits, OpenHandles
    <2> QED BY <1>1, <1>4, <2>2, FramesShrink DEF RunInv, f
  <1>8. OutputsInv'
    BY <1>1, OutputsShrink DEF RunInv, f
  <1>9. MetricsInv' /\ RecordedInv'
    BY <1>1, <1>3, <1>4 DEF RunInv, MetricsInv, RecordedInv
  <1>10. UNCHANGED LocalRun!vars
    BY <1>1, <1>5, Stutters
  <1> QED BY <1>6, <1>7, <1>8, <1>9, <1>10 DEF RunInv, LocalStep

\* The end of the run, with what the files have then: writers.
LEMMA LeaveStep ==
  ASSUME Inv, Inv', RunInv, result = "running", result' \in {"ok", "failed"}, pipe' = <<>>,
         UNCHANGED <<pc, env, looked, metrics, outputs>>,
         NEW writers, Leave(writers), DOMAIN writers = DOMAIN files,
         \A h \in DOMAIN files : /\ Writer(writers[h]) /\ writers[h].size \in Nat
                                 /\ writers[h].name = files[h].name
                                 /\ writers[h].open = files[h].open
                                 /\ ~files[h].open => writers[h] = files[h]
  PROVE  /\ RunInv' /\ FilesSeen' = files' /\ LocalRun!Truthful
         /\ DOMAIN files' = DOMAIN files
         /\ \A h \in DOMAIN files :
              files'[h] = [name |-> files[h].name, size |-> writers[h].size, open |-> FALSE]
         /\ files' = [h \in DOMAIN files |-> files'[h]]
         /\ DOMAIN recorded' = {files[h].name : h \in DOMAIN files}
         /\ \A n \in DOMAIN recorded : (\A h \in OpenHandles : files[h].name # n)
                                          => recorded'[n] = recorded[n]
  <1> DEFINE left == {h \in DOMAIN writers : writers[h].open}
             names == {writers[h].name : h \in left}
  <1>1. /\ files' = [h \in DOMAIN writers |-> [writers[h] EXCEPT !.open = FALSE]]
        /\ \E last \in [names -> left] :
             /\ \A n \in names : writers[last[n]].name = n
             /\ recorded' = [n \in DOMAIN recorded \cup names |->
                               IF n \in names THEN writers[last[n]].size ELSE recorded[n]]
    BY DEF Leave, CloseAll
  <1>2. PICK last \in [names -> left] :
             /\ \A n \in names : writers[last[n]].name = n
             /\ recorded' = [n \in DOMAIN recorded \cup names |->
                               IF n \in names THEN writers[last[n]].size ELSE recorded[n]]
    BY <1>1
  <1>3. /\ DOMAIN files' = DOMAIN files /\ files' = [h \in DOMAIN files |-> files'[h]]
        /\ \A h \in DOMAIN files : files'[h] = [writers[h] EXCEPT !.open = FALSE]
    BY <1>1
  <1>4. \A h \in DOMAIN files :
          files'[h] = [name |-> files[h].name, size |-> writers[h].size, open |-> FALSE]
    <2> TAKE h \in DOMAIN files
    <2>1. Writer(writers[h]) /\ writers[h].name = files[h].name
      OBVIOUS
    <2>2. [writers[h] EXCEPT !.open = FALSE] = [name |-> writers[h].name, size |-> writers[h].size, open |-> FALSE]
      BY <2>1, WriterIs
    <2> QED BY <1>3, <2>1, <2>2
  <1>5. \A h \in DOMAIN files : files'[h].name = files[h].name /\ files'[h].size = writers[h].size
                                /\ files'[h].open = FALSE
    <2> TAKE h \in DOMAIN files
    <2>1. PICK g : g = files'[h]
      OBVIOUS
    <2>2. g = [name |-> files[h].name, size |-> writers[h].size, open |-> FALSE]
      BY <1>4, <2>1
    <2>3. g.name = files[h].name /\ g.size = writers[h].size /\ g.open = FALSE
      BY <2>2
    <2> QED BY <2>1, <2>3
  <1>6. left = OpenHandles /\ names = {files[h].name : h \in OpenHandles}
    BY DEF OpenHandles
  <1> HIDE DEF left, names
  <1>7. /\ DOMAIN recorded' = DOMAIN recorded \cup names
        /\ \A n \in names : /\ last[n] \in OpenHandles /\ files[last[n]].name = n
                            /\ recorded'[n] = writers[last[n]].size
        /\ \A n \in DOMAIN recorded : n \notin names => recorded'[n] = recorded[n]
    <2>1. \A n \in names : last[n] \in OpenHandles
      BY <1>2, <1>6
    <2>2. \A n \in names : last[n] \in DOMAIN files
      BY <2>1 DEF OpenHandles
    <2> QED BY <1>2, <2>1, <2>2
  <1>8. RecordedInv'
    <2>1. ASSUME NEW n \in DOMAIN recorded'
          PROVE  \E h \in DOMAIN files' : files'[h].name = n /\ files'[h].size = recorded'[n] /\ ~files'[h].open
      <3>1. CASE n \in names
        <4>1. last[n] \in DOMAIN files
          BY <1>7, <3>1 DEF OpenHandles
        <4> QED BY <1>3, <1>5, <1>7, <3>1, <4>1
      <3>2. CASE n \notin names
        <4>1. n \in DOMAIN recorded /\ recorded'[n] = recorded[n]
          BY <1>7, <2>1, <3>2
        <4>2. PICK h \in DOMAIN files : files[h].name = n /\ files[h].size = recorded[n] /\ ~files[h].open
          BY <4>1 DEF RunInv, RecordedInv
        <4>3. writers[h] = files[h]
          BY <4>2
        <4> QED BY <1>3, <1>5, <4>1, <4>2, <4>3
      <3> QED BY <3>1, <3>2
    <2>2. \A h \in DOMAIN files' : files'[h].size \in Nat
      BY <1>3, <1>5
    <2> QED BY <2>1, <2>2 DEF RecordedInv
  <1>9. RunInv'
    <2>1. KeptInv'
      BY DEF RunInv, KeptInv, Aggregate
    <2>2. FramesInv'
      BY DEF FramesInv
    <2>3. OutputsInv' /\ MetricsInv'
      BY DEF RunInv, OutputsInv, MetricsInv
    <2> QED BY <1>8, <2>1, <2>2, <2>3 DEF RunInv
  <1>10. FilesSeen' = files'
    BY SeenNext DEF AsOver
  <1>11. LocalRun!Truthful
    BY <1>8, <1>10 DEF RecordedInv, LocalRun!Truthful
  <1>12. DOMAIN recorded' = {files[h].name : h \in DOMAIN files}
    <2>1. \A n \in DOMAIN recorded : n \in {files[h].name : h \in DOMAIN files}
      BY DEF Inv, FilesInv
    <2>2. \A n \in names : n \in {files[h].name : h \in DOMAIN files}
      BY <1>6 DEF OpenHandles
    <2>3. \A h \in DOMAIN files : files[h].name \in DOMAIN recorded \cup names
      BY <1>6 DEF Inv, FilesInv, OpenHandles
    <2> QED BY <1>7, <2>1, <2>2, <2>3
  <1>13. \A n \in DOMAIN recorded : (\A h \in OpenHandles : files[h].name # n) => recorded'[n] = recorded[n]
    BY <1>6, <1>7
  <1> QED BY <1>3, <1>4, <1>9, <1>10, <1>11, <1>12, <1>13

\* A run that fails loses what had not arrived, and makes nothing up.
LEMMA FailsAsLocal ==
  ASSUME Inv, Inv', RunInv, result = "running", result' = "failed", UNCHANGED <<metrics, outputs>>,
         FilesSeen' = files', LocalRun!Truthful, DOMAIN files' = DOMAIN files,
         \A h \in DOMAIN files : files'[h].name = files[h].name /\ files'[h].size <= Written(h)
  PROVE  LocalRun!Fail
  <1>1. AsRunning /\ AsOver'
    BY SeenRunning, SeenNext
  <1>2. MetricsSeen' \in {MetricsSeen, <<>>}
    BY <1>1 DEF AsRunning, AsOver, RunInv, MetricsInv
  <1>3. /\ DOMAIN OutputsSeen' \subseteq DOMAIN OutputsSeen
        /\ \A p \in DOMAIN OutputsSeen' : OutputsSeen'[p] = OutputsSeen[p]
    BY <1>1 DEF AsRunning, AsOver, RunInv, OutputsInv
  <1>4. /\ DOMAIN FilesSeen' = DOMAIN FilesSeen
        /\ \A h \in DOMAIN FilesSeen : /\ FilesSeen'[h].name = FilesSeen[h].name
                                       /\ FilesSeen'[h].size <= FilesSeen[h].size
    <2>1. \A h : SeenFile(h).name = files[h].name /\ SeenFile(h).size = Written(h)
      BY DEF SeenFile
    <2> HIDE DEF SeenFile
    <2> QED BY <1>1, <2>1 DEF AsRunning
  <1> QED BY <1>2, <1>3, <1>4 DEF LocalRun!Fail

LEMMA FailStep ==
  ASSUME Inv, Inv', RunInv, HostFails
  PROVE  RunInv' /\ LocalStep
  <1>1. /\ result = "running" /\ result' = "failed" /\ Leave(files) /\ pipe' = <<>>
        /\ UNCHANGED <<pc, env, looked, metrics, outputs>>
    BY DEF HostFails
  <1>2. \A h \in DOMAIN files : Writer(files[h]) /\ files[h].size \in Nat
    BY DEF Inv, FilesInv, Writers, RunInv, RecordedInv
  <1>3. /\ RunInv' /\ FilesSeen' = files' /\ LocalRun!Truthful /\ DOMAIN files' = DOMAIN files
        /\ \A h \in DOMAIN files :
             files'[h] = [name |-> files[h].name, size |-> files[h].size, open |-> FALSE]
    BY <1>1, <1>2, LeaveStep
  <1>4. \A h \in DOMAIN files : files'[h].name = files[h].name /\ files'[h].size = files[h].size
    BY <1>3
  <1>5. \A h : Coming(h) \in Nat
    BY PipeCounts, BytesFinite DEF RunInv, Coming
  <1>6. \A h \in DOMAIN files : files'[h].size <= Written(h)
    BY <1>2, <1>4, <1>5 DEF Written
  <1>7. LocalRun!Fail
    BY <1>1, <1>3, <1>4, <1>6, FailsAsLocal
  <1> QED BY <1>3, <1>7 DEF LocalStep, LocalRun!Next

\* A chunk of which a part was written counts as far as it was.
LEMMA PartStep ==
  ASSUME Inv, Inv', RunInv, WriteFails
  PROVE  RunInv' /\ LocalStep
  <1> DEFINE f == Head(pipe)
  <1>1. /\ pipe # <<>> /\ f.t = "chunk" /\ result = "running" /\ result' = "failed" /\ pipe' = <<>>
        /\ UNCHANGED <<pc, env, looked, metrics, outputs>>
    BY DEF WriteFails, Arrives
  <1>2. PICK n \in 0..f.n - 1 : Leave([files EXCEPT ![f.h].size = files[f.h].size + n])
    BY DEF WriteFails
  <1>3. 1 \in DOMAIN pipe /\ f = pipe[1]
    BY <1>1, TailKeeps DEF Inv, PipeInv
  <1>4. FrameSound(f)
    BY <1>3 DEF RunInv, FramesInv
  <1>5. f.h \in OpenHandles /\ f.n \in Nat
    BY <1>1, <1>4 DEF FrameSound, Fits
  <1>6. \A g : /\ Coming(g) \in Nat
               /\ g = f.h => f.n <= Coming(g)
    <2> TAKE g
    <2>1. /\ Cardinality(Bytes(g, pipe)) = Cardinality(Bytes(g, Tail(pipe))) + FrameBytes(g, f)
          /\ Cardinality(Bytes(g, Tail(pipe))) \in Nat
      BY <1>1, PipeCounts, BytesTail DEF RunInv
    <2>2. FrameBytes(g, f) \in Nat /\ (g = f.h => FrameBytes(g, f) = f.n)
      BY <1>1, <1>5 DEF FrameBytes
    <2> HIDE DEF f
    <2> QED BY <2>1, <2>2 DEF Coming
  <1>7. PICK h \in OpenHandles : h = f.h
    BY <1>5
  <1>8. n \in Nat /\ n <= Coming(h) /\ Coming(h) \in Nat
    BY <1>2, <1>5, <1>6, <1>7
  <1>9. PICK x : x = files[h].size + n
    OBVIOUS
  <1>10. PICK writers : writers = [files EXCEPT ![h].size = x]
    OBVIOUS
  <1>11. Leave(writers)
    BY <1>2, <1>7, <1>9, <1>10
  <1> HIDE DEF f
  <1>12. h \in DOMAIN files /\ files[h].open
    BY DEF OpenHandles
  <1>13. /\ DOMAIN writers = DOMAIN files
         /\ \A g \in DOMAIN files : g # h => writers[g] = files[g]
         /\ writers[h] = [files[h] EXCEPT !.size = x]
    BY <1>10, <1>12
  <1>14. \A g \in DOMAIN files : Writer(files[g]) /\ files[g].size \in Nat
    BY DEF Inv, FilesInv, Writers, RunInv, RecordedInv
  <1>15. writers[h] = [name |-> files[h].name, size |-> x, open |-> files[h].open]
    BY <1>12, <1>13, <1>14, WriterIs
  <1>16. /\ Writer(writers[h]) /\ writers[h].name = files[h].name /\ writers[h].open = files[h].open
         /\ writers[h].size = x
    BY <1>15 DEF Writer
  <1>17. x \in Nat /\ x <= Written(h)
    BY <1>8, <1>9, <1>12, <1>14 DEF Written
  <1>18. \A g \in DOMAIN files : /\ Writer(writers[g]) /\ writers[g].size \in Nat
                                 /\ writers[g].name = files[g].name
                                 /\ writers[g].open = files[g].open
                                 /\ ~files[g].open => writers[g] = files[g]
    BY <1>12, <1>13, <1>14, <1>16, <1>17
  <1>19. /\ RunInv' /\ FilesSeen' = files' /\ LocalRun!Truthful /\ DOMAIN files' = DOMAIN files
         /\ \A g \in DOMAIN files :
              files'[g] = [name |-> files[g].name, size |-> writers[g].size, open |-> FALSE]
    BY <1>1, <1>11, <1>13, <1>18, LeaveStep
  <1>20. \A g \in DOMAIN files : files'[g].name = files[g].name /\ files'[g].size = writers[g].size
    BY <1>19
  <1>21. \A g \in DOMAIN files : writers[g].size <= Written(g)
    <2> TAKE g \in DOMAIN files
    <2>1. CASE g = h
      BY <1>16, <1>17, <2>1
    <2>2. CASE g # h
      BY <1>6, <1>13, <1>14, <2>2 DEF Written
    <2> QED BY <2>1, <2>2
  <1>22. LocalRun!Fail
    BY <1>1, <1>19, <1>20, <1>21, FailsAsLocal
  <1> QED BY <1>19, <1>22 DEF LocalStep, LocalRun!Next

\* The response of the run comes when everything the unit did has arrived.
LEMMA ReturnStep ==
  ASSUME Inv, Inv', RunInv, HostReturns
  PROVE  RunInv' /\ LocalStep
  <1> DEFINE f == Head(pipe)
  <1>1. /\ pipe # <<>> /\ pipe' = Tail(pipe) /\ f.t = "done" /\ result = "running" /\ result' = "ok"
        /\ Leave(files) /\ UNCHANGED <<pc, env, looked, metrics, outputs>>
    BY DEF HostReturns, Arrives
  <1>2. /\ pipe' = <<>> /\ FrameSound(f) /\ 1 \in DOMAIN pipe /\ f = pipe[1]
        /\ metrics = env.metrics
    BY <1>1, HeadIs DEF RunInv
  <1>3. pc = "gone" /\ looked = Len(Outputs)
    BY <1>1, <1>2 DEF FrameSound, Fits
  <1>4. \A g : Coming(g) = 0
    <2>1. \A g : FrameBytes(g, f) = 0
      BY <1>1 DEF FrameBytes
    <2>2. \A g : Coming(g) = Coming(g)' + FrameBytes(g, f) /\ Coming(g)' = 0
      BY <1>1, <1>2, HeadIs DEF RunInv
    <2> HIDE DEF f
    <2> QED BY <2>1, <2>2
  <1> HIDE DEF f
  <1>5. \A h \in DOMAIN files : Writer(files[h]) /\ files[h].size \in Nat
    BY DEF Inv, FilesInv, Writers, RunInv, RecordedInv
  <1>6. /\ RunInv' /\ FilesSeen' = files' /\ LocalRun!Truthful /\ DOMAIN files' = DOMAIN files
        /\ files' = [h \in DOMAIN files |-> files'[h]]
        /\ \A h \in DOMAIN files :
             files'[h] = [name |-> files[h].name, size |-> files[h].size, open |-> FALSE]
        /\ DOMAIN recorded' = {files[h].name : h \in DOMAIN files}
        /\ \A n \in DOMAIN recorded : (\A h \in OpenHandles : files[h].name # n)
                                         => recorded'[n] = recorded[n]
    BY <1>1, <1>2, <1>5, LeaveStep
  <1>7. AsRunning /\ AsOver'
    BY <1>1, SeenRunning, SeenNext
  <1>8. \A h \in DOMAIN files : SeenFile(h) = [name |-> files[h].name, size |-> files[h].size, open |-> files[h].open]
    <2>1. \A h \in DOMAIN files : Written(h) = files[h].size
      BY <1>4, <1>5 DEF Written
    <2> QED BY <2>1 DEF SeenFile
  <1>9. /\ DOMAIN FilesSeen = DOMAIN files
        /\ \A h \in DOMAIN files : FilesSeen[h] = [name |-> files[h].name, size |-> files[h].size, open |-> files[h].open]
    BY <1>7, <1>8 DEF AsRunning
  <1>10. \A h \in DOMAIN files : FilesSeen[h].name = files[h].name /\ FilesSeen[h].open = files[h].open
    BY <1>9
  <1>11. FilesSeen' = [h \in DOMAIN FilesSeen |-> [FilesSeen[h] EXCEPT !.open = FALSE]]
    <2>1. \A h \in DOMAIN files : [FilesSeen[h] EXCEPT !.open = FALSE] = files'[h]
      <3> TAKE h \in DOMAIN files
      <3>1. \A x : [FilesSeen[h] EXCEPT !.open = x] = [name |-> files[h].name, size |-> files[h].size, open |-> x]
        BY <1>9
      <3> QED BY <1>6, <3>1
    <2> QED BY <1>6, <1>9, <2>1
  <1>12. DOMAIN recorded' = {FilesSeen[h].name : h \in DOMAIN FilesSeen}
    BY <1>6, <1>9, <1>10
  <1>13. LocalRun!OpenHandles = OpenHandles
    BY <1>9, <1>10 DEF LocalRun!OpenHandles, OpenHandles
  <1>14. \A n \in DOMAIN recorded : (\A h \in LocalRun!OpenHandles : FilesSeen[h].name # n)
                                       => recorded'[n] = recorded[n]
    BY <1>6, <1>10, <1>13 DEF OpenHandles
  <1>15. MetricsSeen' = MetricsSeen
    BY <1>1, <1>2, <1>7 DEF AsRunning, AsOver
  <1>16. DOMAIN outputs = DOMAIN env.outputs \cap Ports
    <2>1. ASSUME NEW p \in DOMAIN env.outputs \cap Ports PROVE p \in DOMAIN outputs
      <3>1. PICK i \in 1..Len(Outputs) : Outputs[i].name = p
        BY OutputsAssumption DEF Ports, ToSet
      <3>2. Sent(p)
        BY <1>1, <1>3, <2>1, <3>1 DEF RunInv, OutputsInv
      <3>3. \A j \in DOMAIN pipe : pipe[j].t = "done"
        <4>1. PICK S : pipe \in Seq(S)
          BY DEF Inv, PipeInv
        <4>2. Len(pipe) = 1
          BY <1>1, <1>2 DEF RunInv, FramesInv
        <4> QED BY <1>1, <1>2, <4>1, <4>2
      <3> QED BY <3>2, <3>3 DEF Sent
    <2> QED BY <2>1 DEF RunInv, OutputsInv
  <1>17. OutputsSeen' = OutputsSeen
    BY <1>1, <1>7, <1>16 DEF AsRunning, AsOver, RunInv, OutputsInv
  <1>18. LocalRun!Return
    BY <1>1, <1>6, <1>11, <1>12, <1>14, <1>15, <1>17 DEF LocalRun!Return
  <1> QED BY <1>6, <1>18 DEF LocalStep, LocalRun!Next

\* The run of the next unit does not concern this one, which is over.
LEMMA NextStep ==
  ASSUME Inv, Inv', RunInv, NEW p \in Ports, NEW def \in InputDefs, NextUnitRuns(p, def)
  PROVE  RunInv' /\ LocalStep
  <1>1. result = "ok" /\ UNCHANGED <<pc, env, looked, pipe, result, metrics, files, recorded, outputs>>
    BY DEF NextUnitRuns
  <1>2. RunInv'
    BY <1>1 DEF RunInv, KeptInv, Aggregate, FramesInv, FrameSound, Fits, OpenHandles, OutputsInv, MetricsInv,
                RecordedInv
  <1>3. AsOver /\ AsOver'
    BY <1>1, SeenOver, SeenNext
  <1>4. UNCHANGED LocalRun!vars
    BY <1>1, <1>3 DEF AsOver, LocalRun!vars
  <1> QED BY <1>2, <1>4 DEF LocalStep

-----------------------------------------------------------------------------
LEMMA RunInitially == Init => RunInv /\ LocalRun!Init
  <1> SUFFICES ASSUME Init PROVE RunInv /\ LocalRun!Init
    OBVIOUS
  <1>1. DOMAIN <<>> = {} /\ Len(<<>>) = 0
    OBVIOUS
  <1>2. /\ pc = "run" /\ looked = 0 /\ env = [metrics |-> <<>>, outputs |-> <<>>] /\ pipe = <<>>
        /\ result = "running" /\ metrics = <<>> /\ files = <<>> /\ recorded = <<>> /\ outputs = <<>>
    BY DEF Init
  <1>3. env.metrics = <<>> /\ env.outputs = <<>>
    BY <1>2
  <1>4. KeptInv
    <2>1. <<>> = [k \in DOMAIN <<>> |-> <<>>[k]]
      OBVIOUS
    <2> QED BY <1>1, <1>2, <1>3, <2>1 DEF KeptInv
  <1>5. FramesInv /\ MetricsInv /\ RecordedInv
    BY <1>1, <1>2 DEF FramesInv, MetricsInv, RecordedInv
  <1>6. OutputsInv
    <2>1. Len(Outputs) \in Nat
      BY OutputsAssumption
    <2> QED BY <1>1, <1>2, <2>1 DEF OutputsInv
  <1>7. MetricsSeen = <<>>
    BY <1>2, <1>3 DEF MetricsSeen
  <1>8. FilesSeen = <<>> /\ OutputsSeen = <<>>
    <2>1. FilesSeen = [h \in {} |-> SeenFile(h)]
      <3>1. Inv
        BY Initially
      <3> QED BY <1>1, <1>2, <3>1, SeenRunning DEF AsRunning
    <2>2. OutputsSeen = [p \in {} |-> env.outputs[p]]
      BY <1>1, <1>2, <1>3 DEF OutputsSeen
    <2>3. \A g : DOMAIN g = {} /\ g = [x \in DOMAIN g |-> g[x]] => g = <<>>
      OBVIOUS
    <2> QED BY <2>1, <2>2, <2>3
  <1>9. LocalRun!Init
    BY <1>2, <1>7, <1>8 DEF LocalRun!Init
  <1> QED BY <1>4, <1>5, <1>6, <1>9 DEF RunInv

LEMMA RunSteps ==
  Inv /\ Inv' /\ RunInv /\ [Next]_vars => RunInv' /\ [LocalRun!Next]_(LocalRun!vars)
  <1> SUFFICES ASSUME Inv, Inv', RunInv, [Next]_vars PROVE RunInv' /\ LocalStep
    BY DEF LocalStep
  <1>1. CASE UNCHANGED vars
    <2>1. UNCHANGED <<pc, env, looked, pipe, result, metrics, files, recorded, outputs>>
      BY <1>1 DEF vars
    <2>2. RunInv'
      BY <2>1 DEF RunInv, KeptInv, Aggregate, FramesInv, FrameSound, Fits, OpenHandles, OutputsInv, Sent,
                  MetricsInv, RecordedInv
    <2>3. MetricsSeen' = MetricsSeen /\ OutputsSeen' = OutputsSeen
      BY <2>1 DEF MetricsSeen, OutputsSeen
    <2>4. FilesSeen' = FilesSeen
      BY <2>1 DEF FilesSeen, Written, Coming, Bytes
    <2> QED BY <2>1, <2>2, <2>3, <2>4 DEF LocalStep, LocalRun!vars
  <1>2. CASE UnitFails
    <2> DEFINE f == [t |-> "error"]
    <2>1. f.t = "error"
      OBVIOUS
    <2>2. pc = "run" /\ result = "running" /\ pipe' = Append(pipe, f) /\ pc' = "gone" /\ UNCHANGED <<env, looked, hostVars>>
      BY <1>2 DEF UnitFails
    <2> HIDE DEF f
    <2> QED BY <2>1, <2>2, AskStep
  <1>3. ASSUME NEW name \in Artifacts, UnitOpens(name) PROVE RunInv' /\ LocalStep
    <2> DEFINE f == [t |-> "open", name |-> name]
    <2>1. f.t = "open" /\ f.name \in Artifacts
      OBVIOUS
    <2>2. pc = "run" /\ result = "running" /\ pipe' = Append(pipe, f) /\ pc' = "ask" /\ UNCHANGED <<env, looked, hostVars>>
      BY <1>3 DEF UnitOpens
    <2> HIDE DEF f
    <2> QED BY <2>1, <2>2, AskStep
  <1>4. ASSUME NEW h \in OpenHandles, UnitCloses(h) PROVE RunInv' /\ LocalStep
    <2> DEFINE f == [t |-> "close", h |-> h]
    <2>1. f.t = "close" /\ f.h \in OpenHandles
      OBVIOUS
    <2>2. pc = "run" /\ result = "running" /\ pipe' = Append(pipe, f) /\ pc' = "ask" /\ UNCHANGED <<env, looked, hostVars>>
      BY <1>4 DEF UnitCloses
    <2> HIDE DEF f
    <2> QED BY <2>1, <2>2, AskStep
  <1>5. CASE UnitEmits \/ UnitReturns \/ PluginWritesOutput \/ PluginAnswers
    BY <1>5, EmitStep, ReturnsStep, OutputStep, AnswerStep
  <1>6. CASE HostOpens \/ HostWrites \/ HostCloses \/ HostSetsOutput \/ HostFlushes
    BY <1>6, OpenStep, ChunkStep, CloseStep, TakesOutputStep, FlushStep
  <1>7. CASE HostReturns \/ HostFails \/ WriteFails
    BY <1>7, ReturnStep, FailStep, PartStep
  <1>8. CASE \E h \in OpenHandles, n \in Amounts : UnitWrites(h, n)
    BY <1>8, WriteStep
  <1>9. CASE \E p \in Ports \cup {StrayPort}, v \in Documents \cup {Unencodable} : UnitSetsOutput(p, v)
    BY <1>9, SetOutputStep
  <1>10. CASE \E p \in Ports, def \in InputDefs : NextUnitRuns(p, def)
    BY <1>10, NextStep
  <1> QED BY <1>1, <1>2, <1>3, <1>4, <1>5, <1>6, <1>7, <1>8, <1>9, <1>10 DEF Next

\* A run in a plugin is a run in the process of the engine (RunsAsLocal): the frames of
\* remoteRunEnv and StdioClient.Run neither lose nor invent nor reorder what the unit
\* did, for any number of metrics, artifacts and outputs and any size of the chunks.
THEOREM RunsAsLocalHolds == Spec => RunsAsLocal
  <1>1. Init => Inv /\ RunInv /\ LocalRun!Init
    BY Initially, RunInitially
  <1>2. Inv /\ RunInv /\ [Next]_vars => Inv' /\ RunInv' /\ [LocalRun!Next]_(LocalRun!vars)
    BY Inductive, RunSteps
  <1> QED BY <1>1, <1>2, PTL DEF Spec, RunsAsLocal, LocalRun!Spec
=============================================================================
