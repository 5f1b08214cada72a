--------------------------- MODULE PipelineProofs ---------------------------
(***************************************************************************)
(* The composed single-model pipeline, for any number of nodes, runs,      *)
(* batches, faults and restarts: what a run records was compressed and     *)
(* decompressed with that run's settings, the bookkeeping implements       *)
(* Sweep, the in-flight counters are exact, in an undisturbed sweep every  *)
(* task has an owner and every batch of every run is recorded, and the     *)
(* first and the last node implement the component NodeServer.             *)
(***************************************************************************)
EXTENDS PipelineNodes, FiniteSetTheorems, TLAPS

-----------------------------------------------------------------------------
(* Type correctness.                                                       *)

LEMMA DecrementType ==
    ASSUME TypeOK, NEW n \in Nodes, Decrement(n)
    PROVE  /\ inFlight' \in [Nodes -> Nat]
           /\ idleEvent' \in [Nodes -> BOOLEAN]
           /\ push' \in [Ends -> PushStages]
<1>1. inFlight' \in [Nodes -> Nat]
  <2>1. inFlight[n] \in Nat
    BY DEF TypeOK
  <2>2. (IF inFlight[n] > 0 THEN inFlight[n] - 1 ELSE 0) \in Nat
    BY <2>1
  <2>3. QED
    BY <2>2 DEF TypeOK, Decrement
<1>2. /\ idleEvent' \in [Nodes -> BOOLEAN]
      /\ push' \in [Ends -> PushStages]
  <2>1. CASE inFlight'[n] = 0
    BY <2>1 DEF TypeOK, Decrement, PushStages
  <2>2. CASE inFlight'[n] # 0
    BY <2>2 DEF TypeOK, Decrement
  <2>3. QED
    BY <2>1, <2>2
<1>3. QED
  BY <1>1, <1>2

LEMMA TypeInit == Init => TypeOK
  BY PipelineAssumption
  DEF Init, TypeOK, Phases, PushStages, ClientStages, HopStages, Runs, Nodes, Ends

LEMMA TypeStep == TypeOK /\ [Next]_vars => TypeOK'
<1> SUFFICES ASSUME TypeOK, [Next]_vars
             PROVE  TypeOK'
  OBVIOUS
<1> USE DEF TypeOK, sweepVars, clientVars, nodeVars
<1>1. CASE StartRun \/ PushFails \/ PushBreaks \/ FinishRun
  <2>1. CASE StartRun
    BY <2>1 DEF StartRun, Phases
  <2>2. CASE PushFails
    BY <2>2 DEF PushFails, Phases
  <2>3. CASE PushBreaks
    BY <2>3, PipelineAssumption DEF PushBreaks, Fault, Phases
  <2>4. CASE FinishRun
    BY <2>4, PipelineAssumption DEF FinishRun, Phases, PushStages, Runs
  <2>5. QED
    BY <1>1, <2>1, <2>2, <2>3, <2>4
<1>2. ASSUME NEW e \in Ends, Configure(e)
      PROVE  TypeOK'
  <2>1. RunConfig[run][e[1]] \in Configs
    BY PipelineAssumption DEF Ends
  <2>2. CASE PostConfig(e) \/ LookAtEvent(e)
    BY <2>2 DEF PostConfig, LookAtEvent, PushStages
  <2>3. CASE ApplyConfig(e)
    BY <2>1, <2>3 DEF ApplyConfig, PushStages
  <2>4. CASE DrainTimeout(e)
    BY <2>4, PipelineAssumption DEF DrainTimeout, Fault, PushStages
  <2>5. QED
    BY <1>2, <2>2, <2>3, <2>4 DEF Configure
<1>3. ASSUME NEW b \in Batches, SendBatch(b)
      PROVE  TypeOK'
  <2>1. 1 \in Hops /\ <<run, b>> \in Tasks
    BY PipelineAssumption DEF Hops, Tasks
  <2>2. QED
    BY <1>3, <2>1 DEF SendBatch, ClientStages, HopStages
<1>4. ASSUME NEW t \in Tasks, Client(t)
      PROVE  TypeOK'
  <2>1. N + 1 \in Hops
    BY PipelineAssumption DEF Hops
  <2>2. CASE PostReturns(t) \/ Collect(t)
    BY <2>2 DEF PostReturns, Collect, ClientStages
  <2>3. CASE PostFails(t)
    BY <2>3, PipelineAssumption DEF PostFails, Fault, ClientStages
  <2>4. CASE ResultTimeout(t)
    BY <2>4, PipelineAssumption DEF ResultTimeout, Fault, ClientStages
  <2>5. CASE HandleResult(t)
    BY <2>1, <2>5 DEF HandleResult, HopStages
  <2>6. QED
    BY <1>4, <2>2, <2>3, <2>4, <2>5 DEF Client
<1>5. ASSUME NEW n \in Nodes, NEW t \in Tasks, Serve(n, t)
      PROVE  TypeOK'
  <2>1. n \in Hops /\ n + 1 \in Hops
    BY PipelineAssumption DEF Nodes, Hops
  <2>2. CASE Infer(n, t)
    BY <2>1, <2>2 DEF Infer, HopStages
  <2>3. CASE Process(n, t)
    <3>1. n # 1 => n - 1 \in Links /\ <<n - 1, "incoming">> \in Ends
      BY PipelineAssumption DEF Nodes, Links, Ends, Directions
    <3>2. n # N => n \in Links /\ <<n, "outgoing">> \in Ends
      BY PipelineAssumption DEF Nodes, Links, Ends, Directions
    <3>3. enc' \in [Tasks -> [Links -> Configs \cup {NoConfig}]]
      BY <2>3, <3>2 DEF Process
    <3>4. dec' \in [Tasks -> [Links -> Configs \cup {NoConfig}]]
      BY <2>3, <3>1 DEF Process
    <3>5. hop' \in [Tasks -> [Hops -> HopStages]]
      BY <2>1, <2>3 DEF Process, HopStages
    <3>6. QED
      BY <2>3, <3>3, <3>4, <3>5 DEF Process
  <2>4. CASE Raise(n, t)
    BY <2>1, <2>4, DecrementType, PipelineAssumption DEF Raise, HopStages, Fault
  <2>5. CASE SendReturns(n, t)
    BY <2>1, <2>5, DecrementType, PipelineAssumption DEF SendReturns, HopStages, Fault
  <2>6. QED
    BY <1>5, <2>2, <2>3, <2>4, <2>5 DEF Serve
<1>6. ASSUME NEW h \in Hops, NEW t \in Tasks, Drop(h, t)
      PROVE  TypeOK'
  BY <1>6, PipelineAssumption DEF Drop, Fault, HopStages
<1>7. ASSUME NEW n \in Nodes, Restart(n)
      PROVE  TypeOK'
  <2>1. \A e \in Ends : Default[e[1]] \in Configs
    BY PipelineAssumption DEF Ends
  <2>2. hop' \in [Tasks -> [Hops -> HopStages]]
    BY <1>7 DEF Restart, HopStages
  <2>3. QED
    BY <1>7, <2>1, <2>2, PipelineAssumption DEF Restart, PushStages
<1>8. CASE UNCHANGED vars
  BY <1>8 DEF vars
<1>9. QED
  BY <1>1, <1>2, <1>3, <1>4, <1>5, <1>6, <1>7, <1>8 DEF Next

\* The pipeline's variables keep their types.
THEOREM TypeCorrect == Spec => []TypeOK
  BY TypeInit, TypeStep, PTL DEF Spec

-----------------------------------------------------------------------------
(* The inductive invariant.  RecordedUnderRunConfig alone says nothing of  *)
(* a result on its way: what carries it is that a task the client waits    *)
(* for belongs to the current run, that during a run every link end has    *)
(* the run's setting or, after a restart, the default, and that a hop a    *)
(* task has left used one of these.                                        *)

\* What a link end may use during run r.
Usable(r, e) == {RunConfig[r][e[1]]}
                  \cup (IF NodeOf(e) \in Restartable THEN {Default[e[1]]} ELSE {})

\* An applied update is in force unless its node restarted since.
PushInv ==
    /\ \A e \in Ends : push[e] = "applied" => config[e] \in Usable(run, e)
    /\ phase \in {"running", "done"} => \A e \in Ends : push[e] = "applied"

\* Only tasks of the current run are pending, and only while it runs; a task
\* that was not sent is nowhere; a record comes from a result that came back.
ClientInv ==
    \A t \in Tasks :
        /\ Holding(t) => phase = "running" /\ RunOf(t) = run
        /\ client[t] = "queued" => \A h \in Hops : hop[t][h] = "absent"
        /\ client[t] = "recorded" => t \in future
        /\ t \in future => hop[t][N + 1] # "absent"

Left(t, n) == hop[t][n + 1] # "absent"

\* A task visits the hops in order, and does not return to one it has left.
ChainInv ==
    \A t \in Tasks : \A n \in Nodes :
        Left(t, n) => /\ hop[t][n] \in {"sending", "finished"}
                      /\ \A m \in Nodes : m <= n => Left(t, m)

Watched(t) == client[t] \in {"posting", "awaiting", "recorded"}

\* A task that is or will be recorded used usable settings where it has been,
\* and the run's setting on every link that it crossed.
SettingsInv ==
    \A t \in Tasks : Watched(t) => \A n \in Nodes : Left(t, n) =>
        /\ n # 1 => /\ enc[t][n - 1] = RunConfig[RunOf(t)][n - 1]
                    /\ dec[t][n - 1] = RunConfig[RunOf(t)][n - 1]
        /\ n # N => enc[t][n] \in Usable(RunOf(t), <<n, "outgoing">>)

\* What holds whatever the settings are, and with the settings.
BaseInv == TypeOK /\ PushInv /\ ClientInv /\ ChainInv
IInv    == BaseInv /\ SettingsInv

-----------------------------------------------------------------------------
(* Facts about ranges, cited below.                                        *)

LEMMA Ranges ==
    /\ \A n \in Nodes : n \in Hops /\ n + 1 \in Hops
    /\ 1 \in Hops /\ N + 1 \in Hops /\ N \in Nodes
    /\ \A n \in Nodes : n # 1 =>
          n - 1 \in Nodes /\ n - 1 \in Links /\ <<n - 1, "incoming">> \in Ends
            /\ <<n - 1, "outgoing">> \in Ends /\ (n - 1) + 1 = n
    /\ \A n \in Nodes : n # N => n \in Links /\ <<n, "outgoing">> \in Ends
    /\ \A l \in Links : l \in Nodes /\ l + 1 \in Nodes /\ l + 1 # 1 /\ (l + 1) - 1 = l
    /\ \A b \in Batches : run \in Runs => <<run, b>> \in Tasks
  BY PipelineAssumption DEF Nodes, Hops, Links, Ends, Directions, Tasks

\* A step that leaves the hops alone, but for a change that keeps what is absent
\* absent and what is finished finished, keeps the chain.
LEMMA ChainKept ==
    ASSUME TypeOK, ChainInv, TypeOK',
           \A t \in Tasks : \A h \in Hops :
               /\ hop'[t][h] = "absent" <=> hop[t][h] = "absent"
               /\ hop[t][h] \in {"sending", "finished"}
                     => hop'[t][h] \in {"sending", "finished"}
    PROVE  ChainInv'
  BY Ranges DEF ChainInv, Left

\* The same for what was used, when no task starts to be watched.
LEMMA SettingsKept ==
    ASSUME SettingsInv, enc' = enc, dec' = dec,
           \A t \in Tasks : \A h \in Hops :
               hop'[t][h] = "absent" <=> hop[t][h] = "absent",
           \A t \in Tasks : Watched(t)' => Watched(t)
    PROVE  SettingsInv'
  BY Ranges DEF SettingsInv, Left, Usable

LEMMA IInvInit == Init => IInv
<1> SUFFICES ASSUME Init
             PROVE  IInv
  OBVIOUS
<1>1. TypeOK
  BY TypeInit
<1>2. PushInv /\ ClientInv
  BY Ranges DEF Init, PushInv, ClientInv, Holding
<1>3. ChainInv /\ SettingsInv
  BY Ranges DEF Init, ChainInv, SettingsInv, Left, Watched
<1>4. QED
  BY <1>1, <1>2, <1>3 DEF IInv, BaseInv

-----------------------------------------------------------------------------
(* Each part is kept by every step.                                        *)

LEMMA PushStep == BaseInv /\ [Next]_vars => PushInv'
<1> SUFFICES ASSUME BaseInv, [Next]_vars
             PROVE  PushInv'
  OBVIOUS
<1> USE DEF BaseInv, sweepVars, clientVars, nodeVars
<1>1. CASE StartRun \/ PushFails \/ PushBreaks
  BY <1>1 DEF PushInv, StartRun, PushFails, PushBreaks, Usable
<1>2. CASE FinishRun
  <2>1. CASE run < R
    BY <1>2, <2>1 DEF PushInv, FinishRun
  <2>2. CASE ~(run < R)
    BY <1>2, <2>2 DEF PushInv, FinishRun, Usable
  <2>3. QED
    BY <2>1, <2>2
<1>3. ASSUME NEW e \in Ends, Configure(e)
      PROVE  PushInv'
  <2>1. CASE PostConfig(e) \/ LookAtEvent(e)
    BY <2>1 DEF PushInv, PostConfig, LookAtEvent, TypeOK, Usable
  <2>2. CASE ApplyConfig(e)
    BY <2>2 DEF PushInv, ApplyConfig, TypeOK, Usable
  <2>3. CASE DrainTimeout(e)
    BY <2>3 DEF PushInv, DrainTimeout, TypeOK, Usable
  <2>4. QED
    BY <1>3, <2>1, <2>2, <2>3 DEF Configure
<1>4. ASSUME NEW b \in Batches, SendBatch(b)
      PROVE  PushInv'
  BY <1>4 DEF PushInv, SendBatch, Usable
<1>5. ASSUME NEW t \in Tasks, Client(t)
      PROVE  PushInv'
  BY <1>5 DEF PushInv, Client, PostReturns, PostFails, Collect, ResultTimeout,
              HandleResult, Usable
<1>6. ASSUME NEW n \in Nodes, NEW t \in Tasks, Serve(n, t)
      PROVE  PushInv'
  <2>1. /\ phase' = phase /\ run' = run /\ config' = config
        /\ \A e \in Ends : push'[e] = "applied" <=> push[e] = "applied"
    <3>1. CASE Infer(n, t) \/ Process(n, t)
      BY <3>1 DEF Infer, Process
    <3>2. CASE Raise(n, t) \/ SendReturns(n, t)
      BY <3>2 DEF Raise, SendReturns, Decrement, TypeOK
    <3>3. QED
      BY <1>6, <3>1, <3>2 DEF Serve
  <2>2. QED
    BY <2>1 DEF PushInv, Usable
<1>7. ASSUME NEW h \in Hops, NEW t \in Tasks, Drop(h, t)
      PROVE  PushInv'
  BY <1>7 DEF PushInv, Drop, Usable
<1>8. ASSUME NEW n \in Nodes, Restart(n)
      PROVE  PushInv'
  <2>1. phase' = phase /\ run' = run
    BY <1>8 DEF Restart
  <2>2. ASSUME NEW e \in Ends
        PROVE  /\ push'[e] = "applied" <=> push[e] = "applied"
               /\ config[e] \in Usable(run, e) => config'[e] \in Usable(run, e)
    BY <1>8 DEF Restart, TypeOK, Usable, PushPending
  <2>3. QED
    BY <2>1, <2>2 DEF PushInv, Usable
<1>9. CASE UNCHANGED vars
  BY <1>9 DEF vars, PushInv, Usable
<1>10. QED
  BY <1>1, <1>2, <1>3, <1>4, <1>5, <1>6, <1>7, <1>8, <1>9 DEF Next

LEMMA ClientStep == BaseInv /\ [Next]_vars => ClientInv'
<1> SUFFICES ASSUME BaseInv, [Next]_vars
             PROVE  ClientInv'
  OBVIOUS
<1> USE DEF BaseInv, TypeOK, sweepVars, clientVars, nodeVars
<1>1. CASE StartRun \/ PushFails \/ PushBreaks
  BY <1>1 DEF ClientInv, Holding, StartRun, PushFails, PushBreaks
<1>2. CASE FinishRun
  <2>1. ASSUME NEW t \in Tasks, Holding(t)
        PROVE  FALSE
    <3>1. RunOf(t) = run
      BY <2>1 DEF ClientInv
    <3>2. PICK b \in Batches : t = <<run, b>>
      BY <3>1 DEF Tasks, RunOf
    <3>3. QED
      BY <1>2, <2>1, <3>2 DEF FinishRun, Holding
  <2>2. QED
    BY <1>2, <2>1 DEF ClientInv, Holding, FinishRun
<1>3. ASSUME NEW e \in Ends, Configure(e)
      PROVE  ClientInv'
  BY <1>3
  DEF ClientInv, Holding, Configure, PostConfig, LookAtEvent, ApplyConfig, DrainTimeout
<1>4. ASSUME NEW b \in Batches, SendBatch(b)
      PROVE  ClientInv'
  <2>1. <<run, b>> \in Tasks
    BY Ranges
  <2>2. RunOf(<<run, b>>) = run
    BY DEF RunOf
  <2>3. QED
    BY <1>4, <2>1, <2>2, Ranges DEF ClientInv, Holding, SendBatch
<1>5. ASSUME NEW t \in Tasks, Client(t)
      PROVE  ClientInv'
  <2>1. CASE PostReturns(t)
    BY <2>1 DEF PostReturns, ClientInv, Holding
  <2>2. CASE PostFails(t)
    BY <2>2 DEF PostFails, ClientInv, Holding
  <2>3. CASE Collect(t)
    BY <2>3 DEF Collect, ClientInv, Holding
  <2>4. CASE ResultTimeout(t)
    BY <2>4 DEF ResultTimeout, ClientInv, Holding
  <2>5. CASE HandleResult(t)
    BY <2>5, Ranges DEF HandleResult, ClientInv, Holding
  <2>6. QED
    BY <1>5, <2>1, <2>2, <2>3, <2>4, <2>5 DEF Client
<1>6. ASSUME NEW n \in Nodes, NEW t \in Tasks, Serve(n, t)
      PROVE  ClientInv'
  <2>1. /\ phase' = phase /\ run' = run /\ client' = client /\ future' = future
    BY <1>6 DEF Serve, Infer, Process, Raise, SendReturns
  <2>2. hop[t][n] # "absent"
    BY <1>6 DEF Serve, Infer, Process, Raise, SendReturns
  <2>3. \A s \in Tasks : \A h \in Hops :
           /\ s # t => hop'[s][h] = hop[s][h]
           /\ hop[s][h] # "absent" => hop'[s][h] # "absent"
    BY <1>6, Ranges DEF Serve, Infer, Process, Raise, SendReturns
  <2>4. client[t] # "queued"
    BY <2>2, Ranges DEF ClientInv
  <2>5. ASSUME NEW s \in Tasks, client[s] = "queued"
        PROVE  \A h \in Hops : hop'[s][h] = "absent"
    BY <2>3, <2>4, <2>5 DEF ClientInv
  <2>6. ASSUME NEW s \in Tasks, s \in future
        PROVE  hop'[s][N + 1] # "absent"
    BY <2>3, <2>6, Ranges DEF ClientInv
  <2>7. ASSUME NEW s \in Tasks
        PROVE  /\ Holding(s) => phase = "running" /\ RunOf(s) = run
               /\ client[s] = "recorded" => s \in future
    BY DEF ClientInv
  <2>8. QED
    BY ONLY <2>1, <2>5, <2>6, <2>7 DEF ClientInv, Holding
<1>7. ASSUME NEW h \in Hops, NEW t \in Tasks, Drop(h, t)
      PROVE  ClientInv'
  BY <1>7, Ranges DEF ClientInv, Holding, Drop
<1>8. ASSUME NEW n \in Nodes, Restart(n)
      PROVE  ClientInv'
  BY <1>8, Ranges DEF ClientInv, Holding, Restart
<1>9. CASE UNCHANGED vars
  BY <1>9 DEF vars, ClientInv, Holding
<1>10. QED
  BY <1>1, <1>2, <1>3, <1>4, <1>5, <1>6, <1>7, <1>8, <1>9 DEF Next

LEMMA ChainStep == BaseInv /\ [Next]_vars => ChainInv'
<1> SUFFICES ASSUME BaseInv, [Next]_vars
             PROVE  ChainInv'
  OBVIOUS
<1> USE DEF BaseInv, sweepVars, clientVars, nodeVars
<1>0. TypeOK'
  BY TypeStep
<1>1. ASSUME hop' = hop
      PROVE  ChainInv'
  BY <1>1 DEF ChainInv, Left
<1>2. ASSUME NEW b \in Batches, SendBatch(b)
      PROVE  ChainInv'
  <2>1. <<run, b>> \in Tasks
    BY Ranges DEF TypeOK
  <2>2. \A h \in Hops : hop[<<run, b>>][h] = "absent"
    BY <1>2, <2>1 DEF SendBatch, ClientInv
  <2>3. \A n \in Nodes : n + 1 # 1
    BY DEF Nodes
  <2>4. \A t \in Tasks : \A n \in Nodes : Left(t, n)' <=> Left(t, n)
    <3>1. hop' = [hop EXCEPT ![<<run, b>>][1] = "posted"]
      BY <1>2 DEF SendBatch
    <3>2. \A t \in Tasks : \A h \in Hops : h # 1 => hop'[t][h] = hop[t][h]
      BY <3>1, <2>1 DEF TypeOK
    <3>3. QED
      BY <3>2, <2>3, Ranges DEF Left
  <2>5. \A t \in Tasks : t # <<run, b>> => hop'[t] = hop[t]
    BY <1>2 DEF SendBatch, TypeOK
  <2>6. \A n \in Nodes : ~Left(<<run, b>>, n)
    BY <2>2, Ranges DEF Left
  <2>7. QED
    BY <2>4, <2>5, <2>6 DEF ChainInv
<1>3. ASSUME NEW t \in Tasks, HandleResult(t)
      PROVE  ChainInv'
  BY <1>0, <1>3, ChainKept, Ranges DEF HandleResult, TypeOK
<1>4. ASSUME NEW n \in Nodes, NEW t \in Tasks, Infer(n, t) \/ Raise(n, t) \/ SendReturns(n, t)
      PROVE  ChainInv'
  <2>1. \A s \in Tasks : \A h \in Hops :
           /\ hop'[s][h] = "absent" <=> hop[s][h] = "absent"
           /\ hop[s][h] \in {"sending", "finished"}
                 => hop'[s][h] \in {"sending", "finished"}
    <3>1. CASE Infer(n, t)
      BY <3>1, Ranges DEF Infer, TypeOK
    <3>2. CASE Raise(n, t)
      BY <3>2, Ranges DEF Raise, TypeOK
    <3>3. CASE SendReturns(n, t)
      BY <3>3, Ranges DEF SendReturns, TypeOK
    <3>4. QED
      BY <1>4, <3>1, <3>2, <3>3
  <2>2. QED
    BY <1>0, <2>1, ChainKept
<1>5. ASSUME NEW n \in Nodes, NEW t \in Tasks, Process(n, t)
      PROVE  ChainInv'
  <2>1. /\ hop[t][n] = "accepted"
        /\ hop' = [hop EXCEPT ![t][n] = "sending", ![t][n + 1] = "posted"]
    BY <1>5 DEF Process
  <2>2. \A s \in Tasks : s # t => hop'[s] = hop[s]
    BY <2>1 DEF TypeOK
  <2>3. hop'[t][n] = "sending" /\ hop'[t][n + 1] = "posted"
    BY <2>1, Ranges DEF TypeOK, Nodes
  <2>4. \A h \in Hops : h # n /\ h # n + 1 => hop'[t][h] = hop[t][h]
    BY <2>1, Ranges DEF TypeOK
  <2>5. \A m \in Nodes : n <= m => ~Left(t, m)
    BY <2>1 DEF ChainInv
  <2>6. \A m \in Nodes : m < n => Left(t, m)
    <3> SUFFICES ASSUME NEW m \in Nodes, m < n
                 PROVE  Left(t, m)
      OBVIOUS
    <3>1. n # 1 /\ n - 1 \in Nodes /\ (n - 1) + 1 = n /\ m <= n - 1
      BY Ranges DEF Nodes
    <3>2. Left(t, n - 1)
      BY <2>1, <3>1 DEF Left
    <3>3. QED
      BY <3>1, <3>2 DEF ChainInv
  <2>7. \A m \in Nodes : Left(t, m)' <=> m <= n
    BY <2>3, <2>4, <2>5, <2>6, Ranges DEF Left, Nodes
  <2>8. \A m \in Nodes : m < n => hop'[t][m] \in {"sending", "finished"}
    BY <2>4, <2>6, Ranges DEF ChainInv, Nodes
  <2>9. \A m \in Nodes : Left(t, m)' =>
            /\ hop'[t][m] \in {"sending", "finished"}
            /\ \A k \in Nodes : k <= m => Left(t, k)'
    BY <2>3, <2>7, <2>8 DEF Nodes
  <2>10. QED
    BY <2>2, <2>9 DEF ChainInv, Left
<1>6. ASSUME NEW h \in Hops, NEW t \in Tasks, Drop(h, t)
      PROVE  ChainInv'
  BY <1>0, <1>6, ChainKept DEF Drop, TypeOK
<1>7. ASSUME NEW n \in Nodes, Restart(n)
      PROVE  ChainInv'
  BY <1>0, <1>7, ChainKept DEF Restart, TypeOK
<1>8. QED
  <2>1. CASE StartRun \/ PushFails \/ PushBreaks \/ FinishRun \/ UNCHANGED vars
    BY <1>1, <2>1 DEF StartRun, PushFails, PushBreaks, FinishRun, vars
  <2>2. ASSUME NEW e \in Ends, Configure(e)
        PROVE  ChainInv'
    BY <1>1, <2>2 DEF Configure, PostConfig, LookAtEvent, ApplyConfig, DrainTimeout
  <2>3. ASSUME NEW t \in Tasks, Client(t)
        PROVE  ChainInv'
    BY <1>1, <1>3, <2>3 DEF Client, PostReturns, PostFails, Collect, ResultTimeout
  <2>4. ASSUME NEW n \in Nodes, NEW t \in Tasks, Serve(n, t)
        PROVE  ChainInv'
    BY <1>4, <1>5, <2>4 DEF Serve
  <2>5. QED
    BY <1>2, <1>6, <1>7, <2>1, <2>2, <2>3, <2>4 DEF Next

LEMMA BaseStep == BaseInv /\ [Next]_vars => BaseInv'
  BY TypeStep, PushStep, ClientStep, ChainStep DEF BaseInv

\* The heart of the proof: the node that decompresses a pending task either reads
\* the setting the task was compressed with, or the methods differ and it raises.
LEMMA LinkAgrees ==
    ASSUME RestartsAreLoud, NEW l \in Links, NEW r \in Runs,
           NEW c \in Usable(r, <<l, "outgoing">>),
           NEW d \in Usable(r, <<l, "incoming">>),
           MethodOf[c] = MethodOf[d]
    PROVE  c = RunConfig[r][l] /\ d = RunConfig[r][l]
<1>1. NodeOf(<<l, "outgoing">>) = l /\ NodeOf(<<l, "incoming">>) = l + 1
  BY DEF NodeOf
<1>2. /\ c = RunConfig[r][l] \/ (l \in Restartable /\ c = Default[l])
      /\ d = RunConfig[r][l] \/ (l + 1 \in Restartable /\ d = Default[l])
  BY <1>1 DEF Usable
<1>3. QED
  BY <1>2 DEF RestartsAreLoud

LEMMA SettingsStep == IInv /\ RestartsAreLoud /\ [Next]_vars => SettingsInv'
<1> SUFFICES ASSUME IInv, RestartsAreLoud, [Next]_vars
             PROVE  SettingsInv'
  OBVIOUS
<1> USE DEF IInv, BaseInv, sweepVars, clientVars, nodeVars
<1>1. ASSUME hop' = hop, enc' = enc, dec' = dec, \A t \in Tasks : Watched(t)' => Watched(t)
      PROVE  SettingsInv'
  BY <1>1, SettingsKept
<1>2. ASSUME NEW b \in Batches, SendBatch(b)
      PROVE  SettingsInv'
  <2>1. <<run, b>> \in Tasks
    BY Ranges DEF TypeOK
  <2>2. \A h \in Hops : h # 1 => hop'[<<run, b>>][h] = "absent"
    <3>1. \A h \in Hops : hop[<<run, b>>][h] = "absent"
      BY <1>2, <2>1 DEF SendBatch, ClientInv
    <3>2. hop' = [hop EXCEPT ![<<run, b>>][1] = "posted"]
      BY <1>2 DEF SendBatch
    <3>3. QED
      BY <2>1, <3>1, <3>2 DEF TypeOK
  <2>3. \A n \in Nodes : ~Left(<<run, b>>, n)'
    <3>1. \A n \in Nodes : n + 1 # 1
      BY DEF Nodes
    <3>2. QED
      BY <1>2, <2>2, <3>1, Ranges DEF Left, SendBatch
  <2>4. \A t \in Tasks : t # <<run, b>> => hop'[t] = hop[t] /\ client'[t] = client[t]
    BY <1>2 DEF SendBatch, TypeOK
  <2>5. enc' = enc /\ dec' = dec
    BY <1>2 DEF SendBatch
  <2>6. ASSUME NEW t \in Tasks, Watched(t)', NEW n \in Nodes, Left(t, n)'
        PROVE  Watched(t) /\ Left(t, n)
    <3>1. t # <<run, b>>
      BY <1>2, <2>3, <2>6 DEF SendBatch, Left
    <3>2. QED
      BY <2>4, <2>6, <3>1 DEF Watched, Left
  <2>7. QED
    BY ONLY SettingsInv, <2>5, <2>6 DEF SettingsInv, Usable
<1>3. ASSUME NEW t \in Tasks, Client(t)
      PROVE  SettingsInv'
  <2>1. \A s \in Tasks : Watched(s)' => Watched(s)
    <3>1. CASE PostReturns(t)
      BY <3>1 DEF PostReturns, Watched, TypeOK
    <3>2. CASE PostFails(t) \/ ResultTimeout(t)
      BY <3>2 DEF PostFails, ResultTimeout, Watched, TypeOK
    <3>3. CASE Collect(t)
      BY <3>3 DEF Collect, Watched, TypeOK
    <3>4. CASE HandleResult(t)
      BY <3>4 DEF HandleResult, Watched
    <3>5. QED
      BY <1>3, <3>1, <3>2, <3>3, <3>4 DEF Client
  <2>2. CASE hop' = hop
    BY <1>1, <1>3, <2>1, <2>2
    DEF Client, PostReturns, PostFails, Collect, ResultTimeout, HandleResult
  <2>3. CASE HandleResult(t)
    <3>1. \A s \in Tasks : \A h \in Hops :
             hop'[s][h] = "absent" <=> hop[s][h] = "absent"
      BY <2>3, Ranges DEF HandleResult, TypeOK
    <3>2. QED
      BY <2>1, <2>3, <3>1, SettingsKept DEF HandleResult
  <2>4. QED
    BY <1>3, <2>2, <2>3 DEF Client, PostReturns, PostFails, Collect, ResultTimeout
<1>4. ASSUME NEW n \in Nodes, NEW t \in Tasks, Infer(n, t) \/ Raise(n, t) \/ SendReturns(n, t)
      PROVE  SettingsInv'
  <2>1. \A s \in Tasks : \A h \in Hops :
           hop'[s][h] = "absent" <=> hop[s][h] = "absent"
    <3>1. CASE Infer(n, t)
      BY <3>1, Ranges DEF Infer, TypeOK
    <3>2. CASE Raise(n, t)
      BY <3>2, Ranges DEF Raise, TypeOK
    <3>3. CASE SendReturns(n, t)
      BY <3>3, Ranges DEF SendReturns, TypeOK
    <3>4. QED
      BY <1>4, <3>1, <3>2, <3>3
  <2>2. client' = client /\ enc' = enc /\ dec' = dec
    BY <1>4 DEF Infer, Raise, SendReturns
  <2>3. QED
    BY <2>1, <2>2, SettingsKept DEF Watched
<1>5. ASSUME NEW n \in Nodes, NEW t \in Tasks, Process(n, t)
      PROVE  SettingsInv'
  <2>1. /\ hop[t][n] = "accepted"
        /\ hop' = [hop EXCEPT ![t][n] = "sending", ![t][n + 1] = "posted"]
        /\ client' = client
    BY <1>5 DEF Process
  <2>2. \A s \in Tasks : s # t => hop'[s] = hop[s] /\ enc'[s] = enc[s] /\ dec'[s] = dec[s]
    BY <1>5 DEF Process, TypeOK
  <2>3. ASSUME Watched(t), NEW m \in Nodes, Left(t, m)'
        PROVE  /\ m # 1 => /\ enc'[t][m - 1] = RunConfig[RunOf(t)][m - 1]
                           /\ dec'[t][m - 1] = RunConfig[RunOf(t)][m - 1]
               /\ m # N => enc'[t][m] \in Usable(RunOf(t), <<m, "outgoing">>)
    <3>1. \A k \in Nodes : n <= k => ~Left(t, k)
      BY <2>1 DEF ChainInv
    <3>2. /\ phase = "running"
          /\ RunOf(t) = run
      <4>1. client[t] # "recorded"
        <5>1. N \in Nodes /\ n <= N
          BY Ranges DEF Nodes
        <5>2. ~Left(t, N)
          BY <3>1, <5>1
        <5>3. QED
          BY <5>2 DEF ClientInv, Left
      <4>2. Holding(t)
        BY <2>3, <4>1 DEF Watched, Holding
      <4>3. QED
        BY <4>2 DEF ClientInv
    <3>3. \A e \in Ends : config[e] \in Usable(run, e)
      BY <3>2 DEF PushInv
    <3>4. m <= n
      <4>1. ASSUME m > n
            PROVE  FALSE
        <5>1. m + 1 \in Hops /\ m + 1 # n /\ m + 1 # n + 1
          BY <4>1, Ranges DEF Nodes
        <5>2. hop'[t][m + 1] = hop[t][m + 1]
          BY <2>1, <5>1, Ranges DEF TypeOK
        <5>3. QED
          BY <2>3, <3>1, <4>1, <5>2 DEF Left, Nodes
      <4>2. QED
        BY <4>1 DEF Nodes
    <3>5. /\ n # N => /\ enc'[t][n] = config[<<n, "outgoing">>]
                      /\ \A l \in Links : l # n => enc'[t][l] = enc[t][l]
          /\ n = N => enc' = enc
      BY <1>5, Ranges DEF Process, TypeOK
    <3>6. /\ n # 1 => /\ dec'[t][n - 1] = config[<<n - 1, "incoming">>]
                      /\ \A l \in Links : l # n - 1 => dec'[t][l] = dec[t][l]
          /\ n = 1 => dec' = dec
      BY <1>5, Ranges DEF Process, TypeOK
    <3>7. n # 1 => Left(t, n - 1)
      BY <2>1, Ranges DEF Left
    <3>8. CASE m = n
      <4>1. ASSUME n # 1
            PROVE  /\ enc'[t][n - 1] = RunConfig[run][n - 1]
                   /\ dec'[t][n - 1] = RunConfig[run][n - 1]
        <5>0. n - 1 # N /\ n - 1 # n
          BY PipelineAssumption DEF Nodes
        <5>1. /\ n - 1 \in Nodes /\ n - 1 \in Links /\ n - 1 # N /\ n - 1 # n
              /\ <<n - 1, "incoming">> \in Ends
          BY <4>1, <5>0, Ranges
        <5>2. enc[t][n - 1] \in Usable(run, <<n - 1, "outgoing">>)
          BY <2>3, <3>2, <3>7, <4>1, <5>1 DEF SettingsInv
        <5>3. config[<<n - 1, "incoming">>] \in Usable(run, <<n - 1, "incoming">>)
          BY <3>3, <5>1
        <5>4. MethodOf[enc[t][n - 1]] = MethodOf[config[<<n - 1, "incoming">>]]
          BY <1>5, <4>1 DEF Process, Decodable, Nodes
        <5>5. run \in Runs
          BY DEF TypeOK
        <5>6. /\ enc[t][n - 1] = RunConfig[run][n - 1]
              /\ config[<<n - 1, "incoming">>] = RunConfig[run][n - 1]
          BY <5>1, <5>2, <5>3, <5>4, <5>5, LinkAgrees
        <5>7. enc'[t][n - 1] = enc[t][n - 1]
          BY <3>5, <5>1
        <5>8. QED
          BY <3>6, <4>1, <5>6, <5>7
      <4>2. n # N => enc'[t][n] \in Usable(run, <<n, "outgoing">>)
        BY <3>3, <3>5, Ranges
      <4>3. QED
        BY <3>2, <3>8, <4>1, <4>2
    <3>9. CASE m < n
      <4>1. n # 1 /\ n - 1 \in Nodes /\ m <= n - 1
        BY <3>9, Ranges DEF Nodes
      <4>2. Left(t, m)
        BY <3>7, <4>1 DEF ChainInv
      <4>3. /\ m # 1 => /\ enc[t][m - 1] = RunConfig[RunOf(t)][m - 1]
                        /\ dec[t][m - 1] = RunConfig[RunOf(t)][m - 1]
            /\ m # N => enc[t][m] \in Usable(RunOf(t), <<m, "outgoing">>)
        BY <2>3, <4>2 DEF SettingsInv
      <4>4. m # 1 => m - 1 \in Links /\ m - 1 # n /\ m - 1 # n - 1
        <5>1. m # 1 => m - 1 \in Links
          BY Ranges
        <5>2. QED
          BY <3>9, <5>1 DEF Nodes
      <4>5. m # N /\ m \in Links /\ m # n
        <5>1. m # N
          BY <3>9, PipelineAssumption DEF Nodes
        <5>2. m # n
          BY <3>9 DEF Nodes
        <5>3. QED
          BY <5>1, <5>2, Ranges
      <4>6. QED
        BY <3>5, <3>6, <4>1, <4>3, <4>4, <4>5
    <3>10. QED
      BY <3>4, <3>8, <3>9 DEF Nodes
  <2>4. ASSUME NEW s \in Tasks, s # t, Watched(s)', NEW m \in Nodes, Left(s, m)'
        PROVE  Watched(s) /\ Left(s, m) /\ enc'[s] = enc[s] /\ dec'[s] = dec[s]
    BY <2>1, <2>2, <2>4 DEF Watched, Left
  <2>5. Watched(t)' => Watched(t)
    BY <2>1 DEF Watched
  <2>6. QED
    BY ONLY SettingsInv, <2>3, <2>4, <2>5 DEF SettingsInv, Usable
<1>6. ASSUME NEW h \in Hops, NEW t \in Tasks, Drop(h, t)
      PROVE  SettingsInv'
  <2>1. \A s \in Tasks : \A k \in Hops :
           hop'[s][k] = "absent" <=> hop[s][k] = "absent"
    BY <1>6 DEF Drop, TypeOK
  <2>2. QED
    BY <1>6, <2>1, SettingsKept DEF Drop, Watched
<1>7. ASSUME NEW n \in Nodes, Restart(n)
      PROVE  SettingsInv'
  <2>1. \A s \in Tasks : \A k \in Hops :
           hop'[s][k] = "absent" <=> hop[s][k] = "absent"
    BY <1>7 DEF Restart, TypeOK
  <2>2. QED
    BY <1>7, <2>1, SettingsKept DEF Restart, Watched
<1>8. QED
  <2>1. CASE StartRun \/ PushFails \/ PushBreaks \/ FinishRun \/ UNCHANGED vars
    BY <1>1, <2>1 DEF StartRun, PushFails, PushBreaks, FinishRun, vars, Watched
  <2>2. ASSUME NEW e \in Ends, Configure(e)
        PROVE  SettingsInv'
    BY <1>1, <2>2 DEF Configure, PostConfig, LookAtEvent, ApplyConfig, DrainTimeout, Watched
  <2>3. ASSUME NEW n \in Nodes, NEW t \in Tasks, Serve(n, t)
        PROVE  SettingsInv'
    BY <1>4, <1>5, <2>3 DEF Serve
  <2>4. QED
    BY <1>2, <1>3, <1>6, <1>7, <2>1, <2>2, <2>3 DEF Next

-----------------------------------------------------------------------------
(* The theorem.                                                            *)

LEMMA IInvImplies == IInv /\ RestartsAreLoud => RecordedUnderRunConfig
<1> SUFFICES ASSUME IInv, NEW t \in Recorded
             PROVE  enc[t] = RunConfig[RunOf(t)] /\ dec[t] = RunConfig[RunOf(t)]
  BY DEF RecordedUnderRunConfig
<1> USE DEF IInv, BaseInv
<1>1. t \in Tasks /\ Watched(t)
  BY DEF Recorded, Watched
<1>2. \A n \in Nodes : Left(t, n)
  <2>1. Left(t, N)
    BY <1>1 DEF ClientInv, Recorded, Left
  <2>2. \A n \in Nodes : n <= N
    BY PipelineAssumption DEF Nodes
  <2>3. QED
    BY <1>1, <2>1, <2>2, Ranges DEF ChainInv
<1>3. \A l \in Links : /\ enc[t][l] = RunConfig[RunOf(t)][l]
                       /\ dec[t][l] = RunConfig[RunOf(t)][l]
  <2>1. ASSUME NEW l \in Links
        PROVE  l + 1 \in Nodes /\ l + 1 # 1 /\ (l + 1) - 1 = l
    BY Ranges
  <2>2. ASSUME NEW n \in Nodes, n # 1
        PROVE  /\ enc[t][n - 1] = RunConfig[RunOf(t)][n - 1]
               /\ dec[t][n - 1] = RunConfig[RunOf(t)][n - 1]
    BY <1>1, <1>2, <2>2 DEF SettingsInv
  <2>3. TAKE l \in Links
  <2>4. QED
    BY <2>1, <2>2
<1>4. /\ enc[t] \in [Links -> Configs \cup {NoConfig}]
      /\ dec[t] \in [Links -> Configs \cup {NoConfig}]
      /\ RunConfig[RunOf(t)] \in [Links -> Configs]
  BY <1>1, PipelineAssumption DEF TypeOK, Tasks, RunOf
<1>5. QED
  BY <1>3, <1>4

\* When a restart cannot go unnoticed, whatever is lost, late, refused or
\* restarted, the sweep only ever records results that were measured with the
\* settings of the run they are recorded for.
THEOREM RecordsAreFaithful == Spec => []RecordedUnderRunConfig
<1>1. CASE RestartsAreLoud
  <2>1. Init => IInv
    BY IInvInit
  <2>2. IInv /\ [Next]_vars => IInv'
    BY <1>1, BaseStep, SettingsStep DEF IInv
  <2>3. IInv => RecordedUnderRunConfig
    BY <1>1, IInvImplies
  <2>4. QED
    BY <2>1, <2>2, <2>3, PTL DEF Spec
<1>2. CASE ~RestartsAreLoud
  <2>1. RecordedUnderRunConfig
    BY <1>2 DEF RecordedUnderRunConfig
  <2>2. QED
    BY <2>1, PTL
<1>3. QED
  BY <1>1, <1>2

-----------------------------------------------------------------------------
(* Refinement: the result set behaves as the abstract Sweep.               *)

\* What the result set says of a task.
ResultOf(t) == [run |-> RunOf(t), batch |-> t[2],
                compressed |-> enc[t], decompressed |-> dec[t]]

\* A task that is recorded has passed the last node, so its settings are final.
LEMMA RecordsAreFinal ==
    ASSUME BaseInv, [Next]_vars, NEW t \in Recorded
    PROVE  enc'[t] = enc[t] /\ dec'[t] = dec[t] /\ client'[t] = "recorded"
<1> USE DEF BaseInv, TypeOK, sweepVars, clientVars, nodeVars
<1>1. t \in Tasks /\ client[t] = "recorded"
  BY DEF Recorded
<1>2. \A n \in Nodes : hop[t][n] # "accepted"
  <2>1. Left(t, N)
    BY <1>1 DEF ClientInv, Left
  <2>2. \A n \in Nodes : n <= N
    BY PipelineAssumption DEF Nodes
  <2>3. \A n \in Nodes : Left(t, n)
    BY <1>1, <2>1, <2>2, Ranges DEF ChainInv
  <2>4. QED
    BY <1>1, <2>3 DEF ChainInv
<1>3. ASSUME NEW n \in Nodes, NEW s \in Tasks, Serve(n, s)
      PROVE  enc'[t] = enc[t] /\ dec'[t] = dec[t] /\ client' = client
  <2>1. CASE Process(n, s)
    <3>1. s # t
      BY <1>2, <2>1 DEF Process
    <3>2. QED
      BY <1>1, <2>1, <3>1 DEF Process
  <2>2. CASE Infer(n, s) \/ Raise(n, s) \/ SendReturns(n, s)
    BY <2>2 DEF Infer, Raise, SendReturns
  <2>3. QED
    BY <1>3, <2>1, <2>2 DEF Serve
<1>4. ASSUME NEW b \in Batches, SendBatch(b)
      PROVE  enc' = enc /\ dec' = dec /\ client'[t] = "recorded"
  BY <1>1, <1>4 DEF SendBatch
<1>5. ASSUME NEW s \in Tasks, Client(s)
      PROVE  enc' = enc /\ dec' = dec /\ client'[t] = "recorded"
  BY <1>1, <1>5 DEF Client, PostReturns, PostFails, Collect, ResultTimeout, HandleResult
<1>6. ASSUME NEW e \in Ends, Configure(e)
      PROVE  enc' = enc /\ dec' = dec /\ client' = client
  BY <1>6 DEF Configure, PostConfig, LookAtEvent, ApplyConfig, DrainTimeout
<1>7. ASSUME NEW h \in Hops, NEW s \in Tasks, Drop(h, s)
      PROVE  enc' = enc /\ dec' = dec /\ client' = client
  BY <1>7 DEF Drop
<1>8. ASSUME NEW n \in Nodes, Restart(n)
      PROVE  enc' = enc /\ dec' = dec /\ client' = client
  BY <1>8 DEF Restart
<1>9. CASE StartRun \/ PushFails \/ PushBreaks \/ FinishRun \/ UNCHANGED vars
  BY <1>1, <1>9 DEF StartRun, PushFails, PushBreaks, FinishRun, vars
<1>10. QED
  BY <1>1, <1>3, <1>4, <1>5, <1>6, <1>7, <1>8, <1>9 DEF Next

\* A step that records nothing leaves the results alone.
LEMMA ResultsKept ==
    ASSUME BaseInv, [Next]_vars, Recorded' \subseteq Recorded
    PROVE  Results' = Results
<1>1. Recorded' = Recorded
  BY RecordsAreFinal DEF Recorded
<1>2. \A t \in Recorded : enc'[t] = enc[t] /\ dec'[t] = dec[t]
  BY RecordsAreFinal
<1>3. QED
  BY <1>1, <1>2 DEF Results

LEMMA SweepInit == Init => AbstractSweep!Init
  BY DEF Init, AbstractSweep!Init, Results, Recorded

\* Collecting a result is the abstract Record of its batch.
LEMMA CollectRecords ==
    ASSUME IInv, RestartsAreLoud, NEW t \in Tasks, Collect(t), IInv'
    PROVE  AbstractSweep!Record(t[2])
<1> USE DEF sweepVars, clientVars, nodeVars
<1>1. /\ phase = "running" /\ RunOf(t) = run /\ t \notin Recorded
      /\ t[2] \in Batches /\ run \in Runs /\ t = <<run, t[2]>>
  BY DEF Collect, IInv, BaseInv, TypeOK, ClientInv, Holding, Recorded, Tasks, RunOf
<1>2. Recorded' = Recorded \cup {t}
  BY DEF Collect, Recorded, IInv, BaseInv, TypeOK
<1>3. enc' = enc /\ dec' = dec /\ phase' = phase /\ run' = run
  BY DEF Collect
<1>4. Results' = Results \cup {ResultOf(t)}
  BY <1>2, <1>3 DEF Results, ResultOf
<1>5. enc[t] = RunConfig[run] /\ dec[t] = RunConfig[run]
  <2>1. RecordedUnderRunConfig'
    BY IInvImplies, PTL
  <2>2. QED
    BY <1>1, <1>2, <1>3, <2>1 DEF RecordedUnderRunConfig
<1>6. \A x \in Results : <<x.run, x.batch>> # <<run, t[2]>>
  <2>1. ASSUME NEW s \in Recorded, RunOf(s) = run, s[2] = t[2]
        PROVE  FALSE
    <3>1. s = t
      BY <1>1, <2>1 DEF Recorded, Tasks, RunOf
    <3>2. QED
      BY <1>1, <3>1
  <2>2. QED
    BY <2>1 DEF Results
<1>7. QED
  BY <1>1, <1>3, <1>4, <1>5, <1>6 DEF AbstractSweep!Record, ResultOf

LEMMA SweepStep ==
    ASSUME IInv, RestartsAreLoud, [Next]_vars, IInv'
    PROVE  [AbstractSweep!Next]_AbstractSweep!vars
<1> USE DEF sweepVars, clientVars, nodeVars
<1>1. ASSUME phase' = phase, run' = run, Recorded' \subseteq Recorded
      PROVE  UNCHANGED AbstractSweep!vars
  BY <1>1, ResultsKept DEF IInv, AbstractSweep!vars
<1>2. CASE StartRun
  BY <1>2, ResultsKept DEF IInv, StartRun, Recorded, AbstractSweep!Next, AbstractSweep!Start
<1>3. CASE PushFails \/ PushBreaks
  BY <1>3, ResultsKept
  DEF IInv, PushFails, PushBreaks, Recorded, AbstractSweep!Next, AbstractSweep!Abort
<1>4. CASE FinishRun
  <2>1. Results' = Results
    BY <1>4, ResultsKept DEF IInv, FinishRun, Recorded
  <2>2. run < R <=> run + 1 \in Runs
    BY PipelineAssumption DEF IInv, BaseInv, TypeOK, Runs
  <2>3. QED
    BY <1>4, <2>1, <2>2 DEF FinishRun, AbstractSweep!Next, AbstractSweep!FinishRun
<1>5. ASSUME NEW e \in Ends, Configure(e)
      PROVE  UNCHANGED AbstractSweep!vars
  BY <1>1, <1>5 DEF Configure, PostConfig, LookAtEvent, ApplyConfig, DrainTimeout, Recorded
<1>6. ASSUME NEW b \in Batches, SendBatch(b)
      PROVE  UNCHANGED AbstractSweep!vars
  BY <1>1, <1>6 DEF SendBatch, Recorded, IInv, BaseInv, TypeOK
<1>7. ASSUME NEW t \in Tasks, Client(t), ~ Collect(t)
      PROVE  UNCHANGED AbstractSweep!vars
  BY <1>1, <1>7 DEF Client, PostReturns, PostFails, ResultTimeout, HandleResult, Recorded,
                    IInv, BaseInv, TypeOK
<1>8. ASSUME NEW t \in Tasks, Collect(t)
      PROVE  AbstractSweep!Next
  <2>1. t[2] \in Batches
    BY DEF Tasks
  <2>2. QED
    BY <1>8, <2>1, CollectRecords DEF AbstractSweep!Next
<1>9. ASSUME NEW n \in Nodes, NEW t \in Tasks, Serve(n, t)
      PROVE  UNCHANGED AbstractSweep!vars
  BY <1>1, <1>9 DEF Serve, Infer, Process, Raise, SendReturns, Recorded
<1>10. ASSUME NEW h \in Hops, NEW t \in Tasks, Drop(h, t)
       PROVE  UNCHANGED AbstractSweep!vars
  BY <1>1, <1>10 DEF Drop, Recorded
<1>11. ASSUME NEW n \in Nodes, Restart(n)
       PROVE  UNCHANGED AbstractSweep!vars
  BY <1>1, <1>11 DEF Restart, Recorded
<1>12. CASE UNCHANGED vars
  BY <1>1, <1>12 DEF vars, Recorded
<1>13. QED
  BY <1>2, <1>3, <1>4, <1>5, <1>6, <1>7, <1>8, <1>9, <1>10, <1>11, <1>12 DEF Next

\* When restarts are loud, the orchestrator, the nodes and the messages between
\* them implement the abstract experiment: runs one after the other, each record
\* once, in its own run, with that run's settings on both ends of every link.
THEOREM SweepImplemented == RestartsAreLoud /\ Spec => ImplementsSweep
<1>1. CASE RestartsAreLoud
  <2>1. Init => IInv /\ AbstractSweep!Init
    BY IInvInit, SweepInit
  <2>2. IInv /\ [Next]_vars => IInv'
    BY <1>1, BaseStep, SettingsStep DEF IInv
  <2>3. IInv /\ IInv' /\ [Next]_vars => [AbstractSweep!Next]_AbstractSweep!vars
    BY <1>1, SweepStep
  <2>4. QED
    BY <2>1, <2>2, <2>3, PTL DEF Spec, ImplementsSweep, AbstractSweep!Spec
<1>2. CASE ~ RestartsAreLoud
  BY <1>2
<1>3. QED
  BY <1>1, <1>2

-----------------------------------------------------------------------------
(* The counters of the nodes, and the custody of a batch.                  *)

\* The requests that node n counts.
Held(n) == {t \in Tasks : hop[t][n] \in {"accepted", "sending"}}

\* On every node the counter is exact, the event says whether it is zero, and
\* nobody is blocked on an event that is set.
CounterInv ==
    \A n \in Nodes :
        /\ IsFiniteSet(Held(n))
        /\ inFlight[n] = Cardinality(Held(n))
        /\ idleEvent[n] <=> inFlight[n] = 0
        /\ \A e \in Ends : NodeOf(e) = n /\ push[e] = "waiting" => ~ idleEvent[n]

LEMMA CounterInit == Init => CounterInv
<1> SUFFICES ASSUME Init, NEW n \in Nodes
             PROVE  /\ IsFiniteSet(Held(n)) /\ inFlight[n] = Cardinality(Held(n))
                    /\ idleEvent[n] <=> inFlight[n] = 0
                    /\ \A e \in Ends : NodeOf(e) = n /\ push[e] = "waiting" => ~ idleEvent[n]
  BY DEF CounterInv
<1>1. Held(n) = {}
  BY Ranges DEF Init, Held
<1>2. IsFiniteSet({}) /\ Cardinality({}) = 0
  BY FS_EmptySet
<1>3. QED
  BY <1>1, <1>2 DEF Init

\* A node the step does not touch.
LEMMA CounterKept ==
    ASSUME CounterInv, NEW n \in Nodes, Held(n)' = Held(n),
           inFlight'[n] = inFlight[n], idleEvent'[n] = idleEvent[n],
           \A e \in Ends : NodeOf(e) = n /\ push'[e] = "waiting"
                              => push[e] = "waiting" \/ ~ idleEvent[n]
    PROVE  /\ IsFiniteSet(Held(n)') /\ inFlight'[n] = Cardinality(Held(n)')
           /\ idleEvent'[n] <=> inFlight'[n] = 0
           /\ \A e \in Ends : NodeOf(e) = n /\ push'[e] = "waiting" => ~ idleEvent'[n]
  BY DEF CounterInv

\* A request that is finished leaves the count.
LEMMA DecrementCounts ==
    ASSUME TypeOK, CounterInv, NEW n \in Nodes, NEW t \in Held(n),
           Held(n)' = Held(n) \ {t}, Decrement(n)
    PROVE  /\ IsFiniteSet(Held(n)') /\ inFlight'[n] = Cardinality(Held(n)')
           /\ idleEvent'[n] <=> inFlight'[n] = 0
           /\ \A e \in Ends : NodeOf(e) = n /\ push'[e] = "waiting" => ~ idleEvent'[n]
<1>1. IsFiniteSet(Held(n)) /\ inFlight[n] = Cardinality(Held(n)) /\ inFlight[n] \in Nat
  BY DEF CounterInv, TypeOK
<1>2. /\ IsFiniteSet(Held(n) \ {t})
      /\ Cardinality(Held(n) \ {t}) = Cardinality(Held(n)) - 1
  BY <1>1, FS_RemoveElement
<1>3. Cardinality(Held(n) \ {t}) \in Nat
  BY <1>2, FS_CardinalityType
<1>4. inFlight'[n] = inFlight[n] - 1
  BY <1>1, <1>2, <1>3 DEF Decrement, TypeOK
<1>5. ~ idleEvent[n]
  BY <1>1, <1>2, <1>3 DEF CounterInv
<1>6. CASE inFlight'[n] = 0
  BY <1>1, <1>2, <1>4, <1>6 DEF Decrement, TypeOK
<1>7. CASE inFlight'[n] # 0
  <2>1. idleEvent' = idleEvent /\ push' = push
    BY <1>7 DEF Decrement
  <2>2. QED
    BY <1>1, <1>2, <1>4, <1>5, <1>7, <2>1
<1>8. QED
  BY <1>6, <1>7

LEMMA CounterStep == BaseInv /\ CounterInv /\ [Next]_vars => CounterInv'
<1> SUFFICES ASSUME BaseInv, CounterInv, [Next]_vars
             PROVE  CounterInv'
  OBVIOUS
<1> USE DEF BaseInv, sweepVars, clientVars, nodeVars
<1>1. ASSUME inFlight' = inFlight, idleEvent' = idleEvent,
             \A n \in Nodes : Held(n)' = Held(n),
             \A e \in Ends : push'[e] = "waiting"
                                => push[e] = "waiting" \/ ~ idleEvent[NodeOf(e)]
      PROVE  CounterInv'
  BY <1>1 DEF CounterInv
<1>2. ASSUME NEW n \in Nodes, NEW t \in Tasks, Raise(n, t) \/ SendReturns(n, t)
      PROVE  CounterInv'
  <2>1. /\ Decrement(n) /\ t \in Held(n) /\ hop' = [hop EXCEPT ![t][n] = "finished"]
    BY <1>2 DEF Raise, SendReturns, Held
  <2>2. \A m \in Nodes : m # n => Held(m)' = Held(m)
    BY <2>1 DEF Held, TypeOK
  <2>3. Held(n)' = Held(n) \ {t}
    BY <2>1, Ranges DEF Held, TypeOK
  <2>4. \A m \in Nodes : m # n => inFlight'[m] = inFlight[m] /\ idleEvent'[m] = idleEvent[m]
    BY <2>1 DEF Decrement, TypeOK
  <2>5. \A e \in Ends : push'[e] = "waiting" => push[e] = "waiting"
    BY <2>1 DEF Decrement, TypeOK
  <2>6. ASSUME NEW m \in Nodes
        PROVE  /\ IsFiniteSet(Held(m)') /\ inFlight'[m] = Cardinality(Held(m)')
               /\ idleEvent'[m] <=> inFlight'[m] = 0
               /\ \A e \in Ends : NodeOf(e) = m /\ push'[e] = "waiting" => ~ idleEvent'[m]
    <3>1. CASE m = n
      BY <2>1, <2>3, <3>1, DecrementCounts
    <3>2. CASE m # n
      BY <2>2, <2>4, <2>5, <3>2, CounterKept
    <3>3. QED
      BY <3>1, <3>2
  <2>7. QED
    BY <2>6 DEF CounterInv
<1>3. ASSUME NEW n \in Nodes, NEW t \in Tasks, Infer(n, t)
      PROVE  CounterInv'
  <2>1. /\ hop[t][n] = "posted" /\ hop' = [hop EXCEPT ![t][n] = "accepted"]
        /\ inFlight' = [inFlight EXCEPT ![n] = inFlight[n] + 1]
        /\ idleEvent' = [idleEvent EXCEPT ![n] = FALSE]
        /\ push' = push
    BY <1>3 DEF Infer
  <2>2. \A m \in Nodes : m # n => Held(m)' = Held(m)
    BY <2>1 DEF Held, TypeOK
  <2>3. Held(n)' = Held(n) \cup {t} /\ t \notin Held(n)
    BY <2>1, Ranges DEF Held, TypeOK
  <2>4. /\ IsFiniteSet(Held(n)) /\ inFlight[n] = Cardinality(Held(n)) /\ inFlight[n] \in Nat
    BY DEF CounterInv, TypeOK
  <2>5. /\ IsFiniteSet(Held(n)') /\ inFlight'[n] = Cardinality(Held(n)')
        /\ idleEvent'[n] <=> inFlight'[n] = 0
        /\ \A e \in Ends : NodeOf(e) = n /\ push'[e] = "waiting" => ~ idleEvent'[n]
    <3>1. /\ IsFiniteSet(Held(n)')
          /\ Cardinality(Held(n)') = inFlight[n] + 1
      BY <2>3, <2>4, FS_AddElement
    <3>2. inFlight'[n] = inFlight[n] + 1 /\ ~ idleEvent'[n]
      BY <2>1 DEF TypeOK
    <3>3. QED
      BY <2>4, <3>1, <3>2
  <2>6. \A m \in Nodes : m # n => inFlight'[m] = inFlight[m] /\ idleEvent'[m] = idleEvent[m]
    BY <2>1 DEF TypeOK
  <2>7. ASSUME NEW m \in Nodes
        PROVE  /\ IsFiniteSet(Held(m)') /\ inFlight'[m] = Cardinality(Held(m)')
               /\ idleEvent'[m] <=> inFlight'[m] = 0
               /\ \A e \in Ends : NodeOf(e) = m /\ push'[e] = "waiting" => ~ idleEvent'[m]
    <3>1. CASE m # n
      BY <2>1, <2>2, <2>6, <3>1, CounterKept
    <3>2. QED
      BY <2>5, <3>1
  <2>8. QED
    BY <2>7 DEF CounterInv
<1>4. ASSUME NEW n \in Nodes, NEW t \in Tasks, Process(n, t)
      PROVE  CounterInv'
  <2>1. /\ hop[t][n] = "accepted"
        /\ hop' = [hop EXCEPT ![t][n] = "sending", ![t][n + 1] = "posted"]
    BY <1>4 DEF Process
  <2>2. hop[t][n + 1] = "absent"
    <3>1. ~ Left(t, n)
      BY <2>1 DEF ChainInv
    <3>2. QED
      BY <3>1 DEF Left
  <2>3. n # n + 1
    BY DEF Nodes
  <2>4. \A m \in Nodes : \A s \in Tasks :
           hop'[s][m] \in {"accepted", "sending"} <=> hop[s][m] \in {"accepted", "sending"}
    BY <2>1, <2>2, <2>3, Ranges DEF TypeOK
  <2>5. \A m \in Nodes : Held(m)' = Held(m)
    BY <2>4 DEF Held
  <2>6. QED
    BY <1>1, <1>4, <2>5 DEF Process
<1>5. ASSUME NEW n \in Nodes, Restart(n)
      PROVE  CounterInv'
  <2>1. \A m \in Nodes : m # n => Held(m)' = Held(m)
    BY <1>5, Ranges DEF Restart, Held, TypeOK
  <2>2. Held(n)' = {}
    BY <1>5, Ranges DEF Restart, Held, TypeOK
  <2>3. IsFiniteSet({}) /\ Cardinality({}) = 0
    BY FS_EmptySet
  <2>4. /\ inFlight'[n] = 0 /\ idleEvent'[n] = TRUE
        /\ \A m \in Nodes : m # n => inFlight'[m] = inFlight[m] /\ idleEvent'[m] = idleEvent[m]
        /\ \A e \in Ends : push'[e] = "waiting" => push[e] = "waiting" /\ NodeOf(e) # n
    BY <1>5 DEF Restart, TypeOK, PushPending
  <2>5. ASSUME NEW m \in Nodes
        PROVE  /\ IsFiniteSet(Held(m)') /\ inFlight'[m] = Cardinality(Held(m)')
               /\ idleEvent'[m] <=> inFlight'[m] = 0
               /\ \A e \in Ends : NodeOf(e) = m /\ push'[e] = "waiting" => ~ idleEvent'[m]
    <3>1. CASE m = n
      BY <2>2, <2>3, <2>4, <3>1
    <3>2. CASE m # n
      BY <2>1, <2>4, <3>2, CounterKept
    <3>3. QED
      BY <3>1, <3>2
  <2>6. QED
    BY <2>5 DEF CounterInv
<1>6. CASE StartRun \/ PushFails \/ PushBreaks \/ FinishRun \/ UNCHANGED vars
  BY <1>1, <1>6 DEF StartRun, PushFails, PushBreaks, FinishRun, vars, Held
<1>7. ASSUME NEW e \in Ends, Configure(e)
      PROVE  CounterInv'
  BY <1>1, <1>7
  DEF Configure, PostConfig, LookAtEvent, ApplyConfig, DrainTimeout, Held, TypeOK
<1>8. ASSUME NEW b \in Batches, SendBatch(b)
      PROVE  CounterInv'
  <2>1. <<run, b>> \in Tasks /\ client[<<run, b>>] = "queued"
    BY <1>8, Ranges DEF SendBatch, TypeOK
  <2>2. hop[<<run, b>>][1] = "absent" /\ hop' = [hop EXCEPT ![<<run, b>>][1] = "posted"]
    BY <1>8, <2>1, Ranges DEF SendBatch, ClientInv
  <2>3. ASSUME NEW m \in Nodes, NEW t \in Tasks
        PROVE  hop'[t][m] \in {"accepted", "sending"} <=> hop[t][m] \in {"accepted", "sending"}
    <3>1. CASE t = <<run, b>>
      BY <2>1, <2>2, <3>1, Ranges DEF TypeOK
    <3>2. CASE t # <<run, b>>
      BY <2>1, <2>2, <3>2
    <3>3. QED
      BY <3>1, <3>2
  <2>4. \A m \in Nodes : Held(m)' = Held(m)
    BY <2>3 DEF Held
  <2>5. QED
    BY <1>1, <1>8, <2>4 DEF SendBatch
<1>9. ASSUME NEW t \in Tasks, Client(t)
      PROVE  CounterInv'
  <2>1. CASE HandleResult(t)
    <3>1. \A m \in Nodes : m # N + 1
      BY PipelineAssumption DEF Nodes
    <3>2. \A m \in Nodes : Held(m)' = Held(m)
      BY <2>1, <3>1, Ranges DEF HandleResult, TypeOK, Held
    <3>3. QED
      BY <1>1, <2>1, <3>2 DEF HandleResult
  <2>2. CASE PostReturns(t) \/ PostFails(t) \/ Collect(t) \/ ResultTimeout(t)
    BY <1>1, <2>2 DEF PostReturns, PostFails, Collect, ResultTimeout, Held
  <2>3. QED
    BY <1>9, <2>1, <2>2 DEF Client
<1>10. ASSUME NEW h \in Hops, NEW t \in Tasks, Drop(h, t)
       PROVE  CounterInv'
  <2>1. \A m \in Nodes : Held(m)' = Held(m)
    BY <1>10, Ranges DEF Drop, TypeOK, Held
  <2>2. QED
    BY <1>1, <1>10, <2>1 DEF Drop
<1>11. QED
  BY <1>2, <1>3, <1>4, <1>5, <1>6, <1>7, <1>8, <1>9, <1>10 DEF Next, Serve

-----------------------------------------------------------------------------
(* Runs that nothing has disturbed so far.                                 *)

Undisturbed == faults = 0 /\ \A n \in Nodes : restarts[n] = 0

\* A message is on its way only while its sender waits for the answer.
CustodyInv ==
    Undisturbed =>
        \A t \in Tasks : \A n \in Nodes : hop[t][n + 1] = "posted" => hop[t][n] = "sending"

\* Nothing disturbs a step that ends undisturbed.
LEMMA UndisturbedStep ==
    ASSUME BaseInv, [Next]_vars, Undisturbed'
    PROVE  Undisturbed /\ ~ Fault /\ \A n \in Nodes : ~ Restart(n)
<1> USE DEF BaseInv, TypeOK, Undisturbed, sweepVars, clientVars, nodeVars
<1>1. ~ Fault
  BY DEF Fault
<1>2. \A n \in Nodes : ~ Restart(n)
  BY DEF Restart
<1>3. faults' = faults /\ restarts' = restarts
  <2>1. CASE StartRun \/ PushFails \/ PushBreaks \/ FinishRun \/ UNCHANGED vars
    BY <1>1, <2>1 DEF StartRun, PushFails, PushBreaks, FinishRun, vars
  <2>2. ASSUME NEW e \in Ends, Configure(e)
        PROVE  faults' = faults /\ restarts' = restarts
    BY <1>1, <2>2 DEF Configure, PostConfig, LookAtEvent, ApplyConfig, DrainTimeout
  <2>3. ASSUME NEW b \in Batches, SendBatch(b)
        PROVE  faults' = faults /\ restarts' = restarts
    BY <2>3 DEF SendBatch
  <2>4. ASSUME NEW t \in Tasks, Client(t)
        PROVE  faults' = faults /\ restarts' = restarts
    BY <1>1, <2>4 DEF Client, PostReturns, PostFails, Collect, ResultTimeout, HandleResult
  <2>5. ASSUME NEW n \in Nodes, NEW t \in Tasks, Serve(n, t)
        PROVE  faults' = faults /\ restarts' = restarts
    BY <1>1, <2>5 DEF Serve, Infer, Process, Raise, SendReturns
  <2>6. ASSUME NEW h \in Hops, NEW t \in Tasks, Drop(h, t)
        PROVE  FALSE
    BY <1>1, <2>6 DEF Drop
  <2>7. QED
    BY <1>2, <2>1, <2>2, <2>3, <2>4, <2>5, <2>6 DEF Next
<1>4. QED
  BY <1>1, <1>2, <1>3

LEMMA CustodyStep == BaseInv /\ CustodyInv /\ [Next]_vars => CustodyInv'
<1> SUFFICES ASSUME BaseInv, CustodyInv, [Next]_vars, Undisturbed',
                    NEW t \in Tasks, NEW n \in Nodes, hop'[t][n + 1] = "posted"
             PROVE  hop'[t][n] = "sending"
  BY DEF CustodyInv
<1> USE DEF BaseInv, TypeOK, sweepVars, clientVars, nodeVars
<1>1. Undisturbed /\ ~ Fault /\ \A m \in Nodes : ~ Restart(m)
  BY UndisturbedStep
<1>2. hop[t][n + 1] = "posted" => hop[t][n] = "sending"
  BY <1>1 DEF CustodyInv
<1>3. n \in Hops /\ n + 1 \in Hops /\ n # n + 1
  BY Ranges DEF Nodes
<1>4. CASE hop' = hop
  BY <1>2, <1>4
<1>5. ASSUME NEW b \in Batches, SendBatch(b)
      PROVE  hop'[t][n] = "sending"
  <2>1. <<run, b>> \in Tasks /\ hop' = [hop EXCEPT ![<<run, b>>][1] = "posted"]
    BY <1>5, Ranges DEF SendBatch
  <2>2. \A h \in Hops : hop[<<run, b>>][h] = "absent"
    BY <1>5, <2>1 DEF SendBatch, ClientInv
  <2>3. n + 1 # 1
    BY DEF Nodes
  <2>4. hop'[t][n + 1] = hop[t][n + 1]
    BY <1>3, <2>1, <2>3
  <2>5. t # <<run, b>>
    BY <1>2, <1>3, <2>2, <2>4
  <2>6. QED
    BY <1>2, <2>1, <2>4, <2>5
<1>6. ASSUME NEW s \in Tasks, HandleResult(s)
      PROVE  hop'[t][n] = "sending"
  <2>1. n # N + 1
    BY PipelineAssumption DEF Nodes
  <2>2. QED
    BY <1>2, <1>3, <1>6, <2>1, Ranges DEF HandleResult
<1>7. ASSUME NEW m \in Nodes, NEW s \in Tasks, Serve(m, s)
      PROVE  hop'[t][n] = "sending"
  <2>1. CASE s # t
    <3>1. hop'[t] = hop[t]
      BY <1>7, <2>1 DEF Serve, Infer, Process, Raise, SendReturns
    <3>2. QED
      BY <1>2, <3>1
  <2>2. CASE s = t /\ Infer(m, s)
    BY <1>2, <1>3, <2>2, Ranges DEF Infer
  <2>3. CASE s = t /\ Process(m, s)
    <3>1. /\ hop[t][m] = "accepted"
          /\ hop' = [hop EXCEPT ![t][m] = "sending", ![t][m + 1] = "posted"]
      BY <2>3 DEF Process
    <3>2. m # m + 1 /\ m \in Hops /\ m + 1 \in Hops
      BY Ranges DEF Nodes
    <3>3. CASE n = m
      BY <3>1, <3>2, <3>3
    <3>4. CASE n # m
      <4>1. n + 1 # m + 1
        BY <3>4 DEF Nodes
      <4>2. hop[t][n + 1] = "posted"
        BY <1>3, <3>1, <3>2, <4>1
      <4>3. hop[t][n] = "sending" /\ n # m + 1
        <5>1. hop[t][n] = "sending"
          BY <1>2, <4>2
        <5>2. hop[t][m + 1] = "absent"
          BY <3>1 DEF ChainInv, Left
        <5>3. QED
          BY <5>1, <5>2
      <4>4. QED
        BY <1>3, <3>1, <3>4, <4>3
    <3>5. QED
      BY <3>3, <3>4
  <2>4. CASE s = t /\ Raise(m, s)
    <3>1. hop[t][m] = "accepted" /\ hop' = [hop EXCEPT ![t][m] = "finished"]
      BY <2>4 DEF Raise
    <3>2. QED
      BY <1>2, <1>3, <3>1, Ranges
  <2>5. CASE s = t /\ SendReturns(m, s)
    <3>1. /\ hop[t][m] = "sending" /\ hop' = [hop EXCEPT ![t][m] = "finished"]
          /\ hop[t][m + 1] # "posted"
      BY <1>1, <2>5 DEF SendReturns
    <3>2. QED
      BY <1>2, <1>3, <3>1, Ranges
  <2>6. QED
    BY <1>7, <2>1, <2>2, <2>3, <2>4, <2>5 DEF Serve
<1>8. ~ \E h \in Hops, s \in Tasks : Drop(h, s)
  BY <1>1 DEF Drop
<1>9. CASE StartRun \/ PushFails \/ PushBreaks \/ FinishRun \/ UNCHANGED vars
  BY <1>4, <1>9 DEF StartRun, PushFails, PushBreaks, FinishRun, vars
<1>10. ASSUME NEW e \in Ends, Configure(e)
       PROVE  hop'[t][n] = "sending"
  BY <1>4, <1>10 DEF Configure, PostConfig, LookAtEvent, ApplyConfig, DrainTimeout
<1>11. ASSUME NEW s \in Tasks, Client(s)
       PROVE  hop'[t][n] = "sending"
  BY <1>4, <1>6, <1>11 DEF Client, PostReturns, PostFails, Collect, ResultTimeout
<1>12. QED
  BY <1>1, <1>5, <1>7, <1>8, <1>9, <1>10, <1>11 DEF Next

\* While nothing is lost, late or restarted, a batch on its way to a node is
\* counted by the node that sends it.
THEOREM CustodyIsKept == Spec => []ChainOfCustody
<1>1. Init => BaseInv /\ CounterInv /\ CustodyInv
  BY IInvInit, CounterInit, Ranges DEF IInv, Init, CustodyInv
<1>2. BaseInv /\ CounterInv /\ CustodyInv /\ [Next]_vars
         => BaseInv' /\ CounterInv' /\ CustodyInv'
  BY BaseStep, CounterStep, CustodyStep
<1>3. BaseInv /\ CounterInv /\ CustodyInv => ChainOfCustody
  <2> SUFFICES ASSUME BaseInv, CounterInv, CustodyInv, Undisturbed,
                      NEW t \in Tasks, NEW n \in Nodes, hop[t][n + 1] = "posted"
               PROVE  inFlight[n] > 0
    BY DEF ChainOfCustody, Undisturbed
  <2>1. t \in Held(n)
    BY DEF CustodyInv, Held
  <2>2. IsFiniteSet(Held(n)) /\ inFlight[n] = Cardinality(Held(n)) /\ inFlight[n] \in Nat
    BY DEF CounterInv, BaseInv, TypeOK
  <2>3. inFlight[n] # 0
    BY <2>1, <2>2, FS_EmptySet
  <2>4. QED
    BY <2>2, <2>3
<1>4. QED
  BY <1>1, <1>2, <1>3, PTL DEF Spec

\* Every update gets through, with the settings of the run.
PushComplete ==
    /\ phase # "aborted"
    /\ phase = "done" => run = R
    /\ \A e \in Ends : /\ push[e] \notin {"rejected", "lost"}
                       /\ push[e] = "applied" => config[e] = RunConfig[run][e[1]]

\* A task that was sent is at some hop or has resolved its future, it is encoded
\* with its run's settings, and its run is left only when it is recorded.
TaskComplete(t) ==
    /\ client[t] \notin {"timedout", "failed"}
    /\ \A h \in Hops : hop[t][h] # "dropped"
    /\ t \in future <=> hop[t][N + 1] = "finished"
    /\ client[t] # "queued" =>
          t \in future \/ \E h \in Hops : hop[t][h] \in {"posted", "accepted"}
    /\ \A l \in Links : Left(t, l) => enc[t][l] = RunConfig[RunOf(t)][l]
    /\ RunOf(t) < run \/ phase = "done" => client[t] = "recorded"

CompleteInv == Undisturbed => PushComplete /\ \A t \in Tasks : TaskComplete(t)

LEMMA CompleteInit == Init => CompleteInv
<1> SUFFICES ASSUME Init
             PROVE  CompleteInv
  OBVIOUS
<1>1. PushComplete
  BY DEF Init, PushComplete
<1>2. ASSUME NEW t \in Tasks
      PROVE  TaskComplete(t)
  <2>1. \A h \in Hops : hop[t][h] = "absent"
    BY DEF Init
  <2>2. \A l \in Links : ~ Left(t, l)
    BY <2>1, Ranges DEF Left
  <2>3. ~ (RunOf(t) < run) /\ phase # "done" /\ client[t] = "queued" /\ t \notin future
    BY DEF Init, Tasks, RunOf, Runs
  <2>4. QED
    BY <2>1, <2>2, <2>3, Ranges DEF TaskComplete
<1>3. QED
  BY <1>1, <1>2 DEF CompleteInv

\* An accepted task is awaited by the client, so both ends of the link that it came
\* over have its run's setting and it does not raise.
LEMMA AcceptedDecodes ==
    ASSUME BaseInv, PushComplete, NEW t \in Tasks, TaskComplete(t),
           NEW n \in Nodes, hop[t][n] = "accepted"
    PROVE  /\ Holding(t) /\ RunOf(t) = run
           /\ \A e \in Ends : config[e] = RunConfig[run][e[1]]
           /\ Decodable(n, t)
<1> USE DEF BaseInv, TypeOK
<1>1. client[t] # "queued"
  BY Ranges DEF ClientInv
<1>2. client[t] # "recorded"
  <2>1. N \in Nodes /\ n <= N
    BY PipelineAssumption DEF Nodes
  <2>2. ~ Left(t, N)
    BY <2>1 DEF ChainInv
  <2>3. QED
    BY <2>2 DEF ClientInv, Left
<1>3. Holding(t)
  BY <1>1, <1>2 DEF TaskComplete, Holding, ClientStages
<1>4. phase = "running" /\ RunOf(t) = run
  BY <1>3 DEF ClientInv
<1>5. \A e \in Ends : config[e] = RunConfig[run][e[1]]
  BY <1>4 DEF PushInv, PushComplete
<1>6. ASSUME n > 1
      PROVE  enc[t][n - 1] = config[<<n - 1, "incoming">>]
  <2>1. /\ n - 1 \in Links /\ n - 1 \in Nodes /\ (n - 1) + 1 = n
        /\ <<n - 1, "incoming">> \in Ends
    <3>1. n # 1
      BY <1>6
    <3>2. QED
      BY <3>1, Ranges
  <2>2. Left(t, n - 1)
    BY <2>1 DEF Left
  <2>3. QED
    BY <1>4, <1>5, <2>1, <2>2 DEF TaskComplete
<1>7. QED
  BY <1>3, <1>4, <1>5, <1>6 DEF Decodable

LEMMA PushCompleteStep ==
    ASSUME BaseInv, [Next]_vars, Undisturbed', PushComplete
    PROVE  PushComplete'
<1> USE DEF BaseInv, TypeOK, PushComplete, sweepVars, clientVars, nodeVars
<1>1. ~ Fault /\ \A n \in Nodes : ~ Restart(n)
  BY UndisturbedStep
<1>2. CASE StartRun \/ UNCHANGED vars
  BY <1>2 DEF StartRun, vars
<1>3. ~ PushFails /\ ~ PushBreaks
  BY <1>1 DEF PushFails, PushBreaks
<1>4. CASE FinishRun
  BY <1>4, PipelineAssumption DEF FinishRun, Runs
<1>5. ASSUME NEW e \in Ends, Configure(e)
      PROVE  PushComplete'
  BY <1>1, <1>5 DEF Configure, PostConfig, LookAtEvent, ApplyConfig, DrainTimeout
<1>6. ASSUME NEW b \in Batches, SendBatch(b)
      PROVE  PushComplete'
  BY <1>6 DEF SendBatch
<1>7. ASSUME NEW t \in Tasks, Client(t)
      PROVE  PushComplete'
  BY <1>7 DEF Client, PostReturns, PostFails, Collect, ResultTimeout, HandleResult
<1>8. ASSUME NEW n \in Nodes, NEW t \in Tasks, Serve(n, t)
      PROVE  PushComplete'
  <2>1. CASE Infer(n, t) \/ Process(n, t)
    BY <2>1 DEF Infer, Process
  <2>2. CASE Raise(n, t) \/ SendReturns(n, t)
    BY <2>2 DEF Raise, SendReturns, Decrement
  <2>3. QED
    BY <1>8, <2>1, <2>2 DEF Serve
<1>9. ~ \E h \in Hops, t \in Tasks : Drop(h, t)
  BY <1>1 DEF Drop
<1>10. QED
  BY <1>1, <1>2, <1>3, <1>4, <1>5, <1>6, <1>7, <1>8, <1>9 DEF Next

\* A step that does not concern task t.
LEMMA TaskKept ==
    ASSUME NEW t \in Tasks, TaskComplete(t), client'[t] = client[t], hop'[t] = hop[t],
           enc'[t] = enc[t], t \in future' <=> t \in future, run' = run,
           phase' = "done" => phase = "done"
    PROVE  TaskComplete(t)'
  BY DEF TaskComplete, Left

LEMMA TaskCompleteStep ==
    ASSUME BaseInv, [Next]_vars, Undisturbed', PushComplete,
           NEW t \in Tasks, TaskComplete(t)
    PROVE  TaskComplete(t)'
<1> USE DEF BaseInv, TypeOK, sweepVars, clientVars, nodeVars
<1>1. ~ Fault /\ \A n \in Nodes : ~ Restart(n)
  BY UndisturbedStep
<1>2. CASE StartRun \/ PushFails \/ PushBreaks \/ UNCHANGED vars
  BY <1>2, TaskKept DEF StartRun, PushFails, PushBreaks, vars
<1>3. CASE FinishRun
  <2>1. /\ client' = client /\ hop' = hop /\ enc' = enc /\ future' = future
        /\ phase = "running" /\ run' \in {run, run + 1}
        /\ \A b \in Batches : client[<<run, b>>] \in {"recorded", "timedout", "failed"}
    BY <1>3 DEF FinishRun
  <2>2. phase' = "done" => run = R
    BY <1>3, PipelineAssumption DEF FinishRun, Runs
  <2>3. RunOf(t) \in Nat /\ RunOf(t) <= R /\ run \in Nat
    BY PipelineAssumption DEF Tasks, RunOf, Runs
  <2>4. RunOf(t) = run => client[t] = "recorded"
    <3>1. ASSUME RunOf(t) = run
          PROVE  \E b \in Batches : t = <<run, b>>
      BY <3>1 DEF Tasks, RunOf
    <3>2. QED
      BY <2>1, <3>1 DEF TaskComplete
  <2>5. RunOf(t) < run' \/ phase' = "done" => RunOf(t) < run \/ RunOf(t) = run
    BY ONLY <2>1, <2>2, <2>3
  <2>6. RunOf(t) < run' \/ phase' = "done" => client'[t] = "recorded"
    BY <2>1, <2>4, <2>5 DEF TaskComplete
  <2>7. QED
    BY <2>1, <2>6 DEF TaskComplete, Left
<1>4. ASSUME NEW e \in Ends, Configure(e)
      PROVE  TaskComplete(t)'
  BY <1>4, TaskKept DEF Configure, PostConfig, LookAtEvent, ApplyConfig, DrainTimeout
<1>5. ASSUME NEW b \in Batches, SendBatch(b)
      PROVE  TaskComplete(t)'
  <2>1. CASE t # <<run, b>>
    BY <1>5, <2>1, TaskKept DEF SendBatch
  <2>2. CASE t = <<run, b>>
    <3>1. /\ \A h \in Hops : hop[t][h] = "absent"
          /\ hop' = [hop EXCEPT ![t][1] = "posted"]
          /\ client' = [client EXCEPT ![t] = "posting"]
          /\ phase = "running" /\ phase' = phase /\ run' = run /\ future' = future /\ enc' = enc
      BY <1>5, <2>2 DEF SendBatch, ClientInv
    <3>2. \A h \in Hops : h # 1 => hop'[t][h] = "absent"
      BY <3>1
    <3>3. hop'[t][1] = "posted" /\ client'[t] = "posting"
      BY <3>1, Ranges
    <3>4. 1 # N + 1
      BY PipelineAssumption
    <3>5. \A l \in Links : ~ Left(t, l)'
      BY <3>2, Ranges DEF Left, Links
    <3>6. RunOf(t) = run
      BY <2>2 DEF RunOf
    <3>7. t \notin future /\ hop'[t][N + 1] = "absent"
      BY <3>1, <3>2, <3>4, Ranges DEF ClientInv
    <3>8. ~ (RunOf(t) < run') /\ phase' # "done"
      BY <3>1, <3>6 DEF Runs
    <3>9. QED
      BY <3>1, <3>2, <3>3, <3>5, <3>7, <3>8, Ranges DEF TaskComplete
  <2>3. QED
    BY <2>1, <2>2
<1>6. ASSUME NEW s \in Tasks, Client(s)
      PROVE  TaskComplete(t)'
  <2>1. CASE s # t
    BY <1>6, <2>1, TaskKept
    DEF Client, PostReturns, PostFails, Collect, ResultTimeout, HandleResult
  <2>2. CASE s = t /\ PostReturns(s)
    BY <2>2 DEF PostReturns, TaskComplete, Left
  <2>3. ~ PostFails(t)
    BY <1>1, Ranges DEF PostFails, TaskComplete
  <2>4. CASE s = t /\ Collect(s)
    BY <2>4 DEF Collect, TaskComplete, Left
  <2>5. ~ ResultTimeout(t)
    BY <1>1 DEF ResultTimeout, TaskComplete
  <2>6. CASE s = t /\ HandleResult(s)
    <3>1. /\ hop[t][N + 1] = "posted" /\ hop' = [hop EXCEPT ![t][N + 1] = "finished"]
          /\ client' = client /\ enc' = enc /\ run' = run /\ phase' = phase
      BY <2>6 DEF HandleResult
    <3>2. Holding(t)
      BY <3>1, Ranges DEF ClientInv, TaskComplete, Holding, ClientStages
    <3>3. t \in future'
      BY <2>6, <3>2 DEF HandleResult
    <3>4. /\ hop'[t][N + 1] = "finished"
          /\ \A h \in Hops : h # N + 1 => hop'[t][h] = hop[t][h]
      BY <3>1, Ranges
    <3>5. \A l \in Links : Left(t, l)' => Left(t, l)
      BY <3>1, <3>4, Ranges DEF Left
    <3>6. QED
      BY <3>1, <3>3, <3>4, <3>5 DEF TaskComplete
  <2>7. QED
    BY <1>6, <2>1, <2>2, <2>3, <2>4, <2>5, <2>6 DEF Client
<1>7. ASSUME NEW n \in Nodes, NEW s \in Tasks, Serve(n, s)
      PROVE  TaskComplete(t)'
  <2>0. /\ client' = client /\ future' = future /\ run' = run /\ phase' = phase
        /\ n # N + 1 /\ n \in Hops
    BY <1>7, PipelineAssumption, Ranges
    DEF Serve, Infer, Process, Raise, SendReturns, Nodes
  <2>1. CASE s # t
    <3>1. hop'[t] = hop[t] /\ enc'[t] = enc[t]
      BY <1>7, <2>1 DEF Serve, Infer, Process, Raise, SendReturns
    <3>2. QED
      BY <2>0, <3>1, TaskKept
  <2>2. CASE s = t /\ Infer(n, s)
    <3>1. hop[t][n] = "posted" /\ hop' = [hop EXCEPT ![t][n] = "accepted"] /\ enc' = enc
      BY <2>2 DEF Infer
    <3>2. /\ hop'[t][n] = "accepted"
          /\ \A h \in Hops : h # n => hop'[t][h] = hop[t][h]
      BY <2>0, <3>1
    <3>3. \A l \in Links : Left(t, l)' => Left(t, l)
      BY <3>1, <3>2, Ranges DEF Left
    <3>4. QED
      BY <2>0, <3>1, <3>2, <3>3, Ranges DEF TaskComplete
  <2>3. CASE s = t /\ Process(n, s)
    <3>1. /\ hop[t][n] = "accepted"
          /\ hop' = [hop EXCEPT ![t][n] = "sending", ![t][n + 1] = "posted"]
      BY <2>3 DEF Process
    <3>2. /\ hop'[t][n] = "sending" /\ hop'[t][n + 1] = "posted"
          /\ \A h \in Hops : h # n /\ h # n + 1 => hop'[t][h] = hop[t][h]
      BY <2>0, <3>1, Ranges DEF Nodes
    <3>3. RunOf(t) = run /\ \A e \in Ends : config[e] = RunConfig[run][e[1]]
      BY <3>1, AcceptedDecodes
    <3>4. /\ n = N => enc' = enc
          /\ n # N => enc'[t][n] = RunConfig[run][n]
          /\ \A l \in Links : l # n => enc'[t][l] = enc[t][l]
      BY <2>3, <3>3, Ranges DEF Process
    <3>5. \A l \in Links : l # n /\ Left(t, l)' => Left(t, l)
      <4>1. \A l \in Links : l # n => l + 1 # n + 1
        BY DEF Links, Nodes
      <4>2. QED
        BY <3>1, <3>2, <4>1, Ranges DEF Left
    <3>6. \A l \in Links : Left(t, l)' => enc'[t][l] = RunConfig[RunOf(t)][l]
      <4>1. \A l \in Links : l # N
        BY PipelineAssumption DEF Links
      <4>2. QED
        BY <3>3, <3>4, <3>5, <4>1 DEF TaskComplete
    <3>7. t \notin future /\ hop'[t][N + 1] # "finished"
      <4>1. hop[t][N + 1] = "absent"
        <5>1. n <= N
          BY PipelineAssumption DEF Nodes
        <5>2. ~ Left(t, N)
          BY <3>1, <5>1, Ranges DEF ChainInv
        <5>3. QED
          BY <5>2 DEF Left
      <4>2. QED
        BY <2>0, <3>2, <4>1, Ranges DEF TaskComplete
    <3>8. QED
      BY <2>0, <3>2, <3>6, <3>7, Ranges DEF TaskComplete
  <2>4. ~ Raise(n, t)
    BY <1>1, AcceptedDecodes DEF Raise
  <2>5. CASE s = t /\ SendReturns(n, s)
    <3>1. hop[t][n] = "sending" /\ hop' = [hop EXCEPT ![t][n] = "finished"] /\ enc' = enc
      BY <2>5 DEF SendReturns
    <3>2. /\ hop'[t][n] = "finished"
          /\ \A h \in Hops : h # n => hop'[t][h] = hop[t][h]
      BY <2>0, <3>1
    <3>3. \A l \in Links : Left(t, l)' => Left(t, l)
      BY <3>1, <3>2, Ranges DEF Left
    <3>4. QED
      BY <2>0, <3>1, <3>2, <3>3, Ranges DEF TaskComplete
  <2>6. QED
    BY <1>7, <2>1, <2>2, <2>3, <2>4, <2>5 DEF Serve
<1>8. ~ \E h \in Hops, s \in Tasks : Drop(h, s)
  BY <1>1 DEF Drop
<1>9. QED
  BY <1>1, <1>2, <1>3, <1>4, <1>5, <1>6, <1>7, <1>8 DEF Next

LEMMA CompleteStep == BaseInv /\ CompleteInv /\ [Next]_vars => CompleteInv'
  BY UndisturbedStep, PushCompleteStep, TaskCompleteStep DEF CompleteInv

\* Without faults and restarts the sweep ends with every batch of every run
\* recorded, whatever overtakes what on the way.
THEOREM NothingIsMissing == Spec => []EveryBatchRecorded
<1>1. Init => BaseInv /\ CompleteInv
  BY IInvInit, CompleteInit DEF IInv
<1>2. BaseInv /\ CompleteInv /\ [Next]_vars => BaseInv' /\ CompleteInv'
  BY BaseStep, CompleteStep
<1>3. BaseInv /\ CompleteInv => EveryBatchRecorded
  BY DEF CompleteInv, PushComplete, TaskComplete, EveryBatchRecorded, Undisturbed, Recorded
<1>4. QED
  BY <1>1, <1>2, <1>3, PTL DEF Spec

-----------------------------------------------------------------------------
(* The nodes of the pipeline as components: what a step does to the view   *)
(* that PipelineNodes has of node n.  An operator of this section restates *)
(* an action of NodeServer for the view, for any n.                        *)

View(n) == <<inFlight[n], idleEvent[n], NodeStage(n), NodeUpdate(n), NodeConfig(n),
             restarts[n]>>

ViewDecrement(n) ==
    /\ inFlight[n]' = IF inFlight[n] > 0 THEN inFlight[n] - 1 ELSE 0
    /\ IF inFlight[n]' = 0
          THEN /\ idleEvent[n]' = TRUE
               /\ NodeUpdate(n)' = [u \in NodeUpdates |->
                     IF NodeUpdate(n)[u] = "waiting" THEN "woken" ELSE NodeUpdate(n)[u]]
          ELSE UNCHANGED <<idleEvent[n], NodeUpdate(n)>>

ViewInfer(n, t) ==
    /\ NodeStage(n)[t] = "absent"
    /\ inFlight[n]' = inFlight[n] + 1
    /\ idleEvent[n]' = FALSE
    /\ NodeStage(n)' = [NodeStage(n) EXCEPT ![t] = "accepted"]
    /\ UNCHANGED <<NodeUpdate(n), NodeConfig(n), restarts[n]>>

ViewProcess(n, t) ==
    /\ NodeStage(n)[t] = "accepted"
    /\ NodeStage(n)' = [NodeStage(n) EXCEPT ![t] = "sending"]
    /\ UNCHANGED <<inFlight[n], idleEvent[n], NodeUpdate(n), NodeConfig(n), restarts[n]>>

\* Raise and SendReturns.
ViewFinish(n, t) ==
    /\ NodeStage(n)[t] \in {"accepted", "sending"}
    /\ NodeStage(n)' = [NodeStage(n) EXCEPT ![t] = "finished"]
    /\ ViewDecrement(n)
    /\ UNCHANGED <<NodeConfig(n), restarts[n]>>

\* PostConfig, LookAtEvent and DrainTimeout.
ViewUpdateMoves(n, d, from, to) ==
    LET u == <<run, d>>
    IN /\ d \in Directions
       /\ NodeUpdate(n)[u] \in from
       /\ NodeUpdate(n)' = [NodeUpdate(n) EXCEPT ![u] = to]
       /\ UNCHANGED <<inFlight[n], idleEvent[n], NodeStage(n), NodeConfig(n), restarts[n]>>

ViewPostConfig(n, d) ==
    ViewUpdateMoves(n, d, {"absent"}, "posted")
ViewLookAtEvent(n, d) ==
    ViewUpdateMoves(n, d, {"posted"}, IF idleEvent[n] THEN "drained" ELSE "waiting")
ViewDrainTimeout(n, d) ==
    ViewUpdateMoves(n, d, {"posted", "waiting", "woken"}, "rejected")

ViewApplyConfig(n, d) ==
    LET u == <<run, d>>
    IN /\ d \in Directions
       /\ NodeUpdate(n)[u] \in {"woken", "drained"}
       /\ NodeUpdate(n)' = [NodeUpdate(n) EXCEPT ![u] = "applied"]
       /\ NodeConfig(n)' = [NodeConfig(n) EXCEPT ![d] = NodeValue(n)[u]]
       /\ UNCHANGED <<inFlight[n], idleEvent[n], NodeStage(n), restarts[n]>>

ViewRestart(n) ==
    /\ restarts[n] < MaxRestarts
    /\ restarts[n]' = restarts[n] + 1
    /\ inFlight[n]' = 0
    /\ idleEvent[n]' = TRUE
    /\ NodeStage(n)' = [t \in Tasks |->
          IF NodeStage(n)[t] \in {"accepted", "sending"} THEN "finished" ELSE NodeStage(n)[t]]
    /\ NodeUpdate(n)' = [u \in NodeUpdates |->
          IF NodeUpdate(n)[u] \in PushPending THEN "lost" ELSE NodeUpdate(n)[u]]
    /\ NodeConfig(n)' = NodeDefault(n)

ViewStep(n) ==
    \/ UNCHANGED View(n)
    \/ \E t \in Tasks : ViewInfer(n, t) \/ ViewProcess(n, t) \/ ViewFinish(n, t)
    \/ \E d \in Directions : \/ ViewPostConfig(n, d) \/ ViewLookAtEvent(n, d)
                             \/ ViewApplyConfig(n, d) \/ ViewDrainTimeout(n, d)
    \/ ViewRestart(n)

LEMMA EndFacts ==
    /\ \A n \in Nodes, d \in Directions :
          EndAt(n, d) \in Ends => NodeOf(EndAt(n, d)) = n /\ EndAt(n, d)[2] = d
    /\ \A e \in Ends : /\ NodeOf(e) \in Nodes /\ e[1] \in Links /\ e[2] \in Directions
                       /\ EndAt(NodeOf(e), e[2]) = e
<1>1. ASSUME NEW n \in Nodes, NEW d \in Directions, EndAt(n, d) \in Ends
      PROVE  NodeOf(EndAt(n, d)) = n /\ EndAt(n, d)[2] = d
  BY <1>1, PipelineAssumption DEF Directions, EndAt, NodeOf, Nodes
<1>2. ASSUME NEW e \in Ends
      PROVE  /\ NodeOf(e) \in Nodes /\ e[1] \in Links /\ e[2] \in Directions
             /\ EndAt(NodeOf(e), e[2]) = e
  <2>1. e[1] \in Links /\ e[2] \in Directions /\ e = <<e[1], e[2]>>
    BY DEF Ends
  <2>2. (e[1] + 1) - 1 = e[1]
    BY <2>1, Ranges
  <2>3. QED
    BY <2>1, <2>2, Ranges DEF EndAt, NodeOf, Directions
<1>3. QED
  BY <1>1, <1>2

\* Steps after which the handlers of node n are where they were.
LEMMA UpdatesQuiet ==
    ASSUME NEW n \in Nodes, run' = run,
           \A e \in Ends : NodeOf(e) = n => push'[e] = push[e]
    PROVE  NodeUpdate(n)' = NodeUpdate(n)
<1>1. \A d \in Directions : EndAt(n, d) \in Ends => push'[EndAt(n, d)] = push[EndAt(n, d)]
  BY EndFacts
<1>2. \A u \in NodeUpdates : u[2] \in Directions
  BY DEF NodeUpdates
<1>3. QED
  BY <1>1, <1>2 DEF NodeUpdate

LEMMA ConfigQuiet ==
    ASSUME NEW n \in Nodes, \A e \in Ends : NodeOf(e) = n => config'[e] = config[e]
    PROVE  NodeConfig(n)' = NodeConfig(n)
<1>1. \A d \in Directions : EndAt(n, d) \in Ends => config'[EndAt(n, d)] = config[EndAt(n, d)]
  BY EndFacts
<1>2. QED
  BY <1>1 DEF NodeConfig

LEMMA StageQuiet ==
    ASSUME NEW n \in Nodes,
           \A t \in Tasks : \/ hop'[t][n] = hop[t][n]
                            \/ /\ hop[t][n] \in {"absent", "posted", "dropped"}
                               /\ hop'[t][n] \in {"absent", "posted", "dropped"}
    PROVE  NodeStage(n)' = NodeStage(n)
  BY DEF NodeStage

\* The request of one task moves on.
LEMMA StageMoves ==
    ASSUME TypeOK, NEW n \in Nodes, NEW t \in Tasks,
           NEW s \in {"accepted", "sending", "finished"},
           hop'[t][n] = s, \A x \in Tasks \ {t} : hop'[x][n] = hop[x][n]
    PROVE  NodeStage(n)' = [NodeStage(n) EXCEPT ![t] = s]
  BY DEF NodeStage

\* One handler moves on.
LEMMA UpdateMoves ==
    ASSUME TypeOK, NEW e \in Ends, NEW s \in PushStages, run' = run,
           push' = [push EXCEPT ![e] = s]
    PROVE  LET n == NodeOf(e)  u == <<run, e[2]>>
           IN /\ NodeUpdate(n)[u] = push[e]
              /\ NodeUpdate(n)' = [NodeUpdate(n) EXCEPT ![u] = s]
<1> DEFINE n == NodeOf(e)
           u == <<run, e[2]>>
<1>1. n \in Nodes /\ e[2] \in Directions /\ EndAt(n, e[2]) = e
  BY EndFacts
<1>2. u \in NodeUpdates /\ run \in Runs /\ u[1] = run /\ u[2] = e[2] /\ ~ (run < run)
  BY <1>1 DEF NodeUpdates, TypeOK, Runs
<1>3. NodeUpdate(n)[u] = push[e] /\ NodeUpdate(n)'[u] = s
  BY <1>1, <1>2 DEF NodeUpdate, TypeOK
<1>4. ASSUME NEW v \in NodeUpdates, v # u
      PROVE  NodeUpdate(n)'[v] = NodeUpdate(n)[v]
  <2>1. v = <<v[1], v[2]>> /\ v[2] \in Directions
    BY DEF NodeUpdates
  <2>2. CASE v[1] = run
    <3>1. EndAt(n, v[2]) \in Ends => EndAt(n, v[2]) # e
      BY <1>1, <1>4, <2>1, <2>2, EndFacts
    <3>2. EndAt(n, v[2]) \in Ends => push'[EndAt(n, v[2])] = push[EndAt(n, v[2])]
      BY <3>1 DEF TypeOK
    <3>3. QED
      BY <3>2 DEF NodeUpdate
  <2>3. CASE v[1] # run
    <3>1. v[1] \in Nat /\ run \in Nat
      BY <1>2 DEF NodeUpdates, Runs
    <3>2. v[1] > run \/ v[1] < run
      BY <2>3, <3>1
    <3>3. QED
      BY <3>1, <3>2 DEF NodeUpdate
  <2>4. QED
    BY <2>2, <2>3
<1>5. NodeUpdate(n)' = [NodeUpdate(n) EXCEPT ![u] = s]
  <2>1. /\ NodeUpdate(n) = [v \in NodeUpdates |-> NodeUpdate(n)[v]]
        /\ NodeUpdate(n)' = [v \in NodeUpdates |-> NodeUpdate(n)'[v]]
    BY DEF NodeUpdate
  <2>2. QED
    BY <2>1, <1>2, <1>3, <1>4
<1>6. QED
  BY <1>3, <1>5

\* What is left alone by every step that concerns neither the handlers nor the
\* settings nor the counter of node n.
LEMMA ViewQuiet ==
    ASSUME NEW n \in Nodes, run' = run,
           \A e \in Ends : NodeOf(e) = n => push'[e] = push[e] /\ config'[e] = config[e],
           inFlight'[n] = inFlight[n], idleEvent'[n] = idleEvent[n],
           restarts'[n] = restarts[n],
           \A t \in Tasks : \/ hop'[t][n] = hop[t][n]
                            \/ /\ hop[t][n] \in {"absent", "posted", "dropped"}
                               /\ hop'[t][n] \in {"absent", "posted", "dropped"}
    PROVE  UNCHANGED View(n)
BY UpdatesQuiet, ConfigQuiet, StageQuiet DEF View

\* The next run starts with new updates, and those of the last one are applied.
LEMMA ViewFinishRun ==
    ASSUME BaseInv, NEW n \in Nodes, FinishRun
    PROVE  UNCHANGED View(n)
<1> USE DEF BaseInv, clientVars, nodeVars
<1>1. CASE ~(run < R)
  BY <1>1, ViewQuiet DEF FinishRun
<1>2. CASE run < R
  <2>1. run' = run + 1 /\ push' = [e \in Ends |-> "absent"] /\ run \in Nat
    BY <1>2 DEF FinishRun, TypeOK, Runs
  <2>2. \A e \in Ends : push[e] = "applied"
    BY DEF FinishRun, PushInv
  <2>3. ASSUME NEW u \in NodeUpdates
        PROVE  NodeUpdate(n)'[u] = NodeUpdate(n)[u]
    <3>1. u[1] \in Nat
      BY DEF NodeUpdates, Runs
    <3>2. u[1] < run \/ u[1] = run \/ u[1] = run + 1 \/ u[1] > run + 1
      BY <2>1, <3>1
    <3>3. QED
      BY <2>1, <2>2, <3>1, <3>2 DEF NodeUpdate
  <2>4. NodeUpdate(n)' = NodeUpdate(n)
    BY <2>3 DEF NodeUpdate
  <2>5. NodeConfig(n)' = NodeConfig(n) /\ NodeStage(n)' = NodeStage(n)
    BY ConfigQuiet, StageQuiet DEF FinishRun
  <2>6. QED
    BY <2>4, <2>5 DEF View, FinishRun
<1>3. QED
  BY <1>1, <1>2

LEMMA ViewConfigure ==
    ASSUME BaseInv, NEW n \in Nodes, NEW e \in Ends, Configure(e)
    PROVE  ViewStep(n)
<1> USE DEF BaseInv, sweepVars, clientVars, nodeVars
<1>1. CASE NodeOf(e) # n
  <2>1. CASE PostConfig(e) \/ LookAtEvent(e)
    BY <1>1, <2>1, ViewQuiet DEF PostConfig, LookAtEvent, TypeOK, ViewStep
  <2>2. CASE ApplyConfig(e)
    BY <1>1, <2>2, ViewQuiet DEF ApplyConfig, TypeOK, ViewStep
  <2>3. CASE DrainTimeout(e)
    BY <1>1, <2>3, ViewQuiet DEF DrainTimeout, TypeOK, ViewStep
  <2>4. QED
    BY <2>1, <2>2, <2>3 DEF Configure
<1>2. CASE NodeOf(e) = n
  <2> DEFINE d == e[2]
             u == <<run, d>>
  <2>1. d \in Directions /\ EndAt(n, d) = e
    BY <1>2, EndFacts
  <2>2. /\ NodeStage(n)' = NodeStage(n)
        /\ UNCHANGED <<inFlight[n], idleEvent[n], restarts[n]>>
    BY StageQuiet DEF Configure, PostConfig, LookAtEvent, ApplyConfig, DrainTimeout
  <2>3. ASSUME NEW to \in PushStages, push' = [push EXCEPT ![e] = to], run' = run,
               config' = config, NEW from, push[e] \in from
        PROVE  ViewUpdateMoves(n, d, from, to)
    <3>1. NodeUpdate(n)[u] = push[e] /\ NodeUpdate(n)' = [NodeUpdate(n) EXCEPT ![u] = to]
      BY <1>2, <2>3, UpdateMoves
    <3>2. NodeConfig(n)' = NodeConfig(n)
      BY <2>3, ConfigQuiet
    <3>3. QED
      BY <2>1, <2>2, <2>3, <3>1, <3>2 DEF ViewUpdateMoves
  <2>4. CASE PostConfig(e)
    <3>1. /\ push[e] \in {"absent"} /\ push' = [push EXCEPT ![e] = "posted"]
          /\ run' = run /\ config' = config /\ "posted" \in PushStages
      BY <2>4 DEF PostConfig, PushStages
    <3>2. ViewPostConfig(n, d)
      BY <2>3, <3>1 DEF ViewPostConfig
    <3>3. QED
      BY <2>1, <3>2 DEF ViewStep
  <2>5. CASE LookAtEvent(e)
    <3> DEFINE s == IF idleEvent[n] THEN "drained" ELSE "waiting"
    <3>1. /\ push[e] \in {"posted"} /\ push' = [push EXCEPT ![e] = s]
          /\ run' = run /\ config' = config /\ s \in PushStages
      BY <1>2, <2>5 DEF LookAtEvent, PushStages
    <3> HIDE DEF s
    <3>2. ViewUpdateMoves(n, d, {"posted"}, s)
      BY <2>3, <3>1
    <3>3. ViewLookAtEvent(n, d)
      BY <3>2 DEF ViewLookAtEvent, s
    <3>4. QED
      BY <2>1, <3>3 DEF ViewStep
  <2>6. CASE ApplyConfig(e)
    <3>1. /\ push[e] \in {"woken", "drained"} /\ push' = [push EXCEPT ![e] = "applied"]
          /\ run' = run
      BY <2>6 DEF ApplyConfig
    <3>2. /\ NodeUpdate(n)[u] = push[e]
          /\ NodeUpdate(n)' = [NodeUpdate(n) EXCEPT ![u] = "applied"]
      BY <1>2, <3>1, UpdateMoves DEF PushStages
    <3>3. NodeConfig(n)' = [NodeConfig(n) EXCEPT ![d] = NodeValue(n)[u]]
      <4>1. NodeValue(n)[u] = RunConfig[run][e[1]]
        <5>1. u \in NodeUpdates
          BY <2>1 DEF NodeUpdates, TypeOK
        <5>2. QED
          BY <2>1, <5>1 DEF NodeValue
      <4>2. config' = [config EXCEPT ![e] = RunConfig[run][e[1]]]
        BY <2>6 DEF ApplyConfig
      <4>3. \A x \in Directions : EndAt(n, x) \in Ends /\ x # d => EndAt(n, x) # e
        BY EndFacts
      <4>4. \A x \in Directions : EndAt(n, x) \in Ends =>
                config'[EndAt(n, x)] = IF x = d THEN NodeValue(n)[u] ELSE config[EndAt(n, x)]
        BY <2>1, <4>1, <4>2, <4>3 DEF TypeOK
      <4>5. QED
        BY <2>1, <4>4 DEF NodeConfig
    <3>4. ViewApplyConfig(n, d)
      BY <2>1, <2>2, <3>1, <3>2, <3>3 DEF ViewApplyConfig
    <3>5. QED
      BY <2>1, <3>4 DEF ViewStep
  <2>7. CASE DrainTimeout(e)
    <3>1. /\ push[e] \in {"posted", "waiting", "woken"}
          /\ push' = [push EXCEPT ![e] = "rejected"]
          /\ run' = run /\ config' = config /\ "rejected" \in PushStages
      BY <2>7 DEF DrainTimeout, PushStages
    <3>2. ViewDrainTimeout(n, d)
      BY <2>3, <3>1 DEF ViewDrainTimeout
    <3>3. QED
      BY <2>1, <3>2 DEF ViewStep
  <2>8. QED
    BY <2>4, <2>5, <2>6, <2>7 DEF Configure
<1>3. QED
  BY <1>1, <1>2

\* The wake-up at zero.
LEMMA ViewDecrements ==
    ASSUME TypeOK, NEW n \in Nodes, Decrement(n), run' = run
    PROVE  ViewDecrement(n)
<1>1. inFlight'[n] = IF inFlight[n] > 0 THEN inFlight[n] - 1 ELSE 0
  BY DEF TypeOK, Decrement
<1>2. CASE inFlight'[n] # 0
  <2>1. UNCHANGED <<idleEvent, push>>
    BY <1>2 DEF Decrement
  <2>2. QED
    BY <1>1, <1>2, <2>1, UpdatesQuiet DEF ViewDecrement
<1>3. CASE inFlight'[n] = 0
  <2>1. /\ idleEvent'[n] = TRUE
        /\ push' = [e \in Ends |-> IF NodeOf(e) = n /\ push[e] = "waiting"
                                   THEN "woken" ELSE push[e]]
    BY <1>3 DEF Decrement, TypeOK
  <2>2. \A d \in Directions : EndAt(n, d) \in Ends =>
            push'[EndAt(n, d)] = IF push[EndAt(n, d)] = "waiting" THEN "woken"
                                 ELSE push[EndAt(n, d)]
    BY <2>1, EndFacts
  <2>3. \A u \in NodeUpdates : u[2] \in Directions
    BY DEF NodeUpdates
  <2>4. NodeUpdate(n)' = [u \in NodeUpdates |->
            IF NodeUpdate(n)[u] = "waiting" THEN "woken" ELSE NodeUpdate(n)[u]]
    <3>1. ASSUME NEW u \in NodeUpdates
          PROVE  NodeUpdate(n)'[u] = IF NodeUpdate(n)[u] = "waiting" THEN "woken"
                                     ELSE NodeUpdate(n)[u]
      <4>1. CASE EndAt(n, u[2]) \notin Ends
        BY <4>1 DEF NodeUpdate
      <4>2. CASE EndAt(n, u[2]) \in Ends /\ u[1] < run
        BY <4>2 DEF NodeUpdate
      <4>3. CASE EndAt(n, u[2]) \in Ends /\ u[1] > run
        BY <4>3 DEF NodeUpdate
      <4>4. CASE EndAt(n, u[2]) \in Ends /\ ~(u[1] < run) /\ ~(u[1] > run)
        BY <2>2, <2>3, <4>4 DEF NodeUpdate
      <4>5. QED
        BY <4>1, <4>2, <4>3, <4>4
    <3>2. QED
      BY <3>1 DEF NodeUpdate
  <2>5. QED
    BY <1>1, <1>3, <2>1, <2>4 DEF ViewDecrement
<1>4. QED
  BY <1>2, <1>3

LEMMA ViewServe ==
    ASSUME BaseInv, NEW n \in Nodes, NEW m \in Nodes, NEW t \in Tasks, Serve(m, t)
    PROVE  ViewStep(n)
<1> USE DEF BaseInv, sweepVars, clientVars, nodeVars
<1>0. n \in Hops /\ m \in Hops /\ m + 1 \in Hops /\ n \in Nat /\ m \in Nat
  BY Ranges DEF Nodes
<1>1. CASE Infer(m, t) /\ m # n
  BY <1>0, <1>1, ViewQuiet DEF Infer, TypeOK, ViewStep
<1>2. CASE Infer(n, t) /\ m = n
  <2>1. NodeUpdate(n)' = NodeUpdate(n) /\ NodeConfig(n)' = NodeConfig(n)
    BY <1>2, UpdatesQuiet, ConfigQuiet DEF Infer
  <2>2. NodeStage(n)' = [NodeStage(n) EXCEPT ![t] = "accepted"] /\ NodeStage(n)[t] = "absent"
    <3>1. hop'[t][n] = "accepted" /\ \A x \in Tasks \ {t} : hop'[x][n] = hop[x][n]
      BY <1>0, <1>2 DEF Infer, TypeOK
    <3>2. NodeStage(n)[t] = "absent"
      BY <1>2 DEF Infer, NodeStage
    <3>3. QED
      BY <3>1, <3>2, StageMoves
  <2>3. ViewInfer(n, t)
    BY <1>2, <2>1, <2>2 DEF Infer, ViewInfer, TypeOK
  <2>4. QED
    BY <2>3 DEF ViewStep
<1>3. CASE Process(m, t) /\ m # n
  <2>1. hop[t][m + 1] = "absent"
    BY <1>3 DEF Process, ChainInv, Left
  <2>2. \A x \in Tasks : \/ hop'[x][n] = hop[x][n]
                         \/ /\ hop[x][n] \in {"absent", "posted", "dropped"}
                            /\ hop'[x][n] \in {"absent", "posted", "dropped"}
    BY <1>0, <1>3, <2>1 DEF Process, TypeOK
  <2>3. QED
    BY <1>3, <2>2, ViewQuiet DEF Process, ViewStep
<1>4. CASE Process(n, t) /\ m = n
  <2>1. NodeUpdate(n)' = NodeUpdate(n) /\ NodeConfig(n)' = NodeConfig(n)
    BY <1>4, UpdatesQuiet, ConfigQuiet DEF Process
  <2>2. NodeStage(n)' = [NodeStage(n) EXCEPT ![t] = "sending"] /\ NodeStage(n)[t] = "accepted"
    <3>1. n # n + 1
      BY <1>0
    <3>2. hop'[t][n] = "sending" /\ \A x \in Tasks \ {t} : hop'[x][n] = hop[x][n]
      BY <1>0, <1>4, <3>1 DEF Process, TypeOK
    <3>3. NodeStage(n)[t] = "accepted"
      BY <1>4 DEF Process, NodeStage
    <3>4. QED
      BY <3>2, <3>3, StageMoves
  <2>3. ViewProcess(n, t)
    BY <1>4, <2>1, <2>2 DEF Process, ViewProcess
  <2>4. QED
    BY <2>3 DEF ViewStep
<1>5. CASE Raise(m, t) \/ SendReturns(m, t)
  <2>1. /\ hop[t][m] \in {"accepted", "sending"}
        /\ hop' = [hop EXCEPT ![t][m] = "finished"]
        /\ Decrement(m)
        /\ UNCHANGED <<run, config, restarts>>
    BY <1>5 DEF Raise, SendReturns
  <2>2. CASE m # n
    <3>1. inFlight'[n] = inFlight[n] /\ idleEvent'[n] = idleEvent[n]
      BY <2>1, <2>2 DEF Decrement, TypeOK
    <3>2. \A e \in Ends : NodeOf(e) = n => push'[e] = push[e]
      BY <2>1, <2>2 DEF Decrement
    <3>3. \A x \in Tasks : hop'[x][n] = hop[x][n]
      BY <1>0, <2>1, <2>2 DEF TypeOK
    <3>4. QED
      BY <2>1, <3>1, <3>2, <3>3, ViewQuiet DEF ViewStep
  <2>3. CASE m = n
    <3>1. ViewDecrement(n)
      BY <2>1, <2>3, ViewDecrements
    <3>2. hop'[t][n] = "finished" /\ \A x \in Tasks \ {t} : hop'[x][n] = hop[x][n]
      BY <1>0, <2>1, <2>3 DEF TypeOK
    <3>3. NodeStage(n)' = [NodeStage(n) EXCEPT ![t] = "finished"]
      BY <3>2, StageMoves
    <3>4. NodeStage(n)[t] \in {"accepted", "sending"}
      BY <2>1, <2>3 DEF NodeStage
    <3>5. NodeConfig(n)' = NodeConfig(n)
      BY <2>1, ConfigQuiet
    <3>6. ViewFinish(n, t)
      BY <2>1, <3>1, <3>3, <3>4, <3>5 DEF ViewFinish
    <3>7. QED
      BY <3>6 DEF ViewStep
  <2>4. QED
    BY <2>2, <2>3
<1>6. QED
  BY <1>1, <1>2, <1>3, <1>4, <1>5 DEF Serve

LEMMA ViewRestarts ==
    ASSUME BaseInv, NEW n \in Nodes, NEW m \in Nodes, Restart(m)
    PROVE  ViewStep(n)
<1> USE DEF BaseInv, TypeOK, sweepVars, clientVars, nodeVars
<1>0. n \in Hops
  BY Ranges
<1>1. CASE m # n
  <2>1. /\ run' = run /\ inFlight'[n] = inFlight[n] /\ idleEvent'[n] = idleEvent[n]
        /\ restarts'[n] = restarts[n]
    BY <1>1 DEF Restart
  <2>2. \A e \in Ends : NodeOf(e) = n => push'[e] = push[e] /\ config'[e] = config[e]
    BY <1>1 DEF Restart
  <2>3. \A x \in Tasks : hop'[x][n] = hop[x][n]
    BY <1>0, <1>1 DEF Restart
  <2>4. QED
    BY <2>1, <2>2, <2>3, ViewQuiet DEF ViewStep
<1>2. CASE m = n
  <2>1. /\ restarts[n] < MaxRestarts /\ restarts'[n] = restarts[n] + 1
        /\ inFlight'[n] = 0 /\ idleEvent'[n] = TRUE /\ run' = run
    BY <1>2 DEF Restart
  <2>2. \A t \in Tasks : hop'[t][n] = IF hop[t][n] \in {"accepted", "sending"}
                                      THEN "finished" ELSE hop[t][n]
    BY <1>0, <1>2 DEF Restart
  <2>3. NodeStage(n)' = [t \in Tasks |->
          IF NodeStage(n)[t] \in {"accepted", "sending"} THEN "finished" ELSE NodeStage(n)[t]]
    BY <2>2 DEF NodeStage
  <2>4. \A d \in Directions : EndAt(n, d) \in Ends =>
            /\ push'[EndAt(n, d)] = IF push[EndAt(n, d)] \in PushPending
                                    THEN "lost" ELSE push[EndAt(n, d)]
            /\ config'[EndAt(n, d)] = Default[EndAt(n, d)[1]]
    BY <1>2, EndFacts DEF Restart, PushPending
  <2>5. ASSUME NEW u \in NodeUpdates
        PROVE  NodeUpdate(n)'[u] = IF NodeUpdate(n)[u] \in PushPending
                                   THEN "lost" ELSE NodeUpdate(n)[u]
    <3>1. u[2] \in Directions
      BY DEF NodeUpdates
    <3>2. CASE EndAt(n, u[2]) \notin Ends
      BY <3>2 DEF NodeUpdate, PushPending
    <3>3. CASE EndAt(n, u[2]) \in Ends /\ u[1] < run
      BY <2>1, <3>3 DEF NodeUpdate, PushPending
    <3>4. CASE EndAt(n, u[2]) \in Ends /\ u[1] > run
      BY <2>1, <3>4 DEF NodeUpdate, PushPending
    <3>5. CASE EndAt(n, u[2]) \in Ends /\ ~(u[1] < run) /\ ~(u[1] > run)
      BY <2>1, <2>4, <3>1, <3>5 DEF NodeUpdate
    <3>6. QED
      BY <3>2, <3>3, <3>4, <3>5
  <2>6. NodeUpdate(n)' = [u \in NodeUpdates |->
          IF NodeUpdate(n)[u] \in PushPending THEN "lost" ELSE NodeUpdate(n)[u]]
    BY <2>5 DEF NodeUpdate
  <2>7. NodeConfig(n)' = NodeDefault(n)
    BY <2>4 DEF NodeConfig, NodeDefault
  <2>8. QED
    BY <2>1, <2>3, <2>6, <2>7 DEF ViewStep, ViewRestart
<1>3. QED
  BY <1>1, <1>2

\* Every step of the pipeline is a step of node n or leaves it alone.
LEMMA ViewStepHolds ==
    ASSUME BaseInv, NEW n \in Nodes, [Next]_vars
    PROVE  ViewStep(n)
<1> USE DEF BaseInv, TypeOK, sweepVars, clientVars, nodeVars
<1>0. n \in Hops /\ n # N + 1
  BY Ranges, PipelineAssumption DEF Nodes
<1>1. CASE StartRun \/ PushFails \/ PushBreaks \/ UNCHANGED vars
  BY <1>1, ViewQuiet DEF StartRun, PushFails, PushBreaks, vars, ViewStep
<1>2. CASE FinishRun
  BY <1>2, ViewFinishRun DEF ViewStep
<1>3. ASSUME NEW e \in Ends, Configure(e)
      PROVE  ViewStep(n)
  BY <1>3, ViewConfigure
<1>4. ASSUME NEW b \in Batches, SendBatch(b)
      PROVE  ViewStep(n)
  <2> DEFINE t == <<run, b>>
  <2>1. t \in Tasks /\ 1 \in Hops
    BY Ranges
  <2>2. hop[t][1] = "absent" /\ hop' = [hop EXCEPT ![t][1] = "posted"]
    BY <1>4, <2>1 DEF SendBatch, ClientInv
  <2>3. \A x \in Tasks : \/ hop'[x][n] = hop[x][n]
                         \/ /\ hop[x][n] \in {"absent", "posted", "dropped"}
                            /\ hop'[x][n] \in {"absent", "posted", "dropped"}
    BY <1>0, <2>1, <2>2
  <2>4. QED
    BY <1>4, <2>3, ViewQuiet DEF SendBatch, ViewStep
<1>5. ASSUME NEW t \in Tasks, Client(t)
      PROVE  ViewStep(n)
  <2>1. CASE HandleResult(t)
    <3>1. \A x \in Tasks : hop'[x][n] = hop[x][n]
      BY <1>0, <2>1 DEF HandleResult
    <3>2. QED
      BY <2>1, <3>1, ViewQuiet DEF HandleResult, ViewStep
  <2>2. CASE PostReturns(t) \/ PostFails(t) \/ Collect(t) \/ ResultTimeout(t)
    BY <2>2, ViewQuiet DEF PostReturns, PostFails, Collect, ResultTimeout, ViewStep
  <2>3. QED
    BY <1>5, <2>1, <2>2 DEF Client
<1>6. ASSUME NEW m \in Nodes, NEW t \in Tasks, Serve(m, t)
      PROVE  ViewStep(n)
  BY <1>6, ViewServe
<1>7. ASSUME NEW h \in Hops, NEW t \in Tasks, Drop(h, t)
      PROVE  ViewStep(n)
  <2>1. \A x \in Tasks : \/ hop'[x][n] = hop[x][n]
                         \/ /\ hop[x][n] \in {"absent", "posted", "dropped"}
                            /\ hop'[x][n] \in {"absent", "posted", "dropped"}
    BY <1>0, <1>7 DEF Drop
  <2>2. QED
    BY <1>7, <2>1, ViewQuiet DEF Drop, ViewStep
<1>8. ASSUME NEW m \in Nodes, Restart(m)
      PROVE  ViewStep(n)
  BY <1>8, ViewRestarts
<1>9. QED
  BY <1>1, <1>2, <1>3, <1>4, <1>5, <1>6, <1>7, <1>8 DEF Next

\* Before the first run nothing has reached a node.
LEMMA ViewInit ==
    ASSUME Init, NEW n \in Nodes
    PROVE  /\ inFlight[n] = 0 /\ idleEvent[n] = TRUE /\ restarts[n] = 0
           /\ NodeStage(n) = [t \in Tasks |-> "absent"]
           /\ NodeUpdate(n) = [u \in NodeUpdates |-> "absent"]
           /\ NodeConfig(n) = NodeDefault(n)
<1>1. NodeStage(n) = [t \in Tasks |-> "absent"]
  BY Ranges DEF Init, NodeStage
<1>2. NodeUpdate(n) = [u \in NodeUpdates |-> "absent"]
  <2>1. \A u \in NodeUpdates : ~(u[1] < run)
    BY DEF Init, NodeUpdates, Runs
  <2>2. QED
    BY <2>1 DEF Init, NodeUpdate
<1>3. NodeConfig(n) = NodeDefault(n)
  BY DEF Init, NodeConfig, NodeDefault
<1>4. QED
  BY <1>1, <1>2, <1>3 DEF Init

LEMMA RunKnown == TypeOK => run \in Runs
BY DEF TypeOK

LEMMA OneAndN == 1 \in Nodes /\ N \in Nodes
BY PipelineAssumption DEF Nodes

\* Only the updates of the current run have handlers on a node.
LEMMA CurrentHandlers ==
    ASSUME TypeOK, NEW n \in Nodes, NEW u \in NodeUpdates, NodeUpdate(n)[u] \in PushPending
    PROVE  u = <<run, u[2]>>
<1>1. u[1] \in Nat /\ u = <<u[1], u[2]>> /\ run \in Nat
  BY DEF NodeUpdates, TypeOK, Runs
<1>2. u[1] = run
  BY <1>1 DEF NodeUpdate, PushPending
<1>3. QED
  BY <1>1, <1>2

\* So two that concern the same direction are one.
LEMMA OneHandler ==
    ASSUME TypeOK, NEW n \in Nodes, NEW u \in NodeUpdates, NEW v \in NodeUpdates,
           NodeUpdate(n)[v] \in PushPending, NodeDirection[v] = NodeDirection[u],
           NodeUpdate(n)[u] \in PushPending \/ u = <<run, u[2]>>
    PROVE  u = v
BY CurrentHandlers DEF NodeDirection

LEMMA AheadKept == NodeAhead' = NodeAhead
BY DEF NodeAhead, NodeUpdates, Runs, Directions

LEMMA FirstNodeInit == Init => FirstNode!Init
<1> SUFFICES ASSUME Init
             PROVE  FirstNode!Init
  OBVIOUS
<1>1. QED
  BY OneAndN, ViewInit DEF FirstNode!Init, FirstNode!Directions, Directions, NodeAhead

LEMMA FirstNodeHandlers ==
    ASSUME TypeOK
    PROVE  /\ FirstNode!Pending = {u \in NodeUpdates : NodeUpdate(1)[u] \in PushPending}
           /\ \A u \in FirstNode!Blocked : FirstNode!Ready \cap FirstNode!SameDirection(u) = {}
           /\ \A u \in NodeUpdates :
                 /\ u = <<run, u[2]>> /\ u \notin FirstNode!Ready
                       => FirstNode!Ready \cap FirstNode!SameDirection(u) = {}
                 /\ u = <<run, u[2]>> /\ u \notin FirstNode!Blocked
                       => FirstNode!Blocked \cap FirstNode!SameDirection(u) = {}
                 /\ FirstNode!AheadWithout(u) = NodeAhead
<1>1. /\ FirstNode!Ready = {u \in NodeUpdates :
                             NodeUpdate(1)[u] \in {"posted", "woken", "drained"}}
      /\ FirstNode!Blocked = {u \in NodeUpdates : NodeUpdate(1)[u] = "waiting"}
      /\ \A u : FirstNode!SameDirection(u) =
                   {v \in NodeUpdates : NodeDirection[v] = NodeDirection[u]}
  BY DEF FirstNode!Ready, FirstNode!Blocked, FirstNode!SameDirection
<1>2. FirstNode!Pending = {u \in NodeUpdates : NodeUpdate(1)[u] \in PushPending}
  BY <1>1 DEF FirstNode!Pending, PushPending
<1>3. \A u \in FirstNode!Blocked : FirstNode!Ready \cap FirstNode!SameDirection(u) = {}
  BY <1>1, OneAndN, OneHandler DEF PushPending
<1>4. ASSUME NEW u \in NodeUpdates, u = <<run, u[2]>>
      PROVE  /\ u \notin FirstNode!Ready => FirstNode!Ready \cap FirstNode!SameDirection(u) = {}
             /\ u \notin FirstNode!Blocked => FirstNode!Blocked \cap FirstNode!SameDirection(u) = {}
  BY <1>1, <1>4, OneAndN, OneHandler DEF PushPending
<1>5. \A u \in NodeUpdates : FirstNode!AheadWithout(u) = NodeAhead
  BY DEF FirstNode!AheadWithout, NodeAhead
<1>6. QED
  BY <1>2, <1>3, <1>4, <1>5

LEMMA FirstNodeStep ==
    ASSUME TypeOK, ViewStep(1)
    PROVE  [FirstNode!Next]_(FirstNode!vars)
<1>0. NodeAhead' = NodeAhead
  BY AheadKept
<1>1. CASE UNCHANGED View(1)
  BY <1>0, <1>1 DEF View, FirstNode!vars
<1>2. ASSUME NEW t \in Tasks, ViewInfer(1, t)
      PROVE  FirstNode!Next
  BY <1>0, <1>2 DEF ViewInfer, FirstNode!Next, FirstNode!Infer, FirstNode!Increment
<1>3. ASSUME NEW t \in Tasks, ViewProcess(1, t)
      PROVE  FirstNode!Next
  BY <1>0, <1>3 DEF ViewProcess, FirstNode!Next, FirstNode!Processing, FirstNode!Process
<1>4. ASSUME NEW t \in Tasks, ViewFinish(1, t)
      PROVE  FirstNode!Next
  <2>1. ViewDecrement(1) => FirstNode!Decrement
    <3>1. NodeAhead' = [u \in NodeUpdates |->
             IF u \in FirstNode!Blocked
             THEN NodeAhead[u] \cup (FirstNode!Ready \cap FirstNode!SameDirection(u))
             ELSE NodeAhead[u]]
      BY <1>0, FirstNodeHandlers DEF NodeAhead
    <3>2. \A u \in NodeUpdates : u \in FirstNode!Blocked <=> NodeUpdate(1)[u] = "waiting"
      BY DEF FirstNode!Blocked
    <3>3. ViewDecrement(1) /\ inFlight[1]' = 0 => FirstNode!Wake
      BY <3>1, <3>2 DEF ViewDecrement, FirstNode!Wake
    <3>4. QED
      BY <1>0, <3>3 DEF ViewDecrement, FirstNode!Decrement
  <2>2. QED
    BY <1>4, <2>1
    DEF ViewFinish, FirstNode!Next, FirstNode!Processing, FirstNode!Raise, FirstNode!SendReturns
<1>5. ASSUME NEW d \in Directions,
             \/ ViewPostConfig(1, d) \/ ViewLookAtEvent(1, d)
             \/ ViewApplyConfig(1, d) \/ ViewDrainTimeout(1, d)
      PROVE  FirstNode!Next
  <2> DEFINE u == <<run, d>>
  <2>1. u \in NodeUpdates /\ NodeDirection[u] = d /\ u = <<run, u[2]>>
    BY RunKnown DEF NodeUpdates, NodeDirection
  <2>2. NodeAhead[u] = {} /\ [NodeAhead EXCEPT ![u] = {}] = NodeAhead
    BY <2>1 DEF NodeAhead
  <2>3. CASE ViewPostConfig(1, d)
    <3>1. NodeUpdate(1)[u] = "absent"
      BY <2>3 DEF ViewPostConfig, ViewUpdateMoves
    <3>2. FirstNode!Ready \cap FirstNode!SameDirection(u) = {}
      BY <2>1, <3>1, FirstNodeHandlers DEF FirstNode!Ready
    <3>3. FirstNode!PostConfig(u)
      BY <1>0, <2>1, <2>2, <2>3, <3>2
      DEF ViewPostConfig, ViewUpdateMoves, FirstNode!PostConfig, FirstNode!Directions,
          Directions
    <3>4. QED
      BY <2>1, <3>3 DEF FirstNode!Next
  <2>4. CASE ViewLookAtEvent(1, d)
    <3>1. NodeUpdate(1)[u] = "posted"
      BY <2>4 DEF ViewLookAtEvent, ViewUpdateMoves
    <3>2. /\ FirstNode!Blocked \cap FirstNode!SameDirection(u) = {}
          /\ FirstNode!AheadWithout(u) = NodeAhead
      BY <2>1, <3>1, FirstNodeHandlers DEF FirstNode!Blocked
    <3>3. FirstNode!LookAtEvent(u)
      BY <1>0, <2>1, <2>2, <2>4, <3>1, <3>2
      DEF ViewLookAtEvent, ViewUpdateMoves, FirstNode!LookAtEvent
    <3>4. QED
      BY <2>1, <3>3 DEF FirstNode!Next, FirstNode!Updating
  <2>5. CASE ViewApplyConfig(1, d)
    <3>1. FirstNode!ApplyConfig(u)
      BY <1>0, <2>1, <2>2, <2>5, FirstNodeHandlers DEF ViewApplyConfig, FirstNode!ApplyConfig
    <3>2. QED
      BY <2>1, <3>1 DEF FirstNode!Next, FirstNode!Updating
  <2>6. CASE ViewDrainTimeout(1, d)
    <3>1. FirstNode!DrainTimeout(u)
      BY <1>0, <2>1, <2>6, FirstNodeHandlers
      DEF ViewDrainTimeout, ViewUpdateMoves, FirstNode!DrainTimeout
    <3>2. QED
      BY <2>1, <3>1 DEF FirstNode!Next, FirstNode!Updating
  <2>7. QED
    BY <1>5, <2>3, <2>4, <2>5, <2>6
<1>6. CASE ViewRestart(1)
  <2>1. NodeAhead' = [u \in NodeUpdates |-> {}]
    BY <1>0 DEF NodeAhead
  <2>2. \A u \in NodeUpdates : u \in FirstNode!Pending <=> NodeUpdate(1)[u] \in PushPending
    BY FirstNodeHandlers
  <2>3. FirstNode!Restart
    BY <1>6, <2>1, <2>2
    DEF ViewRestart, FirstNode!Restart, FirstNode!InFlight, FirstNode!Directions, Directions
  <2>4. QED
    BY <2>3 DEF FirstNode!Next
<1>7. QED
  BY <1>1, <1>2, <1>3, <1>4, <1>5, <1>6 DEF ViewStep

LEMMA LastNodeInit == Init => LastNode!Init
<1> SUFFICES ASSUME Init
             PROVE  LastNode!Init
  OBVIOUS
<1>1. QED
  BY OneAndN, ViewInit DEF LastNode!Init, LastNode!Directions, Directions, NodeAhead

LEMMA LastNodeHandlers ==
    ASSUME TypeOK
    PROVE  /\ LastNode!Pending = {u \in NodeUpdates : NodeUpdate(N)[u] \in PushPending}
           /\ \A u \in LastNode!Blocked : LastNode!Ready \cap LastNode!SameDirection(u) = {}
           /\ \A u \in NodeUpdates :
                 /\ u = <<run, u[2]>> /\ u \notin LastNode!Ready
                       => LastNode!Ready \cap LastNode!SameDirection(u) = {}
                 /\ u = <<run, u[2]>> /\ u \notin LastNode!Blocked
                       => LastNode!Blocked \cap LastNode!SameDirection(u) = {}
                 /\ LastNode!AheadWithout(u) = NodeAhead
<1>1. /\ LastNode!Ready = {u \in NodeUpdates :
                             NodeUpdate(N)[u] \in {"posted", "woken", "drained"}}
      /\ LastNode!Blocked = {u \in NodeUpdates : NodeUpdate(N)[u] = "waiting"}
      /\ \A u : LastNode!SameDirection(u) =
                   {v \in NodeUpdates : NodeDirection[v] = NodeDirection[u]}
  BY DEF LastNode!Ready, LastNode!Blocked, LastNode!SameDirection
<1>2. LastNode!Pending = {u \in NodeUpdates : NodeUpdate(N)[u] \in PushPending}
  BY <1>1 DEF LastNode!Pending, PushPending
<1>3. \A u \in LastNode!Blocked : LastNode!Ready \cap LastNode!SameDirection(u) = {}
  BY <1>1, OneAndN, OneHandler DEF PushPending
<1>4. ASSUME NEW u \in NodeUpdates, u = <<run, u[2]>>
      PROVE  /\ u \notin LastNode!Ready => LastNode!Ready \cap LastNode!SameDirection(u) = {}
             /\ u \notin LastNode!Blocked => LastNode!Blocked \cap LastNode!SameDirection(u) = {}
  BY <1>1, <1>4, OneAndN, OneHandler DEF PushPending
<1>5. \A u \in NodeUpdates : LastNode!AheadWithout(u) = NodeAhead
  BY DEF LastNode!AheadWithout, NodeAhead
<1>6. QED
  BY <1>2, <1>3, <1>4, <1>5

LEMMA LastNodeStep ==
    ASSUME TypeOK, ViewStep(N)
    PROVE  [LastNode!Next]_(LastNode!vars)
<1>0. NodeAhead' = NodeAhead
  BY AheadKept
<1>1. CASE UNCHANGED View(N)
  BY <1>0, <1>1 DEF View, LastNode!vars
<1>2. ASSUME NEW t \in Tasks, ViewInfer(N, t)
      PROVE  LastNode!Next
  BY <1>0, <1>2 DEF ViewInfer, LastNode!Next, LastNode!Infer, LastNode!Increment
<1>3. ASSUME NEW t \in Tasks, ViewProcess(N, t)
      PROVE  LastNode!Next
  BY <1>0, <1>3 DEF ViewProcess, LastNode!Next, LastNode!Processing, LastNode!Process
<1>4. ASSUME NEW t \in Tasks, ViewFinish(N, t)
      PROVE  LastNode!Next
  <2>1. ViewDecrement(N) => LastNode!Decrement
    <3>1. NodeAhead' = [u \in NodeUpdates |->
             IF u \in LastNode!Blocked
             THEN NodeAhead[u] \cup (LastNode!Ready \cap LastNode!SameDirection(u))
             ELSE NodeAhead[u]]
      BY <1>0, LastNodeHandlers DEF NodeAhead
    <3>2. \A u \in NodeUpdates : u \in LastNode!Blocked <=> NodeUpdate(N)[u] = "waiting"
      BY DEF LastNode!Blocked
    <3>3. ViewDecrement(N) /\ inFlight[N]' = 0 => LastNode!Wake
      BY <3>1, <3>2 DEF ViewDecrement, LastNode!Wake
    <3>4. QED
      BY <1>0, <3>3 DEF ViewDecrement, LastNode!Decrement
  <2>2. QED
    BY <1>4, <2>1
    DEF ViewFinish, LastNode!Next, LastNode!Processing, LastNode!Raise, LastNode!SendReturns
<1>5. ASSUME NEW d \in Directions,
             \/ ViewPostConfig(N, d) \/ ViewLookAtEvent(N, d)
             \/ ViewApplyConfig(N, d) \/ ViewDrainTimeout(N, d)
      PROVE  LastNode!Next
  <2> DEFINE u == <<run, d>>
  <2>1. u \in NodeUpdates /\ NodeDirection[u] = d /\ u = <<run, u[2]>>
    BY RunKnown DEF NodeUpdates, NodeDirection
  <2>2. NodeAhead[u] = {} /\ [NodeAhead EXCEPT ![u] = {}] = NodeAhead
    BY <2>1 DEF NodeAhead
  <2>3. CASE ViewPostConfig(N, d)
    <3>1. NodeUpdate(N)[u] = "absent"
      BY <2>3 DEF ViewPostConfig, ViewUpdateMoves
    <3>2. LastNode!Ready \cap LastNode!SameDirection(u) = {}
      BY <2>1, <3>1, LastNodeHandlers DEF LastNode!Ready
    <3>3. LastNode!PostConfig(u)
      BY <1>0, <2>1, <2>2, <2>3, <3>2
      DEF ViewPostConfig, ViewUpdateMoves, LastNode!PostConfig, LastNode!Directions,
          Directions
    <3>4. QED
      BY <2>1, <3>3 DEF LastNode!Next
  <2>4. CASE ViewLookAtEvent(N, d)
    <3>1. NodeUpdate(N)[u] = "posted"
      BY <2>4 DEF ViewLookAtEvent, ViewUpdateMoves
    <3>2. /\ LastNode!Blocked \cap LastNode!SameDirection(u) = {}
          /\ LastNode!AheadWithout(u) = NodeAhead
      BY <2>1, <3>1, LastNodeHandlers DEF LastNode!Blocked
    <3>3. LastNode!LookAtEvent(u)
      BY <1>0, <2>1, <2>2, <2>4, <3>1, <3>2
      DEF ViewLookAtEvent, ViewUpdateMoves, LastNode!LookAtEvent
    <3>4. QED
      BY <2>1, <3>3 DEF LastNode!Next, LastNode!Updating
  <2>5. CASE ViewApplyConfig(N, d)
    <3>1. LastNode!ApplyConfig(u)
      BY <1>0, <2>1, <2>2, <2>5, LastNodeHandlers DEF ViewApplyConfig, LastNode!ApplyConfig
    <3>2. QED
      BY <2>1, <3>1 DEF LastNode!Next, LastNode!Updating
  <2>6. CASE ViewDrainTimeout(N, d)
    <3>1. LastNode!DrainTimeout(u)
      BY <1>0, <2>1, <2>6, LastNodeHandlers
      DEF ViewDrainTimeout, ViewUpdateMoves, LastNode!DrainTimeout
    <3>2. QED
      BY <2>1, <3>1 DEF LastNode!Next, LastNode!Updating
  <2>7. QED
    BY <1>5, <2>3, <2>4, <2>5, <2>6
<1>6. CASE ViewRestart(N)
  <2>1. NodeAhead' = [u \in NodeUpdates |-> {}]
    BY <1>0 DEF NodeAhead
  <2>2. \A u \in NodeUpdates : u \in LastNode!Pending <=> NodeUpdate(N)[u] \in PushPending
    BY LastNodeHandlers
  <2>3. LastNode!Restart
    BY <1>6, <2>1, <2>2
    DEF ViewRestart, LastNode!Restart, LastNode!InFlight, LastNode!Directions, Directions
  <2>4. QED
    BY <2>3 DEF LastNode!Next
<1>7. QED
  BY <1>1, <1>2, <1>3, <1>4, <1>5, <1>6 DEF ViewStep

\* The constants of the two instances are what NodeServer assumes of its own.
LEMMA NodeConstants ==
    ASSUME NEW n \in Nodes
    PROVE  /\ NodeValue(n) \in [NodeUpdates -> Configs \cup {NoConfig}]
           /\ DOMAIN NodeDirection = NodeUpdates
           /\ NodeDefault(n) \in [Directions -> Configs \cup {NoConfig}]
           /\ TRUE \in BOOLEAN /\ MaxRestarts \in Nat
<1>1. \A e \in Ends : e[1] \in Links
  BY DEF Ends
<1>2. \A u \in NodeUpdates : u[1] \in Runs
  BY DEF NodeUpdates
<1>3. QED
  BY <1>1, <1>2, PipelineAssumption DEF NodeValue, NodeDefault, NodeDirection

\* The first and the last node behave as the component NodeServer without its
\* prober: every step of the orchestrator, of a message or of another node is a step
\* of theirs or leaves them alone, so the safety of NodeServer is also theirs.
THEOREM NodesImplemented == Spec => EndNodesAreNodeServers
<1>1. Init => BaseInv /\ FirstNode!Init /\ LastNode!Init
  BY IInvInit, FirstNodeInit, LastNodeInit DEF IInv
<1>2. BaseInv /\ [Next]_vars => [FirstNode!Next]_(FirstNode!vars)
  BY OneAndN, ViewStepHolds, FirstNodeStep DEF BaseInv
<1>3. BaseInv /\ [Next]_vars => [LastNode!Next]_(LastNode!vars)
  BY OneAndN, ViewStepHolds, LastNodeStep DEF BaseInv
<1>4. QED
  BY <1>1, <1>2, <1>3, BaseStep, PTL
  DEF Spec, EndNodesAreNodeServers, FirstNode!Spec, LastNode!Spec
=============================================================================
