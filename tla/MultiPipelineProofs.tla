------------------------ MODULE MultiPipelineProofs ------------------------
(***************************************************************************)
(* The rounds over pipelines that share the nodes, for any number of       *)
(* nodes, pipelines, rounds, tasks, faults and restarts: what a round      *)
(* records was compressed and decompressed with that round's settings of   *)
(* its pipeline, the results of all pipelines implement Sweep, and without *)
(* faults and restarts every task of every pipeline is recorded.           *)
(***************************************************************************)
EXTENDS MultiPipeline, FiniteSetTheorems, TLAPS

-----------------------------------------------------------------------------
(* Facts about ranges, cited below.                                        *)

LEMMA NodeRanges ==
    /\ 1 \in Hops /\ N + 1 \in Hops /\ N \in Nodes /\ 1 # N + 1
    /\ \A n \in Nodes : n \in Hops /\ n + 1 \in Hops /\ n <= N /\ n # n + 1 /\ n + 1 # 1
    /\ \A n \in Nodes : n # 1 => n - 1 \in Nodes /\ n - 1 # N /\ (n - 1) + 1 = n
    /\ \A n \in Nodes : n # N => n + 1 \in Nodes /\ (n + 1) - 1 = n
    /\ \A e \in Ends : e[1] \in Links
  BY MultiPipelineAssumption DEF Nodes, Hops, Ends, Directions, Links

LEMMA TaskRanges ==
    \A t \in Tasks :
        /\ RoundOf(t) \in Rounds /\ PipeOf(t) \in Pipelines /\ t[3] \in Batches
        /\ t = <<RoundOf(t), PipeOf(t), t[3]>>
  BY DEF Tasks, RoundOf, PipeOf

LEMMA LinkRanges ==
    ASSUME NEW t \in Tasks, NEW n \in Nodes
    PROVE  /\ n # 1 => /\ Before(t, n) \in LinksOf(t) /\ Before(t, n) \in Links
                       /\ <<Before(t, n), "incoming">> \in Ends
                       /\ Before(t, n) = After(t, n - 1)
           /\ n # N => /\ After(t, n) \in LinksOf(t) /\ After(t, n) \in Links
                       /\ <<After(t, n), "outgoing">> \in Ends
                       /\ After(t, n) = Before(t, n + 1)
<1>1. n # 1 => n - 1 \in 1 .. N - 1
  BY MultiPipelineAssumption DEF Nodes
<1>2. n # N => n \in 1 .. N - 1 /\ (n + 1) - 1 = n
  BY MultiPipelineAssumption DEF Nodes
<1>3. QED
  BY <1>1, <1>2, TaskRanges DEF Before, After, LinksOf, Links, Ends, Directions

LEMMA TasksFinite == IsFiniteSet(Tasks)
<1>1. IsFiniteSet(Rounds) /\ IsFiniteSet(Batches) /\ IsFiniteSet(Pipelines)
  BY FS_Interval, MultiPipelineAssumption DEF Rounds, Batches
<1>2. IsFiniteSet(Pipelines \X Batches)
  BY <1>1, FS_Product
<1>3. IsFiniteSet(Rounds \X (Pipelines \X Batches))
  BY <1>1, <1>2, FS_Product
<1> DEFINE f == [x \in Rounds \X (Pipelines \X Batches) |-> <<x[1], x[2][1], x[2][2]>>]
<1>4. f \in Surjection(Rounds \X (Pipelines \X Batches), Tasks)
  <2>1. f \in [Rounds \X (Pipelines \X Batches) -> Tasks]
    BY DEF Tasks
  <2>2. ASSUME NEW t \in Tasks
        PROVE  \E x \in Rounds \X (Pipelines \X Batches) : f[x] = t
    <3>1. <<t[1], <<t[2], t[3]>>>> \in Rounds \X (Pipelines \X Batches)
      BY DEF Tasks
    <3>2. f[<<t[1], <<t[2], t[3]>>>>] = t
      BY <3>1 DEF Tasks
    <3>3. QED
      BY <3>1, <3>2
  <2>3. QED
    BY <2>1, <2>2 DEF Surjection
<1>5. QED
  BY <1>3, <1>4, FS_Surjection

-----------------------------------------------------------------------------
(* What serving the backlog of node n does to each task.                   *)

Skips(n, t) ==
    /\ hop[t][n] # "queued"
    /\ hop'[t] = hop[t] /\ enc'[t] = enc[t] /\ dec'[t] = dec[t]

Raises(n, t) ==
    /\ hop[t][n] = "queued"
    /\ hop'[t] = [hop[t] EXCEPT ![n] = "finished"]
    /\ enc'[t] = enc[t] /\ dec'[t] = dec[t]

Passes(n, t) ==
    /\ hop[t][n] = "queued"
    /\ Decodable(n, t)
    /\ hop'[t] = [hop[t] EXCEPT ![n] = "finished", ![n + 1] = "posted"]
    /\ dec'[t] = IF n > 1
                 THEN [dec[t] EXCEPT ![Before(t, n)] = config[<<Before(t, n), "incoming">>]]
                 ELSE dec[t]
    /\ enc'[t] = IF n < N
                 THEN [enc[t] EXCEPT ![After(t, n)] = config[<<After(t, n), "outgoing">>]]
                 ELSE enc[t]

LEMMA BacklogEffect ==
    ASSUME NEW n \in Nodes, NEW raised \in SUBSET Queue(n), ServeBacklog(n, raised),
           NEW t \in Tasks
    PROVE  /\ t \in raised => Raises(n, t)
           /\ t \in Queue(n) \ raised => Passes(n, t)
           /\ t \notin Queue(n) => Skips(n, t)
<1>1. ASSUME t \in raised
      PROVE  Raises(n, t)
  BY <1>1 DEF Raises, ServeBacklog, Queue
<1>2. ASSUME t \in Queue(n) \ raised
      PROVE  Passes(n, t)
  <2>1. hop'[t] = [hop[t] EXCEPT ![n] = "finished", ![n + 1] = "posted"]
    BY <1>2 DEF ServeBacklog
  <2>2. dec'[t] = IF n > 1
          THEN [dec[t] EXCEPT ![Before(t, n)] = config[<<Before(t, n), "incoming">>]]
          ELSE dec[t]
    BY <1>2 DEF ServeBacklog
  <2>3. enc'[t] = IF n < N
          THEN [enc[t] EXCEPT ![After(t, n)] = config[<<After(t, n), "outgoing">>]]
          ELSE enc[t]
    BY <1>2 DEF ServeBacklog
  <2>4. Decodable(n, t) /\ hop[t][n] = "queued"
    BY <1>2 DEF ServeBacklog, Queue
  <2>5. QED
    BY <2>1, <2>2, <2>3, <2>4 DEF Passes
<1>3. ASSUME t \notin Queue(n)
      PROVE  Skips(n, t)
  BY <1>3 DEF Skips, ServeBacklog, Queue
<1>4. QED
  BY <1>1, <1>2, <1>3

LEMMA ServeEffect ==
    ASSUME NEW n \in Nodes, Serve(n)
    PROVE  /\ \A t \in Tasks : Skips(n, t) \/ Raises(n, t) \/ Passes(n, t)
           /\ phase' = phase /\ round' = round /\ client' = client /\ future' = future
           /\ config' = config /\ restarts' = restarts
           /\ idleEvent' = [idleEvent EXCEPT ![n] = TRUE]
           /\ push' = [e \in Ends |-> IF NodeOf(e) = n /\ push[e] = "waiting"
                                      THEN "woken" ELSE push[e]]
<1>1. PICK raised \in SUBSET Queue(n) : ServeBacklog(n, raised)
  BY DEF Serve
<1>2. \A t \in Tasks : Skips(n, t) \/ Raises(n, t) \/ Passes(n, t)
  BY <1>1, BacklogEffect
<1>3. QED
  BY <1>1, <1>2 DEF ServeBacklog, Wake, roundVars, clientVars

-----------------------------------------------------------------------------
(* Type correctness.                                                       *)

LEMMA TypeInit == Init => TypeOK
  BY MultiPipelineAssumption
  DEF Init, TypeOK, Phases, PushStages, ClientStages, HopStages, Rounds

LEMMA ServeType ==
    ASSUME TypeOK, NEW n \in Nodes, Serve(n)
    PROVE  TypeOK'
<1> USE DEF TypeOK
<1>1. PICK raised \in SUBSET Queue(n) : ServeBacklog(n, raised)
  BY DEF Serve
<1>2. \A t \in Tasks : Skips(n, t) \/ Raises(n, t) \/ Passes(n, t)
  BY ServeEffect
<1>3. ASSUME NEW t \in Tasks
      PROVE  /\ hop'[t] \in [Hops -> HopStages]
             /\ enc'[t] \in [Links -> Configs \cup {NoConfig}]
             /\ dec'[t] \in [Links -> Configs \cup {NoConfig}]
  <2>1. /\ hop[t] \in [Hops -> HopStages]
        /\ enc[t] \in [Links -> Configs \cup {NoConfig}]
        /\ dec[t] \in [Links -> Configs \cup {NoConfig}]
    OBVIOUS
  <2>2. CASE Skips(n, t)
    BY <2>1, <2>2 DEF Skips
  <2>3. CASE Raises(n, t)
    BY <2>1, <2>3 DEF Raises, HopStages
  <2>4. CASE Passes(n, t)
    <3>1. hop'[t] \in [Hops -> HopStages]
      BY <2>1, <2>4 DEF Passes, HopStages
    <3>2. n > 1 => n # 1
      OBVIOUS
    <3>3. n < N => n # N
      BY MultiPipelineAssumption DEF Nodes
    <3>4. n > 1 => config[<<Before(t, n), "incoming">>] \in Configs
      BY <3>2, LinkRanges
    <3>5. n < N => config[<<After(t, n), "outgoing">>] \in Configs
      BY <3>3, LinkRanges
    <3>6. dec'[t] \in [Links -> Configs \cup {NoConfig}]
      <4>1. dec'[t] = IF n > 1
              THEN [dec[t] EXCEPT ![Before(t, n)] = config[<<Before(t, n), "incoming">>]]
              ELSE dec[t]
        BY <2>4 DEF Passes
      <4>2. QED
        BY ONLY <2>1, <3>4, <4>1
    <3>7. enc'[t] \in [Links -> Configs \cup {NoConfig}]
      <4>1. enc'[t] = IF n < N
              THEN [enc[t] EXCEPT ![After(t, n)] = config[<<After(t, n), "outgoing">>]]
              ELSE enc[t]
        BY <2>4 DEF Passes
      <4>2. QED
        BY ONLY <2>1, <3>5, <4>1
    <3>8. QED
      BY <3>1, <3>6, <3>7
  <2>5. QED
    BY <1>2, <2>2, <2>3, <2>4
<1>4. /\ hop' \in [Tasks -> [Hops -> HopStages]]
      /\ enc' \in [Tasks -> [Links -> Configs \cup {NoConfig}]]
      /\ dec' \in [Tasks -> [Links -> Configs \cup {NoConfig}]]
  <2>1. DOMAIN hop' = Tasks /\ DOMAIN enc' = Tasks /\ DOMAIN dec' = Tasks
    BY <1>1 DEF ServeBacklog
  <2>2. hop' = [t \in Tasks |-> hop'[t]]
    BY <1>1 DEF ServeBacklog
  <2>3. enc' = [t \in Tasks |-> enc'[t]] /\ dec' = [t \in Tasks |-> dec'[t]]
    BY <1>1 DEF ServeBacklog
  <2>4. QED
    BY <1>3, <2>2, <2>3
<1>5. faults' \in 0 .. MaxFaults
  <2> DEFINE surprise == {t \in raised : Decodable(n, t)}
  <2>1. surprise \subseteq Tasks
    BY DEF Queue
  <2>2. Cardinality(surprise) \in Nat
    BY <2>1, TasksFinite, FS_Subset, FS_CardinalityType
  <2>3. faults + Cardinality(surprise) <= MaxFaults
    BY <1>1 DEF ServeBacklog
  <2>4. faults' = faults + Cardinality(surprise)
    BY <1>1 DEF ServeBacklog
  <2> HIDE DEF surprise
  <2>5. QED
    BY <2>2, <2>3, <2>4, MultiPipelineAssumption
<1>6. push' \in [Ends -> PushStages]
  BY ServeEffect DEF PushStages
<1>7. QED
  BY <1>4, <1>5, <1>6, ServeEffect

LEMMA TypeStep == TypeOK /\ [Next]_vars => TypeOK'
<1> SUFFICES ASSUME TypeOK, [Next]_vars
             PROVE  TypeOK'
  OBVIOUS
<1> USE DEF TypeOK, roundVars, clientVars
<1>1. CASE StartRound
  BY <1>1 DEF StartRound, Phases
<1>2. CASE PushFails
  BY <1>2 DEF PushFails, Phases
<1>3. CASE PushBreaks
  BY <1>3, MultiPipelineAssumption DEF PushBreaks, Fault, Phases
<1>4. CASE FinishRound
  BY <1>4, MultiPipelineAssumption DEF FinishRound, Advance, Phases, PushStages, Rounds
<1>5. ASSUME NEW e \in Ends, Configure(e)
      PROVE  TypeOK'
  <2>1. RoundConfig[round][e[1]] \in Configs
    BY NodeRanges, MultiPipelineAssumption
  <2>2. CASE PostConfig(e) \/ LookAtEvent(e)
    BY <2>2 DEF PostConfig, LookAtEvent, PushStages
  <2>3. CASE ApplyConfig(e)
    BY <2>1, <2>3 DEF ApplyConfig, PushStages
  <2>4. CASE DrainTimeout(e)
    BY <2>4, MultiPipelineAssumption DEF DrainTimeout, Fault, PushStages
  <2>5. QED
    BY <1>5, <2>2, <2>3, <2>4 DEF Configure
<1>6. ASSUME NEW t \in Tasks, SendOne(t)
      PROVE  TypeOK'
  BY <1>6, NodeRanges DEF SendOne, ClientStages, HopStages
<1>7. ASSUME NEW t \in Tasks, Client(t)
      PROVE  TypeOK'
  <2>1. CASE PostReturns(t) \/ Collect(t)
    BY <2>1 DEF PostReturns, Collect, ClientStages
  <2>2. CASE PostFails(t)
    BY <2>2, MultiPipelineAssumption DEF PostFails, Fault, ClientStages
  <2>3. CASE ResultTimeout(t)
    BY <2>3, MultiPipelineAssumption DEF ResultTimeout, Fault, ClientStages
  <2>4. CASE HandleResult(t)
    BY <2>4, NodeRanges DEF HandleResult, HopStages
  <2>5. QED
    BY <1>7, <2>1, <2>2, <2>3, <2>4 DEF Client
<1>8. ASSUME NEW n \in Nodes, NEW t \in Tasks, Infer(n, t)
      PROVE  TypeOK'
  BY <1>8, NodeRanges DEF Infer, HopStages
<1>9. ASSUME NEW n \in Nodes, Serve(n)
      PROVE  TypeOK'
  BY <1>9, ServeType
<1>10. ASSUME NEW n \in Nodes, Restart(n)
       PROVE  TypeOK'
  <2>1. hop' \in [Tasks -> [Hops -> HopStages]]
    BY <1>10 DEF Restart, HopStages
  <2>2. restarts' \in [Nodes -> 0 .. MaxRestarts]
    BY <1>10, MultiPipelineAssumption DEF Restart
  <2>3. QED
    BY <1>10, <2>1, <2>2, MultiPipelineAssumption DEF Restart, PushStages
<1>11. ASSUME NEW h \in Hops, NEW t \in Tasks, Drop(h, t)
       PROVE  TypeOK'
  BY <1>11, MultiPipelineAssumption DEF Drop, Fault, HopStages
<1>12. CASE UNCHANGED vars
  BY <1>12 DEF vars
<1>13. QED
  BY <1>1, <1>2, <1>3, <1>4, <1>5, <1>6, <1>7, <1>8, <1>9, <1>10, <1>11, <1>12 DEF Next

\* The variables of the shared chain keep their types.
THEOREM TypeCorrect == Spec => []TypeOK
  BY TypeInit, TypeStep, PTL DEF Spec

-----------------------------------------------------------------------------
(* The inductive invariant.  RecordedUnderRoundConfig says nothing of a    *)
(* task that is still in the chain: what carries it there is that a task   *)
(* the client waits for belongs to the current round, that during a round  *)
(* every link end of every pipeline has the round's setting or, after a    *)
(* restart, none, and that a hop a task has left used one of these.        *)

\* What a link end may use during round r.
Usable(r, e) == {RoundConfig[r][e[1]]}
                  \cup (IF NodeOf(e) \in Restartable THEN {NoCompression} ELSE {})

\* An applied update is in force unless its node restarted since.
PushInv ==
    /\ \A e \in Ends : push[e] = "applied" => config[e] \in Usable(round, e)
    /\ phase \in {"running", "done"} => \A e \in Ends : push[e] = "applied"

\* Only tasks of the current round are pending, and only while it runs; a task
\* that was not sent is nowhere; a record comes from a result that came back.
ClientInv ==
    \A t \in Tasks :
        /\ Holding(t) => phase = "running" /\ RoundOf(t) = round
        /\ client[t] = "waiting" => \A h \in Hops : hop[t][h] = "absent"
        /\ client[t] = "recorded" => t \in future
        /\ t \in future => hop[t][N + 1] # "absent"

Left(t, n) == hop[t][n + 1] # "absent"

\* A task visits the hops in order, and does not return to one it has left.
ChainInv ==
    \A t \in Tasks : \A n \in Nodes :
        Left(t, n) => hop[t][n] = "finished" /\ \A m \in Nodes : m <= n => Left(t, m)

Watched(t) == client[t] \in {"posting", "awaiting", "recorded"}

\* What a task has used when it has left node n: usable settings at the node's
\* outgoing end, and the round's setting on the link that it came over.
CrossedWell(t, n) ==
    /\ n # 1 => /\ enc[t][Before(t, n)] = RoundConfig[RoundOf(t)][Before(t, n)]
                /\ dec[t][Before(t, n)] = RoundConfig[RoundOf(t)][Before(t, n)]
    /\ n # N => enc[t][After(t, n)] \in Usable(RoundOf(t), <<After(t, n), "outgoing">>)

SettingsInv ==
    \A t \in Tasks : Watched(t) => \A n \in Nodes : Left(t, n) => CrossedWell(t, n)

\* What holds whatever the settings are, and with the settings.
BaseInv == TypeOK /\ PushInv /\ ClientInv /\ ChainInv
IInv    == BaseInv /\ SettingsInv

-----------------------------------------------------------------------------
(* What the steps do to the hops.                                          *)

\* A step that only finishes or drops messages keeps the chain.
LEMMA ChainKept ==
    ASSUME ChainInv,
           \A t \in Tasks : \A h \in Hops :
               /\ hop'[t][h] = "absent" <=> hop[t][h] = "absent"
               /\ hop[t][h] = "finished" => hop'[t][h] = "finished"
    PROVE  ChainInv'
  BY NodeRanges DEF ChainInv, Left

\* The same for what was used, when no task starts to be watched.
LEMMA SettingsKept ==
    ASSUME SettingsInv, enc' = enc, dec' = dec,
           \A t \in Tasks : \A h \in Hops :
               hop'[t][h] = "absent" <=> hop[t][h] = "absent",
           \A t \in Tasks : Watched(t)' => Watched(t)
    PROVE  SettingsInv'
  BY NodeRanges DEF SettingsInv, Left, CrossedWell, Usable

LEMMA RestartHops ==
    ASSUME TypeOK, NEW n \in Nodes, Restart(n), NEW t \in Tasks, NEW h \in Hops
    PROVE  /\ hop'[t][h] = "absent" <=> hop[t][h] = "absent"
           /\ hop[t][h] = "finished" => hop'[t][h] = "finished"
           /\ hop'[t][h] = "queued" <=> hop[t][h] = "queued" /\ h # n
<1>1. PICK unsent \in SUBSET {s \in Tasks : hop[s][n + 1] = "posted"} :
         hop' = [s \in Tasks |-> [k \in Hops |->
                   CASE k = n /\ hop[s][k] = "queued" -> "finished"
                     [] k = n + 1 /\ s \in unsent     -> "dropped"
                     [] OTHER                         -> hop[s][k]]]
  BY DEF Restart
<1>2. hop'[t][h] = CASE h = n /\ hop[t][h] = "queued" -> "finished"
                     [] h = n + 1 /\ t \in unsent     -> "dropped"
                     [] OTHER                         -> hop[t][h]
  BY <1>1
<1>3. CASE h = n /\ hop[t][h] = "queued"
  <2>1. hop'[t][h] = "finished"
    <3>1. h # n + 1
      BY <1>3, NodeRanges
    <3>2. QED
      BY <1>2, <1>3, <3>1
  <2>2. QED
    BY <1>3, <2>1
<1>4. CASE h = n + 1 /\ t \in unsent
  <2>1. hop[t][h] = "posted"
    BY <1>4
  <2>2. hop'[t][h] = "dropped"
    BY <1>2, <1>4, <2>1
  <2>3. QED
    BY <2>1, <2>2
<1>5. CASE ~ (h = n /\ hop[t][h] = "queued") /\ ~ (h = n + 1 /\ t \in unsent)
  <2>1. hop'[t][h] = hop[t][h]
    BY <1>2, <1>5
  <2>2. QED
    BY <1>5, <2>1
<1>6. QED
  BY <1>3, <1>4, <1>5

\* A task that a node passes on leaves it, and has left exactly the nodes before.
LEMMA PassesLeaves ==
    ASSUME TypeOK, ChainInv, NEW n \in Nodes, NEW t \in Tasks, Passes(n, t)
    PROVE  /\ hop'[t][n] = "finished" /\ hop'[t][n + 1] = "posted"
           /\ \A h \in Hops : h # n /\ h # n + 1 => hop'[t][h] = hop[t][h]
           /\ \A m \in Nodes : Left(t, m) <=> m < n
           /\ \A m \in Nodes : Left(t, m)' <=> m <= n
<1> USE DEF TypeOK
<1>1. /\ hop[t][n] = "queued"
      /\ hop'[t] = [hop[t] EXCEPT ![n] = "finished", ![n + 1] = "posted"]
  BY DEF Passes
<1>2. /\ hop'[t][n] = "finished" /\ hop'[t][n + 1] = "posted"
      /\ \A h \in Hops : h # n /\ h # n + 1 => hop'[t][h] = hop[t][h]
  BY <1>1, NodeRanges
<1>3. \A m \in Nodes : n <= m => ~ Left(t, m)
  BY <1>1 DEF ChainInv
<1>4. ASSUME NEW m \in Nodes, m < n
      PROVE  Left(t, m)
  <2>1. n # 1 /\ n - 1 \in Nodes /\ (n - 1) + 1 = n /\ m <= n - 1
    BY <1>4, NodeRanges DEF Nodes
  <2>2. Left(t, n - 1)
    BY <1>1, <2>1 DEF Left
  <2>3. QED
    BY <2>1, <2>2 DEF ChainInv
<1>5. \A m \in Nodes : Left(t, m) <=> m < n
  BY <1>3, <1>4 DEF Nodes
<1>6. \A m \in Nodes : Left(t, m)' <=> m <= n
  <2>1. Left(t, n)'
    BY <1>2 DEF Left
  <2>2. ASSUME NEW m \in Nodes, m # n
        PROVE  Left(t, m)' <=> Left(t, m)
    <3>1. CASE m + 1 # n
      <4>1. m + 1 # n + 1
        BY <2>2 DEF Nodes
      <4>2. QED
        BY <1>2, <3>1, <4>1, NodeRanges DEF Left
    <3>2. CASE m + 1 = n
      BY <1>1, <1>2, <3>2 DEF Left
    <3>3. QED
      BY <3>1, <3>2
  <2>3. QED
    BY <1>5, <2>1, <2>2 DEF Nodes
<1>7. QED
  BY <1>2, <1>5, <1>6

LEMMA IInvInit == Init => IInv
<1> SUFFICES ASSUME Init
             PROVE  IInv
  OBVIOUS
<1>1. TypeOK
  BY TypeInit
<1>2. PushInv /\ ClientInv
  BY NodeRanges DEF Init, PushInv, ClientInv, Holding
<1>3. ChainInv /\ SettingsInv
  BY NodeRanges DEF Init, ChainInv, SettingsInv, Left, Watched
<1>4. QED
  BY <1>1, <1>2, <1>3 DEF IInv, BaseInv

-----------------------------------------------------------------------------
(* Each part is kept by every step.                                        *)

LEMMA PushStep == BaseInv /\ [Next]_vars => PushInv'
<1> SUFFICES ASSUME BaseInv, [Next]_vars
             PROVE  PushInv'
  OBVIOUS
<1> USE DEF BaseInv, roundVars, clientVars
<1>1. CASE StartRound \/ PushFails \/ PushBreaks
  BY <1>1 DEF PushInv, StartRound, PushFails, PushBreaks, Usable
<1>2. CASE FinishRound
  <2>1. CASE round < R
    BY <1>2, <2>1 DEF PushInv, FinishRound, Advance
  <2>2. CASE ~(round < R)
    BY <1>2, <2>2 DEF PushInv, FinishRound, Advance, Usable
  <2>3. QED
    BY <2>1, <2>2
<1>3. ASSUME NEW e \in Ends, Configure(e)
      PROVE  PushInv'
  <2>1. CASE PostConfig(e) \/ LookAtEvent(e)
    BY <2>1 DEF PushInv, PostConfig, LookAtEvent, TypeOK, Usable
  <2>2. CASE ApplyConfig(e)
    BY <2>2 DEF PushInv, ApplyConfig, TypeOK, Usable
  <2>3. CASE DrainTimeout(e)
    BY <2>3 DEF PushInv, DrainTimeout, TypeOK, Usable
  <2>4. QED
    BY <1>3, <2>1, <2>2, <2>3 DEF Configure
<1>4. ASSUME NEW t \in Tasks, SendOne(t) \/ Client(t)
      PROVE  PushInv'
  BY <1>4 DEF PushInv, SendOne, Client, PostReturns, PostFails, Collect, ResultTimeout,
              HandleResult, Usable
<1>5. ASSUME NEW n \in Nodes, NEW t \in Tasks, Infer(n, t)
      PROVE  PushInv'
  BY <1>5 DEF PushInv, Infer, Usable
<1>6. ASSUME NEW n \in Nodes, Serve(n)
      PROVE  PushInv'
  <2>1. /\ phase' = phase /\ round' = round /\ config' = config
        /\ \A e \in Ends : push'[e] = "applied" <=> push[e] = "applied"
    BY <1>6, ServeEffect
  <2>2. QED
    BY <2>1 DEF PushInv, Usable
<1>7. ASSUME NEW h \in Hops, NEW t \in Tasks, Drop(h, t)
      PROVE  PushInv'
  BY <1>7 DEF PushInv, Drop, Usable
<1>8. ASSUME NEW n \in Nodes, Restart(n)
      PROVE  PushInv'
  <2>1. phase' = phase /\ round' = round
    BY <1>8 DEF Restart
  <2>2. ASSUME NEW e \in Ends
        PROVE  /\ push'[e] = "applied" <=> push[e] = "applied"
               /\ config[e] \in Usable(round, e) => config'[e] \in Usable(round, e)
    BY <1>8 DEF Restart, TypeOK, Usable, PushPending
  <2>3. QED
    BY <2>1, <2>2 DEF PushInv, Usable
<1>9. CASE UNCHANGED vars
  BY <1>9 DEF vars, PushInv, Usable
<1>10. QED
  BY <1>1, <1>2, <1>3, <1>4, <1>5, <1>6, <1>7, <1>8, <1>9 DEF Next

LEMMA ClientStep == BaseInv /\ [Next]_vars => ClientInv'
<1> SUFFICES ASSUME BaseInv, [Next]_vars
             PROVE  ClientInv'
  OBVIOUS
<1> USE DEF BaseInv, TypeOK, roundVars, clientVars
<1>1. CASE StartRound \/ PushFails \/ PushBreaks
  BY <1>1 DEF ClientInv, Holding, StartRound, PushFails, PushBreaks
<1>2. CASE FinishRound
  <2>1. ASSUME NEW t \in Tasks, Holding(t)
        PROVE  FALSE
    BY <1>2, <2>1 DEF ClientInv, FinishRound, TasksOf, Holding
  <2>2. QED
    BY <1>2, <2>1 DEF ClientInv, Holding, FinishRound
<1>3. ASSUME NEW e \in Ends, Configure(e)
      PROVE  ClientInv'
  BY <1>3
  DEF ClientInv, Holding, Configure, PostConfig, LookAtEvent, ApplyConfig, DrainTimeout
<1>4. ASSUME NEW t \in Tasks, SendOne(t)
      PROVE  ClientInv'
  BY <1>4, NodeRanges DEF ClientInv, Holding, SendOne
<1>5. ASSUME NEW t \in Tasks, Client(t)
      PROVE  ClientInv'
  <2>1. CASE PostReturns(t)
    BY <2>1 DEF PostReturns, ClientInv, Holding
  <2>2. CASE PostFails(t)
    BY <2>2 DEF PostFails, ClientInv, Holding
  <2>3. CASE Collect(t)
    BY <2>3 DEF Collect, ClientInv, Holding
  <2>4. CASE ResultTimeout(t)
    BY <2>4 DEF ResultTimeout, ClientInv, Holding
  <2>5. CASE HandleResult(t)
    BY <2>5, NodeRanges DEF HandleResult, ClientInv, Holding
  <2>6. QED
    BY <1>5, <2>1, <2>2, <2>3, <2>4, <2>5 DEF Client
<1>6. ASSUME NEW n \in Nodes, NEW t \in Tasks, Infer(n, t)
      PROVE  ClientInv'
  BY <1>6, NodeRanges DEF ClientInv, Holding, Infer
<1>7. ASSUME NEW n \in Nodes, Serve(n)
      PROVE  ClientInv'
  <2>1. phase' = phase /\ round' = round /\ client' = client /\ future' = future
    BY <1>7, ServeEffect
  <2>2. ASSUME NEW t \in Tasks
        PROVE  /\ client[t] = "waiting" => hop'[t] = hop[t]
               /\ hop[t][N + 1] # "absent" => hop'[t][N + 1] # "absent"
    <3>1. CASE Skips(n, t)
      BY <3>1 DEF Skips
    <3>2. CASE Raises(n, t)
      BY <3>2, NodeRanges DEF Raises, ClientInv
    <3>3. CASE Passes(n, t)
      BY <3>3, NodeRanges DEF Passes, ClientInv
    <3>4. QED
      BY <1>7, <3>1, <3>2, <3>3, ServeEffect
  <2>3. QED
    BY <2>1, <2>2 DEF ClientInv, Holding
<1>8. ASSUME NEW h \in Hops, NEW t \in Tasks, Drop(h, t)
      PROVE  ClientInv'
  BY <1>8, NodeRanges DEF ClientInv, Holding, Drop
<1>9. ASSUME NEW n \in Nodes, Restart(n)
      PROVE  ClientInv'
  <2>1. \A t \in Tasks : \A h \in Hops : hop'[t][h] = "absent" <=> hop[t][h] = "absent"
    BY <1>9, RestartHops
  <2>2. phase' = phase /\ round' = round /\ client' = client /\ future' = future
    BY <1>9 DEF Restart
  <2>3. QED
    BY <2>1, <2>2, NodeRanges DEF ClientInv, Holding
<1>10. CASE UNCHANGED vars
  BY <1>10 DEF vars, ClientInv, Holding
<1>11. QED
  BY <1>1, <1>2, <1>3, <1>4, <1>5, <1>6, <1>7, <1>8, <1>9, <1>10 DEF Next

LEMMA SendOneHops ==
    ASSUME TypeOK, ClientInv, NEW t \in Tasks, SendOne(t)
    PROVE  /\ \A n \in Nodes : ~ Left(t, n) /\ ~ Left(t, n)'
           /\ \A s \in Tasks : s # t => hop'[s] = hop[s] /\ client'[s] = client[s]
<1>1. /\ \A h \in Hops : hop[t][h] = "absent"
      /\ hop' = [hop EXCEPT ![t][1] = "posted"]
      /\ client' = [client EXCEPT ![t] = "posting"]
  BY DEF SendOne, ClientInv
<1>2. \A h \in Hops : h # 1 => hop'[t][h] = "absent"
  BY <1>1 DEF TypeOK
<1>3. QED
  BY <1>1, <1>2, NodeRanges DEF Left, TypeOK

LEMMA ChainStep == BaseInv /\ [Next]_vars => ChainInv'
<1> SUFFICES ASSUME BaseInv, [Next]_vars
             PROVE  ChainInv'
  OBVIOUS
<1> USE DEF BaseInv, roundVars, clientVars
<1>1. ASSUME hop' = hop
      PROVE  ChainInv'
  BY <1>1 DEF ChainInv, Left
<1>2. ASSUME NEW t \in Tasks, SendOne(t)
      PROVE  ChainInv'
  <2>1. /\ \A n \in Nodes : ~ Left(t, n) /\ ~ Left(t, n)'
        /\ \A s \in Tasks : s # t => hop'[s] = hop[s]
    BY <1>2, SendOneHops
  <2>2. QED
    BY <2>1 DEF ChainInv, Left
<1>3. ASSUME NEW t \in Tasks, HandleResult(t)
      PROVE  ChainInv'
  BY <1>3, ChainKept, NodeRanges DEF HandleResult, TypeOK
<1>4. ASSUME NEW n \in Nodes, NEW t \in Tasks, Infer(n, t)
      PROVE  ChainInv'
  BY <1>4, ChainKept, NodeRanges DEF Infer, TypeOK
<1>5. ASSUME NEW n \in Nodes, Serve(n)
      PROVE  ChainInv'
  <2>1. ASSUME NEW t \in Tasks, NEW m \in Nodes, Left(t, m)'
        PROVE  hop'[t][m] = "finished" /\ \A k \in Nodes : k <= m => Left(t, k)'
    <3>1. CASE Skips(n, t)
      BY <2>1, <3>1 DEF Skips, ChainInv, Left
    <3>2. CASE Raises(n, t)
      <4>1. \A h \in Hops : /\ hop'[t][h] = "absent" <=> hop[t][h] = "absent"
                            /\ hop[t][h] = "finished" => hop'[t][h] = "finished"
        BY <3>2 DEF Raises, TypeOK
      <4>2. QED
        BY <2>1, <4>1, NodeRanges DEF ChainInv, Left
    <3>3. CASE Passes(n, t)
      <4>1. /\ hop'[t][n] = "finished"
            /\ \A h \in Hops : h # n /\ h # n + 1 => hop'[t][h] = hop[t][h]
            /\ \A k \in Nodes : Left(t, k) <=> k < n
            /\ \A k \in Nodes : Left(t, k)' <=> k <= n
        BY <3>3, PassesLeaves
      <4>2. m <= n /\ \A k \in Nodes : k <= m => Left(t, k)'
        BY <2>1, <4>1 DEF Nodes
      <4>3. m < n => hop[t][m] = "finished" /\ m # n /\ m # n + 1
        BY <4>1 DEF ChainInv, Nodes
      <4>4. QED
        BY <4>1, <4>2, <4>3, NodeRanges DEF Nodes
    <3>4. QED
      BY <1>5, <3>1, <3>2, <3>3, ServeEffect
  <2>2. QED
    BY <2>1 DEF ChainInv, Left
<1>6. ASSUME NEW h \in Hops, NEW t \in Tasks, Drop(h, t)
      PROVE  ChainInv'
  BY <1>6, ChainKept DEF Drop, TypeOK
<1>7. ASSUME NEW n \in Nodes, Restart(n)
      PROVE  ChainInv'
  <2>1. \A t \in Tasks : \A h \in Hops :
           /\ hop'[t][h] = "absent" <=> hop[t][h] = "absent"
           /\ hop[t][h] = "finished" => hop'[t][h] = "finished"
    BY <1>7, RestartHops
  <2>2. QED
    BY <2>1, ChainKept
<1>8. CASE StartRound \/ PushFails \/ PushBreaks \/ FinishRound \/ UNCHANGED vars
  BY <1>1, <1>8 DEF StartRound, PushFails, PushBreaks, FinishRound, vars
<1>9. ASSUME NEW e \in Ends, Configure(e)
      PROVE  ChainInv'
  BY <1>1, <1>9 DEF Configure, PostConfig, LookAtEvent, ApplyConfig, DrainTimeout
<1>10. ASSUME NEW t \in Tasks, Client(t)
       PROVE  ChainInv'
  BY <1>1, <1>3, <1>10 DEF Client, PostReturns, PostFails, Collect, ResultTimeout
<1>11. QED
  BY <1>2, <1>4, <1>5, <1>6, <1>7, <1>8, <1>9, <1>10 DEF Next

LEMMA BaseStep == BaseInv /\ [Next]_vars => BaseInv'
  BY TypeStep, PushStep, ClientStep, ChainStep DEF BaseInv

\* The heart of the proof: the node that decompresses a pending task either reads
\* the setting the task was compressed with, or the methods differ and it raises.
LEMMA LinkAgrees ==
    ASSUME RestartsAreLoud, NEW l \in Links, NEW r \in Rounds,
           NEW c \in Usable(r, <<l, "outgoing">>),
           NEW d \in Usable(r, <<l, "incoming">>),
           MethodOf[c] = MethodOf[d]
    PROVE  c = RoundConfig[r][l] /\ d = RoundConfig[r][l]
<1>1. NodeOf(<<l, "outgoing">>) = l[2] /\ NodeOf(<<l, "incoming">>) = l[2] + 1
  BY DEF NodeOf
<1>2. /\ c = RoundConfig[r][l] \/ (l[2] \in Restartable /\ c = NoCompression)
      /\ d = RoundConfig[r][l] \/ (l[2] + 1 \in Restartable /\ d = NoCompression)
  BY <1>1 DEF Usable
<1>3. QED
  BY <1>2 DEF RestartsAreLoud

\* A task in the queue that is watched is pending in the current round.
LEMMA QueuedIsPending ==
    ASSUME BaseInv, NEW t \in Tasks, NEW n \in Nodes, hop[t][n] = "queued", Watched(t)
    PROVE  /\ phase = "running" /\ RoundOf(t) = round
           /\ \A e \in Ends : config[e] \in Usable(round, e)
<1>1. ~ Left(t, N)
  BY NodeRanges DEF BaseInv, ChainInv
<1>2. client[t] # "recorded"
  BY <1>1 DEF BaseInv, ClientInv, Left
<1>3. QED
  BY <1>2 DEF BaseInv, ClientInv, PushInv, Watched, Holding

LEMMA SettingsPass ==
    ASSUME IInv, RestartsAreLoud, NEW n \in Nodes, NEW t \in Tasks, Passes(n, t),
           Watched(t), NEW m \in Nodes, Left(t, m)', round' = round
    PROVE  CrossedWell(t, m)'
<1> USE DEF IInv, BaseInv
<1>1. hop[t][n] = "queued" /\ Decodable(n, t)
  BY DEF Passes
<1>2. /\ RoundOf(t) = round /\ round \in Rounds
      /\ \A e \in Ends : config[e] \in Usable(round, e)
  BY <1>1, QueuedIsPending DEF TypeOK
<1>3. m <= n /\ \A k \in Nodes : Left(t, k) <=> k < n
  BY PassesLeaves
<1>4. n = N \/ n < N
  BY NodeRanges DEF Nodes
<1>5. n = 1 \/ n > 1
  BY DEF Nodes
<1>6. \A l \in Links : l # After(t, n) => enc'[t][l] = enc[t][l]
  BY <1>4, LinkRanges DEF Passes, TypeOK
<1>7. \A l \in Links : l # Before(t, n) => dec'[t][l] = dec[t][l]
  BY <1>5, LinkRanges DEF Passes, TypeOK
<1>8. n # N => enc'[t][After(t, n)] = config[<<After(t, n), "outgoing">>]
  BY <1>4, LinkRanges DEF Passes, TypeOK
<1>9. n # 1 => dec'[t][Before(t, n)] = config[<<Before(t, n), "incoming">>]
  BY <1>5, LinkRanges DEF Passes, TypeOK
<1>10. \A k \in Nodes : k # n => After(t, k) # After(t, n) /\ Before(t, k) # Before(t, n)
  BY DEF After, Before, Nodes
<1>11. \A k \in Nodes : k <= n => Before(t, k) # After(t, n)
  BY DEF After, Before, Nodes
<1>12. CASE m = n
  <2>1. ASSUME n # 1
        PROVE  /\ enc'[t][Before(t, n)] = RoundConfig[round][Before(t, n)]
               /\ dec'[t][Before(t, n)] = RoundConfig[round][Before(t, n)]
    <3>1. /\ n - 1 \in Nodes /\ n - 1 # N /\ Left(t, n - 1)
          /\ Before(t, n) \in Links /\ <<Before(t, n), "incoming">> \in Ends
          /\ Before(t, n) = After(t, n - 1)
      <4>1. n - 1 \in Nodes /\ n - 1 # N
        BY <2>1, NodeRanges
      <4>2. n - 1 < n
        BY DEF Nodes
      <4>3. Left(t, n - 1)
        BY <1>3, <4>1, <4>2
      <4>4. QED
        BY <2>1, <4>1, <4>3, LinkRanges
    <3>2. enc[t][Before(t, n)] \in Usable(round, <<Before(t, n), "outgoing">>)
      BY <1>2, <3>1 DEF SettingsInv, CrossedWell
    <3>3. config[<<Before(t, n), "incoming">>]
             \in Usable(round, <<Before(t, n), "incoming">>)
      BY <1>2, <3>1
    <3>4. MethodOf[enc[t][Before(t, n)]] = MethodOf[config[<<Before(t, n), "incoming">>]]
      BY <1>1, <1>5, <2>1 DEF Decodable
    <3>5. RestartsAreLoud /\ round \in Rounds /\ Before(t, n) \in Links
      BY <1>2, <3>1
    <3>6. /\ enc[t][Before(t, n)] = RoundConfig[round][Before(t, n)]
          /\ config[<<Before(t, n), "incoming">>] = RoundConfig[round][Before(t, n)]
      BY ONLY <3>2, <3>3, <3>4, <3>5, LinkAgrees
    <3>7. enc'[t][Before(t, n)] = enc[t][Before(t, n)]
      <4>1. Before(t, n) # After(t, n)
        BY <1>11 DEF Nodes
      <4>2. QED
        BY <1>6, <3>1, <4>1
    <3>8. QED
      BY <1>9, <2>1, <3>6, <3>7
  <2>2. n # N => enc'[t][After(t, n)] \in Usable(round, <<After(t, n), "outgoing">>)
    BY <1>2, <1>8, LinkRanges
  <2>3. QED
    BY <1>2, <1>12, <2>1, <2>2 DEF CrossedWell, Usable
<1>13. CASE m # n
  <2>1. Left(t, m) /\ m # N
    BY <1>3, <1>13, NodeRanges DEF Nodes
  <2>2. CrossedWell(t, m)
    BY <2>1 DEF SettingsInv
  <2>3. enc'[t][After(t, m)] = enc[t][After(t, m)]
    BY <1>6, <1>10, <1>13, <2>1, LinkRanges
  <2>4. m # 1 => /\ enc'[t][Before(t, m)] = enc[t][Before(t, m)]
                 /\ dec'[t][Before(t, m)] = dec[t][Before(t, m)]
    BY <1>3, <1>6, <1>7, <1>10, <1>11, <1>13, LinkRanges
  <2>5. QED
    BY <2>1, <2>2, <2>3, <2>4 DEF CrossedWell, Usable
<1>14. QED
  BY <1>12, <1>13

LEMMA SettingsStep == IInv /\ RestartsAreLoud /\ [Next]_vars => SettingsInv'
<1> SUFFICES ASSUME IInv, RestartsAreLoud, [Next]_vars
             PROVE  SettingsInv'
  OBVIOUS
<1> USE DEF IInv, BaseInv, roundVars, clientVars
<1>1. ASSUME hop' = hop, enc' = enc, dec' = dec, \A t \in Tasks : Watched(t)' => Watched(t)
      PROVE  SettingsInv'
  BY <1>1, SettingsKept
<1>2. ASSUME NEW t \in Tasks, SendOne(t)
      PROVE  SettingsInv'
  <2>1. /\ \A n \in Nodes : ~ Left(t, n) /\ ~ Left(t, n)'
        /\ \A s \in Tasks : s # t => hop'[s] = hop[s] /\ client'[s] = client[s]
    BY <1>2, SendOneHops
  <2>2. enc' = enc /\ dec' = dec
    BY <1>2 DEF SendOne
  <2>3. ASSUME NEW s \in Tasks, Watched(s)', NEW n \in Nodes, Left(s, n)'
        PROVE  Watched(s) /\ Left(s, n)
    BY <2>1, <2>3 DEF Watched, Left
  <2>4. QED
    BY ONLY SettingsInv, <2>2, <2>3 DEF SettingsInv, CrossedWell, Usable
<1>3. ASSUME NEW t \in Tasks, Client(t)
      PROVE  SettingsInv'
  <2>1. \A s \in Tasks : Watched(s)' => Watched(s)
    <3>1. CASE PostReturns(t)
      BY <3>1 DEF PostReturns, Watched, TypeOK
    <3>2. CASE PostFails(t) \/ ResultTimeout(t)
      BY <3>2 DEF PostFails, ResultTimeout, Watched, TypeOK
    <3>3. CASE Collect(t)
      BY <3>3 DEF Collect, Watched, TypeOK
    <3>4. CASE HandleResult(t)
      BY <3>4 DEF HandleResult, Watched
    <3>5. QED
      BY <1>3, <3>1, <3>2, <3>3, <3>4 DEF Client
  <2>2. \A s \in Tasks : \A h \in Hops : hop'[s][h] = "absent" <=> hop[s][h] = "absent"
    <3>1. CASE HandleResult(t)
      BY <3>1, NodeRanges DEF HandleResult, TypeOK
    <3>2. CASE hop' = hop
      BY <3>2
    <3>3. QED
      BY <1>3, <3>1, <3>2 DEF Client, PostReturns, PostFails, Collect, ResultTimeout
  <2>3. enc' = enc /\ dec' = dec
    BY <1>3 DEF Client, PostReturns, PostFails, Collect, ResultTimeout, HandleResult
  <2>4. QED
    BY <2>1, <2>2, <2>3, SettingsKept
<1>4. ASSUME NEW n \in Nodes, NEW t \in Tasks, Infer(n, t)
      PROVE  SettingsInv'
  <2>1. \A s \in Tasks : \A h \in Hops : hop'[s][h] = "absent" <=> hop[s][h] = "absent"
    BY <1>4, NodeRanges DEF Infer, TypeOK
  <2>2. QED
    BY <1>4, <2>1, SettingsKept DEF Infer, Watched
<1>5. ASSUME NEW n \in Nodes, Serve(n)
      PROVE  SettingsInv'
  <2>1. client' = client /\ round' = round
    BY <1>5, ServeEffect
  <2>2. ASSUME NEW t \in Tasks, Watched(t), NEW m \in Nodes, Left(t, m)'
        PROVE  CrossedWell(t, m)'
    <3>1. ASSUME enc'[t] = enc[t], dec'[t] = dec[t], Left(t, m)
          PROVE  CrossedWell(t, m)'
      BY <2>2, <3>1 DEF SettingsInv, CrossedWell, Usable
    <3>2. CASE Skips(n, t)
      BY <2>2, <3>1, <3>2 DEF Skips, Left
    <3>3. CASE Raises(n, t)
      <4>1. \A h \in Hops : hop'[t][h] = "absent" <=> hop[t][h] = "absent"
        BY <3>3 DEF Raises, TypeOK
      <4>2. QED
        BY <2>2, <3>1, <3>3, <4>1, NodeRanges DEF Raises, Left
    <3>4. CASE Passes(n, t)
      BY <2>1, <2>2, <3>4, SettingsPass
    <3>5. QED
      BY <1>5, <3>2, <3>3, <3>4, ServeEffect
  <2>3. QED
    BY <2>1, <2>2 DEF SettingsInv, Watched
<1>6. ASSUME NEW h \in Hops, NEW t \in Tasks, Drop(h, t)
      PROVE  SettingsInv'
  <2>1. \A s \in Tasks : \A k \in Hops : hop'[s][k] = "absent" <=> hop[s][k] = "absent"
    BY <1>6 DEF Drop, TypeOK
  <2>2. QED
    BY <1>6, <2>1, SettingsKept DEF Drop, Watched
<1>7. ASSUME NEW n \in Nodes, Restart(n)
      PROVE  SettingsInv'
  <2>1. \A s \in Tasks : \A k \in Hops : hop'[s][k] = "absent" <=> hop[s][k] = "absent"
    BY <1>7, RestartHops
  <2>2. QED
    BY <1>7, <2>1, SettingsKept DEF Restart, Watched
<1>8. CASE StartRound \/ PushFails \/ PushBreaks \/ FinishRound \/ UNCHANGED vars
  BY <1>1, <1>8 DEF StartRound, PushFails, PushBreaks, FinishRound, vars, Watched
<1>9. ASSUME NEW e \in Ends, Configure(e)
      PROVE  SettingsInv'
  BY <1>1, <1>9 DEF Configure, PostConfig, LookAtEvent, ApplyConfig, DrainTimeout, Watched
<1>10. QED
  BY <1>2, <1>3, <1>4, <1>5, <1>6, <1>7, <1>8, <1>9 DEF Next

-----------------------------------------------------------------------------
(* The theorem.                                                            *)

LEMMA IInvImplies == IInv /\ RestartsAreLoud => RecordedUnderRoundConfig
<1> SUFFICES ASSUME IInv, NEW t \in Recorded, NEW l \in LinksOf(t)
             PROVE  /\ enc[t][l] = RoundConfig[RoundOf(t)][l]
                    /\ dec[t][l] = RoundConfig[RoundOf(t)][l]
  BY DEF RecordedUnderRoundConfig
<1> USE DEF IInv, BaseInv
<1>1. t \in Tasks /\ Watched(t)
  BY DEF Recorded, Watched
<1>2. Left(t, N)
  BY <1>1 DEF ClientInv, Recorded, Left
<1>3. l = Before(t, l[2] + 1) /\ l[2] + 1 \in Nodes /\ l[2] + 1 # 1 /\ l[2] + 1 <= N
  BY MultiPipelineAssumption DEF LinksOf, Before, Nodes
<1>4. Left(t, l[2] + 1)
  BY <1>1, <1>2, <1>3, NodeRanges DEF ChainInv
<1>5. QED
  BY <1>1, <1>3, <1>4 DEF SettingsInv, CrossedWell

\* Whatever is lost, late, refused or restarted (loudly), and however the tasks of
\* the pipelines share the nodes, a round only records results that were measured
\* with its own settings of their pipeline.
THEOREM RecordsAreFaithful == Spec => []RecordedUnderRoundConfig
<1>1. CASE RestartsAreLoud
  <2>1. Init => IInv
    BY IInvInit
  <2>2. IInv /\ [Next]_vars => IInv'
    BY <1>1, BaseStep, SettingsStep DEF IInv
  <2>3. IInv => RecordedUnderRoundConfig
    BY <1>1, IInvImplies
  <2>4. QED
    BY <2>1, <2>2, <2>3, PTL DEF Spec
<1>2. CASE ~RestartsAreLoud
  <2>1. RecordedUnderRoundConfig
    BY <1>2 DEF RecordedUnderRoundConfig
  <2>2. QED
    BY <2>1, PTL
<1>3. QED
  BY <1>1, <1>2

-----------------------------------------------------------------------------
(* Refinement: the results of all pipelines behave as the abstract Sweep.  *)

BatchOf(t) == <<PipeOf(t), t[3]>>

\* What the results say of a task.
ResultOf(t) == [run |-> RoundOf(t), batch |-> BatchOf(t),
                compressed   |-> OnLinks(PipeOf(t), enc[t]),
                decompressed |-> OnLinks(PipeOf(t), dec[t])]

\* A task that is recorded has passed the last node, so its settings are final.
LEMMA RecordsAreFinal ==
    ASSUME BaseInv, [Next]_vars, NEW t \in Recorded
    PROVE  enc'[t] = enc[t] /\ dec'[t] = dec[t] /\ client'[t] = "recorded"
<1> USE DEF BaseInv, TypeOK, roundVars, clientVars
<1>1. t \in Tasks /\ client[t] = "recorded"
  BY DEF Recorded
<1>2. \A n \in Nodes : hop[t][n] = "finished"
  <2>1. Left(t, N)
    BY <1>1 DEF ClientInv, Left
  <2>2. \A n \in Nodes : Left(t, n)
    BY <1>1, <2>1, NodeRanges DEF ChainInv
  <2>3. QED
    BY <1>1, <2>2 DEF ChainInv
<1>3. ASSUME NEW n \in Nodes, Serve(n)
      PROVE  enc'[t] = enc[t] /\ dec'[t] = dec[t] /\ client' = client
  <2>1. Skips(n, t)
    BY <1>1, <1>2, <1>3, ServeEffect DEF Raises, Passes
  <2>2. QED
    BY <1>3, <2>1, ServeEffect DEF Skips
<1>4. ASSUME NEW s \in Tasks, SendOne(s) \/ Client(s)
      PROVE  enc' = enc /\ dec' = dec /\ client'[t] = "recorded"
  BY <1>1, <1>4 DEF SendOne, Client, PostReturns, PostFails, Collect, ResultTimeout,
                    HandleResult
<1>5. ASSUME NEW e \in Ends, Configure(e)
      PROVE  enc' = enc /\ dec' = dec /\ client' = client
  BY <1>5 DEF Configure, PostConfig, LookAtEvent, ApplyConfig, DrainTimeout
<1>6. ASSUME NEW h \in Hops, NEW s \in Tasks, Drop(h, s)
      PROVE  enc' = enc /\ dec' = dec /\ client' = client
  BY <1>6 DEF Drop
<1>7. ASSUME NEW n \in Nodes, Restart(n) \/ \E s \in Tasks : Infer(n, s)
      PROVE  enc' = enc /\ dec' = dec /\ client' = client
  BY <1>7 DEF Restart, Infer
<1>8. CASE StartRound \/ PushFails \/ PushBreaks \/ FinishRound \/ UNCHANGED vars
  BY <1>1, <1>8 DEF StartRound, PushFails, PushBreaks, FinishRound, vars
<1>9. QED
  BY <1>1, <1>3, <1>4, <1>5, <1>6, <1>7, <1>8 DEF Next

\* A step that records nothing leaves the results alone.
LEMMA ResultsKept ==
    ASSUME BaseInv, [Next]_vars, Recorded' \subseteq Recorded
    PROVE  Results' = Results
<1>1. Recorded' = Recorded
  BY RecordsAreFinal DEF Recorded
<1>2. \A t \in Recorded : enc'[t] = enc[t] /\ dec'[t] = dec[t]
  BY RecordsAreFinal
<1>3. Results = {ResultOf(t) : t \in Recorded}
  BY DEF Results, ResultOf, BatchOf
<1>4. Results' = {ResultOf(t)' : t \in Recorded'}
  BY DEF Results, ResultOf, BatchOf
<1>5. \A t \in Recorded : ResultOf(t)' = ResultOf(t)
  BY <1>2 DEF ResultOf, OnLinks
<1>6. QED
  BY <1>1, <1>3, <1>4, <1>5

LEMMA SweepInit == Init => AbstractSweep!Init
  BY DEF Init, AbstractSweep!Init, Results, Recorded

\* Collecting a result is the abstract Record of its pipeline's batch.
LEMMA CollectRecords ==
    ASSUME IInv, RestartsAreLoud, NEW t \in Tasks, Collect(t), IInv', [Next]_vars
    PROVE  AbstractSweep!Record(BatchOf(t))
<1> USE DEF roundVars, clientVars
<1>1. /\ phase = "running" /\ RoundOf(t) = round /\ t \notin Recorded
      /\ BatchOf(t) \in Pipelines \X Batches /\ round \in Rounds
  BY TaskRanges DEF Collect, IInv, BaseInv, TypeOK, ClientInv, Holding, Recorded, BatchOf
<1>2. Recorded' = Recorded \cup {t}
  BY DEF Collect, Recorded, IInv, BaseInv, TypeOK
<1>3. enc' = enc /\ dec' = dec /\ phase' = phase /\ round' = round
  BY DEF Collect
<1>4. Results' = Results \cup {ResultOf(t)}
  <2>1. Results = {ResultOf(s) : s \in Recorded}
    BY DEF Results, ResultOf, BatchOf
  <2>2. Results' = {ResultOf(s)' : s \in Recorded'}
    BY DEF Results, ResultOf, BatchOf
  <2>3. \A s \in Tasks : ResultOf(s)' = ResultOf(s)
    BY <1>3 DEF ResultOf, OnLinks
  <2>4. Recorded \subseteq Tasks
    BY DEF Recorded
  <2>5. QED
    BY <1>2, <2>1, <2>2, <2>3, <2>4
<1>5. /\ OnLinks(PipeOf(t), enc[t]) = OnLinks(PipeOf(t), RoundConfig[round])
      /\ OnLinks(PipeOf(t), dec[t]) = OnLinks(PipeOf(t), RoundConfig[round])
  <2>1. RecordedUnderRoundConfig'
    BY IInvImplies, PTL
  <2>2. \A l \in LinksOf(t) : enc[t][l] = RoundConfig[round][l] /\ dec[t][l] = RoundConfig[round][l]
    BY <1>1, <1>2, <1>3, <2>1 DEF RecordedUnderRoundConfig
  <2>3. QED
    BY <2>2 DEF OnLinks, LinksOf
<1>6. \A x \in Results : <<x.run, x.batch>> # <<round, BatchOf(t)>>
  <2>1. ASSUME NEW s \in Recorded, RoundOf(s) = round, BatchOf(s) = BatchOf(t)
        PROVE  FALSE
    <3>1. s = t
      BY <1>1, <2>1, TaskRanges DEF Recorded, BatchOf
    <3>2. QED
      BY <1>1, <3>1
  <2>2. QED
    BY <2>1 DEF Results, BatchOf
<1>7. ResultOf(t) = [run |-> round, batch |-> BatchOf(t),
          compressed |-> OnLinks(BatchOf(t)[1], RoundConfig[round]),
          decompressed |-> OnLinks(BatchOf(t)[1], RoundConfig[round])]
  BY <1>1, <1>5 DEF ResultOf, BatchOf
<1>8. QED
  BY <1>1, <1>3, <1>4, <1>6, <1>7 DEF AbstractSweep!Record

LEMMA SweepStep ==
    ASSUME IInv, RestartsAreLoud, [Next]_vars, IInv'
    PROVE  [AbstractSweep!Next]_AbstractSweep!vars
<1> USE DEF roundVars, clientVars
<1>1. ASSUME phase' = phase, round' = round, Recorded' \subseteq Recorded
      PROVE  UNCHANGED AbstractSweep!vars
  BY <1>1, ResultsKept DEF IInv, AbstractSweep!vars
<1>2. CASE StartRound
  BY <1>2, ResultsKept
  DEF IInv, StartRound, Recorded, AbstractSweep!Next, AbstractSweep!Start
<1>3. CASE PushFails \/ PushBreaks
  BY <1>3, ResultsKept
  DEF IInv, PushFails, PushBreaks, Recorded, AbstractSweep!Next, AbstractSweep!Abort
<1>4. CASE FinishRound
  <2>1. Results' = Results
    BY <1>4, ResultsKept DEF IInv, FinishRound, Recorded
  <2>2. round < R <=> round + 1 \in Rounds
    BY MultiPipelineAssumption DEF IInv, BaseInv, TypeOK, Rounds
  <2>3. QED
    BY <1>4, <2>1, <2>2
    DEF FinishRound, Advance, AbstractSweep!Next, AbstractSweep!FinishRun
<1>5. ASSUME NEW e \in Ends, Configure(e)
      PROVE  UNCHANGED AbstractSweep!vars
  BY <1>1, <1>5 DEF Configure, PostConfig, LookAtEvent, ApplyConfig, DrainTimeout,
          Recorded
<1>6. ASSUME NEW t \in Tasks, SendOne(t) \/ Client(t), ~ Collect(t)
      PROVE  UNCHANGED AbstractSweep!vars
  BY <1>1, <1>6 DEF SendOne, Client, PostReturns, PostFails, ResultTimeout, HandleResult,
                    Recorded, IInv, BaseInv, TypeOK
<1>7. ASSUME NEW t \in Tasks, Collect(t)
      PROVE  AbstractSweep!Next
  <2>1. BatchOf(t) \in Pipelines \X Batches
    BY TaskRanges DEF BatchOf
  <2>2. QED
    BY <1>7, <2>1, CollectRecords DEF AbstractSweep!Next
<1>8. ASSUME NEW n \in Nodes, Serve(n)
      PROVE  UNCHANGED AbstractSweep!vars
  BY <1>1, <1>8, ServeEffect DEF Recorded
<1>9. ASSUME NEW n \in Nodes, Restart(n) \/ \E t \in Tasks : Infer(n, t)
      PROVE  UNCHANGED AbstractSweep!vars
  BY <1>1, <1>9 DEF Restart, Infer, Recorded
<1>10. ASSUME NEW h \in Hops, NEW t \in Tasks, Drop(h, t)
       PROVE  UNCHANGED AbstractSweep!vars
  BY <1>1, <1>10 DEF Drop, Recorded
<1>11. CASE UNCHANGED vars
  BY <1>1, <1>11 DEF vars, Recorded
<1>12. QED
  BY <1>2, <1>3, <1>4, <1>5, <1>6, <1>7, <1>8, <1>9, <1>10, <1>11 DEF Next

\* When restarts are loud, the rounds over all pipelines implement the abstract
\* experiment: one round after the other, each task recorded once, in its own round,
\* with that round's settings on both ends of every link of its pipeline.
THEOREM SweepImplemented == RestartsAreLoud /\ Spec => ImplementsSweep
<1>1. CASE RestartsAreLoud
  <2>1. Init => IInv /\ AbstractSweep!Init
    BY IInvInit, SweepInit
  <2>2. IInv /\ [Next]_vars => IInv'
    BY <1>1, BaseStep, SettingsStep DEF IInv
  <2>3. IInv /\ IInv' /\ [Next]_vars => [AbstractSweep!Next]_AbstractSweep!vars
    BY <1>1, SweepStep
  <2>4. QED
    BY <2>1, <2>2, <2>3, PTL DEF Spec, ImplementsSweep, AbstractSweep!Spec
<1>2. CASE ~ RestartsAreLoud
  BY <1>2
<1>3. QED
  BY <1>1, <1>2

-----------------------------------------------------------------------------
(* Rounds that nothing has disturbed so far.                               *)

\* A node is idle exactly when its queue is empty, whatever happens.
IdleInv == \A n \in Nodes : idleEvent[n] <=> \A t \in Tasks : hop[t][n] # "queued"

LEMMA IdleKept ==
    ASSUME IdleInv, idleEvent' = idleEvent,
           \A t \in Tasks : \A n \in Nodes : hop'[t][n] = "queued" <=> hop[t][n] = "queued"
    PROVE  IdleInv'
  BY DEF IdleInv

LEMMA IdleStep == BaseInv /\ IdleInv /\ [Next]_vars => IdleInv'
<1> SUFFICES ASSUME BaseInv, IdleInv, [Next]_vars
             PROVE  IdleInv'
  OBVIOUS
<1> USE DEF BaseInv, TypeOK, roundVars, clientVars
<1>1. CASE StartRound \/ PushFails \/ PushBreaks \/ FinishRound \/ UNCHANGED vars
  BY <1>1, IdleKept DEF StartRound, PushFails, PushBreaks, FinishRound, vars
<1>2. ASSUME NEW e \in Ends, Configure(e)
      PROVE  IdleInv'
  BY <1>2, IdleKept DEF Configure, PostConfig, LookAtEvent, ApplyConfig, DrainTimeout
<1>3. ASSUME NEW t \in Tasks, SendOne(t)
      PROVE  IdleInv'
  <2>1. hop[t][1] # "queued" /\ hop' = [hop EXCEPT ![t][1] = "posted"]
    BY <1>3, NodeRanges DEF SendOne, ClientInv
  <2>2. idleEvent' = idleEvent
    BY <1>3 DEF SendOne
  <2>3. \A s \in Tasks : \A n \in Nodes : hop'[s][n] = "queued" <=> hop[s][n] = "queued"
    BY <2>1, NodeRanges
  <2>4. QED
    BY <2>2, <2>3, IdleKept
<1>4. ASSUME NEW t \in Tasks, Client(t)
      PROVE  IdleInv'
  <2>1. idleEvent' = idleEvent
    BY <1>4 DEF Client, PostReturns, PostFails, Collect, ResultTimeout, HandleResult
  <2>2. CASE hop' = hop
    BY <2>1, <2>2, IdleKept
  <2>3. CASE HandleResult(t)
    <3>1. \A s \in Tasks : \A n \in Nodes : hop'[s][n] = "queued" <=> hop[s][n] = "queued"
      BY <2>3, NodeRanges DEF HandleResult
    <3>2. QED
      BY <2>1, <3>1, IdleKept
  <2>4. QED
    BY <1>4, <2>2, <2>3 DEF Client, PostReturns, PostFails, Collect, ResultTimeout
<1>5. ASSUME NEW n \in Nodes, NEW t \in Tasks, Infer(n, t)
      PROVE  IdleInv'
  <2>1. /\ hop' = [hop EXCEPT ![t][n] = "queued"]
        /\ idleEvent' = [idleEvent EXCEPT ![n] = FALSE]
    BY <1>5 DEF Infer
  <2>2. hop'[t][n] = "queued" /\ idleEvent'[n] = FALSE
    BY <2>1, NodeRanges
  <2>3. \A m \in Nodes : m # n => /\ idleEvent'[m] = idleEvent[m]
                                  /\ \A s \in Tasks : hop'[s][m] = hop[s][m]
    BY <2>1, NodeRanges
  <2>4. QED
    BY <2>2, <2>3 DEF IdleInv
<1>6. ASSUME NEW n \in Nodes, Serve(n)
      PROVE  IdleInv'
  <2>1. /\ idleEvent'[n] = TRUE
        /\ \A m \in Nodes : m # n => idleEvent'[m] = idleEvent[m]
    BY <1>6, ServeEffect
  <2>2. ASSUME NEW t \in Tasks
        PROVE  /\ hop'[t][n] # "queued"
               /\ \A m \in Nodes : m # n => (hop'[t][m] = "queued" <=> hop[t][m] = "queued")
    <3>1. CASE Skips(n, t)
      BY <3>1 DEF Skips
    <3>2. CASE Raises(n, t)
      BY <3>2, NodeRanges DEF Raises
    <3>3. CASE Passes(n, t)
      <4>1. ASSUME n + 1 \in Nodes
            PROVE  hop[t][n + 1] = "absent"
        <5>1. ~ Left(t, n)
          BY <3>3 DEF Passes, ChainInv
        <5>2. QED
          BY <5>1 DEF Left
      <4>2. /\ hop'[t][n] = "finished" /\ hop'[t][n + 1] = "posted"
            /\ \A h \in Hops : h # n /\ h # n + 1 => hop'[t][h] = hop[t][h]
        BY <3>3, PassesLeaves
      <4>3. QED
        BY <4>1, <4>2, NodeRanges
    <3>4. QED
      BY <1>6, <3>1, <3>2, <3>3, ServeEffect
  <2>3. QED
    BY <2>1, <2>2 DEF IdleInv
<1>7. ASSUME NEW h \in Hops, NEW t \in Tasks, Drop(h, t)
      PROVE  IdleInv'
  <2>1. hop[t][h] = "posted" /\ hop' = [hop EXCEPT ![t][h] = "dropped"]
    BY <1>7 DEF Drop
  <2>2. \A s \in Tasks : \A n \in Nodes : hop'[s][n] = "queued" <=> hop[s][n] = "queued"
    <3>1. hop'[t][h] = "dropped"
      BY <2>1
    <3>2. \A s \in Tasks : \A k \in Hops : s # t \/ k # h => hop'[s][k] = hop[s][k]
      BY <2>1
    <3>3. QED
      BY <2>1, <3>1, <3>2, NodeRanges
  <2>3. QED
    BY <1>7, <2>2, IdleKept DEF Drop
<1>8. ASSUME NEW n \in Nodes, Restart(n)
      PROVE  IdleInv'
  <2>1. \A t \in Tasks : \A m \in Nodes :
           hop'[t][m] = "queued" <=> hop[t][m] = "queued" /\ m # n
    BY <1>8, RestartHops, NodeRanges
  <2>2. idleEvent'[n] = TRUE /\ \A m \in Nodes : m # n => idleEvent'[m] = idleEvent[m]
    BY <1>8 DEF Restart
  <2>3. QED
    BY <2>1, <2>2 DEF IdleInv
<1>9. QED
  BY <1>1, <1>2, <1>3, <1>4, <1>5, <1>6, <1>7, <1>8 DEF Next

\* When nothing unexpected raises, a node raises only on what it cannot decode.
LEMMA CalmServe ==
    ASSUME TypeOK, NEW n \in Nodes, Serve(n), faults' = 0
    PROVE  /\ faults = 0
           /\ \A t \in Tasks : Raises(n, t) => Passes(n, t) \/ ~ Decodable(n, t)
<1>1. PICK raised \in SUBSET Queue(n) : ServeBacklog(n, raised)
  BY DEF Serve
<1> DEFINE surprise == {t \in raised : Decodable(n, t)}
<1>2. IsFiniteSet(surprise) /\ Cardinality(surprise) \in Nat
  <2>1. surprise \subseteq Tasks
    BY DEF Queue
  <2>2. QED
    BY <2>1, TasksFinite, FS_Subset, FS_CardinalityType
<1>3. faults' = faults + Cardinality(surprise)
  BY <1>1 DEF ServeBacklog
<1>4. faults = 0 /\ Cardinality(surprise) = 0
  <2>1. faults \in Nat
    BY MultiPipelineAssumption DEF TypeOK
  <2> HIDE DEF surprise
  <2>2. QED
    BY <1>2, <1>3, <2>1
<1>5. surprise = {}
  BY <1>2, <1>4, FS_EmptySet
<1>6. ASSUME NEW t \in Tasks, Raises(n, t)
      PROVE  Passes(n, t) \/ ~ Decodable(n, t)
  <2>1. t \in Queue(n)
    BY <1>6 DEF Raises, Queue
  <2>2. CASE t \in raised
    BY <1>5, <2>2
  <2>3. CASE t \notin raised
    BY <1>1, <2>1, <2>3, BacklogEffect
  <2>4. QED
    BY <2>2, <2>3
<1>7. QED
  BY <1>4, <1>6

\* Nothing disturbs a step that ends undisturbed.
LEMMA UndisturbedStep ==
    ASSUME BaseInv, [Next]_vars, Undisturbed'
    PROVE  Undisturbed /\ ~ Fault /\ \A n \in Nodes : ~ Restart(n)
<1> USE DEF BaseInv, Undisturbed, roundVars, clientVars
<1>1. ~ Fault
  BY MultiPipelineAssumption DEF Fault, TypeOK
<1>2. \A n \in Nodes : ~ Restart(n)
  BY DEF Restart, TypeOK
<1>3. faults = 0 /\ restarts' = restarts
  <2>1. CASE StartRound \/ PushFails \/ PushBreaks \/ FinishRound \/ UNCHANGED vars
    BY <1>1, <2>1 DEF StartRound, PushFails, PushBreaks, FinishRound, vars
  <2>2. ASSUME NEW e \in Ends, Configure(e)
        PROVE  faults = 0 /\ restarts' = restarts
    BY <1>1, <2>2 DEF Configure, PostConfig, LookAtEvent, ApplyConfig, DrainTimeout
  <2>3. ASSUME NEW t \in Tasks, SendOne(t) \/ Client(t)
        PROVE  faults = 0 /\ restarts' = restarts
    BY <1>1, <2>3 DEF SendOne, Client, PostReturns, PostFails, Collect, ResultTimeout,
                      HandleResult
  <2>4. ASSUME NEW n \in Nodes, NEW t \in Tasks, Infer(n, t)
        PROVE  faults = 0 /\ restarts' = restarts
    BY <2>4 DEF Infer
  <2>5. ASSUME NEW n \in Nodes, Serve(n)
        PROVE  faults = 0 /\ restarts' = restarts
    BY <2>5, CalmServe, ServeEffect
  <2>6. ASSUME NEW h \in Hops, NEW t \in Tasks, Drop(h, t)
        PROVE  FALSE
    BY <1>1, <2>6 DEF Drop
  <2>7. QED
    BY <1>2, <2>1, <2>2, <2>3, <2>4, <2>5, <2>6 DEF Next
<1>4. QED
  BY <1>1, <1>2, <1>3

\* Every update gets through at once, with the settings of the round: no update
\* ever finds a task of the round before in a queue.
PushComplete ==
    /\ phase # "aborted"
    /\ phase = "done" => round = R
    /\ \A e \in Ends : /\ push[e] \notin {"waiting", "rejected", "lost"}
                       /\ push[e] = "applied" => config[e] = RoundConfig[round][e[1]]

\* A task that was sent is at some hop or has resolved its future, it is encoded
\* with its round's settings, and its round is left only when it is recorded.
TaskComplete(t) ==
    /\ client[t] \notin {"timedout", "failed"}
    /\ \A h \in Hops : hop[t][h] # "dropped"
    /\ t \in future <=> hop[t][N + 1] = "finished"
    /\ client[t] # "waiting" =>
          t \in future \/ \E h \in Hops : hop[t][h] \in {"posted", "queued"}
    /\ \A n \in Nodes : n # N /\ Left(t, n) =>
          enc[t][After(t, n)] = RoundConfig[RoundOf(t)][After(t, n)]
    /\ RoundOf(t) < round \/ phase = "done" => client[t] = "recorded"

CompleteInv == Undisturbed => PushComplete /\ \A t \in Tasks : TaskComplete(t)

LEMMA CompleteInit == Init => IdleInv /\ CompleteInv
<1> SUFFICES ASSUME Init
             PROVE  IdleInv /\ CompleteInv
  OBVIOUS
<1>1. IdleInv /\ PushComplete
  BY NodeRanges DEF Init, PushComplete, IdleInv
<1>2. ASSUME NEW t \in Tasks
      PROVE  TaskComplete(t)
  <2>1. \A h \in Hops : hop[t][h] = "absent"
    BY DEF Init
  <2>2. \A n \in Nodes : ~ Left(t, n)
    BY <2>1, NodeRanges DEF Left
  <2>3. ~ (RoundOf(t) < round) /\ phase # "done" /\ client[t] = "waiting" /\ t \notin future
    BY TaskRanges DEF Init, Rounds
  <2>4. QED
    BY <2>1, <2>2, <2>3, NodeRanges DEF TaskComplete
<1>3. QED
  BY <1>1, <1>2 DEF CompleteInv

\* A queued task is pending, so both ends of the link that it came over have its
\* round's setting and it does not raise.
LEMMA QueuedDecodes ==
    ASSUME BaseInv, PushComplete, NEW t \in Tasks, TaskComplete(t),
           NEW n \in Nodes, hop[t][n] = "queued"
    PROVE  /\ Holding(t) /\ phase = "running" /\ RoundOf(t) = round
           /\ \A e \in Ends : config[e] = RoundConfig[round][e[1]]
           /\ Decodable(n, t)
<1> USE DEF BaseInv, TypeOK
<1>1. Watched(t)
  BY NodeRanges DEF ClientInv, TaskComplete, Watched, ClientStages
<1>2. phase = "running" /\ RoundOf(t) = round
  BY <1>1, QueuedIsPending
<1>3. ~ Left(t, N)
  BY NodeRanges DEF ChainInv
<1>4. Holding(t)
  BY <1>1, <1>3 DEF Watched, Holding, ClientInv, Left
<1>5. \A e \in Ends : config[e] = RoundConfig[round][e[1]]
  BY <1>2 DEF PushInv, PushComplete
<1>6. ASSUME n > 1
      PROVE  enc[t][Before(t, n)] = config[<<Before(t, n), "incoming">>]
  <2>1. n # 1 /\ n - 1 \in Nodes /\ n - 1 # N /\ (n - 1) + 1 = n
    <3>1. n # 1
      BY <1>6
    <3>2. QED
      BY <3>1, NodeRanges
  <2>2. /\ <<Before(t, n), "incoming">> \in Ends
        /\ Before(t, n) = After(t, n - 1)
    BY <2>1, LinkRanges
  <2>3. Left(t, n - 1)
    BY <2>1 DEF Left
  <2>4. QED
    BY <1>2, <1>5, <2>1, <2>2, <2>3 DEF TaskComplete
<1>7. QED
  BY <1>2, <1>4, <1>5, <1>6 DEF Decodable

\* Outside of a round every node is idle.
LEMMA PushFindsIdle ==
    ASSUME BaseInv, IdleInv, PushComplete, \A t \in Tasks : TaskComplete(t),
           phase # "running", NEW n \in Nodes
    PROVE  idleEvent[n]
<1>1. ASSUME NEW t \in Tasks
      PROVE  hop[t][n] # "queued"
  BY <1>1, QueuedDecodes
<1>2. QED
  BY <1>1 DEF IdleInv

LEMMA PushCompleteStep ==
    ASSUME BaseInv, IdleInv, [Next]_vars, Undisturbed', PushComplete,
           \A t \in Tasks : TaskComplete(t)
    PROVE  PushComplete'
<1> USE DEF BaseInv, TypeOK, PushComplete, roundVars, clientVars
<1>1. ~ Fault /\ \A n \in Nodes : ~ Restart(n)
  BY UndisturbedStep
<1>2. CASE StartRound \/ UNCHANGED vars
  BY <1>2 DEF StartRound, vars
<1>3. ~ PushFails /\ ~ PushBreaks
  BY <1>1 DEF PushFails, PushBreaks
<1>4. CASE FinishRound
  BY <1>4, MultiPipelineAssumption DEF FinishRound, Advance, Rounds
<1>5. ASSUME NEW e \in Ends, LookAtEvent(e)
      PROVE  PushComplete'
  <2>1. NodeOf(e) \in Nodes
    BY MultiPipelineAssumption DEF NodeOf, Ends, Links, Directions, Nodes
  <2>2. idleEvent[NodeOf(e)]
    BY <1>5, <2>1, PushFindsIdle DEF LookAtEvent, PushInv
  <2>3. push' = [push EXCEPT ![e] = "drained"]
    BY <1>5, <2>2 DEF LookAtEvent
  <2>4. QED
    BY <1>5, <2>3 DEF LookAtEvent
<1>6. ASSUME NEW e \in Ends, PostConfig(e) \/ ApplyConfig(e) \/ DrainTimeout(e)
      PROVE  PushComplete'
  BY <1>1, <1>6 DEF PostConfig, ApplyConfig, DrainTimeout
<1>7. ASSUME NEW t \in Tasks, SendOne(t) \/ Client(t) \/ \E n \in Nodes : Infer(n, t)
      PROVE  PushComplete'
  BY <1>7 DEF SendOne, Client, PostReturns, PostFails, Collect, ResultTimeout,
              HandleResult, Infer
<1>8. ASSUME NEW n \in Nodes, Serve(n)
      PROVE  PushComplete'
  BY <1>8, ServeEffect
<1>9. ~ \E h \in Hops, t \in Tasks : Drop(h, t)
  BY <1>1 DEF Drop
<1>10. QED
  BY <1>1, <1>2, <1>3, <1>4, <1>5, <1>6, <1>7, <1>8, <1>9 DEF Next, Configure

\* A step that does not concern task t.
LEMMA TaskKept ==
    ASSUME NEW t \in Tasks, TaskComplete(t), client'[t] = client[t], hop'[t] = hop[t],
           enc'[t] = enc[t], t \in future' <=> t \in future, round' = round,
           phase' = "done" => phase = "done"
    PROVE  TaskComplete(t)'
  BY DEF TaskComplete, Left

LEMMA TaskCompleteStep ==
    ASSUME BaseInv, [Next]_vars, Undisturbed', PushComplete,
           NEW t \in Tasks, TaskComplete(t)
    PROVE  TaskComplete(t)'
<1> USE DEF BaseInv, TypeOK, roundVars, clientVars
<1>1. ~ Fault /\ \A n \in Nodes : ~ Restart(n)
  BY UndisturbedStep
<1>2. CASE StartRound \/ PushFails \/ PushBreaks \/ UNCHANGED vars
  BY <1>2, TaskKept DEF StartRound, PushFails, PushBreaks, vars
<1>3. CASE FinishRound
  <2>1. /\ client' = client /\ hop' = hop /\ enc' = enc /\ future' = future
        /\ phase = "running" /\ round' \in {round, round + 1}
        /\ phase' = "done" => round = R
    BY <1>3, MultiPipelineAssumption DEF FinishRound, Advance, Rounds
  <2>2. RoundOf(t) \in Nat /\ RoundOf(t) <= R /\ round \in Nat
    BY TaskRanges, MultiPipelineAssumption DEF Rounds
  <2>3. RoundOf(t) = round => client[t] = "recorded"
    BY <1>3 DEF FinishRound, TasksOf, TaskComplete
  <2>4. RoundOf(t) < round' \/ phase' = "done" => RoundOf(t) < round \/ RoundOf(t) = round
    BY ONLY <2>1, <2>2
  <2>5. RoundOf(t) < round' \/ phase' = "done" => client'[t] = "recorded"
    BY <2>1, <2>3, <2>4 DEF TaskComplete
  <2>6. QED
    BY <2>1, <2>5 DEF TaskComplete, Left
<1>4. ASSUME NEW e \in Ends, Configure(e)
      PROVE  TaskComplete(t)'
  BY <1>4, TaskKept DEF Configure, PostConfig, LookAtEvent, ApplyConfig, DrainTimeout
<1>5. ASSUME NEW s \in Tasks, SendOne(s)
      PROVE  TaskComplete(t)'
  <2>1. CASE t # s
    BY <1>5, <2>1, TaskKept DEF SendOne
  <2>2. CASE t = s
    <3>1. /\ \A h \in Hops : hop[t][h] = "absent"
          /\ hop' = [hop EXCEPT ![t][1] = "posted"]
          /\ client' = [client EXCEPT ![t] = "posting"]
          /\ phase = "running" /\ phase' = phase /\ round' = round /\ RoundOf(t) = round
          /\ future' = future /\ enc' = enc
      BY <1>5, <2>2 DEF SendOne, ClientInv
    <3>2. \A h \in Hops : h # 1 => hop'[t][h] = "absent"
      BY <3>1
    <3>3. hop'[t][1] = "posted" /\ client'[t] = "posting"
      BY <3>1, NodeRanges
    <3>4. \A n \in Nodes : ~ Left(t, n)'
      BY <1>5, <2>2, SendOneHops
    <3>5. t \notin future /\ hop'[t][N + 1] = "absent"
      BY <3>1, <3>2, NodeRanges DEF ClientInv
    <3>6. ~ (RoundOf(t) < round') /\ phase' # "done"
      BY <3>1 DEF Rounds
    <3>7. QED
      BY <3>1, <3>2, <3>3, <3>4, <3>5, <3>6, NodeRanges DEF TaskComplete
  <2>3. QED
    BY <2>1, <2>2
<1>6. ASSUME NEW s \in Tasks, Client(s)
      PROVE  TaskComplete(t)'
  <2>1. CASE s # t
    BY <1>6, <2>1, TaskKept
    DEF Client, PostReturns, PostFails, Collect, ResultTimeout, HandleResult
  <2>2. CASE s = t /\ PostReturns(s)
    BY <2>2 DEF PostReturns, TaskComplete, Left
  <2>3. ~ PostFails(t)
    BY <1>1, NodeRanges DEF PostFails, TaskComplete
  <2>4. CASE s = t /\ Collect(s)
    BY <2>4 DEF Collect, TaskComplete, Left
  <2>5. ~ ResultTimeout(t)
    BY <1>1 DEF ResultTimeout, TaskComplete
  <2>6. CASE s = t /\ HandleResult(s)
    <3>1. /\ hop[t][N + 1] = "posted" /\ hop' = [hop EXCEPT ![t][N + 1] = "finished"]
          /\ client' = client /\ enc' = enc /\ round' = round /\ phase' = phase
      BY <2>6 DEF HandleResult
    <3>2. Holding(t)
      BY <3>1, NodeRanges DEF ClientInv, TaskComplete, Holding, ClientStages
    <3>3. t \in future'
      BY <2>6, <3>2 DEF HandleResult
    <3>4. /\ hop'[t][N + 1] = "finished"
          /\ \A h \in Hops : h # N + 1 => hop'[t][h] = hop[t][h]
      BY <3>1, NodeRanges
    <3>5. \A n \in Nodes : Left(t, n)' => Left(t, n)
      BY <3>1, <3>4, NodeRanges DEF Left
    <3>6. QED
      BY <3>1, <3>3, <3>4, <3>5 DEF TaskComplete
  <2>7. QED
    BY <1>6, <2>1, <2>2, <2>3, <2>4, <2>5, <2>6 DEF Client
<1>7. ASSUME NEW n \in Nodes, NEW s \in Tasks, Infer(n, s)
      PROVE  TaskComplete(t)'
  <2>1. CASE s # t
    BY <1>7, <2>1, TaskKept DEF Infer
  <2>2. CASE s = t
    <3>0. n # N + 1 /\ n \in Hops
      BY MultiPipelineAssumption, NodeRanges DEF Nodes
    <3>1. /\ hop[t][n] = "posted" /\ hop' = [hop EXCEPT ![t][n] = "queued"] /\ enc' = enc
          /\ client' = client /\ future' = future /\ round' = round /\ phase' = phase
      BY <1>7, <2>2 DEF Infer
    <3>2. /\ hop'[t][n] = "queued"
          /\ \A h \in Hops : h # n => hop'[t][h] = hop[t][h]
      BY <3>0, <3>1
    <3>3. \A m \in Nodes : Left(t, m)' => Left(t, m)
      BY <3>1, <3>2, NodeRanges DEF Left
    <3>4. QED
      BY <3>0, <3>1, <3>2, <3>3, NodeRanges DEF TaskComplete
  <2>3. QED
    BY <2>1, <2>2
<1>8. ASSUME NEW n \in Nodes, Serve(n)
      PROVE  TaskComplete(t)'
  <2>1. /\ client' = client /\ future' = future /\ round' = round /\ phase' = phase
    BY <1>8, ServeEffect
  <2>2. CASE Skips(n, t)
    BY <2>1, <2>2, TaskKept DEF Skips
  <2>3. Raises(n, t) => Passes(n, t)
    <3>1. faults' = 0
      BY DEF Undisturbed
    <3>2. Raises(n, t) => Decodable(n, t)
      BY QueuedDecodes DEF Raises
    <3>3. QED
      BY <1>8, <3>1, <3>2, CalmServe
  <2>4. CASE Passes(n, t)
    <3>1. /\ hop'[t][n] = "finished" /\ hop'[t][n + 1] = "posted"
          /\ \A h \in Hops : h # n /\ h # n + 1 => hop'[t][h] = hop[t][h]
          /\ \A m \in Nodes : Left(t, m) <=> m < n
          /\ \A m \in Nodes : Left(t, m)' <=> m <= n
      BY <2>4, PassesLeaves
    <3>2. RoundOf(t) = round /\ \A e \in Ends : config[e] = RoundConfig[round][e[1]]
      BY <2>4, QueuedDecodes DEF Passes
    <3>3. ASSUME NEW m \in Nodes, m # N, Left(t, m)'
          PROVE  enc'[t][After(t, m)] = RoundConfig[RoundOf(t)][After(t, m)]
      <4>1. CASE m = n
        <5>1. n < N /\ After(t, n) \in Links /\ <<After(t, n), "outgoing">> \in Ends
          <6>1. n < N
            BY <3>3, <4>1, NodeRanges DEF Nodes
          <6>2. QED
            BY <3>3, <4>1, <6>1, LinkRanges
        <5>2. enc'[t][After(t, n)] = config[<<After(t, n), "outgoing">>]
          BY <2>4, <5>1 DEF Passes
        <5>3. QED
          BY <3>2, <4>1, <5>1, <5>2
      <4>2. CASE m # n
        <5>1. Left(t, m)
          BY <3>1, <3>3, <4>2 DEF Nodes
        <5>2. After(t, m) # After(t, n) /\ After(t, m) \in Links
          BY <3>3, <4>2, LinkRanges DEF After
        <5>3. enc'[t][After(t, m)] = enc[t][After(t, m)]
          BY <2>4, <5>2 DEF Passes
        <5>4. QED
          BY <3>3, <5>1, <5>3 DEF TaskComplete
      <4>3. QED
        BY <4>1, <4>2
    <3>4. t \notin future /\ hop'[t][N + 1] # "finished"
      <4>1. hop[t][N + 1] = "absent"
        <5>1. N \in Nodes /\ ~ (N < n)
          BY NodeRanges DEF Nodes
        <5>2. ~ Left(t, N)
          BY <3>1, <5>1
        <5>3. QED
          BY <5>2 DEF Left
      <4>2. CASE n + 1 = N + 1
        BY <3>1, <4>1, <4>2 DEF TaskComplete
      <4>3. CASE n + 1 # N + 1
        <5>1. N + 1 # n
          BY NodeRanges DEF Nodes
        <5>2. QED
          BY <3>1, <4>1, <4>3, <5>1, NodeRanges DEF TaskComplete
      <4>4. QED
        BY <4>2, <4>3
    <3>5. QED
      BY <2>1, <3>1, <3>3, <3>4, NodeRanges DEF TaskComplete
  <2>5. QED
    BY <1>8, <2>2, <2>3, <2>4, ServeEffect
<1>9. ~ \E h \in Hops, s \in Tasks : Drop(h, s)
  BY <1>1 DEF Drop
<1>10. QED
  BY <1>1, <1>2, <1>3, <1>4, <1>5, <1>6, <1>7, <1>8, <1>9 DEF Next

LEMMA CompleteStep == BaseInv /\ IdleInv /\ CompleteInv /\ [Next]_vars => CompleteInv'
  BY UndisturbedStep, PushCompleteStep, TaskCompleteStep DEF CompleteInv

\* Without faults and restarts the rounds end with every task of every pipeline
\* recorded: no push finds a node busy, nothing raises and nothing is given up.
THEOREM NothingIsMissing == Spec => []EveryTaskRecorded
<1>1. Init => BaseInv /\ IdleInv /\ CompleteInv
  BY IInvInit, CompleteInit DEF IInv
<1>2. BaseInv /\ IdleInv /\ CompleteInv /\ [Next]_vars => BaseInv' /\ IdleInv' /\ CompleteInv'
  BY BaseStep, IdleStep, CompleteStep
<1>3. BaseInv /\ CompleteInv => EveryTaskRecorded
  BY DEF CompleteInv, PushComplete, TaskComplete, EveryTaskRecorded, Undisturbed, Recorded
<1>4. QED
  BY <1>1, <1>2, <1>3, PTL DEF Spec
=============================================================================
