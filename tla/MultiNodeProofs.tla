-------------------------- MODULE MultiNodeProofs --------------------------
(***************************************************************************)
(* A multi-model node, for any pipelines, tasks, weights, updates and      *)
(* restarts and for compute times of either sign: the worker never sleeps  *)
(* on a task, the node is idle exactly when its queue is empty, weights    *)
(* reorder pipelines but never the tasks of one pipeline, and an update    *)
(* waits for the tasks that were there first and gives way only to a later *)
(* one, but for one race.                                                  *)
(***************************************************************************)
EXTENDS MultiNodeHistory, Queues, SequenceTheorems, TLAPS

-----------------------------------------------------------------------------
(* Logs that grow at the end.                                              *)

\* A newcomer stands at the end.
LEMMA AppendHolds ==
    ASSUME NEW S, NEW s \in Seq(S), NEW e \in S
    PROVE  /\ Append(s, e) \in Seq(S)
           /\ Len(Append(s, e)) = Len(s) + 1 /\ Len(s) \in Nat
           /\ Append(s, e)[Len(s) + 1] = e
           /\ \A i \in 1 .. Len(s) : Append(s, e)[i] = s[i]
           /\ \A x : Holds(Append(s, e), x) <=> Holds(s, x) \/ x = e
<1>1. /\ Append(s, e) \in Seq(S)
      /\ Len(Append(s, e)) = Len(s) + 1 /\ Len(s) \in Nat
      /\ Append(s, e)[Len(s) + 1] = e
      /\ \A i \in 1 .. Len(s) : Append(s, e)[i] = s[i]
  BY AppendProperties, LenProperties
<1> HIDE DEF Holds
<1>2. \A x : Holds(Append(s, e), x) => Holds(s, x) \/ x = e
  BY <1>1 DEF Holds
<1>3. \A x : Holds(s, x) => Holds(Append(s, e), x)
  BY <1>1 DEF Holds
<1>4. Holds(Append(s, e), e)
  BY <1>1 DEF Holds
<1>5. QED
  BY <1>1, <1>2, <1>3, <1>4

LEMMA AppendDistinct ==
    ASSUME NEW S, NEW s \in Seq(S), NEW e \in S, Distinct(s), ~ Holds(s, e)
    PROVE  Distinct(Append(s, e))
<1>1. \A i \in 1 .. Len(s) : s[i] # e
  BY DEF Holds
<1>2. QED
  BY <1>1, AppendHolds DEF Distinct


-----------------------------------------------------------------------------
(* Type correctness.                                                       *)

LEMMA AdvanceType ==
    ASSUME NEW c \in Int, NEW w \in Nat \ {0}
    PROVE  Advance(c, w) \in Int
<1>1. c * Scale \in Int
  BY MultiNodeAssumption
<1>2. QED
  BY <1>1 DEF Advance

\* Only the clock of the task's pipeline is charged.
LEMMA ChargeType ==
    ASSUME TypeOK, NEW t \in Tasks, PipeOf[t] \in Pipelines,
           NEW cost \in Int, Charge(t, cost)
    PROVE  /\ virtualTime' \in [Pipelines -> Clocks]
           /\ \A p \in Pipelines \ {PipeOf[t]} : virtualTime'[p] = virtualTime[p]
<1> DEFINE p == PipeOf[t]
           a == IF virtualTime[p] = NaN \/ weight[p] = NaN THEN NaN
                ELSE virtualTime[p] + Advance(cost, weight[p])
<1>1. a \in Clocks
  <2>1. CASE virtualTime[p] = NaN \/ weight[p] = NaN
    BY <2>1 DEF Clocks
  <2>2. CASE ~ (virtualTime[p] = NaN \/ weight[p] = NaN)
    <3>1. virtualTime[p] \in Int /\ weight[p] \in Nat \ {0}
      BY <2>2 DEF TypeOK, Clocks
    <3>2. Advance(cost, weight[p]) \in Int
      BY <3>1, AdvanceType
    <3>3. virtualTime[p] + Advance(cost, weight[p]) \in Int
      BY <3>1, <3>2
    <3>4. QED
      BY <2>2, <3>3 DEF Clocks
  <2>3. QED
    BY <2>1, <2>2
<1>2. virtualTime' = [virtualTime EXCEPT ![p] = a]
  BY DEF Charge
<1> HIDE DEF a
<1>3. QED
  BY <1>1, <1>2 DEF TypeOK

LEMMA WakeType ==
    ASSUME TypeOK, Wake
    PROVE  /\ update' \in [Updates -> UpdateStages]
           /\ ahead' \in [Updates -> SUBSET Updates]
           /\ probe' \in ProbeStages
<1>1. Ready \subseteq Updates
  BY DEF Ready
<1>2. ahead' \in [Updates -> SUBSET Updates]
  BY <1>1 DEF Wake, TypeOK
<1>3. QED
  BY <1>2 DEF Wake, TypeOK, UpdateStages, ProbeStages

LEMMA SettleType ==
    ASSUME TypeOK, Settle
    PROVE  /\ worker' \in {"blocked", "woken", "running"}
           /\ idleEvent' \in BOOLEAN
           /\ update' \in [Updates -> UpdateStages]
           /\ ahead' \in [Updates -> SUBSET Updates]
           /\ probe' \in ProbeStages
<1>1. CASE \A t \in Tasks : stage'[t] # "queued"
  BY <1>1, WakeType DEF Settle
<1>2. CASE ~ \A t \in Tasks : stage'[t] # "queued"
  BY <1>2 DEF Settle, TypeOK
<1>3. QED
  BY <1>1, <1>2

LEMMA WeightsType ==
    ASSUME TypeOK, NEW c \in WeightCalls, UpdateWeights(c)
    PROVE  weight' \in [Pipelines -> (Nat \ {0}) \cup {NaN}]
<1> DEFINE read(p) == {i \in 1 .. Len(c) : c[i].pipe = p
                                             /\ \A j \in Invalid(c) : i < j}
           new(p) == IF read(p) = {} THEN weight[p]
                     ELSE c[CHOOSE i \in read(p) : TRUE].weight
<1>1. ASSUME NEW p \in Pipelines
      PROVE  new(p) \in (Nat \ {0}) \cup {NaN}
  <2>1. CASE read(p) = {}
    BY <2>1 DEF TypeOK
  <2>2. CASE read(p) # {}
    <3>1. PICK i \in read(p) : i = CHOOSE k \in read(p) : TRUE
      BY <2>2
    <3>2. i \in 1 .. Len(c) /\ c[i].pipe = p /\ i \notin Invalid(c)
      BY <3>1
    <3>3. c[i].weight \in Int \cup {NaN}
      BY <3>2, MultiNodeAssumption
    <3>4. c[i].weight = NaN \/ ~ (c[i].weight <= 0)
      BY <3>2 DEF Invalid
    <3>5. new(p) = c[i].weight
      BY <2>2, <3>1
    <3>6. QED
      BY <3>3, <3>4, <3>5
  <2>3. QED
    BY <2>1, <2>2
<1>2. weight' = [p \in Pipelines |-> new(p)]
  BY DEF UpdateWeights
<1>3. QED
  BY <1>1, <1>2

LEMMA TypeInit == Init => TypeOK
  BY MultiNodeAssumption
  DEF Init, TypeOK, Clocks, TaskStages, UpdateStages, CallStages, ProbeStages

\* Only tasks of pipelines of this node are queued.
KnownInv == \A t \in Queued : PipeOf[t] \in Pipelines

\* The outcomes a task may have are among the values of its variables.
LEMMA ServeFacts ==
    ASSUME TypeOK, KnownInv, NEW t \in Tasks, ServeSome(t)
    PROVE  \E outcome \in {"sending", "finished"}, cost \in Int :
              Serve(t, cost, outcome)
  BY MultiNodeAssumption DEF ServeSome

LEMMA TypeStep == TypeOK /\ KnownInv /\ [Next]_vars => TypeOK'
<1> SUFFICES ASSUME TypeOK, KnownInv, [Next]_vars
             PROVE  TypeOK'
  OBVIOUS
<1> USE DEF itemVars, shareVars, updateVars
<1>1. ASSUME NEW t \in Tasks, Infer(t) \/ RejectTask(t)
      PROVE  TypeOK'
  <2>1. CASE Infer(t)
    <3>1. stage' \in [Tasks -> TaskStages]
      BY <2>1 DEF Infer, TypeOK, TaskStages
    <3>2. tag' \in [Tasks -> Clocks]
      BY <2>1 DEF Infer, StartTag, TypeOK
    <3>3. seqCounter' \in Nat
      BY <2>1 DEF Infer, TypeOK
    <3>4. seq' \in [Tasks -> Nat]
      BY <2>1, <3>3 DEF Infer, TypeOK
    <3>5. QED
      BY <2>1, <3>1, <3>2, <3>3, <3>4 DEF Infer, TypeOK
  <2>2. CASE RejectTask(t)
    BY <2>2 DEF RejectTask, TypeOK, TaskStages
  <2>3. QED
    BY <1>1, <2>1, <2>2
<1>2. CASE WorkerResumes
  BY <1>2 DEF WorkerResumes, TypeOK
<1>3. ASSUME NEW t \in Tasks, ServeSome(t) \/ SendReturns(t)
      PROVE  TypeOK'
  <2>1. CASE ServeSome(t)
    <3>1. PICK outcome \in {"sending", "finished"}, cost \in Int :
             Serve(t, cost, outcome)
      BY <2>1, ServeFacts
    <3>2. PipeOf[t] \in Pipelines
      BY <3>1 DEF Serve, KnownInv
    <3>3. virtualTime' \in [Pipelines -> Clocks]
      BY <3>1, <3>2, ChargeType DEF Serve
    <3>4. /\ worker' \in {"blocked", "woken", "running"}
          /\ idleEvent' \in BOOLEAN
          /\ update' \in [Updates -> UpdateStages]
          /\ ahead' \in [Updates -> SUBSET Updates]
          /\ probe' \in ProbeStages
      BY <3>1, SettleType DEF Serve
    <3>5. stage' \in [Tasks -> TaskStages]
      BY <3>1 DEF Serve, TypeOK, TaskStages
    <3>6. QED
      BY <3>1, <3>3, <3>4, <3>5 DEF Serve, TypeOK
  <2>2. CASE SendReturns(t)
    BY <2>2 DEF SendReturns, TypeOK, TaskStages
  <2>3. QED
    BY <1>3, <2>1, <2>2
<1>4. ASSUME NEW u \in Updates,
             \/ RejectUpdate(u) \/ PostConfig(u) \/ LookAtEvent(u)
             \/ ApplyConfig(u) \/ DrainTimeout(u)
      PROVE  TypeOK'
  <2>1. CASE PostConfig(u)
    BY <2>1 DEF PostConfig, TypeOK, UpdateStages, Ready
  <2>2. CASE RejectUpdate(u)
    BY <2>2 DEF RejectUpdate, TypeOK, UpdateStages
  <2>3. CASE LookAtEvent(u) \/ ApplyConfig(u) \/ DrainTimeout(u)
    <3>1. ahead' \in [Updates -> SUBSET Updates]
      <4>1. AheadWithout(u) \in [Updates -> SUBSET Updates] /\ Blocked \subseteq Updates
        BY DEF TypeOK, AheadWithout, Blocked
      <4>2. ahead' \in {ahead, AheadWithout(u),
                       [AheadWithout(u) EXCEPT ![u] = Blocked \cap SameSlot(u)]}
        BY <2>3 DEF LookAtEvent, ApplyConfig, DrainTimeout
      <4>3. QED
        BY <4>1, <4>2 DEF TypeOK
    <3>2. update' \in [Updates -> UpdateStages]
      BY <2>3 DEF TypeOK, LookAtEvent, ApplyConfig, DrainTimeout, UpdateStages
    <3>3. config' \in [Slots -> Configs]
      BY <2>3, MultiNodeAssumption DEF TypeOK, LookAtEvent, ApplyConfig, DrainTimeout
    <3>4. QED
      BY <2>3, <3>1, <3>2, <3>3 DEF TypeOK, LookAtEvent, ApplyConfig, DrainTimeout
  <2>4. QED
    BY <1>4, <2>1, <2>2, <2>3
<1>5. ASSUME NEW c \in WeightCalls, UpdateWeights(c)
      PROVE  TypeOK'
  <2>1. weight' \in [Pipelines -> (Nat \ {0}) \cup {NaN}]
    BY <1>5, WeightsType
  <2>2. weightCall' \in [WeightCalls -> CallStages]
    BY <1>5 DEF UpdateWeights, TypeOK, CallStages
  <2>3. UNCHANGED <<itemVars, virtualTime, worker, idleEvent, updateVars, probe,
                    restarts>>
    BY <1>5 DEF UpdateWeights
  <2>4. QED
    BY <2>1, <2>2, <2>3 DEF TypeOK
<1>6. CASE ProbeCheck \/ ProbeRtt \/ ProbeEnds \/ ProbeSleepEnds
  BY <1>6 DEF ProbeCheck, ProbeRtt, ProbeEnds, ProbeSleepEnds, ProbeMoves, TopOfLoop,
              TypeOK, ProbeStages
<1>7. CASE Restart
  BY <1>7, MultiNodeAssumption
  DEF Restart, TypeOK, Clocks, TaskStages, UpdateStages, ProbeStages
<1>8. CASE UNCHANGED vars
  BY <1>8 DEF vars, TypeOK
<1>9. QED
  BY <1>1, <1>2, <1>3, <1>4, <1>5, <1>6, <1>7, <1>8 DEF Next

-----------------------------------------------------------------------------
(* The inductive invariant: the properties, that the tasks one pipeline has  *)
(* in the queue share their tag, and that sequence numbers are unique there. *)

SameTag ==
    \A t, u \in Queued : PipeOf[t] = PipeOf[u] => tag[t] = tag[u]

SeqInv ==
    \A t \in Queued : /\ seq[t] <= seqCounter
                      /\ \A u \in Queued \ {t} : seq[u] # seq[t]

\* Before the worker runs, the queued tasks carry their pipelines' clocks.
TagInv ==
    worker # "running" => \A t \in Queued : tag[t] = virtualTime[PipeOf[t]]

QueueInv == KnownInv /\ TagInv /\ SameTag /\ SeqInv

IInv == TypeOK /\ QueueInv /\ IdleExact

LEMMA IInvInit == Init => IInv
<1> SUFFICES ASSUME Init
             PROVE  IInv
  OBVIOUS
<1>1. Queued = {}
  BY DEF Init, Queued
<1>2. QueueInv
  BY <1>1 DEF QueueInv, KnownInv, TagInv, SameTag, SeqInv
<1>3. IdleExact
  BY <1>1 DEF Init, IdleExact, Blocked
<1>4. QED
  BY <1>2, <1>3, TypeInit DEF IInv

\* Infer queues one task behind all others, with its pipeline's tag.
LEMMA InferStep ==
    ASSUME IInv, NEW t \in Tasks, Infer(t)
    PROVE  QueueInv' /\ IdleExact'
<1> USE DEF shareVars, updateVars
<1>1. Queued' = Queued \cup {t} /\ t \notin Queued
  BY DEF Infer, Queued, IInv, TypeOK
<1>2. KnownInv'
  BY <1>1 DEF Infer, IInv, QueueInv, KnownInv
<1>3. /\ \A u \in Queued : tag'[u] = tag[u] /\ seq'[u] = seq[u]
      /\ tag'[t] = virtualTime[PipeOf[t]]
      /\ seqCounter' = seqCounter + 1
      /\ seq'[t] = seqCounter + 1
  BY <1>1 DEF Infer, StartTag, IInv, TypeOK, Queued
<1>4. \A u \in Queued : tag[u] = virtualTime[PipeOf[u]]
  BY DEF Infer, LoopIsFree, IInv, QueueInv, TagInv
<1>5. \A u \in Queued' : tag'[u] = virtualTime'[PipeOf[u]]
  BY <1>1, <1>3, <1>4 DEF Infer
<1>7. TagInv'
  BY <1>5 DEF TagInv
<1>8. SameTag'
  BY <1>5 DEF SameTag
<1>9. SeqInv'
  <2>1. seqCounter \in Nat /\ \A u \in Queued : seq[u] \in Nat
    BY DEF IInv, TypeOK, Queued
  <2>2. \A u \in Queued : seq[u] <= seqCounter
    BY DEF IInv, QueueInv, SeqInv
  <2>3. \A u \in Queued' : seq'[u] <= seqCounter'
    BY <1>1, <1>3, <2>1, <2>2
  <2>4. ASSUME NEW u \in Queued', NEW v \in Queued' \ {u}
        PROVE  seq'[v] # seq'[u]
    <3>1. CASE u \in Queued /\ v \in Queued
      BY <1>3, <2>4, <3>1 DEF IInv, QueueInv, SeqInv
    <3>2. CASE u = t /\ v \in Queued
      BY <1>3, <2>1, <2>2, <3>2
    <3>3. CASE v = t /\ u \in Queued
      BY <1>3, <2>1, <2>2, <3>3
    <3>4. QED
      BY <1>1, <2>4, <3>1, <3>2, <3>3
  <2>5. QED
    BY <2>3, <2>4 DEF SeqInv
<1>10. IdleExact'
  BY <1>1 DEF Infer, IdleExact
<1>11. QED
  BY <1>2, <1>7, <1>8, <1>9, <1>10 DEF QueueInv

\* Serve takes one task out and moves only its pipeline's clock.
LEMMA ServeStep ==
    ASSUME IInv, NEW t \in Tasks, ServeSome(t)
    PROVE  QueueInv' /\ IdleExact'
<1>1. PICK outcome \in {"sending", "finished"}, cost \in Int : Serve(t, cost, outcome)
  BY ServeFacts DEF IInv, QueueInv
<1>2. Queued' = Queued \ {t} /\ t \in Queued
  BY <1>1 DEF Serve, Queued, IInv, TypeOK
<1>3. PipeOf[t] \in Pipelines
  BY <1>2 DEF IInv, QueueInv, KnownInv
<1>4. UNCHANGED <<tag, seq, seqCounter>> /\ worker = "running"
  BY <1>1 DEF Serve
<1>5. KnownInv' /\ SameTag' /\ SeqInv'
  BY <1>2, <1>4 DEF IInv, QueueInv, KnownInv, SameTag, SeqInv
<1>7. (\A u \in Tasks : stage'[u] # "queued") <=> Queued' = {}
  BY DEF Queued
<1>9. CASE Queued' = {}
  <2>1. IdleExact'
    BY <1>1, <1>7, <1>9 DEF Serve, Settle, Wake, Blocked, IdleExact, IInv, TypeOK
  <2>2. TagInv'
    BY <1>9 DEF TagInv
  <2>3. QED
    BY <1>5, <2>1, <2>2 DEF QueueInv
<1>10. CASE Queued' # {}
  <2>1. UNCHANGED <<worker, idleEvent, update, ahead, probe>>
    BY <1>1, <1>7, <1>10 DEF Serve, Settle
  <2>2. ~ idleEvent
    BY <1>2 DEF IInv, IdleExact
  <2>3. IdleExact'
    BY <1>4, <1>10, <2>1, <2>2 DEF IdleExact
  <2>4. TagInv'
    BY <1>4, <2>1 DEF TagInv
  <2>5. QED
    BY <1>5, <2>3, <2>4 DEF QueueInv
<1>11. QED
  BY <1>9, <1>10

\* A step that leaves the queue, its tags, the clocks and the worker alone.
LEMMA QuietStep ==
    ASSUME IInv, Queued' = Queued,
           UNCHANGED <<tag, seq, seqCounter, virtualTime, worker, idleEvent>>,
           idleEvent => Blocked' = {} /\ probe' # "waitIdle"
    PROVE  QueueInv' /\ IdleExact'
  BY DEF IInv, QueueInv, KnownInv, TagInv, SameTag, SeqInv, IdleExact

LEMMA IInvStep == IInv /\ [Next]_vars => IInv'
<1> SUFFICES ASSUME IInv, [Next]_vars
             PROVE  QueueInv' /\ IdleExact'
  BY TypeStep DEF IInv, QueueInv
<1> USE DEF itemVars, shareVars, updateVars
<1>0. idleEvent => Blocked = {} /\ probe # "waitIdle"
  BY DEF IInv, IdleExact
<1>1. ASSUME NEW t \in Tasks, Infer(t) \/ RejectTask(t)
      PROVE  QueueInv' /\ IdleExact'
  <2>1. CASE RejectTask(t)
    <3>1. Queued' = Queued
      BY <2>1 DEF RejectTask, Queued, IInv, TypeOK
    <3>2. QED
      BY <1>0, <2>1, <3>1, QuietStep DEF RejectTask, Blocked
  <2>2. QED
    BY <1>1, <2>1, InferStep
<1>2. CASE WorkerResumes
  <2>1. Queued' = Queued
    BY <1>2 DEF WorkerResumes, Queued
  <2>2. QED
    BY <1>2, <2>1
    DEF WorkerResumes, Blocked, IInv, QueueInv, KnownInv, TagInv, SameTag, SeqInv, IdleExact
<1>3. ASSUME NEW t \in Tasks, ServeSome(t) \/ SendReturns(t)
      PROVE  QueueInv' /\ IdleExact'
  <2>1. CASE SendReturns(t)
    <3>1. Queued' = Queued
      BY <2>1 DEF SendReturns, Queued, IInv, TypeOK
    <3>2. QED
      BY <1>0, <2>1, <3>1, QuietStep DEF SendReturns, Blocked
  <2>2. QED
    BY <1>3, <2>1, ServeStep
<1>4. ASSUME NEW u \in Updates,
             \/ RejectUpdate(u) \/ PostConfig(u) \/ LookAtEvent(u)
             \/ ApplyConfig(u) \/ DrainTimeout(u)
      PROVE  QueueInv' /\ IdleExact'
  <2>1. Queued' = Queued
        /\ UNCHANGED <<tag, seq, seqCounter, virtualTime, worker, idleEvent, probe>>
    BY <1>4 DEF PostConfig, RejectUpdate, LookAtEvent, ApplyConfig, DrainTimeout, Queued
  <2>2. \E x \in UpdateStages : update' = [update EXCEPT ![u] = x]
                                /\ (idleEvent => x # "waiting")
    BY <1>4 DEF PostConfig, RejectUpdate, LookAtEvent, ApplyConfig, DrainTimeout,
                UpdateStages
  <2>3. idleEvent => Blocked' = {}
    BY <1>0, <2>2 DEF IInv, TypeOK, Blocked
  <2>4. QED
    BY <1>0, <2>1, <2>3, QuietStep
<1>5. ASSUME NEW c \in WeightCalls, UpdateWeights(c)
      PROVE  QueueInv' /\ IdleExact'
  <2>1. UNCHANGED <<itemVars, virtualTime, worker, idleEvent, updateVars, probe>>
    BY <1>5 DEF UpdateWeights
  <2>2. Queued' = Queued
    BY <2>1 DEF Queued
  <2>3. QED
    BY <1>0, <2>1, <2>2, QuietStep DEF Blocked
<1>6. CASE ProbeCheck \/ ProbeRtt \/ ProbeEnds \/ ProbeSleepEnds
  <2>1. /\ UNCHANGED <<itemVars, virtualTime, worker, idleEvent, update>>
        /\ idleEvent => probe' # "waitIdle"
    BY <1>6 DEF ProbeCheck, ProbeRtt, ProbeEnds, ProbeSleepEnds, ProbeMoves, TopOfLoop
  <2>2. Queued' = Queued
    BY <2>1 DEF Queued
  <2>3. QED
    BY <1>0, <2>1, <2>2, QuietStep DEF Blocked
<1>7. CASE Restart
  <2>1. Queued' = {}
    BY <1>7 DEF Restart, Queued
  <2>2. QueueInv'
    BY <2>1 DEF QueueInv, KnownInv, TagInv, SameTag, SeqInv
  <2>3. IdleExact'
    BY <1>7, <2>1 DEF Restart, IdleExact, Blocked, Pending
  <2>4. QED
    BY <2>2, <2>3
<1>8. CASE UNCHANGED vars
  <2>1. Queued' = Queued
    BY <1>8 DEF vars, Queued
  <2>2. QED
    BY <1>0, <1>8, <2>1, QuietStep DEF vars, Blocked
<1>9. QED
  BY <1>1, <1>2, <1>3, <1>4, <1>5, <1>6, <1>7, <1>8 DEF Next

LEMMA IInvAlways == Spec => []IInv
  BY IInvInit, IInvStep, PTL DEF Spec

-----------------------------------------------------------------------------
(* The theorems.                                                           *)

\* The worker sleeps and the node calls itself idle exactly while no task is
\* queued, and then nobody is blocked on the event.
THEOREM IdleIsExact == Spec => []IdleExact
  BY IInvAlways, PTL DEF IInv

\* The tasks of one pipeline are served in the order of their arrival, whatever
\* the weights and the costs.
THEOREM OrderInPipeline == Spec => PipelineOrder
<1> DEFINE Oldest ==
      \A t, u \in Tasks :
          /\ t \in Queued /\ stage'[t] # "queued" /\ restarts' = restarts
          /\ u \in Queued /\ u # t /\ PipeOf[u] = PipeOf[t]
          /\ InOrderOfTags
          => seq[t] < seq[u]
<1>1. IInv /\ [Next]_vars => [Oldest]_vars
  <2> SUFFICES ASSUME IInv, Next, NEW t \in Tasks, NEW u \in Tasks,
                      t \in Queued, stage'[t] # "queued", restarts' = restarts,
                      u \in Queued, u # t, PipeOf[u] = PipeOf[t], InOrderOfTags
               PROVE  seq[t] < seq[u]
    BY DEF vars
  <2> USE DEF itemVars, shareVars, updateVars
  <2>1. PICK v \in Tasks : ServeSome(v)
    <3>1. ASSUME NEW v \in Tasks, Infer(v) \/ RejectTask(v) \/ SendReturns(v)
          PROVE  FALSE
      BY <3>1 DEF Infer, RejectTask, SendReturns, Queued, IInv, TypeOK
    <3>2. ASSUME NEW v \in Updates,
                 \/ RejectUpdate(v) \/ PostConfig(v) \/ LookAtEvent(v)
                 \/ ApplyConfig(v) \/ DrainTimeout(v)
          PROVE  FALSE
      BY <3>2 DEF PostConfig, RejectUpdate, LookAtEvent, ApplyConfig, DrainTimeout, Queued
    <3>3. ASSUME NEW c \in WeightCalls, UpdateWeights(c)
          PROVE  FALSE
      BY <3>3 DEF UpdateWeights, Queued
    <3>4. CASE WorkerResumes
      BY <3>4 DEF WorkerResumes, Queued
    <3>5. CASE ProbeCheck \/ ProbeRtt \/ ProbeEnds \/ ProbeSleepEnds
      BY <3>5 DEF ProbeCheck, ProbeRtt, ProbeEnds, ProbeSleepEnds, ProbeMoves, Queued
    <3>6. ~ Restart
      BY DEF Restart, IInv, TypeOK
    <3>7. QED
      BY <3>1, <3>2, <3>3, <3>4, <3>5, <3>6 DEF Next
  <2>2. PICK outcome \in {"sending", "finished"}, cost \in Int :
           Serve(v, cost, outcome)
    BY <2>1, ServeFacts DEF IInv, QueueInv
  <2>3. v = t
    BY <2>2 DEF Serve, Queued, IInv, TypeOK
  <2>4. Precedes(t, u)
    BY <2>2, <2>3 DEF Serve
  <2>5. tag[t] = tag[u] /\ tag[t] \in Int
    BY DEF IInv, QueueInv, SameTag, TypeOK, InOrderOfTags, Clocks
  <2>6. QED
    BY <2>4, <2>5 DEF Precedes
<1>2. IInv /\ [Next]_vars => [Oldest]_vars
  BY <1>1
<1>3. QED
  BY <1>2, IInvAlways, PTL DEF Spec, PipelineOrder


-----------------------------------------------------------------------------
(* The line of update handlers (see NodeServerProofs).                     *)

\* A handler that may resume never stands behind one that is blocked, and of two
\* that may resume, or are blocked, one stands before the other.
InLine ==
    /\ \A u \in Updates : ahead[u] \subseteq IF u \in Ready THEN Ready
                                             ELSE IF u \in Blocked THEN Blocked ELSE {}
    /\ \A u \in Pending : \A v \in SameSlot(u) \ {u} :
          (u \in Ready /\ v \in Ready) \/ (u \in Blocked /\ v \in Blocked)
             => (u \in ahead[v] <=> v \notin ahead[u])

\* Handlers wait only for a slot of this node.
LineInv == InLine /\ \A u \in Pending : SlotOf(u) \in Slots

LEMMA LineInit == Init => LineInv
BY DEF Init, LineInv, InLine, Ready, Blocked, Pending

\* The blocked handlers go to the end of the line.
LEMMA WakeKeepsLine ==
    ASSUME TypeOK, LineInv, Wake
    PROVE  LineInv'
<1>1. /\ Ready' = Pending /\ Blocked' = {} /\ Pending' = Pending
      /\ Ready \cap Blocked = {}
  BY DEF Wake, Ready, Blocked, Pending, TypeOK
<1>2. \A u \in Updates : ahead'[u] = IF u \in Blocked THEN ahead[u] \cup (Ready \cap SameSlot(u))
                                     ELSE ahead[u]
  BY DEF Wake
<1>3. \A u \in Updates : SameSlot(u)' = SameSlot(u)
  BY DEF SameSlot, SlotOf
<1>4. \A u, v \in Updates : u \in SameSlot(v) <=> v \in SameSlot(u)
  BY DEF SameSlot, SlotOf
<1>5. \A u \in Updates : ahead'[u] \subseteq IF u \in Ready' THEN Ready'
                                             ELSE IF u \in Blocked' THEN Blocked' ELSE {}
  <2> SUFFICES ASSUME NEW u \in Updates
               PROVE  ahead'[u] \subseteq IF u \in Pending THEN Pending ELSE {}
    BY <1>1
  <2>1. ahead[u] \subseteq IF u \in Ready THEN Ready ELSE IF u \in Blocked THEN Blocked ELSE {}
    BY DEF LineInv, InLine
  <2>2. CASE u \in Blocked
    BY <1>2, <2>1, <2>2 DEF Pending
  <2>3. CASE u \notin Blocked
    BY <1>2, <2>1, <2>3 DEF Pending
  <2>4. QED
    BY <2>2, <2>3
<1>6. ASSUME NEW u \in Pending, NEW v \in SameSlot(u) \ {u}, v \in Pending
      PROVE  u \in ahead'[v] <=> v \notin ahead'[u]
  <2>1. u \in Updates /\ v \in Updates /\ u \in SameSlot(v)
    BY <1>4 DEF Pending, Ready, Blocked, SameSlot
  <2>2. /\ ahead'[u] = IF u \in Blocked THEN ahead[u] \cup (Ready \cap SameSlot(u)) ELSE ahead[u]
        /\ ahead'[v] = IF v \in Blocked THEN ahead[v] \cup (Ready \cap SameSlot(v)) ELSE ahead[v]
    BY <1>2, <2>1
  <2>3. /\ u \in Ready => ahead[u] \subseteq Ready
        /\ v \in Ready => ahead[v] \subseteq Ready
    BY <2>1 DEF LineInv, InLine
  <2>4. CASE (u \in Ready /\ v \in Ready) \/ (u \in Blocked /\ v \in Blocked)
    <3>1. u \in ahead[v] <=> v \notin ahead[u]
      BY <2>4 DEF LineInv, InLine
    <3>2. QED
      BY <1>1, <2>2, <2>4, <3>1
  <2>5. CASE u \in Ready /\ v \in Blocked
    BY <1>1, <2>1, <2>2, <2>3, <2>5
  <2>6. CASE u \in Blocked /\ v \in Ready
    BY <1>1, <2>1, <2>2, <2>3, <2>6
  <2>7. QED
    BY <1>6, <2>4, <2>5, <2>6 DEF Pending
<1>7. QED
  BY <1>1, <1>3, <1>5, <1>6 DEF LineInv, InLine, SlotOf

LEMMA PostKeepsLine ==
    ASSUME TypeOK, LineInv, NEW u \in Updates, PostConfig(u)
    PROVE  LineInv'
<1>1. /\ Ready' = Ready \cup {u} /\ Blocked' = Blocked /\ Pending' = Pending \cup {u}
      /\ u \notin Pending
  BY DEF PostConfig, Ready, Blocked, Pending, TypeOK
<1>2. /\ ahead'[u] = Ready \cap SameSlot(u)
      /\ \A v \in Updates \ {u} : ahead'[v] = ahead[v]
  BY DEF PostConfig, TypeOK
<1>3. \A v \in Updates : u \notin ahead[v]
  BY <1>1 DEF LineInv, InLine, Pending
<1>4. \A v \in Updates : SameSlot(v)' = SameSlot(v)
  BY DEF SameSlot, SlotOf
<1>5. \A v \in Updates : ahead'[v] \subseteq IF v \in Ready' THEN Ready'
                                             ELSE IF v \in Blocked' THEN Blocked' ELSE {}
  BY <1>1, <1>2 DEF LineInv, InLine, Pending
<1>6. ASSUME NEW v \in Pending', NEW w \in SameSlot(v) \ {v},
             (v \in Ready' /\ w \in Ready') \/ (v \in Blocked' /\ w \in Blocked')
      PROVE  v \in ahead'[w] <=> w \notin ahead'[v]
  <2>1. v \in Updates /\ w \in Updates /\ v \in SameSlot(w)
    BY <1>1 DEF Pending, Ready, Blocked, SameSlot
  <2>2. CASE v # u /\ w # u
    BY <1>1, <1>2, <1>6, <2>1, <2>2 DEF LineInv, InLine
  <2>3. CASE v = u \/ w = u
    BY <1>1, <1>2, <1>3, <1>6, <2>1, <2>3 DEF Pending
  <2>4. QED
    BY <2>2, <2>3
<1>7. SlotOf(u) \in Slots
  BY DEF PostConfig
<1>8. QED
  BY <1>1, <1>4, <1>5, <1>6, <1>7 DEF LineInv, InLine, SlotOf

\* A handler that leaves its place, because it blocks or for good.
LEMMA LeavingKeepsLine ==
    ASSUME TypeOK, LineInv, NEW u \in Pending,
           Ready' = Ready \ {u}, Blocked' \in {Blocked \ {u}, Blocked \cup {u}},
           \A v \in Updates \ {u} : ahead'[v] = ahead[v] \ {u},
           ahead'[u] = IF u \in Blocked' THEN Blocked \cap SameSlot(u) ELSE {},
           u \in Blocked' => u \notin Blocked
    PROVE  LineInv'
<1>1. Ready' \cap Blocked' = {} /\ u \in Updates /\ Ready \cap Blocked = {}
  BY DEF Ready, Blocked, Pending
<1>2. \A v \in Updates : SameSlot(v)' = SameSlot(v)
  BY DEF SameSlot, SlotOf
<1>3. \A v \in Updates : ahead'[v] \subseteq IF v \in Ready' THEN Ready'
                                             ELSE IF v \in Blocked' THEN Blocked' ELSE {}
  <2> SUFFICES ASSUME NEW v \in Updates
               PROVE  ahead'[v] \subseteq IF v \in Ready' THEN Ready'
                                          ELSE IF v \in Blocked' THEN Blocked' ELSE {}
    OBVIOUS
  <2>1. CASE v = u
    BY <2>1
  <2>2. CASE v # u
    BY <2>2 DEF LineInv, InLine
  <2>3. QED
    BY <2>1, <2>2
<1>4. ASSUME NEW v \in Pending', NEW w \in SameSlot(v) \ {v},
             (v \in Ready' /\ w \in Ready') \/ (v \in Blocked' /\ w \in Blocked')
      PROVE  v \in ahead'[w] <=> w \notin ahead'[v]
  <2>1. v \in Updates /\ w \in Updates /\ v \in SameSlot(w)
    BY DEF Pending, Ready, Blocked, SameSlot
  <2>2. CASE v # u /\ w # u
    <3>1. v \in Pending
      BY <1>4, <2>2 DEF Pending
    <3>2. QED
      BY <1>4, <2>1, <2>2, <3>1 DEF LineInv, InLine
  <2>3. CASE v = u
    BY <1>4, <2>1, <2>3
  <2>4. CASE w = u
    BY <1>4, <2>1, <2>4
  <2>5. QED
    BY <2>2, <2>3, <2>4
<1>5. \A v \in Pending' : SlotOf(v) \in Slots
  BY DEF LineInv, Pending, SlotOf
<1>6. QED
  BY <1>2, <1>3, <1>4, <1>5 DEF LineInv, InLine, SlotOf

LEMMA UpdatingKeepsLine ==
    ASSUME TypeOK, LineInv, NEW u \in Updates,
           LookAtEvent(u) \/ ApplyConfig(u) \/ DrainTimeout(u)
    PROVE  LineInv'
<1>1. CASE LookAtEvent(u) /\ idleEvent
  <2>1. Ready' = Ready /\ Blocked' = Blocked /\ Pending' = Pending /\ UNCHANGED ahead
    BY <1>1 DEF LookAtEvent, Ready, Blocked, Pending, TypeOK
  <2>2. QED
    BY <2>1 DEF LineInv, InLine, SameSlot, SlotOf
<1>2. CASE LookAtEvent(u) /\ ~ idleEvent
  <2>1. /\ u \in Pending /\ Ready' = Ready \ {u} /\ Blocked' = Blocked \cup {u}
        /\ u \notin Blocked
    BY <1>2 DEF LookAtEvent, Ready, Blocked, Pending, TypeOK
  <2>2. /\ \A v \in Updates \ {u} : ahead'[v] = ahead[v] \ {u}
        /\ ahead'[u] = Blocked \cap SameSlot(u)
    BY <1>2 DEF LookAtEvent, AheadWithout
  <2>3. QED
    BY <2>1, <2>2, LeavingKeepsLine
<1>3. CASE ApplyConfig(u) \/ DrainTimeout(u)
  <2>1. u \in Pending /\ Ready' = Ready \ {u} /\ Blocked' = Blocked \ {u}
    BY <1>3 DEF ApplyConfig, DrainTimeout, Ready, Blocked, Pending, TypeOK
  <2>2. (\A v \in Updates \ {u} : ahead'[v] = ahead[v] \ {u}) /\ ahead'[u] = {}
    BY <1>3 DEF ApplyConfig, DrainTimeout, AheadWithout
  <2>3. QED
    BY <2>1, <2>2, LeavingKeepsLine
<1>4. QED
  BY <1>1, <1>2, <1>3

LEMMA SameLine ==
    ASSUME LineInv, Ready' = Ready, Blocked' = Blocked, UNCHANGED ahead
    PROVE  LineInv'
BY DEF LineInv, InLine, SameSlot, SlotOf, Pending

\* The steps at which nothing arrives and the process lives.
Quiet ==
    \/ UNCHANGED vars
    \/ \E t \in Tasks : RejectTask(t)
    \/ WorkerResumes
    \/ \E t \in Tasks : ServeSome(t) \/ SendReturns(t)
    \/ \E u \in Updates : RejectUpdate(u)
    \/ \E u \in Updates : LookAtEvent(u) \/ ApplyConfig(u) \/ DrainTimeout(u)
    \/ \E c \in WeightCalls : UpdateWeights(c)
    \/ ProbeCheck \/ ProbeRtt \/ ProbeEnds \/ ProbeSleepEnds

LEMMA StepKinds ==
    ASSUME [Next]_vars
    PROVE  \/ \E t \in Tasks : Infer(t)
           \/ \E u \in Updates : PostConfig(u)
           \/ Quiet
           \/ Restart
BY DEF Next, Quiet

\* What a quiet step does to the handlers.
LEMMA QuietKinds ==
    ASSUME Quiet
    PROVE  /\ UNCHANGED restarts
           /\ \/ UNCHANGED <<update, ahead, config>>
              \/ Wake /\ idleEvent' /\ UNCHANGED config
              \/ \E x \in Updates : LookAtEvent(x)
              \/ \E x \in Updates : ApplyConfig(x) \/ DrainTimeout(x)
              \/ \E x \in Updates : RejectUpdate(x)
<1> USE DEF updateVars
<1>1. ASSUME NEW t \in Tasks, ServeSome(t)
      PROVE  /\ UNCHANGED <<restarts, config>>
             /\ UNCHANGED <<update, ahead>> \/ (Wake /\ idleEvent')
  BY <1>1 DEF ServeSome, Serve, Settle
<1>2. ASSUME NEW t \in Tasks, RejectTask(t) \/ SendReturns(t)
      PROVE  UNCHANGED <<restarts, update, ahead, config>>
  BY <1>2 DEF RejectTask, SendReturns
<1>3. ASSUME NEW c \in WeightCalls, UpdateWeights(c)
      PROVE  UNCHANGED <<restarts, update, ahead, config>>
  BY <1>3 DEF UpdateWeights
<1>4. ASSUME ProbeCheck \/ ProbeRtt \/ ProbeEnds \/ ProbeSleepEnds \/ WorkerResumes
               \/ UNCHANGED vars
      PROVE  UNCHANGED <<restarts, update, ahead, config>>
  BY <1>4 DEF ProbeCheck, ProbeRtt, ProbeEnds, ProbeSleepEnds, ProbeMoves, WorkerResumes, vars
<1>5. ASSUME NEW u \in Updates,
             RejectUpdate(u) \/ LookAtEvent(u) \/ ApplyConfig(u) \/ DrainTimeout(u)
      PROVE  UNCHANGED restarts
  BY <1>5 DEF RejectUpdate, LookAtEvent, ApplyConfig, DrainTimeout
<1>6. QED
  BY <1>1, <1>2, <1>3, <1>4, <1>5 DEF Quiet

LEMMA LineStep == TypeOK /\ LineInv /\ [Next]_vars => LineInv'
<1> SUFFICES ASSUME TypeOK, LineInv, [Next]_vars
             PROVE  LineInv'
  OBVIOUS
<1>1. CASE UNCHANGED <<update, ahead>>
  BY <1>1, SameLine DEF Ready, Blocked
<1>2. ASSUME NEW t \in Tasks, Infer(t)
      PROVE  UNCHANGED <<update, ahead>>
  BY <1>2 DEF Infer, updateVars
<1>3. ASSUME NEW u \in Updates, RejectUpdate(u)
      PROVE  LineInv'
  <2>1. Ready' = Ready /\ Blocked' = Blocked /\ UNCHANGED ahead
    BY <1>3 DEF RejectUpdate, Ready, Blocked, TypeOK
  <2>2. QED
    BY <2>1, SameLine
<1>4. CASE Quiet
  BY <1>1, <1>3, <1>4, QuietKinds, WakeKeepsLine, UpdatingKeepsLine
<1>5. CASE Restart
  <2>1. Ready' = {} /\ Blocked' = {} /\ ahead' = [u \in Updates |-> {}]
    BY <1>5 DEF Restart, Ready, Blocked, Pending
  <2>2. QED
    BY <2>1 DEF LineInv, InLine, Pending
<1>6. QED
  BY <1>1, <1>2, <1>4, <1>5, PostKeepsLine, StepKinds

NodeInv == IInv /\ LineInv

LEMMA NodeInvInit == Init => NodeInv
BY IInvInit, LineInit DEF NodeInv

LEMMA NodeInvStep == NodeInv /\ [Next]_vars => NodeInv'
BY IInvStep, LineStep DEF NodeInv, IInv

\* The variables keep their types: in particular no call of POST /config/weights
\* leaves a weight that is zero or negative, rejected ones included.
THEOREM TypeCorrect == Spec => []TypeOK
<1>1. NodeInv => TypeOK
  BY DEF NodeInv, IInv
<1>2. QED
  BY NodeInvInit, NodeInvStep, <1>1, PTL DEF Spec

-----------------------------------------------------------------------------
(* The order of the arrivals.                                              *)

Items == Tasks \cup Updates

\* What has arrived since the process started, each once; every handler that is
\* not answered is among it.
ArrivalsInv ==
    /\ arrivals \in Seq(Items)
    /\ Distinct(arrivals)
    /\ \A t \in Tasks : Holds(arrivals, t) => stage[t] # "absent"
    /\ \A u \in Updates : Holds(arrivals, u) => update[u] # "absent"
    /\ \A u \in Pending : Holds(arrivals, u)

\* What holds of an update w and a later one u of the same slot: u goes no
\* further than w, unless it passes w when w is woken.
InOrder(w, u) ==
    /\ w \in Pending /\ u \in Pending /\ u \in ahead[w] => w \in passed[u]
    /\ w \in Pending /\ update[u] = "applied" => w \in passed[u]
    /\ w \in Blocked => update[u] \notin {"woken", "drained", "applied"}
    /\ update[w] = "posted" => update[u] \in {"posted", "rejected"}
    /\ update[w] = "posted" /\ update[u] = "posted" => w \in ahead[u]
    /\ w \in Blocked /\ u \in Blocked => w \in ahead[u]

OrderInv ==
    /\ passed \in [Updates -> SUBSET Updates]
    /\ \A w \in Updates : \A u \in SameSlot(w) : Earlier(w, u) => InOrder(w, u)

\* A task that has been served, or that was refused, is not queued again.
LEMMA QuietTasks ==
    ASSUME TypeOK, Quiet, NEW t \in Tasks
    PROVE  /\ stage'[t] = "queued" => stage[t] = "queued"
           /\ stage'[t] = "absent" => stage[t] = "absent"
<1> USE DEF itemVars
<1>1. ASSUME NEW v \in Tasks, ServeSome(v)
      PROVE  /\ stage'[t] = "queued" => stage[t] = "queued"
             /\ stage'[t] = "absent" => stage[t] = "absent"
  BY <1>1 DEF ServeSome, Serve, TypeOK
<1>2. ASSUME NEW v \in Tasks, RejectTask(v) \/ SendReturns(v)
      PROVE  /\ stage'[t] = "queued" => stage[t] = "queued"
             /\ stage'[t] = "absent" => stage[t] = "absent"
  BY <1>2 DEF RejectTask, SendReturns, TypeOK
<1>3. ASSUME NEW u \in Updates, RejectUpdate(u) \/ LookAtEvent(u) \/ ApplyConfig(u)
                                 \/ DrainTimeout(u)
      PROVE  UNCHANGED stage
  BY <1>3 DEF RejectUpdate, LookAtEvent, ApplyConfig, DrainTimeout
<1>4. ASSUME NEW c \in WeightCalls, UpdateWeights(c)
      PROVE  UNCHANGED stage
  BY <1>4 DEF UpdateWeights
<1>5. ASSUME ProbeCheck \/ ProbeRtt \/ ProbeEnds \/ ProbeSleepEnds \/ WorkerResumes
               \/ UNCHANGED vars
      PROVE  UNCHANGED stage
  BY <1>5 DEF ProbeCheck, ProbeRtt, ProbeEnds, ProbeSleepEnds, ProbeMoves, WorkerResumes, vars
<1>6. QED
  BY <1>1, <1>2, <1>3, <1>4, <1>5 DEF Quiet

LEMMA QuietUpdates ==
    ASSUME TypeOK, Quiet, NEW u \in Updates
    PROVE  /\ u \in Pending' => u \in Pending
           /\ update[u] = "absent" => update'[u] \in {"absent", "rejected"}
           /\ update'[u] = "absent" => update[u] = "absent"
           /\ update'[u] \in {"woken", "drained", "applied"} =>
                 update[u] \in {"woken", "drained", "applied"} \/ idleEvent'
<1> USE DEF Pending, Ready, Blocked
<1>1. CASE UNCHANGED update
  BY <1>1
<1>2. CASE Wake /\ idleEvent'
  BY <1>2 DEF Wake, TypeOK
<1>3. ASSUME NEW x \in Updates, LookAtEvent(x)
      PROVE  /\ u \in Pending' => u \in Pending
             /\ update[u] = "absent" => update'[u] = "absent"
             /\ update'[u] = "absent" => update[u] = "absent"
             /\ update'[u] \in {"woken", "drained", "applied"} =>
                   update[u] \in {"woken", "drained", "applied"} \/ idleEvent'
  BY <1>3 DEF LookAtEvent, TypeOK
<1>4. ASSUME NEW x \in Updates, RejectUpdate(x) \/ ApplyConfig(x) \/ DrainTimeout(x)
      PROVE  /\ u \in Pending' => u \in Pending
             /\ update[u] = "absent" => update'[u] \in {"absent", "rejected"}
             /\ update'[u] = "absent" => update[u] = "absent"
             /\ update'[u] \in {"woken", "drained", "applied"} =>
                   update[u] \in {"woken", "drained", "applied"}
  BY <1>4 DEF RejectUpdate, ApplyConfig, DrainTimeout, TypeOK
<1>5. QED
  BY <1>1, <1>2, <1>3, <1>4, QuietKinds

\* What one step does to the log.
LEMMA LogInfer ==
    ASSUME TypeOK, NEW t \in Tasks, Infer(t), Log
    PROVE  arrivals' = Append(arrivals, t)
<1>1. restarts' = restarts /\ Arriving(t) /\ \A x \in Tasks \ {t} : ~ Arriving(x)
  BY DEF Infer, Arriving, TypeOK
<1>2. (CHOOSE x \in Tasks : Arriving(x)) = t
  BY <1>1
<1>3. \A x \in Updates : ~ Enqueued(x)
  BY DEF Infer, Enqueued, updateVars
<1>4. QED
  BY <1>1, <1>2, <1>3 DEF Log

LEMMA LogPost ==
    ASSUME TypeOK, NEW u \in Updates, PostConfig(u), Log
    PROVE  arrivals' = Append(arrivals, u)
<1>1. restarts' = restarts /\ Enqueued(u) /\ \A x \in Updates \ {u} : ~ Enqueued(x)
  BY DEF PostConfig, Enqueued, TypeOK
<1>2. (CHOOSE x \in Updates : Enqueued(x)) = u
  BY <1>1
<1>3. \A x \in Tasks : ~ Arriving(x)
  BY DEF PostConfig, Arriving, itemVars
<1>4. QED
  BY <1>1, <1>2, <1>3 DEF Log

LEMMA LogQuiet ==
    ASSUME TypeOK, Quiet, Log
    PROVE  arrivals' = arrivals
<1>1. \A t \in Tasks : ~ Arriving(t)
  BY QuietTasks DEF Arriving
<1>2. \A u \in Updates : ~ Enqueued(u)
  BY QuietUpdates DEF Enqueued
<1>3. restarts' = restarts
  BY QuietKinds
<1>4. QED
  BY <1>1, <1>2, <1>3 DEF Log

LEMMA LogRestart ==
    ASSUME TypeOK, Restart, Log
    PROVE  arrivals' = <<>>
<1>1. restarts' # restarts
  BY DEF Restart, TypeOK
<1>2. \A t \in Tasks : ~ Arriving(t)
  BY DEF Restart, Arriving
<1>3. \A u \in Updates : ~ Enqueued(u)
  BY DEF Restart, Enqueued, Pending, Ready, Blocked
<1>4. QED
  BY <1>1, <1>2, <1>3 DEF Log

LEMMA HistoryKinds ==
    ASSUME NodeInv, [HNext]_hvars
    PROVE  \/ \E t \in Tasks : Infer(t) /\ arrivals' = Append(arrivals, t)
           \/ \E u \in Updates : PostConfig(u) /\ arrivals' = Append(arrivals, u)
           \/ Quiet /\ arrivals' = arrivals
           \/ Restart /\ arrivals' = <<>>
<1>0. TypeOK
  BY DEF NodeInv, IInv
<1>1. CASE HNext
  <2>1. [Next]_vars /\ Log
    BY <1>1 DEF HNext
  <2>2. QED
    BY <1>0, <2>1, StepKinds, LogInfer, LogPost, LogQuiet, LogRestart
<1>2. CASE UNCHANGED hvars
  BY <1>2 DEF hvars, Quiet
<1>3. QED
  BY <1>1, <1>2

LEMMA HStepIsStep == [HNext]_hvars => [Next]_vars
BY DEF HNext, hvars

LEMMA ArrivalsInit == HInit => ArrivalsInv
<1> SUFFICES ASSUME HInit
             PROVE  ArrivalsInv
  OBVIOUS
<1>1. arrivals \in Seq(Items) /\ Len(arrivals) = 0
  BY EmptySeq DEF HInit
<1>2. Pending = {}
  BY DEF HInit, Init, Pending, Ready, Blocked
<1>3. QED
  BY <1>1, <1>2 DEF ArrivalsInv, Distinct, Holds

LEMMA ArrivalsStep == NodeInv /\ ArrivalsInv /\ [HNext]_hvars => ArrivalsInv'
<1> SUFFICES ASSUME NodeInv, ArrivalsInv, [HNext]_hvars
             PROVE  ArrivalsInv'
  OBVIOUS
<1>0. /\ TypeOK /\ arrivals \in Seq(Items) /\ Distinct(arrivals)
  BY DEF NodeInv, IInv, ArrivalsInv
<1>1. ASSUME NEW t \in Tasks, Infer(t), arrivals' = Append(arrivals, t)
      PROVE  ArrivalsInv'
  <2>1. /\ stage[t] = "absent" /\ stage'[t] = "queued"
        /\ \A x \in Tasks \ {t} : stage'[x] = stage[x]
        /\ UNCHANGED update
    BY <1>0, <1>1 DEF Infer, updateVars, TypeOK
  <2>2. ~ Holds(arrivals, t)
    BY <2>1 DEF ArrivalsInv
  <2>3. t \in Items /\ t \notin Updates
    BY HistoryAssumption DEF Items
  <2>4. arrivals' \in Seq(Items) /\ Distinct(arrivals')
    BY <1>0, <1>1, <2>2, <2>3, AppendHolds, AppendDistinct
  <2>5. \A x : Holds(arrivals', x) <=> Holds(arrivals, x) \/ x = t
    BY <1>0, <1>1, <2>3, AppendHolds
  <2>6. QED
    BY <2>1, <2>3, <2>4, <2>5 DEF ArrivalsInv, Pending, Ready, Blocked
<1>2. ASSUME NEW u \in Updates, PostConfig(u), arrivals' = Append(arrivals, u)
      PROVE  ArrivalsInv'
  <2>1. /\ update[u] = "absent" /\ update'[u] # "absent"
        /\ \A v \in Updates \ {u} : update'[v] = update[v]
        /\ UNCHANGED stage
    BY <1>0, <1>2 DEF PostConfig, itemVars, TypeOK
  <2>2. ~ Holds(arrivals, u)
    BY <2>1 DEF ArrivalsInv
  <2>3. u \in Items /\ u \notin Tasks
    BY HistoryAssumption DEF Items
  <2>4. arrivals' \in Seq(Items) /\ Distinct(arrivals')
    BY <1>0, <1>2, <2>2, <2>3, AppendHolds, AppendDistinct
  <2>5. \A x : Holds(arrivals', x) <=> Holds(arrivals, x) \/ x = u
    BY <1>0, <1>2, <2>3, AppendHolds
  <2>6. QED
    BY <2>1, <2>3, <2>4, <2>5 DEF ArrivalsInv, Pending, Ready, Blocked
<1>3. ASSUME Quiet, arrivals' = arrivals
      PROVE  ArrivalsInv'
  <2>1. Pending' \subseteq Pending
    BY <1>0, <1>3, QuietUpdates DEF Pending, Ready, Blocked
  <2>2. QED
    BY <1>0, <1>3, <2>1, QuietUpdates, QuietTasks DEF ArrivalsInv
<1>4. ASSUME Restart, arrivals' = <<>>
      PROVE  ArrivalsInv'
  <2>1. arrivals' \in Seq(Items) /\ Len(arrivals') = 0
    BY <1>4, EmptySeq
  <2>2. Pending' = {}
    BY <1>4 DEF Restart, Pending, Ready, Blocked
  <2>3. QED
    BY <2>1, <2>2 DEF ArrivalsInv, Distinct, Holds
<1>5. QED
  BY <1>0, <1>1, <1>2, <1>3, <1>4, HistoryKinds

-----------------------------------------------------------------------------
(* What the drain guarantees.                                              *)

\* An idle node has served whatever it has queued.
AllServed == \A i \in 1 .. Len(arrivals) :
                 arrivals[i] \in Tasks => stage[arrivals[i]] # "queued"

LEMMA IdleServed == NodeInv /\ idleEvent => AllServed
BY DEF NodeInv, IInv, IdleExact, AllServed, Queued

LEMMA EarlierStep ==
    NodeInv /\ ArrivalsInv /\ EarlierTasksServed /\ [HNext]_hvars => EarlierTasksServed'
<1> SUFFICES ASSUME NodeInv, ArrivalsInv, EarlierTasksServed, [HNext]_hvars,
                    NEW j \in 1 .. Len(arrivals'), arrivals'[j] \in Updates,
                    update'[arrivals'[j]] \in {"woken", "drained", "applied"},
                    NEW i \in 1 .. j - 1, arrivals'[i] \in Tasks
             PROVE  stage'[arrivals'[i]] # "queued"
  BY DEF EarlierTasksServed
<1>0. TypeOK /\ arrivals \in Seq(Items) /\ Len(arrivals) \in Nat
  BY LenProperties DEF NodeInv, IInv, ArrivalsInv
<1>1. ASSUME NEW t \in Tasks, Infer(t), arrivals' = Append(arrivals, t)
      PROVE  stage'[arrivals'[i]] # "queued"
  <2>1. t \in Items /\ t \notin Updates /\ UNCHANGED update
    BY <1>1, HistoryAssumption DEF Items, Infer, updateVars
  <2>2. /\ Len(arrivals') = Len(arrivals) + 1 /\ arrivals'[Len(arrivals) + 1] = t
        /\ \A k \in 1 .. Len(arrivals) : arrivals'[k] = arrivals[k]
    BY <1>0, <1>1, <2>1, AppendHolds
  <2>3. j # Len(arrivals) + 1
    BY <2>1, <2>2
  <2>4. /\ j \in 1 .. Len(arrivals) /\ i \in 1 .. Len(arrivals)
        /\ arrivals'[j] = arrivals[j] /\ arrivals'[i] = arrivals[i]
    BY <1>0, <2>2, <2>3
  <2>5. stage[arrivals[i]] # "queued"
    BY <2>1, <2>4 DEF EarlierTasksServed
  <2>6. arrivals[i] # t
    BY <1>1, <2>4 DEF Infer, ArrivalsInv, Holds
  <2>7. QED
    BY <1>0, <1>1, <2>4, <2>5, <2>6 DEF Infer, TypeOK
<1>2. ASSUME NEW u \in Updates, PostConfig(u), arrivals' = Append(arrivals, u)
      PROVE  stage'[arrivals'[i]] # "queued"
  <2>1. u \in Items /\ UNCHANGED stage
    BY <1>2 DEF Items, PostConfig, itemVars
  <2>2. /\ Len(arrivals') = Len(arrivals) + 1 /\ arrivals'[Len(arrivals) + 1] = u
        /\ \A k \in 1 .. Len(arrivals) : arrivals'[k] = arrivals[k]
    BY <1>0, <1>2, <2>1, AppendHolds
  <2>3. i \in 1 .. Len(arrivals) /\ arrivals'[i] = arrivals[i] /\ arrivals[i] \in Tasks
    BY <1>0, <2>2
  <2>4. CASE j = Len(arrivals) + 1
    BY <1>0, <1>2, <2>2, <2>4 DEF PostConfig, TypeOK
  <2>5. CASE j # Len(arrivals) + 1
    <3>1. j \in 1 .. Len(arrivals) /\ arrivals'[j] = arrivals[j]
      BY <1>0, <2>2, <2>5
    <3>2. arrivals[j] # u
      BY <1>2, <3>1 DEF PostConfig, ArrivalsInv, Holds
    <3>3. update'[arrivals[j]] = update[arrivals[j]]
      BY <1>0, <1>2, <3>1, <3>2 DEF PostConfig, TypeOK
    <3>4. stage[arrivals[i]] # "queued"
      BY <2>3, <3>1, <3>3 DEF EarlierTasksServed
    <3>5. QED
      BY <2>1, <2>3, <3>4
  <2>6. QED
    BY <2>4, <2>5
<1>3. ASSUME Quiet, arrivals' = arrivals
      PROVE  stage'[arrivals'[i]] # "queued"
  <2>1. CASE update[arrivals[j]] \in {"woken", "drained", "applied"}
    <3>1. stage[arrivals[i]] # "queued"
      BY <1>3, <2>1 DEF EarlierTasksServed
    <3>2. QED
      BY <1>0, <1>3, <3>1, QuietTasks
  <2>2. CASE idleEvent'
    <3>1. NodeInv'
      BY NodeInvStep, HStepIsStep
    <3>2. i \in 1 .. Len(arrivals')
      BY <1>0, <1>3
    <3>3. NodeInv' /\ idleEvent' => AllServed'
      BY IdleServed, PTL
    <3>4. QED
      BY <2>2, <3>1, <3>2, <3>3 DEF AllServed
  <2>3. QED
    BY <1>0, <1>3, <2>1, <2>2, QuietUpdates
<1>4. ASSUME Restart, arrivals' = <<>>
      PROVE  stage'[arrivals'[i]] # "queued"
  <2>1. Len(arrivals') = 0
    BY <1>4, EmptySeq
  <2>2. QED
    BY <2>1
<1>5. QED
  BY <1>0, <1>1, <1>2, <1>3, <1>4, HistoryKinds

-----------------------------------------------------------------------------
(* The order in which updates are applied.                                 *)

\* A newcomer is later than all others, and changes nothing among them.
LEMMA EarlierGrows ==
    ASSUME NEW e \in Items, arrivals \in Seq(Items), arrivals' = Append(arrivals, e),
           ~ Holds(arrivals, e)
    PROVE  \A w, u : Earlier(w, u)' => (u # e => Earlier(w, u)) /\ w # e
<1>1. /\ Len(arrivals') = Len(arrivals) + 1 /\ Len(arrivals) \in Nat
      /\ arrivals'[Len(arrivals) + 1] = e
      /\ \A i \in 1 .. Len(arrivals) : arrivals'[i] = arrivals[i] /\ arrivals[i] # e
  BY AppendHolds DEF Holds
<1> SUFFICES ASSUME NEW w, NEW u, NEW i \in 1 .. Len(arrivals'), NEW j \in 1 .. Len(arrivals'),
                    i < j, arrivals'[i] = w, arrivals'[j] = u
             PROVE  (u # e => Earlier(w, u)) /\ w # e
  BY DEF Earlier
<1>2. i \in 1 .. Len(arrivals) /\ arrivals[i] = w /\ w # e
  BY <1>1
<1>3. u # e => j \in 1 .. Len(arrivals) /\ arrivals[j] = u
  BY <1>1
<1>4. QED
  BY <1>2, <1>3 DEF Earlier

LEMMA EarlierHolds ==
    ASSUME ArrivalsInv, NEW w, NEW u, Earlier(w, u)
    PROVE  w # u /\ Holds(arrivals, w) /\ Holds(arrivals, u)
<1>1. PICK i, j \in 1 .. Len(arrivals) : i < j /\ arrivals[i] = w /\ arrivals[j] = u
  BY DEF Earlier
<1>2. i # j
  BY <1>1
<1>3. QED
  BY <1>1, <1>2 DEF ArrivalsInv, Distinct, Holds

\* The history of the passings is kept at every step, stuttering or not.
LEMMA PassingAlways ==
    ASSUME TypeOK, passed \in [Updates -> SUBSET Updates], [HNext]_hvars
    PROVE  Passing
<1>1. CASE HNext
  BY <1>1 DEF HNext
<1>2. CASE UNCHANGED hvars
  <2>1. UNCHANGED <<restarts, update, passed>>
    BY <1>2 DEF hvars, vars
  <2>2. Woken = {} /\ \A u \in Updates : ~ Blocks(u)
    BY <2>1 DEF Woken, Blocks, Blocked
  <2>3. \A u \in Updates :
           passed[u] = IF restarts' # restarts \/ Blocks(u) THEN {}
                       ELSE IF update[u] = "posted" THEN passed[u] \cup (Woken \cap SameSlot(u))
                       ELSE passed[u]
    BY <2>1, <2>2
  <2>4. passed = [u \in Updates |->
                    IF restarts' # restarts \/ Blocks(u) THEN {}
                    ELSE IF update[u] = "posted" THEN passed[u] \cup (Woken \cap SameSlot(u))
                    ELSE passed[u]]
    BY <2>3
  <2>5. QED
    BY <2>1, <2>4 DEF Passing
<1>3. QED
  BY <1>1, <1>2

\* Only a handler that blocks or is posted when others are woken has its history
\* changed.
LEMMA PassedKept ==
    ASSUME OrderInv, Passing, UNCHANGED restarts
    PROVE  /\ passed' \in [Updates -> SUBSET Updates]
           /\ \A u \in Updates : update[u] # "posted" => passed'[u] = passed[u]
           /\ \A u \in Updates : update'[u] # "waiting" => passed[u] \subseteq passed'[u]
           /\ \A u \in Updates : update[u] = "posted" /\ update'[u] # "waiting"
                 => Woken \cap SameSlot(u) \subseteq passed'[u]
<1>1. \A u \in Updates :
         passed'[u] = IF Blocks(u) THEN {}
                      ELSE IF update[u] = "posted" THEN passed[u] \cup (Woken \cap SameSlot(u))
                      ELSE passed[u]
  BY DEF Passing
<1>2. Woken \subseteq Updates
  BY DEF Woken, Blocked
<1>3. \A u \in Updates : passed'[u] \subseteq Updates
  BY <1>1, <1>2 DEF OrderInv
<1>4. \E f : passed' = [u \in Updates |-> f[u]]
  <2> DEFINE f == [u \in Updates |->
                     IF restarts' # restarts \/ Blocks(u) THEN {}
                     ELSE IF update[u] = "posted" THEN passed[u] \cup (Woken \cap SameSlot(u))
                     ELSE passed[u]]
  <2>1. passed' = [u \in Updates |-> f[u]]
    BY DEF Passing
  <2>2. QED
    BY <2>1
<1>5. passed' \in [Updates -> SUBSET Updates]
  BY <1>3, <1>4
<1>6. QED
  BY <1>1, <1>5 DEF Blocks

\* The updates that have not moved keep their order.
LEMMA OthersInOrder ==
    ASSUME OrderInv, Passing, UNCHANGED restarts, NEW w \in Updates, NEW u \in SameSlot(w),
           update'[w] = update[w], update'[u] = update[u],
           Earlier(w, u),
           w \in ahead[u] => w \in ahead'[u],
           u \in ahead'[w] => u \in ahead[w]
    PROVE  InOrder(w, u)'
<1>1. u \in Updates /\ InOrder(w, u)
  BY DEF OrderInv, SameSlot
<1>2. w \in passed[u] => w \in passed'[u]
  BY <1>1, PassedKept
<1>3. /\ w \in Pending' <=> w \in Pending
      /\ u \in Pending' <=> u \in Pending
      /\ w \in Blocked' <=> w \in Blocked
      /\ u \in Blocked' <=> u \in Blocked
  BY <1>1 DEF Pending, Ready, Blocked
<1>4. QED
  BY <1>1, <1>2, <1>3 DEF InOrder

LEMMA WakeInOrder ==
    ASSUME TypeOK, LineInv, OrderInv, Passing, UNCHANGED restarts, Wake,
           NEW w \in Updates, NEW u \in SameSlot(w), Earlier(w, u)
    PROVE  InOrder(w, u)'
<1>1. u \in Updates /\ InOrder(w, u) /\ w \in SameSlot(u)
  BY DEF OrderInv, SameSlot
<1>2. /\ Pending' = Pending /\ Blocked' = {} /\ Woken = Blocked
      /\ Ready \cap Blocked = {} /\ Pending = Ready \cup Blocked
  BY DEF Wake, Woken, Pending, Ready, Blocked, TypeOK
<1>3. \A v \in Updates : /\ v \notin Blocked => update'[v] = update[v]
                         /\ v \in Blocked => update'[v] = "woken"
  BY DEF Wake
<1>4. ahead'[w] = (IF w \in Blocked THEN ahead[w] \cup (Ready \cap SameSlot(w)) ELSE ahead[w])
      /\ (w \in ahead[u] => w \in ahead'[u])
  BY <1>1 DEF Wake
<1>5. w \in passed[u] => w \in passed'[u]
  BY <1>1, <1>3, PassedKept DEF Blocked
<1>6. ASSUME w \in Pending, u \in Pending, u \in ahead'[w]
      PROVE  w \in passed'[u]
  <2>1. CASE u \in ahead[w]
    BY <1>1, <1>5, <1>6, <2>1 DEF InOrder
  <2>2. CASE u \notin ahead[w]
    <3>1. w \in Blocked /\ u \in Ready
      BY <1>4, <1>6, <2>2
    <3>2. update[u] = "posted" /\ update'[u] = "posted"
      BY <1>1, <1>2, <1>3, <3>1 DEF InOrder, Ready
    <3>3. QED
      BY <1>1, <1>2, <3>1, <3>2, PassedKept
  <2>3. QED
    BY <2>1, <2>2
<1>7. update'[u] = "applied" => update[u] = "applied"
  BY <1>1, <1>3
<1>8. (update'[w] = "posted" => update[w] = "posted") /\ (update'[u] = "posted" => update[u] = "posted")
  BY <1>1, <1>3
<1>9. update'[w] = "posted" => update'[u] = update[u]
  BY <1>1, <1>3, <1>8 DEF InOrder, Blocked
<1>10. QED
  BY <1>1, <1>2, <1>4, <1>5, <1>6, <1>7, <1>8, <1>9 DEF InOrder

\* x looks at the event, and keeps its place or blocks.
LEMMA LookInOrder ==
    ASSUME TypeOK, IdleExact, LineInv, OrderInv, ArrivalsInv, Passing,
           NEW x \in Updates, LookAtEvent(x),
           NEW w \in Updates, NEW u \in SameSlot(w), Earlier(w, u)
    PROVE  InOrder(w, u)'
<1>1. /\ u \in Updates /\ InOrder(w, u) /\ w \in SameSlot(u) /\ w # u
      /\ UNCHANGED restarts
  BY EarlierHolds DEF OrderInv, SameSlot, LookAtEvent
<1>2. /\ update[x] = "posted" /\ update'[x] = (IF idleEvent THEN "drained" ELSE "waiting")
      /\ \A v \in Updates \ {x} : update'[v] = update[v]
      /\ \A v \in ahead[x] : update[v] # "posted"
  BY DEF LookAtEvent, TypeOK
<1>3. \A v \in Updates \ {x} : ahead'[v] \subseteq ahead[v] /\ ahead[v] \ {x} \subseteq ahead'[v]
  BY DEF LookAtEvent, AheadWithout
<1>4. CASE w # x /\ u # x
  BY <1>1, <1>2, <1>3, <1>4, OthersInOrder
<1>5. CASE w = x
  <2>1. update[u] \in {"posted", "rejected"} /\ update'[u] = update[u]
    BY <1>1, <1>2, <1>5 DEF InOrder
  <2>2. u \notin Blocked' /\ u \notin Blocked
    BY <2>1 DEF Blocked
  <2>3. u \in Pending' /\ u \in ahead'[w] => w \in passed'[u]
    <3>1. CASE idleEvent
      <4>1. ahead' = ahead /\ w \in Pending /\ (u \in Pending' => u \in Pending)
        BY <1>1, <1>2, <1>5, <2>1, <3>1 DEF LookAtEvent, Pending, Ready, Blocked
      <4>2. w \in passed[u] => w \in passed'[u]
        BY <1>1, <2>1, PassedKept
      <4>3. QED
        BY <1>1, <4>1, <4>2 DEF InOrder
    <3>2. CASE ~ idleEvent
      <4>1. ahead'[w] \subseteq Blocked
        BY <1>5, <3>2 DEF LookAtEvent, AheadWithout
      <4>2. QED
        BY <2>2, <4>1
    <3>3. QED
      BY <3>1, <3>2
  <2>4. update'[w] # "posted"
    BY <1>2, <1>5
  <2>5. QED
    BY <2>1, <2>2, <2>3, <2>4 DEF InOrder
<1>6. CASE u = x
  <2>1. update'[w] = update[w] /\ (w \in Pending' <=> w \in Pending)
    BY <1>1, <1>2, <1>6 DEF Pending, Ready, Blocked
  <2>2. update[w] # "posted"
    BY <1>1, <1>2, <1>6 DEF InOrder
  <2>3. update'[u] \notin {"applied", "posted"}
    BY <1>2, <1>6
  <2>4. CASE idleEvent
    <3>1. Blocked = {} /\ w \notin Blocked'
      BY <1>2, <2>1, <2>4 DEF IdleExact, Blocked
    <3>2. ahead' = ahead /\ u \in Pending /\ (w \in passed[u] => w \in passed'[u])
      BY <1>1, <1>2, <1>6, <2>4, PassedKept DEF LookAtEvent, Pending, Ready
    <3>3. QED
      BY <1>1, <2>1, <2>2, <2>3, <3>1, <3>2 DEF InOrder
  <2>5. CASE ~ idleEvent
    <3>1. u \notin ahead'[w] /\ ahead'[u] = Blocked \cap SameSlot(u)
      BY <1>1, <1>6, <2>5 DEF LookAtEvent, AheadWithout
    <3>2. (w \in Blocked' <=> w \in Blocked) /\ update'[u] = "waiting"
      BY <1>2, <1>6, <2>1, <2>5 DEF Blocked
    <3>3. QED
      BY <1>1, <2>1, <2>2, <3>1, <3>2 DEF InOrder
  <2>6. QED
    BY <2>4, <2>5
<1>7. QED
  BY <1>4, <1>5, <1>6

\* x leaves: nobody stood ahead of it, or it is rejected.
LEMMA LeaveInOrder ==
    ASSUME TypeOK, LineInv, OrderInv, ArrivalsInv, Passing,
           NEW x \in Updates, ApplyConfig(x) \/ DrainTimeout(x),
           NEW w \in Updates, NEW u \in SameSlot(w), Earlier(w, u)
    PROVE  InOrder(w, u)'
<1>1. /\ u \in Updates /\ InOrder(w, u) /\ w \in SameSlot(u) /\ w # u
      /\ UNCHANGED restarts
  BY EarlierHolds DEF OrderInv, SameSlot, ApplyConfig, DrainTimeout
<1>2. /\ update'[x] \in {"applied", "rejected"} /\ x \in Pending
      /\ \A v \in Updates \ {x} : update'[v] = update[v]
      /\ update'[x] = "applied" => update[x] \in {"woken", "drained"} /\ ahead[x] = {}
  BY DEF ApplyConfig, DrainTimeout, TypeOK, Pending, Ready, Blocked
<1>3. \A v \in Updates \ {x} : ahead'[v] = ahead[v] \ {x}
  BY DEF ApplyConfig, DrainTimeout, AheadWithout
<1>4. CASE w # x /\ u # x
  BY <1>1, <1>2, <1>3, <1>4, OthersInOrder
<1>5. CASE w = x
  <2>1. w \notin Pending' /\ w \notin Blocked' /\ update'[w] # "posted"
    BY <1>2, <1>5 DEF Pending, Ready, Blocked
  <2>2. QED
    BY <2>1 DEF InOrder
<1>6. CASE u = x
  <2>1. u \notin Pending' /\ u \notin Blocked' /\ update'[u] # "posted"
    BY <1>2, <1>6 DEF Pending, Ready, Blocked
  <2>2. update'[w] = update[w] /\ (w \in Pending' <=> w \in Pending) /\ (w \in Blocked' <=> w \in Blocked)
    BY <1>1, <1>2, <1>6 DEF Pending, Ready, Blocked
  <2>3. CASE update'[u] = "rejected"
    BY <2>1, <2>2, <2>3 DEF InOrder
  <2>4. CASE update'[u] = "applied"
    <3>1. update[u] \in {"woken", "drained"} /\ ahead[u] = {} /\ u \in Ready
      BY <1>2, <1>6, <2>4 DEF Ready
    <3>2. w \notin Blocked /\ update[w] # "posted"
      BY <1>1, <3>1 DEF InOrder
    <3>3. ASSUME w \in Pending
          PROVE  w \in passed'[u]
      <4>1. w \in Ready
        BY <3>2, <3>3 DEF Pending
      <4>2. u \in ahead[w]
        BY <1>1, <3>1, <3>3, <4>1 DEF LineInv, InLine
      <4>3. w \in passed[u]
        BY <1>1, <1>2, <1>6, <3>3, <4>2 DEF InOrder
      <4>4. QED
        BY <1>1, <3>1, <4>3, PassedKept
    <3>4. QED
      BY <2>1, <2>2, <3>2, <3>3 DEF InOrder
  <2>5. QED
    BY <1>2, <1>6, <2>3, <2>4
<1>7. QED
  BY <1>4, <1>5, <1>6

\* x arrives after all others, behind those that may resume.
LEMMA PostInOrder ==
    ASSUME TypeOK, LineInv, OrderInv, ArrivalsInv, Passing,
           NEW x \in Updates, PostConfig(x), arrivals' = Append(arrivals, x),
           NEW w \in Updates, NEW u \in SameSlot(w), Earlier(w, u)'
    PROVE  InOrder(w, u)'
<1>1. /\ u \in Updates /\ w \in SameSlot(u) /\ UNCHANGED restarts
      /\ ~ Holds(arrivals, x) /\ x \in Items /\ arrivals \in Seq(Items)
  BY DEF SameSlot, PostConfig, ArrivalsInv, Items
<1>2. w # x /\ (u # x => Earlier(w, u))
  BY <1>1, EarlierGrows
<1>3. /\ update'[x] = "posted" /\ \A v \in Updates \ {x} : update'[v] = update[v]
      /\ x \notin Pending
  BY DEF PostConfig, TypeOK, Pending, Ready, Blocked
<1>4. /\ ahead'[x] = Ready \cap SameSlot(x)
      /\ \A v \in Updates \ {x} : ahead'[v] = ahead[v]
  BY DEF PostConfig, TypeOK
<1>5. CASE u # x
  BY <1>1, <1>2, <1>3, <1>4, <1>5, OthersInOrder
<1>6. CASE u = x
  <2>1. u \notin ahead'[w]
    BY <1>2, <1>3, <1>4, <1>6 DEF LineInv, InLine, Pending
  <2>2. update'[w] = "posted" => w \in Ready
    BY <1>2, <1>3 DEF Ready
  <2>3. u \notin Blocked' /\ update'[u] = "posted"
    BY <1>3, <1>6 DEF Blocked
  <2>4. QED
    BY <1>1, <1>4, <1>6, <2>1, <2>2, <2>3 DEF InOrder
<1>7. QED
  BY <1>5, <1>6

LEMMA OrderStep ==
    NodeInv /\ ArrivalsInv /\ OrderInv /\ [HNext]_hvars => OrderInv'
<1> SUFFICES ASSUME NodeInv, ArrivalsInv, OrderInv, [HNext]_hvars
             PROVE  OrderInv'
  OBVIOUS
<1>0. /\ NodeInv /\ TypeOK /\ IdleExact /\ LineInv /\ arrivals \in Seq(Items)
      /\ passed \in [Updates -> SUBSET Updates]
  BY DEF NodeInv, IInv, ArrivalsInv, OrderInv
<1>1. Passing
  BY <1>0, PassingAlways
<1>2. CASE Restart /\ arrivals' = <<>>
  <2>1. Len(arrivals') = 0
    BY <1>2, EmptySeq
  <2>2. restarts' # restarts
    BY <1>0, <1>2 DEF Restart, TypeOK
  <2>3. passed' = [u \in Updates |-> {}]
    BY <1>1, <2>2 DEF Passing
  <2>4. \A w, u : ~ Earlier(w, u)'
    BY <2>1 DEF Earlier
  <2>5. QED
    BY <2>3, <2>4 DEF OrderInv
<1>3. CASE UNCHANGED restarts
  <2>1. passed' \in [Updates -> SUBSET Updates]
    BY <1>1, <1>3, PassedKept
  <2> SUFFICES ASSUME NEW w \in Updates, NEW u \in SameSlot(w), Earlier(w, u)'
               PROVE  InOrder(w, u)'
    BY <2>1 DEF OrderInv, SameSlot
  <2>2. u \in Updates
    BY DEF SameSlot
  <2>3. ASSUME NEW r \in Tasks, Infer(r), arrivals' = Append(arrivals, r)
        PROVE  InOrder(w, u)'
    <3>1. r \in Items /\ r \notin Updates /\ ~ Holds(arrivals, r) /\ UNCHANGED <<update, ahead>>
      BY <2>3, HistoryAssumption DEF Infer, updateVars, ArrivalsInv, Items
    <3>2. Earlier(w, u)
      BY <1>0, <2>2, <2>3, <3>1, EarlierGrows
    <3>3. QED
      BY <1>1, <1>3, <3>1, <3>2, OthersInOrder
  <2>4. ASSUME NEW x \in Updates, PostConfig(x), arrivals' = Append(arrivals, x)
        PROVE  InOrder(w, u)'
    BY <1>0, <1>1, <2>4, PostInOrder
  <2>5. CASE Quiet /\ arrivals' = arrivals
    <3>1. Earlier(w, u)
      BY <2>5 DEF Earlier
    <3>2. CASE UNCHANGED <<update, ahead>>
      BY <1>1, <1>3, <3>1, <3>2, OthersInOrder
    <3>3. CASE Wake
      BY <1>0, <1>1, <1>3, <3>1, <3>3, WakeInOrder
    <3>4. ASSUME NEW x \in Updates, LookAtEvent(x)
          PROVE  InOrder(w, u)'
      BY <1>0, <1>1, <3>1, <3>4, LookInOrder
    <3>5. ASSUME NEW x \in Updates, ApplyConfig(x) \/ DrainTimeout(x)
          PROVE  InOrder(w, u)'
      BY <1>0, <1>1, <3>1, <3>5, LeaveInOrder
    <3>6. ASSUME NEW x \in Updates, RejectUpdate(x)
          PROVE  InOrder(w, u)'
      <4>1. w # x /\ u # x /\ UNCHANGED ahead
        BY <3>1, <3>6, EarlierHolds DEF RejectUpdate, ArrivalsInv
      <4>2. update'[w] = update[w] /\ update'[u] = update[u]
        BY <1>0, <2>2, <3>6, <4>1 DEF RejectUpdate, TypeOK
      <4>3. QED
        BY <1>1, <1>3, <3>1, <4>1, <4>2, OthersInOrder
    <3>7. QED
      BY <2>5, <3>2, <3>3, <3>4, <3>5, <3>6, QuietKinds
  <2>6. ~ Restart
    BY <1>0, <1>3 DEF Restart, TypeOK
  <2>7. QED
    BY <1>0, <2>3, <2>4, <2>5, <2>6, HistoryKinds
<1>4. Restart \/ UNCHANGED restarts
  BY <1>0, HistoryKinds, QuietKinds DEF Infer, PostConfig
<1>5. ~ UNCHANGED restarts => arrivals' = <<>>
  BY <1>0, HistoryKinds, QuietKinds DEF Infer, PostConfig
<1>6. QED
  BY <1>2, <1>3, <1>4, <1>5

\* Nobody applies settings: what is applied stays, and so do the settings.
LEMMA NothingApplied ==
    ASSUME ArrivalsInv, OrderInv, LatestUpdateInForce, Passing, UNCHANGED <<config, restarts>>,
           \A u \in Updates : update'[u] = "applied" <=> update[u] = "applied",
           \/ arrivals' = arrivals
           \/ \E x \in Items : /\ arrivals' = Append(arrivals, x)
                               /\ ~ Holds(arrivals, x)
                               /\ x \in Updates => update[x] # "applied"
    PROVE  LatestUpdateInForce'
<1>1. ASSUME NEW u \in Updates, update[u] = "applied"
      PROVE  Holds(arrivals', u) <=> Holds(arrivals, u)
  <2>1. ASSUME NEW x \in Items, arrivals' = Append(arrivals, x), x # u
        PROVE  Holds(arrivals', u) <=> Holds(arrivals, u)
    <3> HIDE DEF Holds
    <3>1. arrivals \in Seq(Items)
      BY DEF ArrivalsInv
    <3>2. Holds(Append(arrivals, x), u) <=> Holds(arrivals, u) \/ u = x
      BY <3>1, AppendHolds
    <3>3. QED
      BY <2>1, <3>2
  <2>2. QED
    BY <1>1, <2>1
<1>2. \A d : AppliedTo(d)' = AppliedTo(d)
  BY <1>1 DEF AppliedTo, SlotOf, Holds
<1>3. ASSUME NEW d, NEW u \in AppliedTo(d), NEW v \in AppliedTo(d), Earlier(u, v)'
      PROVE  Earlier(u, v)
  <2>1. v \in Updates /\ update[v] = "applied"
    BY DEF AppliedTo, SlotOf
  <2>2. QED
    BY <1>3, <2>1, EarlierGrows DEF Earlier, ArrivalsInv
<1>4. \A d : \A v \in AppliedTo(d) : passed'[v] = passed[v]
  BY PassedKept DEF AppliedTo, SlotOf
<1>5. QED
  BY <1>2, <1>3, <1>4 DEF LatestUpdateInForce

\* A handler applies its settings: a later update that is applied has passed it.
LEMMA HeadApplied ==
    ASSUME NodeInv, ArrivalsInv, OrderInv, LatestUpdateInForce, Passing,
           NEW x \in Updates, ApplyConfig(x), arrivals' = arrivals
    PROVE  LatestUpdateInForce'
<1> DEFINE d == SlotOf(x)
<1>0. TypeOK /\ LineInv
  BY DEF NodeInv, IInv
<1>1. /\ x \in Pending /\ update'[x] = "applied"
      /\ \A v \in Updates \ {x} : update'[v] = update[v]
      /\ config' = [config EXCEPT ![d] = Value[x]]
      /\ UNCHANGED restarts
  BY <1>0 DEF ApplyConfig, TypeOK, Pending, Ready
<1>2. d \in Slots /\ Holds(arrivals, x)
  BY <1>0, <1>1 DEF LineInv, ArrivalsInv
<1>3. x \in AppliedTo(d)' /\ config'[d] = Value[x]
  BY <1>0, <1>1, <1>2 DEF AppliedTo, SlotOf, Holds, TypeOK
<1>4. ASSUME NEW v \in AppliedTo(d)', Earlier(x, v)'
      PROVE  x \in passed'[v]
  <2>1. Earlier(x, v) /\ v # x /\ v \in Updates /\ v \in SameSlot(x)
    BY <1>4, EarlierHolds DEF Earlier, AppliedTo, SameSlot
  <2>2. update[v] = "applied"
    BY <1>1, <2>1 DEF AppliedTo, SlotOf
  <2>3. x \in passed[v]
    BY <1>1, <2>1, <2>2 DEF OrderInv, InOrder
  <2>4. QED
    BY <1>1, <2>1, <2>2, <2>3, PassedKept
<1>5. ASSUME NEW e \in Slots, e # d
      PROVE  /\ AppliedTo(e)' = AppliedTo(e) /\ config'[e] = config[e]
             /\ \A v \in AppliedTo(e) : passed'[v] = passed[v]
  <2>1. config'[e] = config[e]
    BY <1>0, <1>1, <1>5 DEF TypeOK
  <2>2. AppliedTo(e)' = AppliedTo(e)
    BY <1>1, <1>5 DEF AppliedTo, SlotOf
  <2>3. QED
    BY <1>1, <2>1, <2>2, PassedKept DEF AppliedTo, SlotOf
<1>6. \A u, v : Earlier(u, v)' <=> Earlier(u, v)
  BY DEF Earlier
<1> HIDE DEF d
<1> SUFFICES ASSUME NEW e \in Slots
             PROVE  IF AppliedTo(e)' = {} THEN config'[e] = NoCompression
                    ELSE \E u \in AppliedTo(e)' :
                            /\ config'[e] = Value[u]
                            /\ \A v \in AppliedTo(e)' : Earlier(u, v)' => u \in passed'[v]
  BY DEF LatestUpdateInForce
<1>7. CASE e = d
  BY <1>3, <1>4, <1>7
<1>8. CASE e # d
  BY <1>5, <1>6, <1>8 DEF LatestUpdateInForce
<1>9. QED
  BY <1>7, <1>8

LEMMA InForceStep ==
    NodeInv /\ ArrivalsInv /\ OrderInv /\ LatestUpdateInForce /\ [HNext]_hvars
        => LatestUpdateInForce'
<1> SUFFICES ASSUME NodeInv, ArrivalsInv, OrderInv, LatestUpdateInForce, [HNext]_hvars
             PROVE  LatestUpdateInForce'
  OBVIOUS
<1>0. NodeInv /\ TypeOK /\ arrivals \in Seq(Items) /\ passed \in [Updates -> SUBSET Updates]
  BY DEF NodeInv, IInv, ArrivalsInv, OrderInv
<1>p. Passing
  BY <1>0, PassingAlways
<1>1. ASSUME NEW r \in Tasks, Infer(r), arrivals' = Append(arrivals, r)
      PROVE  LatestUpdateInForce'
  <2>1. r \in Items /\ r \notin Updates /\ ~ Holds(arrivals, r)
    BY <1>1, HistoryAssumption DEF Items, ArrivalsInv, Infer
  <2>2. UNCHANGED <<update, config, restarts>>
    BY <1>1 DEF Infer, updateVars
  <2>3. QED
    BY <1>p, <1>1, <2>1, <2>2, NothingApplied
<1>2. ASSUME NEW u \in Updates, PostConfig(u), arrivals' = Append(arrivals, u)
      PROVE  LatestUpdateInForce'
  <2>1. /\ u \in Items /\ UNCHANGED <<config, restarts>> /\ update[u] # "applied"
        /\ ~ Holds(arrivals, u)
    BY <1>2 DEF PostConfig, Items, ArrivalsInv
  <2>2. \A v \in Updates : update'[v] = "applied" <=> update[v] = "applied"
    BY <1>0, <1>2 DEF PostConfig, TypeOK
  <2>3. QED
    BY <1>p, <1>2, <2>1, <2>2, NothingApplied
<1>3. ASSUME NEW u \in Updates, ApplyConfig(u), arrivals' = arrivals
      PROVE  LatestUpdateInForce'
  BY <1>p, <1>3, HeadApplied
<1>4. ASSUME Quiet, ~ \E u \in Updates : ApplyConfig(u), arrivals' = arrivals
      PROVE  LatestUpdateInForce'
  <2>1. UNCHANGED config /\ \A u \in Updates : update'[u] = "applied" <=> update[u] = "applied"
    BY <1>0, <1>4, QuietKinds
       DEF Wake, Blocked, LookAtEvent, DrainTimeout, RejectUpdate, TypeOK
  <2>2. UNCHANGED restarts
    BY <1>0, <1>4, QuietKinds
  <2>3. QED
    BY <1>p, <1>4, <2>1, <2>2, NothingApplied
<1>5. ASSUME Restart, arrivals' = <<>>
      PROVE  LatestUpdateInForce'
  <2>1. Len(arrivals') = 0 /\ config' = [s \in Slots |-> NoCompression]
    BY <1>5, EmptySeq DEF Restart
  <2>2. \A d : AppliedTo(d)' = {}
    BY <2>1 DEF AppliedTo, SlotOf
  <2>3. QED
    BY <2>1, <2>2 DEF LatestUpdateInForce
<1>6. QED
  BY <1>0, <1>1, <1>2, <1>3, <1>4, <1>5, HistoryKinds

-----------------------------------------------------------------------------
(* Laggards first.                                                         *)

\* Nothing arrives while the worker runs, so the clocks with which it began are
\* the tags of the tasks that are queued.
ShareInv ==
    /\ began \in [Pipelines -> Clocks]
    /\ worker # "running" => began = virtualTime
    /\ TagsCurrent
    /\ LaggardsFirst

LEMMA ShareInit == HInit => ShareInv
<1> SUFFICES ASSUME HInit
             PROVE  ShareInv
  OBVIOUS
<1>1. Queued = {} /\ worker = "blocked"
  BY DEF HInit, Init, Queued
<1>2. QED
  BY <1>1, TypeInit DEF HInit, TypeOK, ShareInv, TagsCurrent, LaggardsFirst

\* Serving the task that precedes all others: if it belongs to a pipeline that
\* was ahead of another one, nothing of the other one is queued.
LEMMA ServeShares ==
    ASSUME NodeInv, ShareInv, NEW t \in Tasks, ServeSome(t), began' = began,
           worker' = "running"
    PROVE  ShareInv'
<1>0. TypeOK /\ KnownInv
  BY DEF NodeInv, IInv, QueueInv
<1>1. PICK outcome \in {"sending", "finished"}, cost \in Int : Serve(t, cost, outcome)
  BY <1>0, ServeFacts
<1>2. /\ worker = "running" /\ UNCHANGED tag /\ t \in Queued
      /\ InOrderOfTags => \A u \in Queued \ {t} : Precedes(t, u)
      /\ Queued' = Queued \ {t}
  BY <1>0, <1>1 DEF Serve, Queued, TypeOK
<1>3. PipeOf[t] \in Pipelines
  BY <1>0, <1>2 DEF KnownInv
<1>4. \A p \in Pipelines \ {PipeOf[t]} : virtualTime'[p] = virtualTime[p]
  BY <1>0, <1>1, <1>3, ChargeType DEF Serve
<1>5. TagsCurrent'
  BY <1>2 DEF ShareInv, TagsCurrent
<1>6. LaggardsFirst'
  <2> SUFFICES ASSUME \A r \in Pipelines : began[r] # NaN,
                      NEW p \in Pipelines, NEW q \in Pipelines, began[p] < began[q],
                      NEW u \in Queued', PipeOf[u] = p
               PROVE  virtualTime'[q] = began[q]
    BY DEF LaggardsFirst
  <2>1. u \in Queued \ {t} /\ tag[u] = began[p] /\ tag[t] = began[PipeOf[t]]
    BY <1>2 DEF ShareInv, TagsCurrent
  <2>2. InOrderOfTags /\ tag[t] \in Int /\ tag[u] \in Int /\ began[q] \in Int
    BY <1>0, <1>2, <2>1 DEF InOrderOfTags, ShareInv, TagsCurrent, KnownInv, Clocks
  <2>3. q # PipeOf[t]
    <3>1. tag[t] <= tag[u]
      BY <1>2, <2>1, <2>2 DEF Precedes
    <3>2. QED
      BY <2>1, <2>2, <3>1
  <2>4. virtualTime[q] = began[q]
    BY <1>2, <2>1 DEF ShareInv, LaggardsFirst
  <2>5. QED
    BY <1>4, <2>3, <2>4
<1>7. QED
  BY <1>2, <1>5, <1>6 DEF ShareInv

\* Elsewhere the worker does not run before the step or not after it.
LEMMA WorkerAlone ==
    ASSUME TypeOK, [Next]_vars, worker = "running", worker' = "running"
    PROVE  (\E t \in Tasks : ServeSome(t)) \/ UNCHANGED vars
<1>1. \A t \in Tasks : ~ (Infer(t) \/ RejectTask(t) \/ SendReturns(t))
  BY DEF Infer, RejectTask, SendReturns, LoopIsFree
<1>2. \A u \in Updates : ~ (PostConfig(u) \/ RejectUpdate(u) \/ LookAtEvent(u)
                              \/ ApplyConfig(u) \/ DrainTimeout(u))
  BY DEF PostConfig, RejectUpdate, LookAtEvent, ApplyConfig, DrainTimeout, LoopIsFree
<1>3. \A c \in WeightCalls : ~ UpdateWeights(c)
  BY DEF UpdateWeights, LoopIsFree
<1>4. ~ (ProbeCheck \/ ProbeRtt \/ ProbeEnds \/ ProbeSleepEnds \/ WorkerResumes \/ Restart)
  BY DEF ProbeCheck, ProbeRtt, ProbeEnds, ProbeSleepEnds, ProbeMoves, LoopIsFree,
         WorkerResumes, Restart
<1>5. QED
  BY <1>1, <1>2, <1>3, <1>4 DEF Next

LEMMA WorkerStarts ==
    ASSUME [Next]_vars, worker # "running", worker' = "running"
    PROVE  WorkerResumes
<1>1. \A t \in Tasks : ~ (Infer(t) \/ ServeSome(t))
  BY DEF Infer, ServeSome, Serve
<1>2. ASSUME NEW t \in Tasks, RejectTask(t) \/ SendReturns(t)
      PROVE  UNCHANGED worker
  BY <1>2 DEF RejectTask, SendReturns
<1>3. ASSUME NEW u \in Updates, \/ RejectUpdate(u) \/ PostConfig(u) \/ LookAtEvent(u)
                                \/ ApplyConfig(u) \/ DrainTimeout(u)
      PROVE  UNCHANGED worker
  BY <1>3 DEF PostConfig, RejectUpdate, LookAtEvent, ApplyConfig, DrainTimeout
<1>4. ASSUME NEW c \in WeightCalls, UpdateWeights(c)
      PROVE  UNCHANGED worker
  BY <1>4 DEF UpdateWeights
<1>5. ASSUME ProbeCheck \/ ProbeRtt \/ ProbeEnds \/ ProbeSleepEnds \/ UNCHANGED vars
      PROVE  UNCHANGED worker
  BY <1>5 DEF ProbeCheck, ProbeRtt, ProbeEnds, ProbeSleepEnds, ProbeMoves, vars
<1>6. ~ Restart
  BY DEF Restart
<1>7. QED
  BY <1>1, <1>2, <1>3, <1>4, <1>5, <1>6 DEF Next

LEMMA ShareStep == NodeInv /\ ShareInv /\ [HNext]_hvars => ShareInv'
<1> SUFFICES ASSUME NodeInv, ShareInv, [HNext]_hvars
             PROVE  ShareInv'
  OBVIOUS
<1>0. TypeOK /\ [Next]_vars /\ NodeInv'
  BY HStepIsStep, NodeInvStep DEF NodeInv, IInv
<1>1. CASE UNCHANGED hvars
  BY <1>1 DEF hvars, vars, ShareInv, TagsCurrent, LaggardsFirst, Queued
<1>2. CASE HNext /\ worker = "running" /\ worker' = "running"
  <2>1. began' = began
    BY <1>2 DEF HNext, Begin
  <2>2. CASE UNCHANGED vars
    BY <2>1, <2>2 DEF vars, ShareInv, TagsCurrent, LaggardsFirst, Queued
  <2>3. QED
    BY <1>0, <1>2, <2>1, <2>2, ServeShares, WorkerAlone
<1>3. CASE HNext /\ ~ (worker = "running" /\ worker' = "running")
  <2>1. began' = virtualTime'
    BY <1>3 DEF HNext, Begin
  <2>2. virtualTime' \in [Pipelines -> Clocks]
    BY <1>0 DEF NodeInv, IInv, TypeOK
  <2>3. \A t \in Queued' : tag'[t] = virtualTime'[PipeOf[t]]
    <3>1. CASE worker' # "running"
      BY <1>0, <3>1 DEF NodeInv, IInv, QueueInv, TagInv
    <3>2. CASE worker' = "running"
      <4>1. worker # "running"
        BY <1>3, <3>2
      <4>2. WorkerResumes
        BY <1>0, <3>2, <4>1, WorkerStarts
      <4>3. UNCHANGED <<tag, virtualTime>> /\ Queued' = Queued
        BY <4>2 DEF WorkerResumes, itemVars, shareVars, Queued
      <4>4. QED
        BY <4>1, <4>3 DEF NodeInv, IInv, QueueInv, TagInv
    <3>3. QED
      BY <3>1, <3>2
  <2>4. LaggardsFirst'
    BY <2>1 DEF LaggardsFirst
  <2>5. QED
    BY <2>1, <2>2, <2>3, <2>4 DEF ShareInv, TagsCurrent
<1>4. QED
  BY <1>1, <1>2, <1>3

-----------------------------------------------------------------------------
(* The theorems about the history.                                         *)

HistoryInv ==
    /\ NodeInv /\ ArrivalsInv /\ OrderInv
    /\ EarlierTasksServed /\ LatestUpdateInForce /\ ShareInv

LEMMA HistoryInvInit == HInit => HistoryInv
<1> SUFFICES ASSUME HInit
             PROVE  HistoryInv
  OBVIOUS
<1>1. NodeInv /\ ArrivalsInv /\ ShareInv
  BY NodeInvInit, ArrivalsInit, ShareInit DEF HInit
<1>2. Len(arrivals) = 0 /\ config = [s \in Slots |-> NoCompression]
  BY EmptySeq DEF HInit, Init
<1>3. /\ \A s : AppliedTo(s) = {}
      /\ \A w, u : ~ Earlier(w, u)
      /\ passed = [u \in Updates |-> {}]
  BY <1>2 DEF AppliedTo, Earlier, HInit
<1>4. EarlierTasksServed /\ LatestUpdateInForce /\ OrderInv
  BY <1>2, <1>3 DEF EarlierTasksServed, LatestUpdateInForce, OrderInv
<1>5. QED
  BY <1>1, <1>4 DEF HistoryInv

LEMMA HistoryInvStep == HistoryInv /\ [HNext]_hvars => HistoryInv'
<1> SUFFICES ASSUME HistoryInv, [HNext]_hvars
             PROVE  HistoryInv'
  OBVIOUS
<1>1. NodeInv'
  BY NodeInvStep, HStepIsStep DEF HistoryInv
<1>2. ArrivalsInv'
  BY ArrivalsStep DEF HistoryInv
<1>3. EarlierTasksServed'
  BY EarlierStep DEF HistoryInv
<1>4. LatestUpdateInForce' /\ OrderInv'
  BY InForceStep, OrderStep DEF HistoryInv
<1>5. ShareInv'
  BY ShareStep DEF HistoryInv
<1>6. QED
  BY <1>1, <1>2, <1>3, <1>4, <1>5 DEF HistoryInv

\* When a handler of POST /config may change the settings of a pipeline
\* (server.py:424-427), every task queued before that call arrived has been
\* decompressed and compressed.
THEOREM DrainIsSound == HSpec => []EarlierTasksServed
<1>1. HistoryInv => EarlierTasksServed
  BY DEF HistoryInv
<1>2. QED
  BY HistoryInvInit, HistoryInvStep, <1>1, PTL DEF HSpec

\* Per pipeline and direction an applied call is in force that only such later
\* calls preceded as had passed it when it was woken, however the waits, the
\* wake-ups and the timeouts of concurrent calls interleave.
THEOREM LastWriterWins == HSpec => []LatestUpdateInForce
<1>1. HistoryInv => LatestUpdateInForce
  BY DEF HistoryInv
<1>2. QED
  BY HistoryInvInit, HistoryInvStep, <1>1, PTL DEF HSpec

\* Every queued task carries the clock its pipeline had when the worker began on
\* the backlog, whatever was charged since, in either direction.
THEOREM TagsAreCurrent == HSpec => []TagsCurrent
<1>1. HistoryInv => TagsCurrent
  BY DEF HistoryInv, ShareInv
<1>2. QED
  BY HistoryInvInit, HistoryInvStep, <1>1, PTL DEF HSpec

\* Within one backlog a pipeline that was ahead in virtual time gets nothing
\* while one behind it has a task waiting, for any weights and costs, also negative,
\* as long as every clock is a number: the
\* tags of a backlog are the clocks of the moment it was begun.
THEOREM LaggardsGoFirst == HSpec => []LaggardsFirst
<1>1. HistoryInv => LaggardsFirst
  BY DEF HistoryInv, ShareInv
<1>2. QED
  BY HistoryInvInit, HistoryInvStep, <1>1, PTL DEF HSpec
=============================================================================
