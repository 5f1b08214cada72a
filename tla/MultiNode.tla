----------------------------- MODULE MultiNode -----------------------------
(***************************************************************************)
(* One node of a multi-model experiment: nodes/compute/multi/server.py, on *)
(* one asyncio event loop.  Tasks of several pipelines share a priority    *)
(* queue and one worker.  Neither get() on a non-empty queue nor           *)
(* _process_task suspends, so once the worker is running no other          *)
(* coroutine runs until the queue is empty; sends are left to background   *)
(* tasks that start after that.                                            *)
(***************************************************************************)
EXTENDS Integers, Sequences, FiniteSets

CONSTANTS
    Pipelines,      \* the pipelines with partitions on this node
    Tasks,          \* the task ids POSTed to /infer
    PipeOf,         \* their pipeline_id, known or not
    Updates,        \* the calls of POST /config
    PipeUpdated, Direction, Value,      \* their fields
    Configs,        \* compression settings
    NoCompression,  \* the settings of a starting node
    WeightCalls,    \* the calls of POST /config/weights: sequences of
                    \* [pipe, weight] records, the JSON object's entries in order
    Weights,        \* the weights they carry, among them invalid ones
    NaN,            \* the float that is not a number, which JSON lets a client send
    InitialWeight,  \* 1 / number of pipelines, in the unit of Weights
    Costs,          \* compute times: differences of wall-clock readings, so
                    \* negative when the clock is stepped back
    Scale,          \* virtual time per unit of cost and weight
    IsLast,         \* no outgoing link, so no prober
    MaxRestarts     \* bound on the restarts of the process

Directions == {"incoming", "outgoing"}
Slots      == Pipelines \X Directions
Clocks     == Int \cup {NaN}

ASSUME MultiNodeAssumption ==
    /\ DOMAIN PipeOf = Tasks
    /\ DOMAIN PipeUpdated = Updates /\ DOMAIN Direction = Updates
    /\ Value \in [Updates -> Configs]
    /\ NoCompression \in Configs
    /\ NaN \notin Int
    /\ Weights \subseteq Int \cup {NaN}
    /\ \A c \in WeightCalls : \A i, j \in 1 .. Len(c) :
          c[i].weight \in Weights /\ (i # j => c[i].pipe # c[j].pipe)
    /\ InitialWeight \in Nat \ {0}
    /\ Costs \subseteq Int
    /\ Scale \in Nat
    /\ IsLast \in BOOLEAN
    /\ MaxRestarts \in Nat

VARIABLES
    stage,          \* where the processing of each task is
    tag,            \* QueueItem.start_tag
    seq,            \* QueueItem.seq
    seqCounter,     \* MultiNodeState._seq_counter
    virtualTime,    \* MultiNodeState.virtual_times
    weight,         \* MultiNodeState.weights
    worker,         \* the worker coroutine: blocked in get(), woken, or running
    idleEvent,      \* whether idle_event is set
    update,         \* where the handler of each update is
    ahead,          \* for each update, those of its pipeline and direction whose
                    \* handlers the event loop resumes before its own
    config,         \* the settings in force, per pipeline and direction
    weightCall,     \* what became of each call of POST /config/weights
    probe,          \* where the link prober is
    restarts        \* restarts so far

itemVars   == <<stage, tag, seq, seqCounter>>
shareVars  == <<virtualTime, weight, weightCall>>
updateVars == <<update, ahead, config>>
vars == <<stage, tag, seq, seqCounter, virtualTime, weight, worker, idleEvent,
          update, ahead, config, weightCall, probe, restarts>>

TaskStages   == {"absent", "refused", "queued", "sending", "finished"}
UpdateStages == {"absent", "posted", "waiting", "woken", "drained",
                 "applied", "rejected", "lost"}
CallStages   == {"absent", "applied", "rejected"}
ProbeStages  == {"off", "waitIdle", "settle", "rtt", "throughput", "sleep"}

Queued == {t \in Tasks : stage[t] = "queued"}

\* Update handlers that the loop will resume, and those it will not before a set().
Ready   == {u \in Updates : update[u] \in {"posted", "woken", "drained"}}
Blocked == {u \in Updates : update[u] = "waiting"}
Pending == Ready \cup Blocked

SlotOf(u)   == <<PipeUpdated[u], Direction[u]>>
SameSlot(u) == {v \in Updates : SlotOf(v) = SlotOf(u)}

TypeOK ==
    /\ stage \in [Tasks -> TaskStages]
    /\ tag \in [Tasks -> Clocks]
    /\ seq \in [Tasks -> Nat]
    /\ seqCounter \in Nat
    /\ virtualTime \in [Pipelines -> Clocks]
    /\ weight \in [Pipelines -> (Nat \ {0}) \cup {NaN}]
    /\ worker \in {"blocked", "woken", "running"}
    /\ idleEvent \in BOOLEAN
    /\ update \in [Updates -> UpdateStages]
    /\ ahead \in [Updates -> SUBSET Updates]
    /\ config \in [Slots -> Configs]
    /\ weightCall \in [WeightCalls -> CallStages]
    /\ probe \in ProbeStages
    /\ restarts \in 0 .. MaxRestarts

Init ==
    /\ seqCounter = 0
    /\ virtualTime = [p \in Pipelines |-> 0]
    /\ weight = [p \in Pipelines |-> InitialWeight]
    /\ worker = "blocked"
    /\ idleEvent = TRUE
    /\ ahead = [u \in Updates |-> {}]
    /\ config = [s \in Slots |-> NoCompression]
    /\ probe = IF IsLast THEN "off" ELSE "settle"
    /\ stage = [t \in Tasks |-> "absent"]
    /\ tag = [t \in Tasks |-> 0]
    /\ seq = [t \in Tasks |-> 0]
    /\ update = [u \in Updates |-> "absent"]
    /\ weightCall = [c \in WeightCalls |-> "absent"]
    /\ restarts = 0

\* What other coroutines need in order to run.
LoopIsFree == worker # "running"

-----------------------------------------------------------------------------
(* POST /infer                                                             *)

RejectTask(t) ==
    /\ LoopIsFree
    /\ stage[t] = "absent"
    /\ PipeOf[t] \notin Pipelines
    /\ stage' = [stage EXCEPT ![t] = "refused"]
    /\ UNCHANGED <<tag, seq, seqCounter, shareVars, worker, idleEvent, updateVars,
                   probe, restarts>>

\* Mistake: one clock for all pipelines.
StartTagOfNode(t) == virtualTime[CHOOSE p \in Pipelines : TRUE]

\* The pipeline's clock at the moment of the arrival.
StartTag(t) == virtualTime[PipeOf[t]]

\* Mistake: the event is cleared by the worker instead.
InferKeepsEvent(t) ==
    /\ LoopIsFree
    /\ stage[t] = "absent"
    /\ PipeOf[t] \in Pipelines
    /\ stage' = [stage EXCEPT ![t] = "queued"]
    /\ tag' = [tag EXCEPT ![t] = StartTag(t)]
    /\ seqCounter' = seqCounter + 1
    /\ seq' = [seq EXCEPT ![t] = seqCounter']
    /\ worker' = "woken"
    /\ UNCHANGED <<shareVars, idleEvent, updateVars, probe, restarts>>

\* put() wakes a blocked worker.
Infer(t) ==
    /\ LoopIsFree
    /\ stage[t] = "absent"
    /\ PipeOf[t] \in Pipelines
    /\ stage' = [stage EXCEPT ![t] = "queued"]
    /\ tag' = [tag EXCEPT ![t] = StartTag(t)]
    /\ seqCounter' = seqCounter + 1
    /\ seq' = [seq EXCEPT ![t] = seqCounter']
    /\ idleEvent' = FALSE
    /\ worker' = "woken"
    /\ UNCHANGED <<shareVars, updateVars, probe, restarts>>

-----------------------------------------------------------------------------
(* The worker.                                                             *)

WorkerResumes ==
    /\ worker = "woken"
    /\ worker' = "running"
    /\ UNCHANGED <<itemVars, shareVars, idleEvent, updateVars, probe, restarts>>

\* Mistake: the sequence number is left out of the comparison.
PrecedesByTag(t, u) == tag[t] <= tag[u]

\* Mistake: a plain FIFO.
PrecedesBySeq(t, u) == seq[t] < seq[u]

\* QueueItem.__lt__
Precedes(t, u) == tag[t] < tag[u] \/ (tag[t] = tag[u] /\ seq[t] < seq[u])

\* What c units of computing at weight w add to a virtual clock.
Advance(c, w) == (c * Scale) \div w

\* The pipeline pays at the weight it has when its task is done.
Charge(t, cost) ==
    virtualTime' = [virtualTime EXCEPT ![PipeOf[t]] =
                      IF @ = NaN \/ weight[PipeOf[t]] = NaN THEN NaN
                      ELSE @ + Advance(cost, weight[PipeOf[t]])]

\* Event.set() sends the blocked handlers to the end of the loop's queue.
Wake ==
    /\ update' = [u \in Updates |->
                    IF u \in Blocked THEN "woken" ELSE update[u]]
    /\ ahead' = [u \in Updates |->
                   IF u \in Blocked THEN ahead[u] \cup (Ready \cap SameSlot(u))
                                   ELSE ahead[u]]
    /\ probe' = IF probe = "waitIdle" THEN "settle" ELSE probe

\* Mistake: the event is set after every task.
SettleAlways ==
    /\ worker' = IF \A t \in Tasks : stage'[t] # "queued" THEN "blocked" ELSE worker
    /\ idleEvent' = TRUE
    /\ Wake

\* The finally clause: an empty queue is idle, which wakes whoever waits.
Settle ==
    IF \A t \in Tasks : stage'[t] # "queued"
       THEN /\ worker' = "blocked"
            /\ idleEvent' = TRUE
            /\ Wake
       ELSE UNCHANGED <<worker, idleEvent, update, ahead, probe>>

\* No comparison with NaN holds, so with one in it the heap is in no order.
InOrderOfTags == \A t \in Queued : tag[t] # NaN

\* Decompress, forward, compress or compute the metric, start the send; then
\* charge the pipeline.  What raises is logged: before the end of the forward pass
\* it costs nothing, after it the full time.
Serve(t, cost, outcome) ==
    /\ worker = "running"
    /\ t \in Queued
    /\ InOrderOfTags => \A u \in Queued \ {t} : Precedes(t, u)
    /\ outcome = "sending" => cost \in Costs
    /\ outcome = "finished" => cost \in Costs \cup {0}
    /\ stage' = [stage EXCEPT ![t] = outcome]
    /\ Charge(t, cost)
    /\ Settle
    /\ UNCHANGED <<tag, seq, seqCounter, weight, weightCall, config, restarts>>

\* Mistake: no timeout, and the receiver never answers.
SendHangs(t) == t \notin Tasks /\ UNCHANGED vars

\* _forward_and_emit or _result_and_emit got its answer, or gave up.
SendReturns(t) ==
    /\ LoopIsFree
    /\ stage[t] = "sending"
    /\ stage' = [stage EXCEPT ![t] = "finished"]
    /\ UNCHANGED <<tag, seq, seqCounter, shareVars, worker, idleEvent, updateVars,
                   probe, restarts>>

-----------------------------------------------------------------------------
(* POST /config and POST /config/weights                                   *)

RejectUpdate(u) ==
    /\ LoopIsFree
    /\ update[u] = "absent"
    /\ SlotOf(u) \notin Slots
    /\ update' = [update EXCEPT ![u] = "rejected"]
    /\ UNCHANGED <<itemVars, shareVars, worker, idleEvent, ahead, config, probe,
                   restarts>>

\* Mistake: an idle node is not worth waiting for, so the settings are applied
\* at once.
ApplyWhenIdle(u) ==
    /\ LoopIsFree
    /\ update[u] = "absent"
    /\ SlotOf(u) \in Slots
    /\ update' = [update EXCEPT ![u] = IF idleEvent THEN "applied" ELSE "posted"]
    /\ ahead' = [ahead EXCEPT ![u] = IF idleEvent THEN {} ELSE Ready \cap SameSlot(u)]
    /\ config' = IF idleEvent THEN [config EXCEPT ![SlotOf(u)] = Value[u]] ELSE config
    /\ UNCHANGED <<itemVars, shareVars, worker, idleEvent, probe, restarts>>

\* wait_for() starts a task that will look at the event (see NodeServer).
PostConfig(u) ==
    /\ LoopIsFree
    /\ update[u] = "absent"
    /\ SlotOf(u) \in Slots
    /\ update' = [update EXCEPT ![u] = "posted"]
    /\ ahead' = [ahead EXCEPT ![u] = Ready \cap SameSlot(u)]
    /\ UNCHANGED <<itemVars, shareVars, worker, idleEvent, config, probe, restarts>>

\* Who is left when u's handler is gone or blocked.
AheadWithout(u) == [v \in Updates |-> IF v = u THEN {} ELSE ahead[v] \ {u}]

LookAtEvent(u) ==
    /\ LoopIsFree
    /\ update[u] = "posted"
    /\ \A v \in ahead[u] : update[v] # "posted"
    /\ \/ /\ idleEvent
          /\ update' = [update EXCEPT ![u] = "drained"]
          /\ UNCHANGED ahead
       \/ /\ ~ idleEvent
          /\ update' = [update EXCEPT ![u] = "waiting"]
          /\ ahead' = [AheadWithout(u) EXCEPT ![u] = Blocked \cap SameSlot(u)]
    /\ UNCHANGED <<itemVars, shareVars, worker, idleEvent, config, probe, restarts>>

ApplyConfig(u) ==
    /\ LoopIsFree
    /\ update[u] \in {"woken", "drained"}
    /\ ahead[u] = {}
    /\ update' = [update EXCEPT ![u] = "applied"]
    /\ ahead' = AheadWithout(u)
    /\ config' = [config EXCEPT ![SlotOf(u)] = Value[u]]
    /\ UNCHANGED <<itemVars, shareVars, worker, idleEvent, probe, restarts>>

DrainTimeout(u) ==
    /\ LoopIsFree
    /\ update[u] \in {"posted", "waiting", "woken"}
    /\ update' = [update EXCEPT ![u] = "rejected"]
    /\ ahead' = AheadWithout(u)
    /\ UNCHANGED <<itemVars, shareVars, worker, idleEvent, config, probe, restarts>>

\* Mistake: the sign of a weight is not checked.
NothingInvalid(c) == {}

\* The entries of a call that make the handler raise when it gets to them: NaN
\* passes `w <= 0`.
Invalid(c) == {i \in 1 .. Len(c) : /\ c[i].pipe \in Pipelines
                                   /\ c[i].weight # NaN /\ c[i].weight <= 0}

\* The entries before the first invalid one stay in force, also after a 400.
UpdateWeights(c) ==
    /\ LoopIsFree
    /\ weightCall[c] = "absent"
    /\ LET read(p) == {i \in 1 .. Len(c) : c[i].pipe = p
                                           /\ \A j \in Invalid(c) : i < j}
       IN weight' = [p \in Pipelines |->
                       IF read(p) = {} THEN weight[p]
                       ELSE c[CHOOSE i \in read(p) : TRUE].weight]
    /\ weightCall' = [weightCall EXCEPT
                        ![c] = IF Invalid(c) = {} THEN "applied" ELSE "rejected"]
    /\ UNCHANGED <<itemVars, virtualTime, worker, idleEvent, updateVars, probe, restarts>>

-----------------------------------------------------------------------------
(* The prober of an outgoing link.                                         *)

ProbeMoves(to) ==
    /\ LoopIsFree
    /\ probe' = to
    /\ UNCHANGED <<itemVars, shareVars, worker, idleEvent, updateVars, restarts>>

\* Back at `await idle_event.wait()`.
TopOfLoop == IF idleEvent THEN "settle" ELSE "waitIdle"

ProbeCheck     == probe = "settle" /\ ProbeMoves(IF idleEvent THEN "rtt" ELSE "waitIdle")
ProbeRtt       == probe = "rtt" /\ ProbeMoves("throughput")

ProbeEnds      == probe \in {"rtt", "throughput"} /\ ProbeMoves("sleep")
ProbeSleepEnds == probe = "sleep" /\ ProbeMoves(TopOfLoop)

-----------------------------------------------------------------------------

\* The container is restarted.
Restart ==
    /\ restarts < MaxRestarts
    /\ restarts' = restarts + 1
    /\ seqCounter' = 0
    /\ virtualTime' = [p \in Pipelines |-> 0]
    /\ weight' = [p \in Pipelines |-> InitialWeight]
    /\ worker' = "blocked"
    /\ idleEvent' = TRUE
    /\ ahead' = [u \in Updates |-> {}]
    /\ config' = [s \in Slots |-> NoCompression]
    /\ probe' = IF IsLast THEN "off" ELSE "settle"
    /\ stage' = [t \in Tasks |-> IF stage[t] \in {"queued", "sending"}
                                 THEN "finished" ELSE stage[t]]
    /\ update' = [u \in Updates |->
                    IF u \in Pending THEN "lost" ELSE update[u]]
    /\ UNCHANGED <<tag, seq, weightCall>>

ServeSome(t) == \E outcome \in {"sending", "finished"}, c \in Costs \cup {0} :
                    Serve(t, c, outcome)

Next ==
    \/ \E t \in Tasks : Infer(t) \/ RejectTask(t)
    \/ WorkerResumes
    \/ \E t \in Tasks : ServeSome(t) \/ SendReturns(t)
    \/ \E u \in Updates : PostConfig(u) \/ RejectUpdate(u)
    \/ \E u \in Updates : LookAtEvent(u) \/ ApplyConfig(u) \/ DrainTimeout(u)
    \/ \E c \in WeightCalls : UpdateWeights(c)
    \/ ProbeCheck \/ ProbeRtt \/ ProbeEnds \/ ProbeSleepEnds
    \/ Restart

Spec == Init /\ [][Next]_vars

\* The loop runs every ready callback, and sends and probes have timeouts.
Fairness ==
    /\ WF_vars(WorkerResumes)
    /\ WF_vars(\E t \in Tasks : ServeSome(t))
    /\ \A t \in Tasks : WF_vars(SendReturns(t))
    /\ \A u \in Updates : WF_vars(LookAtEvent(u) \/ ApplyConfig(u) \/ DrainTimeout(u))
    /\ WF_vars(ProbeCheck) /\ WF_vars(ProbeRtt \/ ProbeEnds) /\ WF_vars(ProbeSleepEnds)

FairSpec == Spec /\ Fairness

-----------------------------------------------------------------------------
(* Properties.                                                             *)

\* The worker sleeps, and the node calls itself idle, exactly while the queue is
\* empty, so no task waits for a worker that nobody wakes; and nobody is blocked
\* on the event while it is set.
IdleExact ==
    /\ worker = "blocked" <=> Queued = {}
    /\ idleEvent <=> Queued = {}
    /\ idleEvent => Blocked = {} /\ probe # "waitIdle"

\* Whatever the weights and the clocks, the tasks of one pipeline are served in
\* the order of their arrival: a task never overtakes an older one of the same
\* pipeline, unless NaN has got into the heap.
PipelineOrder ==
    [][\A t, u \in Tasks :
          /\ t \in Queued /\ stage'[t] # "queued" /\ restarts' = restarts
          /\ u \in Queued /\ u # t /\ PipeOf[u] = PipeOf[t]
          /\ InOrderOfTags
          => seq[t] < seq[u]]_vars

TasksFinish == \A t \in Tasks : stage[t] = "queued" ~> stage[t] = "finished"
UpdatesAnswered ==
    \A u \in Updates : u \in Pending ~> update[u] \in {"applied", "rejected", "lost"}
ProberKeepsProbing == IsLast \/ []<>(probe = "rtt")

\* The one worker serves every pipeline: every task the node answered 202 for is
\* served and its send ends, every POST /config is answered or dies with the
\* process, and the prober goes on after failures and busy periods.
NothingHangs == TasksFinish /\ UpdatesAnswered /\ ProberKeepsProbing
=============================================================================
