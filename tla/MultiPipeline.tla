--------------------------- MODULE MultiPipeline ---------------------------
(***************************************************************************)
(* Rounds over the pipelines that share a chain of multi-model nodes: the  *)
(* runs of a multi-model sweep (multi_runner.py) and the slots of the      *)
(* optimisation loop (opt_runner.py), which push settings per pipeline and *)
(* link (multi_controller.py), submit through MultiDataClient and wait for *)
(* every task.  A node is its queue: the order in which the worker serves  *)
(* it is the subject of MultiNode.                                         *)
(***************************************************************************)
EXTENDS Naturals, FiniteSets

CONSTANTS
    N,              \* nodes in the chain
    R,              \* runs of the sweep, or slots of the loop
    Pipelines,      \* they all run through the whole chain
    B,              \* tasks per pipeline and round
    Window,         \* window_per_pipeline; B or more is the rate-based patterns
    Configs,        \* compression settings
    MethodOf,       \* the compression method of each setting
    RoundConfig,    \* round -> pipeline and link -> setting
    NoCompression,  \* the setting of a node that has just started
    NoConfig,       \* "not compressed (or decompressed) yet"
    Restartable,    \* the nodes that may restart
    MaxRestarts,    \* bound on the restarts of each of them
    MaxFaults       \* bound on lost messages, exceptions and timeouts

Nodes       == 1 .. N
Hops        == 1 .. N + 1           \* hop N + 1 is the orchestrator's callback
Rounds      == 1 .. R
Batches     == 1 .. B
Tasks       == Rounds \X Pipelines \X Batches
RoundOf(t)  == t[1]
PipeOf(t)   == t[2]
Links       == Pipelines \X (1 .. N - 1)     \* <<p, n>> joins node n to node n + 1
Directions  == {"incoming", "outgoing"}
Ends        == Links \X Directions
NodeOf(e)   == IF e[2] = "outgoing" THEN e[1][2] ELSE e[1][2] + 1
LinksOf(t)  == {PipeOf(t)} \X (1 .. N - 1)

ASSUME MultiPipelineAssumption ==
    /\ N \in Nat \ {0}
    /\ R \in Nat \ {0}
    /\ IsFiniteSet(Pipelines)
    /\ B \in Nat
    /\ Window \in Nat \ {0}
    /\ NoConfig \notin Configs
    /\ NoCompression \in Configs
    /\ DOMAIN MethodOf = Configs
    /\ RoundConfig \in [Rounds -> [Links -> Configs]]
    /\ Restartable \in SUBSET Nodes
    /\ MaxRestarts \in Nat
    /\ MaxFaults \in Nat

VARIABLES
    phase,      \* where the loop over the rounds is
    round,      \* the round it is on
    push,       \* the update of the current round, per link end
    client,     \* where _send_one is, per task
    future,     \* the tasks whose future holds a result
    hop,        \* per task and hop: the message or the queue entry it became
    enc,        \* the setting each task was compressed with, per link
    dec,        \* the setting each task was decompressed with, per link
    config,     \* the setting in force at each link end
    idleEvent,  \* whether MultiNodeState.idle_event is set, per node
    restarts,   \* restarts so far, per node
    faults      \* faults so far

roundVars  == <<phase, round>>
clientVars == <<client, future>>
vars == <<phase, round, push, client, future, hop, enc, dec, config, idleEvent,
          restarts, faults>>

Phases       == {"pushing", "running", "done", "aborted"}
PushStages   == {"absent", "posted", "waiting", "woken", "drained",
                 "applied", "rejected", "lost"}
PushPending  == {"posted", "waiting", "woken", "drained"}
ClientStages == {"waiting", "posting", "awaiting", "recorded", "timedout", "failed"}
HopStages    == {"absent", "posted", "dropped", "queued", "finished"}

TypeOK ==
    /\ phase \in Phases
    /\ round \in Rounds
    /\ push \in [Ends -> PushStages]
    /\ client \in [Tasks -> ClientStages]
    /\ future \in SUBSET Tasks
    /\ hop \in [Tasks -> [Hops -> HopStages]]
    /\ enc \in [Tasks -> [Links -> Configs \cup {NoConfig}]]
    /\ dec \in [Tasks -> [Links -> Configs \cup {NoConfig}]]
    /\ config \in [Ends -> Configs]
    /\ idleEvent \in [Nodes -> BOOLEAN]
    /\ restarts \in [Nodes -> 0 .. MaxRestarts]
    /\ faults \in 0 .. MaxFaults

Init ==
    /\ phase = "pushing"
    /\ round = 1
    /\ push = [e \in Ends |-> "absent"]
    /\ client = [t \in Tasks |-> "waiting"]
    /\ future = {}
    /\ hop = [t \in Tasks |-> [h \in Hops |-> "absent"]]
    /\ enc = [t \in Tasks |-> [l \in Links |-> NoConfig]]
    /\ dec = [t \in Tasks |-> [l \in Links |-> NoConfig]]
    /\ config = [e \in Ends |-> NoCompression]
    /\ idleEvent = [n \in Nodes |-> TRUE]
    /\ restarts = [n \in Nodes |-> 0]
    /\ faults = 0

Fault == faults < MaxFaults /\ faults' = faults + 1

-----------------------------------------------------------------------------
(* push_multi_run_config and push_opt_slot_config: one POST /config per    *)
(* pipeline, link and direction, all at once.                              *)

PostConfig(e) ==
    /\ push[e] = "absent"
    /\ phase \in {"pushing", "aborted"}
    /\ push' = [push EXCEPT ![e] = "posted"]
    /\ UNCHANGED <<roundVars, clientVars, hop, enc, dec, config, idleEvent,
                   restarts, faults>>

\* The task that wait_for() started runs.
LookAtEvent(e) ==
    /\ push[e] = "posted"
    /\ push' = [push EXCEPT ![e] = IF idleEvent[NodeOf(e)] THEN "drained" ELSE "waiting"]
    /\ UNCHANGED <<roundVars, clientVars, hop, enc, dec, config, idleEvent,
                   restarts, faults>>

\* The handler resumes and does not look at the queue again.
ApplyConfig(e) ==
    /\ push[e] \in {"woken", "drained"}
    /\ push' = [push EXCEPT ![e] = "applied"]
    /\ config' = [config EXCEPT ![e] = RoundConfig[round][e[1]]]
    /\ UNCHANGED <<roundVars, clientVars, hop, enc, dec, idleEvent, restarts, faults>>

\* A task is only queued during a push because an earlier fault made the
\* orchestrator give it up, so a handler that is blocked needs no fault of its own.
DrainTimeout(e) ==
    /\ push[e] \in {"posted", "waiting", "woken"}
    /\ IF push[e] = "waiting" THEN UNCHANGED faults ELSE Fault
    /\ push' = [push EXCEPT ![e] = "rejected"]
    /\ UNCHANGED <<roundVars, clientVars, hop, enc, dec, config, idleEvent, restarts>>

\* Mistake: only the sending ends are awaited.
StartRoundHalfPushed ==
    /\ phase = "pushing"
    /\ \A e \in Ends : e[2] = "outgoing" => push[e] = "applied"
    /\ phase' = "running"
    /\ UNCHANGED <<round, push, clientVars, hop, enc, dec, config, idleEvent,
                   restarts, faults>>

\* gather() returned.
StartRound ==
    /\ phase = "pushing"
    /\ \A e \in Ends : push[e] = "applied"
    /\ phase' = "running"
    /\ UNCHANGED <<round, push, clientVars, hop, enc, dec, config, idleEvent,
                   restarts, faults>>

\* A POST was answered 409 or its node went down: RuntimeError ends the
\* experiment, while handlers that are already on a node go on.
PushFails ==
    /\ phase = "pushing"
    /\ \E e \in Ends : push[e] \in {"rejected", "lost"}
    /\ phase' = "aborted"
    /\ UNCHANGED <<round, push, clientVars, hop, enc, dec, config, idleEvent,
                   restarts, faults>>

\* The same, because a POST or its answer did not get through in time.
PushBreaks ==
    /\ phase = "pushing"
    /\ Ends # {}
    /\ Fault
    /\ phase' = "aborted"
    /\ UNCHANGED <<round, push, clientVars, hop, enc, dec, config, idleEvent, restarts>>

TasksOf(r) == {t \in Tasks : RoundOf(t) = r}

Advance ==
    IF round < R
       THEN /\ round' = round + 1
            /\ phase' = "pushing"
            /\ push' = [e \in Ends |-> "absent"]
       ELSE phase' = "done" /\ UNCHANGED <<round, push>>

\* Mistake: gather() is left as soon as one pipeline is through.
FinishRoundOfOnePipeline ==
    /\ phase = "running"
    /\ \E p \in Pipelines : \A t \in TasksOf(round) :
          PipeOf(t) = p => client[t] \in {"recorded", "timedout", "failed"}
    /\ Advance
    /\ UNCHANGED <<clientVars, hop, enc, dec, config, idleEvent, restarts, faults>>

\* Every _send_one of the round returned, with or without a result.
FinishRound ==
    /\ phase = "running"
    /\ \A t \in TasksOf(round) : client[t] \in {"recorded", "timedout", "failed"}
    /\ Advance
    /\ UNCHANGED <<clientVars, hop, enc, dec, config, idleEvent, restarts, faults>>

-----------------------------------------------------------------------------
(* MultiDataClient: one _send_one per task, in order within its pipeline,  *)
(* behind the semaphore of the pipeline; and the callback handler.         *)

Holding(t) == client[t] \in {"posting", "awaiting"}   \* future pending

SendOne(t) ==
    /\ phase = "running"
    /\ RoundOf(t) = round
    /\ client[t] = "waiting"
    /\ \A s \in TasksOf(round) :
          PipeOf(s) = PipeOf(t) /\ s[3] < t[3] => client[s] # "waiting"
    /\ Cardinality({s \in TasksOf(round) : PipeOf(s) = PipeOf(t) /\ Holding(s)}) < Window
    /\ client' = [client EXCEPT ![t] = "posting"]
    /\ hop' = [hop EXCEPT ![t][1] = "posted"]
    /\ UNCHANGED <<roundVars, push, future, enc, dec, config, idleEvent, restarts, faults>>

PostReturns(t) ==
    /\ client[t] = "posting"
    /\ hop[t][1] \in {"queued", "finished"}
    /\ client' = [client EXCEPT ![t] = "awaiting"]
    /\ UNCHANGED <<roundVars, push, future, hop, enc, dec, config, idleEvent,
                   restarts, faults>>

PostFails(t) ==
    /\ client[t] = "posting"
    /\ IF hop[t][1] = "dropped" THEN UNCHANGED faults ELSE Fault
    /\ client' = [client EXCEPT ![t] = "failed"]
    /\ UNCHANGED <<roundVars, push, future, hop, enc, dec, config, idleEvent, restarts>>

Collect(t) ==
    /\ client[t] = "awaiting"
    /\ t \in future
    /\ client' = [client EXCEPT ![t] = "recorded"]
    /\ UNCHANGED <<roundVars, push, future, hop, enc, dec, config, idleEvent,
                   restarts, faults>>

\* A timeout is a fault unless the task is nowhere any more.
ResultTimeout(t) ==
    /\ client[t] = "awaiting"
    /\ t \notin future
    /\ IF \A h \in Hops : hop[t][h] \in {"absent", "dropped", "finished"}
          THEN UNCHANGED faults
          ELSE Fault
    /\ client' = [client EXCEPT ![t] = "timedout"]
    /\ UNCHANGED <<roundVars, push, future, hop, enc, dec, config, idleEvent, restarts>>

\* Mistake: only results of tasks whose POST has returned are kept.
HandleResultAfterPost(t) ==
    /\ hop[t][N + 1] = "posted"
    /\ hop' = [hop EXCEPT ![t][N + 1] = "finished"]
    /\ future' = IF client[t] = "awaiting" THEN future \cup {t} ELSE future
    /\ UNCHANGED <<roundVars, push, client, enc, dec, config, idleEvent, restarts, faults>>

\* POST /result: kept if the task is still pending.
HandleResult(t) ==
    /\ hop[t][N + 1] = "posted"
    /\ hop' = [hop EXCEPT ![t][N + 1] = "finished"]
    /\ future' = IF Holding(t) THEN future \cup {t} ELSE future
    /\ UNCHANGED <<roundVars, push, client, enc, dec, config, idleEvent, restarts, faults>>

-----------------------------------------------------------------------------
(* The nodes.                                                              *)

Infer(n, t) ==
    /\ hop[t][n] = "posted"
    /\ hop' = [hop EXCEPT ![t][n] = "queued"]
    /\ idleEvent' = [idleEvent EXCEPT ![n] = FALSE]
    /\ UNCHANGED <<roundVars, push, clientVars, enc, dec, config, restarts, faults>>

Queue(n) == {t \in Tasks : hop[t][n] = "queued"}

Before(t, n) == <<PipeOf(t), n - 1>>      \* the link on which t came to node n
After(t, n)  == <<PipeOf(t), n>>          \* the link on which t leaves it

\* A payload only decodes with the method it was encoded with.
Decodable(n, t) ==
    n > 1 => MethodOf[enc[t][Before(t, n)]] = MethodOf[config[<<Before(t, n), "incoming">>]]

Wake(n) ==
    /\ idleEvent' = [idleEvent EXCEPT ![n] = TRUE]
    /\ push' = [e \in Ends |-> IF NodeOf(e) = n /\ push[e] = "waiting"
                               THEN "woken" ELSE push[e]]

\* The worker serves the whole backlog: nothing it awaits suspends while the queue
\* is not empty.  A task that raises is dropped, the others are decompressed unless
\* this is the first node, compressed unless it is the last, and sent on in the
\* background; the node is idle although these messages are still on their way.
ServeBacklog(n, raised) ==
    LET passed   == Queue(n) \ raised
        surprise == {t \in raised : Decodable(n, t)}
    IN
    /\ \A t \in passed : Decodable(n, t)
    /\ faults + Cardinality(surprise) <= MaxFaults
    /\ faults' = faults + Cardinality(surprise)
    /\ dec' = [t \in Tasks |-> IF t \in passed /\ n > 1
                 THEN [dec[t] EXCEPT ![Before(t, n)] = config[<<Before(t, n), "incoming">>]]
                 ELSE dec[t]]
    /\ enc' = [t \in Tasks |-> IF t \in passed /\ n < N
                 THEN [enc[t] EXCEPT ![After(t, n)] = config[<<After(t, n), "outgoing">>]]
                 ELSE enc[t]]
    /\ hop' = [t \in Tasks |->
                 CASE t \in raised -> [hop[t] EXCEPT ![n] = "finished"]
                   [] t \in passed -> [hop[t] EXCEPT ![n] = "finished", ![n + 1] = "posted"]
                   [] OTHER        -> hop[t]]
    /\ Wake(n)
    /\ UNCHANGED <<roundVars, clientVars, config, restarts>>

\* Mistake: an exception while a task is served ends the worker.
ServeOrDie(n) ==
    /\ Queue(n) # {}
    /\ \A t \in Queue(n) : Decodable(n, t)
    /\ ServeBacklog(n, {})

Serve(n) ==
    /\ Queue(n) # {}
    /\ \E raised \in SUBSET Queue(n) : ServeBacklog(n, raised)

\* The receiver is down or the connection breaks before the body is read.
Drop(h, t) ==
    /\ hop[t][h] = "posted"
    /\ Fault
    /\ hop' = [hop EXCEPT ![t][h] = "dropped"]
    /\ UNCHANGED <<roundVars, push, clientVars, enc, dec, config, idleEvent, restarts>>

\* The queue, the handlers and any of the background sends are gone, and every
\* pipeline is back to no compression.
Restart(n) ==
    /\ n \in Restartable
    /\ restarts[n] < MaxRestarts
    /\ restarts' = [restarts EXCEPT ![n] = @ + 1]
    /\ \E unsent \in SUBSET {t \in Tasks : hop[t][n + 1] = "posted"} :
          hop' = [t \in Tasks |-> [h \in Hops |->
                    CASE h = n /\ hop[t][h] = "queued" -> "finished"
                      [] h = n + 1 /\ t \in unsent     -> "dropped"
                      [] OTHER                         -> hop[t][h]]]
    /\ push' = [e \in Ends |->
                 IF NodeOf(e) = n /\ push[e] \in PushPending
                 THEN "lost" ELSE push[e]]
    /\ config' = [e \in Ends |-> IF NodeOf(e) = n THEN NoCompression ELSE config[e]]
    /\ idleEvent' = [idleEvent EXCEPT ![n] = TRUE]
    /\ UNCHANGED <<roundVars, clientVars, enc, dec, faults>>

-----------------------------------------------------------------------------

Configure(e) == PostConfig(e) \/ LookAtEvent(e) \/ ApplyConfig(e) \/ DrainTimeout(e)

Client(t) == PostReturns(t) \/ PostFails(t) \/ Collect(t) \/ ResultTimeout(t)
                \/ HandleResult(t)

Next ==
    \/ StartRound \/ PushFails \/ PushBreaks \/ FinishRound
    \/ \E e \in Ends : Configure(e)
    \/ \E t \in Tasks : SendOne(t) \/ Client(t)
    \/ \E n \in Nodes, t \in Tasks : Infer(n, t)
    \/ \E n \in Nodes : Serve(n) \/ Restart(n)
    \/ \E h \in Hops, t \in Tasks : Drop(h, t)

Spec == Init /\ [][Next]_vars

\* Every await of the orchestrator has a timeout and every ready callback runs;
\* faults and restarts are not owed.
Fairness ==
    /\ WF_vars(StartRound) /\ WF_vars(PushFails) /\ WF_vars(FinishRound)
    /\ \A e \in Ends : WF_vars(Configure(e))
    /\ \A t \in Tasks : WF_vars(SendOne(t)) /\ WF_vars(Client(t))
    /\ \A n \in Nodes : /\ WF_vars(Serve(n))
                        /\ \A t \in Tasks : WF_vars(Infer(n, t))

FairSpec == Spec /\ Fairness

-----------------------------------------------------------------------------
(* Properties.                                                             *)

Recorded == {t \in Tasks : client[t] = "recorded"}

Undisturbed == faults = 0 /\ \A n \in Nodes : restarts[n] = 0

\* A restart cannot go unnoticed on a link whose settings are not "none": one end
\* at most restarts, and no round compresses with the method of NoCompression
\* under another setting.
RestartsAreLoud ==
    \A l \in Links : \A r \in Rounds :
        \/ l[2] \notin Restartable /\ l[2] + 1 \notin Restartable
        \/ RoundConfig[r][l] = NoCompression
        \/ /\ ~(l[2] \in Restartable /\ l[2] + 1 \in Restartable)
           /\ MethodOf[RoundConfig[r][l]] # MethodOf[NoCompression]

\* Every result counted for a round was compressed and decompressed, on every link
\* of its pipeline, with the settings of that round, although payloads of earlier
\* rounds may be on their way between nodes that report themselves idle.
RecordedUnderRoundConfig ==
    RestartsAreLoud =>
        \A t \in Recorded : \A l \in LinksOf(t) :
            enc[t][l] = RoundConfig[RoundOf(t)][l] /\ dec[t][l] = RoundConfig[RoundOf(t)][l]

\* What a function of the links says about the links of a pipeline.
OnLinks(p, f) == [l \in {p} \X (1 .. N - 1) |-> f[l]]

Results == {[run |-> RoundOf(t), batch |-> <<PipeOf(t), t[3]>>,
             compressed   |-> OnLinks(PipeOf(t), enc[t]),
             decompressed |-> OnLinks(PipeOf(t), dec[t])] : t \in Recorded}

\* The results of the rounds behave as those of the abstract Sweep, whose batches
\* are the batches of all pipelines: measured in their round, once, as it says.
AbstractSweep == INSTANCE Sweep WITH
    Runs     <- Rounds,
    Batches  <- Pipelines \X Batches,
    Settings <- [r \in Rounds |-> [b \in Pipelines \X Batches |->
                    OnLinks(b[1], RoundConfig[r])]],
    run      <- round,
    results  <- Results

ImplementsSweep == AbstractSweep!Spec

\* Without faults and restarts no task of any pipeline is missing at the end.
EveryTaskRecorded ==
    Undisturbed /\ phase \in {"done", "aborted"} => phase = "done" /\ Recorded = Tasks

\* The experiment ends whatever is lost.
RoundsEnd == <>(phase \in {"done", "aborted"})

\* docs/multi_task.md:407: a node waits until its queue is empty, which ensures
\* that in-flight tasks complete under the previous config.
CompletesUnderPreviousConfig ==
    \A t \in Tasks : \A l \in LinksOf(t) :
        dec[t][l] # NoConfig => dec[t][l] = enc[t][l]
=============================================================================
