------------------------------ MODULE Pipeline ------------------------------
(***************************************************************************)
(* A sweep over a single-model pipeline: the orchestrator's sweep loop     *)
(* (runner.py), its config push (controller.py) and its data client        *)
(* (data_client.py), and a chain of node servers (common/server.py) that   *)
(* forward each batch over HTTP.  A message is in flight from the step     *)
(* that posts it to the step that receives or drops it, so handlers of     *)
(* different processes interleave freely and answers can be late.          *)
(***************************************************************************)
EXTENDS Naturals, Sequences, FiniteSets

CONSTANTS
    N,              \* nodes in the chain
    R,              \* runs the sweep resolved to
    B,              \* batches of the dataset
    MaxInFlight,    \* DatasetConfig.max_in_flight
    Configs,        \* compression settings
    MethodOf,       \* the compression method of each setting
    RunConfig,      \* ResolvedRun.links: run -> link -> setting
    Default,        \* the experiment file's setting of each link
    NoConfig,       \* "not compressed (or decompressed) yet"
    Restartable,    \* the nodes that may restart
    MaxRestarts,    \* bound on the restarts of each of them
    MaxFaults       \* bound on lost messages, exceptions and timeouts

Nodes      == 1 .. N
Links      == 1 .. N - 1            \* link l joins node l to node l + 1
Hops       == 1 .. N + 1            \* hop N + 1 is the orchestrator's callback
Runs       == 1 .. R
Batches    == 1 .. B
Tasks      == Runs \X Batches
RunOf(t)   == t[1]
Directions == {"incoming", "outgoing"}
Ends       == Links \X Directions   \* one end of a link, configured by one POST
NodeOf(e)  == IF e[2] = "outgoing" THEN e[1] ELSE e[1] + 1

ASSUME PipelineAssumption ==
    /\ N \in Nat \ {0}
    /\ R \in Nat \ {0}
    /\ B \in Nat
    /\ MaxInFlight \in Nat \ {0}
    /\ NoConfig \notin Configs
    /\ DOMAIN MethodOf = Configs
    /\ RunConfig \in [Runs -> [Links -> Configs]]
    /\ Default \in [Links -> Configs]
    /\ Restartable \in SUBSET Nodes
    /\ MaxRestarts \in Nat
    /\ MaxFaults \in Nat

VARIABLES
    phase,      \* where the sweep loop is
    run,        \* the run it is on
    push,       \* the update of the current run, per link end
    client,     \* where _send_one is, per task
    future,     \* the tasks whose future holds a result
    hop,        \* per task and hop: the message or the request it became
    enc,        \* the settings each task was compressed with, per link
    dec,        \* the settings each task was decompressed with, per link
    config,     \* the settings in force at each link end
    inFlight,   \* NodeState._in_flight, per node
    idleEvent,  \* whether NodeState.idle_event is set, per node
    restarts,   \* restarts so far, per node
    faults      \* faults so far

sweepVars  == <<phase, run>>
clientVars == <<client, future>>
nodeVars   == <<config, inFlight, idleEvent>>
vars == <<phase, run, push, client, future, hop, enc, dec, config,
          inFlight, idleEvent, restarts, faults>>

Phases       == {"pushing", "running", "done", "aborted"}
PushStages   == {"absent", "posted", "waiting", "woken", "drained",
                 "applied", "rejected", "lost"}
PushPending  == {"posted", "waiting", "woken", "drained"}
ClientStages == {"queued", "posting", "awaiting", "recorded", "timedout", "failed"}
HopStages    == {"absent", "posted", "dropped", "accepted", "sending", "finished"}

TypeOK ==
    /\ phase \in Phases
    /\ run \in Runs
    /\ push \in [Ends -> PushStages]
    /\ client \in [Tasks -> ClientStages]
    /\ future \in SUBSET Tasks
    /\ hop \in [Tasks -> [Hops -> HopStages]]
    /\ enc \in [Tasks -> [Links -> Configs \cup {NoConfig}]]
    /\ dec \in [Tasks -> [Links -> Configs \cup {NoConfig}]]
    /\ config \in [Ends -> Configs]
    /\ inFlight \in [Nodes -> Nat]
    /\ idleEvent \in [Nodes -> BOOLEAN]
    /\ restarts \in [Nodes -> 0 .. MaxRestarts]
    /\ faults \in 0 .. MaxFaults

Init ==
    /\ phase = "pushing"
    /\ run = 1
    /\ push = [e \in Ends |-> "absent"]
    /\ client = [t \in Tasks |-> "queued"]
    /\ future = {}
    /\ hop = [t \in Tasks |-> [h \in Hops |-> "absent"]]
    /\ enc = [t \in Tasks |-> [l \in Links |-> NoConfig]]
    /\ dec = [t \in Tasks |-> [l \in Links |-> NoConfig]]
    /\ config = [e \in Ends |-> Default[e[1]]]
    /\ inFlight = [n \in Nodes |-> 0]
    /\ idleEvent = [n \in Nodes |-> TRUE]
    /\ restarts = [n \in Nodes |-> 0]
    /\ faults = 0

Fault == faults < MaxFaults /\ faults' = faults + 1

-----------------------------------------------------------------------------
(* The sweep loop and push_run_config: one POST /config per link end, all  *)
(* at once, each answered when the node has drained.                       *)

\* The POST reaches the node, which starts a task to wait for the event.
PostConfig(e) ==
    /\ push[e] = "absent"
    /\ phase \in {"pushing", "aborted"}
    /\ push' = [push EXCEPT ![e] = "posted"]
    /\ UNCHANGED <<sweepVars, clientVars, hop, enc, dec, nodeVars, restarts, faults>>

\* That task runs.
LookAtEvent(e) ==
    /\ push[e] = "posted"
    /\ push' = [push EXCEPT ![e] = IF idleEvent[NodeOf(e)] THEN "drained" ELSE "waiting"]
    /\ UNCHANGED <<sweepVars, clientVars, hop, enc, dec, nodeVars, restarts, faults>>

ApplyConfig(e) ==
    /\ push[e] \in {"woken", "drained"}
    /\ push' = [push EXCEPT ![e] = "applied"]
    /\ config' = [config EXCEPT ![e] = RunConfig[run][e[1]]]
    /\ UNCHANGED <<sweepVars, clientVars, hop, enc, dec, inFlight, idleEvent,
                   restarts, faults>>

DrainTimeout(e) ==
    /\ push[e] \in {"posted", "waiting", "woken"}
    /\ Fault
    /\ push' = [push EXCEPT ![e] = "rejected"]
    /\ UNCHANGED <<sweepVars, clientVars, hop, enc, dec, nodeVars, restarts>>

\* Mistake: the run starts before every POST was answered.
StartRunBeforeGather ==
    /\ phase = "pushing"
    /\ \A e \in Ends : push[e] # "absent"
    /\ phase' = "running"
    /\ UNCHANGED <<run, push, clientVars, hop, enc, dec, nodeVars, restarts, faults>>

\* gather() returned: the run's batches are sent.
StartRun ==
    /\ phase = "pushing"
    /\ \A e \in Ends : push[e] = "applied"
    /\ phase' = "running"
    /\ UNCHANGED <<run, push, clientVars, hop, enc, dec, nodeVars, restarts, faults>>

\* One POST was answered 409 or cut off: RuntimeError leaves the sweep.  Handlers
\* already on a node go on without it.
PushFails ==
    /\ phase = "pushing"
    /\ \E e \in Ends : push[e] \in {"rejected", "lost"}
    /\ phase' = "aborted"
    /\ UNCHANGED <<run, push, clientVars, hop, enc, dec, nodeVars, restarts, faults>>

\* The same, because a POST or its answer did not get through in time.
PushBreaks ==
    /\ phase = "pushing"
    /\ Ends # {}
    /\ Fault
    /\ phase' = "aborted"
    /\ UNCHANGED <<run, push, clientVars, hop, enc, dec, nodeVars, restarts>>

\* Mistake: the batches of a run are not awaited.
FinishRunEarly ==
    /\ phase = "running"
    /\ \A b \in Batches : client[<<run, b>>] # "queued"
    /\ IF run < R
          THEN /\ run' = run + 1
               /\ phase' = "pushing"
               /\ push' = [e \in Ends |-> "absent"]
          ELSE /\ phase' = "done"
               /\ UNCHANGED <<run, push>>
    /\ UNCHANGED <<clientVars, hop, enc, dec, nodeVars, restarts, faults>>

\* Every _send_one of the run returned, with or without a record.
FinishRun ==
    /\ phase = "running"
    /\ \A b \in Batches : client[<<run, b>>] \in {"recorded", "timedout", "failed"}
    /\ IF run < R
          THEN /\ run' = run + 1
               /\ phase' = "pushing"
               /\ push' = [e \in Ends |-> "absent"]
          ELSE /\ phase' = "done"
               /\ UNCHANGED <<run, push>>
    /\ UNCHANGED <<clientVars, hop, enc, dec, nodeVars, restarts, faults>>

-----------------------------------------------------------------------------
(* DataClient.run: one _send_one per batch, in batch order through the     *)
(* semaphore, and the callback handler.                                    *)

Holding(t) == client[t] \in {"posting", "awaiting"}   \* semaphore held, future pending

SendBatch(b) ==
    LET t == <<run, b>> IN
    /\ phase = "running"
    /\ client[t] = "queued"
    /\ \A c \in 1 .. b - 1 : client[<<run, c>>] # "queued"
    /\ Cardinality({s \in Tasks : Holding(s)}) < MaxInFlight
    /\ client' = [client EXCEPT ![t] = "posting"]
    /\ hop' = [hop EXCEPT ![t][1] = "posted"]
    /\ UNCHANGED <<sweepVars, push, future, enc, dec, nodeVars, restarts, faults>>

\* The first node's 202.
PostReturns(t) ==
    /\ client[t] = "posting"
    /\ hop[t][1] \in {"accepted", "sending", "finished"}
    /\ client' = [client EXCEPT ![t] = "awaiting"]
    /\ UNCHANGED <<sweepVars, push, future, hop, enc, dec, nodeVars, restarts, faults>>

PostFails(t) ==
    /\ client[t] = "posting"
    /\ IF hop[t][1] = "dropped" THEN UNCHANGED faults ELSE Fault
    /\ client' = [client EXCEPT ![t] = "failed"]
    /\ UNCHANGED <<sweepVars, push, future, hop, enc, dec, nodeVars, restarts>>

\* wait_for returned the result: the record is appended.
Collect(t) ==
    /\ client[t] = "awaiting"
    /\ t \in future
    /\ client' = [client EXCEPT ![t] = "recorded"]
    /\ UNCHANGED <<sweepVars, push, future, hop, enc, dec, nodeVars, restarts, faults>>

\* Mistake: the future is awaited without a timeout.
AwaitForever(t) == t \notin Tasks /\ UNCHANGED vars

\* wait_for timed out; it returns a result that is there even then.  The
\* timeout is a fault unless the task is nowhere any more.
ResultTimeout(t) ==
    /\ client[t] = "awaiting"
    /\ t \notin future
    /\ IF \A h \in Hops : hop[t][h] \in {"absent", "dropped", "finished"}
          THEN UNCHANGED faults
          ELSE Fault
    /\ client' = [client EXCEPT ![t] = "timedout"]
    /\ UNCHANGED <<sweepVars, push, future, hop, enc, dec, nodeVars, restarts>>

\* Mistake: the future is registered only after the POST returned.
HandleResultAfterPost(t) ==
    /\ hop[t][N + 1] = "posted"
    /\ hop' = [hop EXCEPT ![t][N + 1] = "finished"]
    /\ future' = IF client[t] = "awaiting" THEN future \cup {t} ELSE future
    /\ UNCHANGED <<sweepVars, push, client, enc, dec, nodeVars, restarts, faults>>

\* POST /result: kept if the task is still pending, ignored otherwise.
HandleResult(t) ==
    /\ hop[t][N + 1] = "posted"
    /\ hop' = [hop EXCEPT ![t][N + 1] = "finished"]
    /\ future' = IF Holding(t) THEN future \cup {t} ELSE future
    /\ UNCHANGED <<sweepVars, push, client, enc, dec, nodeVars, restarts, faults>>

-----------------------------------------------------------------------------
(* The nodes (NodeServer, without the link prober).                        *)

\* idle_event is set at zero, which wakes the handlers blocked on it.
Decrement(n) ==
    /\ inFlight' = [inFlight EXCEPT ![n] = IF @ > 0 THEN @ - 1 ELSE 0]
    /\ IF inFlight'[n] = 0
          THEN /\ idleEvent' = [idleEvent EXCEPT ![n] = TRUE]
               /\ push' = [e \in Ends |-> IF NodeOf(e) = n /\ push[e] = "waiting"
                                          THEN "woken" ELSE push[e]]
          ELSE UNCHANGED <<idleEvent, push>>

\* Mistake: counts down.
InferBackwards(n, t) ==
    /\ hop[t][n] = "posted"
    /\ hop' = [hop EXCEPT ![t][n] = "accepted"]
    /\ inFlight' = [inFlight EXCEPT ![n] = @ - 1]
    /\ idleEvent' = [idleEvent EXCEPT ![n] = FALSE]
    /\ UNCHANGED <<sweepVars, push, clientVars, enc, dec, config, restarts, faults>>

\* POST /infer is answered 202 once the request is counted.
Infer(n, t) ==
    /\ hop[t][n] = "posted"
    /\ hop' = [hop EXCEPT ![t][n] = "accepted"]
    /\ inFlight' = [inFlight EXCEPT ![n] = @ + 1]
    /\ idleEvent' = [idleEvent EXCEPT ![n] = FALSE]
    /\ UNCHANGED <<sweepVars, push, clientVars, enc, dec, config, restarts, faults>>

\* Mistake: payloads do not carry their method.
DecodesAnything(n, t) == n \in Nodes /\ t \in Tasks

\* A payload only decodes with the method it was encoded with; a different rate
\* of the same method goes unnoticed.
Decodable(n, t) ==
    n > 1 => MethodOf[enc[t][n - 1]] = MethodOf[config[<<n - 1, "incoming">>]]

\* Mistake: the request is no longer counted once it is posted on.
ProcessReleasesEarly(n, t) ==
    /\ hop[t][n] = "accepted"
    /\ Decodable(n, t)
    /\ dec' = IF n = 1 THEN dec
              ELSE [dec EXCEPT ![t][n - 1] = config[<<n - 1, "incoming">>]]
    /\ enc' = IF n = N THEN enc
              ELSE [enc EXCEPT ![t][n] = config[<<n, "outgoing">>]]
    /\ hop' = [hop EXCEPT ![t][n] = "finished", ![t][n + 1] = "posted"]
    /\ Decrement(n)
    /\ UNCHANGED <<sweepVars, clientVars, config, restarts, faults>>

\* Decompress unless first, run the partitions, compress unless last, post on.
Process(n, t) ==
    /\ hop[t][n] = "accepted"
    /\ Decodable(n, t)
    /\ dec' = IF n = 1 THEN dec
              ELSE [dec EXCEPT ![t][n - 1] = config[<<n - 1, "incoming">>]]
    /\ enc' = IF n = N THEN enc
              ELSE [enc EXCEPT ![t][n] = config[<<n, "outgoing">>]]
    /\ hop' = [hop EXCEPT ![t][n] = "sending", ![t][n + 1] = "posted"]
    /\ UNCHANGED <<sweepVars, push, clientVars, nodeVars, restarts, faults>>

\* Mistake: the decrement is not in a finally clause.
RaiseWithoutFinally(n, t) ==
    /\ hop[t][n] = "accepted"
    /\ IF Decodable(n, t) THEN Fault ELSE UNCHANGED faults
    /\ hop' = [hop EXCEPT ![t][n] = "finished"]
    /\ UNCHANGED <<sweepVars, clientVars, enc, dec, config, restarts, push, inFlight,
                   idleEvent>>

\* Whatever raises is logged, and the task is gone.
Raise(n, t) ==
    /\ hop[t][n] = "accepted"
    /\ IF Decodable(n, t) THEN Fault ELSE UNCHANGED faults
    /\ hop' = [hop EXCEPT ![t][n] = "finished"]
    /\ Decrement(n)
    /\ UNCHANGED <<sweepVars, clientVars, enc, dec, config, restarts>>

\* The POST to the next hop was answered, or it failed.
SendReturns(n, t) ==
    /\ hop[t][n] = "sending"
    /\ IF hop[t][n + 1] = "posted" THEN Fault ELSE UNCHANGED faults
    /\ hop' = [hop EXCEPT ![t][n] = "finished"]
    /\ Decrement(n)
    /\ UNCHANGED <<sweepVars, clientVars, enc, dec, config, restarts>>

\* The receiver is down or the connection breaks before the body is read.
Drop(h, t) ==
    /\ hop[t][h] = "posted"
    /\ Fault
    /\ hop' = [hop EXCEPT ![t][h] = "dropped"]
    /\ UNCHANGED <<sweepVars, push, clientVars, enc, dec, nodeVars, restarts>>

\* The container comes back with the settings of the experiment file.
Restart(n) ==
    /\ n \in Restartable
    /\ restarts[n] < MaxRestarts
    /\ restarts' = [restarts EXCEPT ![n] = @ + 1]
    /\ hop' = [t \in Tasks |-> [h \in Hops |->
                 IF h = n /\ hop[t][h] \in {"accepted", "sending"}
                 THEN "finished" ELSE hop[t][h]]]
    /\ push' = [e \in Ends |->
                 IF NodeOf(e) = n /\ push[e] \in PushPending
                 THEN "lost" ELSE push[e]]
    /\ config' = [e \in Ends |-> IF NodeOf(e) = n THEN Default[e[1]] ELSE config[e]]
    /\ inFlight' = [inFlight EXCEPT ![n] = 0]
    /\ idleEvent' = [idleEvent EXCEPT ![n] = TRUE]
    /\ UNCHANGED <<sweepVars, clientVars, enc, dec, faults>>

-----------------------------------------------------------------------------

Configure(e) == PostConfig(e) \/ LookAtEvent(e) \/ ApplyConfig(e) \/ DrainTimeout(e)

Client(t) == PostReturns(t) \/ PostFails(t) \/ Collect(t) \/ ResultTimeout(t)
                \/ HandleResult(t)

Serve(n, t) == Infer(n, t) \/ Process(n, t) \/ Raise(n, t) \/ SendReturns(n, t)

Next ==
    \/ StartRun \/ PushFails \/ PushBreaks \/ FinishRun
    \/ \E e \in Ends : Configure(e)
    \/ \E b \in Batches : SendBatch(b)
    \/ \E t \in Tasks : Client(t)
    \/ \E n \in Nodes, t \in Tasks : Serve(n, t)
    \/ \E h \in Hops, t \in Tasks : Drop(h, t)
    \/ \E n \in Nodes : Restart(n)

Spec == Init /\ [][Next]_vars

\* Every await of the orchestrator and of the nodes has a timeout and every
\* ready callback runs; faults and restarts are not owed.
Fairness ==
    /\ WF_vars(StartRun) /\ WF_vars(PushFails) /\ WF_vars(FinishRun)
    /\ \A e \in Ends : WF_vars(Configure(e))
    /\ \A b \in Batches : WF_vars(SendBatch(b))
    /\ \A t \in Tasks : WF_vars(Client(t))
    /\ \A n \in Nodes, t \in Tasks : WF_vars(Serve(n, t))

FairSpec == Spec /\ Fairness

-----------------------------------------------------------------------------
(* Properties.                                                             *)

Recorded == {t \in Tasks : client[t] = "recorded"}

\* When a restart cannot go unnoticed: on each link, no end restarts, or the
\* setting a restarted node reads is the run's, or only one end restarts and
\* reads a setting of another method.
RestartsAreLoud ==
    \A l \in Links : \A r \in Runs :
        \/ l \notin Restartable /\ l + 1 \notin Restartable
        \/ Default[l] = RunConfig[r][l]
        \/ /\ ~(l \in Restartable /\ l + 1 \in Restartable)
           /\ MethodOf[Default[l]] # MethodOf[RunConfig[r][l]]

\* The point of the sweep: every result recorded for a run was compressed and
\* decompressed, on every link, with the settings of that run -- although the
\* orchestrator never looks at them again after the push, requests of earlier
\* runs may still be in the chain, and a node that restarts forgets them.
RecordedUnderRunConfig ==
    RestartsAreLoud =>
        \A t \in Recorded : enc[t] = RunConfig[RunOf(t)] /\ dec[t] = RunConfig[RunOf(t)]

\* A batch is handed over without a gap: while its message is on the way to a
\* node, the sender still counts it as in flight (it decrements only after the
\* 202), so a chain that is idle everywhere holds nothing.  Only a fault or a
\* restart breaks the custody.
ChainOfCustody ==
    faults = 0 /\ (\A n \in Nodes : restarts[n] = 0) =>
        \A t \in Tasks : \A n \in Nodes :
            hop[t][n + 1] = "posted" => inFlight[n] > 0

\* The sweep's result set behaves as the abstract Sweep.
Results == {[run |-> RunOf(t), batch |-> t[2],
             compressed |-> enc[t], decompressed |-> dec[t]] : t \in Recorded}

AbstractSweep == INSTANCE Sweep WITH
    Settings <- [r \in Runs |-> [b \in Batches |-> RunConfig[r]]], results <- Results

ImplementsSweep == AbstractSweep!Spec

\* The sweep comes to an end whatever is lost: no lost batch, 409 or hanging
\* node keeps the orchestrator waiting for ever.
SweepEnds == <>(phase \in {"done", "aborted"})

\* Without faults and restarts no batch of any run is missing at the end, although
\* a result may arrive before the 202 of the request it answers.
EveryBatchRecorded ==
    faults = 0 /\ (\A n \in Nodes : restarts[n] = 0) /\ phase \in {"done", "aborted"}
        => phase = "done" /\ Recorded = Tasks
=============================================================================
