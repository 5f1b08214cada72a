----------------------------- MODULE NodeServer -----------------------------
(***************************************************************************)
(* One compute node of a single-model pipeline: the FastAPI process of     *)
(* nodes/compute/common/server.py, on one asyncio event loop.  A step is   *)
(* the code between two awaits.  The environment posts any request and any *)
(* update at any time, each once; PipelineNodes shows that the nodes of    *)
(* the composed system are instances of this module.                       *)
(***************************************************************************)
EXTENDS Naturals, FiniteSets

CONSTANTS
    Requests,     \* the task ids POSTed to /infer
    Updates,      \* the calls of POST /config
    Configs,      \* compression settings (method, rate, precisions)
    Direction,    \* the "direction" field of each update
    Value,        \* the settings each update carries
    Default,      \* the settings a starting node reads, for each direction
    IsLast,       \* no successor: sends results and runs no prober
    MaxRestarts   \* bound on the restarts of the process

Directions == {"incoming", "outgoing"}

ASSUME NodeServerAssumption ==
    /\ Value \in [Updates -> Configs]
    /\ DOMAIN Direction = Updates
    /\ Default \in [Directions -> Configs]
    /\ IsLast \in BOOLEAN
    /\ MaxRestarts \in Nat

VARIABLES
    inFlight,     \* NodeState._in_flight
    idleEvent,    \* whether NodeState.idle_event is set
    stage,        \* where the processing of each request is
    update,       \* where the handler of each update is
    ahead,        \* for each update, those of its direction whose handlers the
                  \* event loop resumes before its own
    config,       \* the settings in force, per direction
    probe,        \* where the link prober is
    restarts      \* restarts so far

vars == <<inFlight, idleEvent, stage, update, ahead, config, probe, restarts>>

-----------------------------------------------------------------------------
(* The values of the program's control points.                             *)

\* An update is posted until its wait_for() has looked at the event, then drained
\* (it found it set) or waiting, and woken after the next set().
RequestStages == {"absent", "accepted", "sending", "finished"}
UpdateStages  == {"absent", "posted", "waiting", "woken", "drained",
                  "applied", "rejected", "lost"}
ProbeStages   == {"off", "waitIdle", "settle", "rtt", "throughput", "sleep"}

InFlight == {r \in Requests : stage[r] \in {"accepted", "sending"}}

\* Handlers that the loop will resume, and those it will not before a set().
Ready   == {u \in Updates : update[u] \in {"posted", "woken", "drained"}}
Blocked == {u \in Updates : update[u] = "waiting"}
Pending == Ready \cup Blocked

SameDirection(u) == {v \in Updates : Direction[v] = Direction[u]}

TypeOK ==
    /\ inFlight \in Nat
    /\ idleEvent \in BOOLEAN
    /\ stage \in [Requests -> RequestStages]
    /\ update \in [Updates -> UpdateStages]
    /\ ahead \in [Updates -> SUBSET Updates]
    /\ config \in [Directions -> Configs]
    /\ probe \in ProbeStages
    /\ restarts \in 0 .. MaxRestarts

Init ==
    /\ inFlight = 0
    /\ idleEvent = TRUE
    /\ stage = [r \in Requests |-> "absent"]
    /\ update = [u \in Updates |-> "absent"]
    /\ ahead = [u \in Updates |-> {}]
    /\ config = Default
    /\ probe = IF IsLast THEN "off" ELSE "settle"
    /\ restarts = 0

-----------------------------------------------------------------------------
(* The in-flight counter and its event.  Event.set() wakes everything that *)
(* is blocked on the event at that moment: they go to the end of the       *)
(* loop's queue, in the order in which they blocked.  What is woken resumes *)
(* in a later step and does not look at the counter again.                 *)

\* Mistake: counts down.
IncrementBackwards ==
    /\ inFlight' = inFlight - 1
    /\ idleEvent' = FALSE

Increment ==
    /\ inFlight' = inFlight + 1
    /\ idleEvent' = FALSE

Wake ==
    /\ update' = [u \in Updates |->
                    IF u \in Blocked THEN "woken" ELSE update[u]]
    /\ ahead' = [u \in Updates |->
                   IF u \in Blocked THEN ahead[u] \cup (Ready \cap SameDirection(u))
                                   ELSE ahead[u]]
    /\ probe' = IF probe = "waitIdle" THEN "settle" ELSE probe

\* Mistake: signals idle one request early.
DecrementIdleAtOne ==
    /\ inFlight' = IF inFlight > 0 THEN inFlight - 1 ELSE 0
    /\ IF inFlight' <= 1
          THEN idleEvent' = TRUE /\ Wake
          ELSE UNCHANGED <<idleEvent, update, ahead, probe>>

Decrement ==
    /\ inFlight' = IF inFlight > 0 THEN inFlight - 1 ELSE 0
    /\ IF inFlight' = 0
          THEN idleEvent' = TRUE /\ Wake
          ELSE UNCHANGED <<idleEvent, update, ahead, probe>>

-----------------------------------------------------------------------------
(* POST /infer and the background processing it starts.                    *)

\* The handler counts the request, starts its task and answers 202.
Infer(r) ==
    /\ stage[r] = "absent"
    /\ Increment
    /\ stage' = [stage EXCEPT ![r] = "accepted"]
    /\ UNCHANGED <<update, ahead, config, probe, restarts>>

\* Decompress, run the partitions, compress: no await until the POST to the
\* next node or to the callback URL.
Process(r) ==
    /\ stage[r] = "accepted"
    /\ stage' = [stage EXCEPT ![r] = "sending"]
    /\ UNCHANGED <<inFlight, idleEvent, update, ahead, config, probe, restarts>>

\* Mistake: the decrement is not in a finally clause.
RaiseWithoutFinally(r) ==
    /\ stage[r] = "accepted"
    /\ stage' = [stage EXCEPT ![r] = "finished"]
    /\ UNCHANGED <<inFlight, idleEvent, update, ahead, config, probe, restarts>>

\* Any exception on the way is logged and dropped.
Raise(r) ==
    /\ stage[r] = "accepted"
    /\ stage' = [stage EXCEPT ![r] = "finished"]
    /\ Decrement
    /\ UNCHANGED <<config, restarts>>

\* Mistake: no timeout, and the receiver never answers.
SendHangs(r) == r \notin Requests /\ UNCHANGED vars

\* The POST was answered, refused or timed out: the finally clause is the same.
SendReturns(r) ==
    /\ stage[r] = "sending"
    /\ stage' = [stage EXCEPT ![r] = "finished"]
    /\ Decrement
    /\ UNCHANGED <<config, restarts>>

-----------------------------------------------------------------------------
(* POST /config.                                                           *)

RejectDirection(u) ==
    /\ update[u] = "absent"
    /\ Direction[u] \notin Directions
    /\ update' = [update EXCEPT ![u] = "rejected"]
    /\ UNCHANGED <<inFlight, idleEvent, stage, ahead, config, probe, restarts>>

\* Mistake: an idle node is not worth waiting for, so the settings are applied
\* at once.
ApplyWhenIdle(u) ==
    /\ update[u] = "absent"
    /\ Direction[u] \in Directions
    /\ update' = [update EXCEPT ![u] = IF idleEvent THEN "applied" ELSE "posted"]
    /\ ahead' = [ahead EXCEPT ![u] = IF idleEvent THEN {} ELSE Ready \cap SameDirection(u)]
    /\ config' = IF idleEvent THEN [config EXCEPT ![Direction[u]] = Value[u]] ELSE config
    /\ UNCHANGED <<inFlight, idleEvent, stage, probe, restarts>>

\* wait_for() starts a task for idle_event.wait(), so the event is not looked at
\* yet.  That task takes as many turns of the loop to let its handler resume
\* when it finds the event set as one that a set() wakes: handlers resume in
\* the order in which they were posted or woken.
PostConfig(u) ==
    /\ update[u] = "absent"
    /\ Direction[u] \in Directions
    /\ update' = [update EXCEPT ![u] = "posted"]
    /\ ahead' = [ahead EXCEPT ![u] = Ready \cap SameDirection(u)]
    /\ UNCHANGED <<inFlight, idleEvent, stage, config, probe, restarts>>

\* Who is left when u's handler is gone or blocked.
AheadWithout(u) == [v \in Updates |-> IF v = u THEN {} ELSE ahead[v] \ {u}]

\* idle_event.wait(): on a set event u keeps its place, on a cleared one it
\* blocks behind those that are blocked already.
LookAtEvent(u) ==
    /\ update[u] = "posted"
    /\ \A v \in ahead[u] : update[v] # "posted"
    /\ \/ /\ idleEvent
          /\ update' = [update EXCEPT ![u] = "drained"]
          /\ UNCHANGED ahead
       \/ /\ ~ idleEvent
          /\ update' = [update EXCEPT ![u] = "waiting"]
          /\ ahead' = [AheadWithout(u) EXCEPT ![u] = Blocked \cap SameDirection(u)]
    /\ UNCHANGED <<inFlight, idleEvent, stage, config, probe, restarts>>

ApplyConfig(u) ==
    /\ update[u] \in {"woken", "drained"}
    /\ ahead[u] = {}
    /\ update' = [update EXCEPT ![u] = "applied"]
    /\ ahead' = AheadWithout(u)
    /\ config' = [config EXCEPT ![Direction[u]] = Value[u]]
    /\ UNCHANGED <<inFlight, idleEvent, stage, probe, restarts>>

\* drain_timeout_s passed: 409, also when the task that waits has not run yet,
\* or not since it was woken.
DrainTimeout(u) ==
    /\ update[u] \in {"posted", "waiting", "woken"}
    /\ update' = [update EXCEPT ![u] = "rejected"]
    /\ ahead' = AheadWithout(u)
    /\ UNCHANGED <<inFlight, idleEvent, stage, config, probe, restarts>>

-----------------------------------------------------------------------------
(* The background link prober of a node that has a successor.              *)

\* Mistake: waits for the next set(), though the event is set.
MissesTheSetEvent == "waitIdle"

\* Back at `await idle_event.wait()`.
TopOfLoop == IF idleEvent THEN "settle" ELSE "waitIdle"

\* Mistake: the event was set when the pause began, so in_flight is not read.
ProbeWithoutCheck ==
    /\ probe = "settle"
    /\ probe' = "rtt"
    /\ UNCHANGED <<inFlight, idleEvent, stage, update, ahead, config, restarts>>

ProbeCheck ==
    /\ probe = "settle"
    /\ probe' = IF inFlight > 0 THEN TopOfLoop ELSE "rtt"
    /\ UNCHANGED <<inFlight, idleEvent, stage, update, ahead, config, restarts>>

ProbeRtt ==
    /\ probe = "rtt"
    /\ probe' = "throughput"
    /\ UNCHANGED <<inFlight, idleEvent, stage, update, ahead, config, restarts>>

\* The throughput POST was answered and the event emitted, or either call raised.
ProbeEnds ==
    /\ probe \in {"rtt", "throughput"}
    /\ probe' = "sleep"
    /\ UNCHANGED <<inFlight, idleEvent, stage, update, ahead, config, restarts>>

ProbeSleepEnds ==
    /\ probe = "sleep"
    /\ probe' = TopOfLoop
    /\ UNCHANGED <<inFlight, idleEvent, stage, update, ahead, config, restarts>>

-----------------------------------------------------------------------------
(* The container is restarted: the state is rebuilt from the experiment    *)
(* file, and what was in memory is gone.                                   *)

Restart ==
    /\ restarts < MaxRestarts
    /\ restarts' = restarts + 1
    /\ inFlight' = 0
    /\ idleEvent' = TRUE
    /\ stage' = [r \in Requests |-> IF r \in InFlight THEN "finished" ELSE stage[r]]
    /\ update' = [u \in Updates |->
                    IF u \in Pending THEN "lost" ELSE update[u]]
    /\ ahead' = [u \in Updates |-> {}]
    /\ config' = Default
    /\ probe' = IF IsLast THEN "off" ELSE "settle"

-----------------------------------------------------------------------------

Processing == \E r \in Requests : Process(r) \/ Raise(r) \/ SendReturns(r)
Updating   == \E u \in Updates : LookAtEvent(u) \/ ApplyConfig(u) \/ DrainTimeout(u)
Probing    == ProbeCheck \/ ProbeRtt \/ ProbeEnds \/ ProbeSleepEnds

Next ==
    \/ \E r \in Requests : Infer(r)
    \/ \E u \in Updates : PostConfig(u) \/ RejectDirection(u)
    \/ Processing
    \/ Updating
    \/ Probing
    \/ Restart

Spec == Init /\ [][Next]_vars

\* Every await of the process ends: the httpx calls and the drain have
\* timeouts, and the loop runs every callback that is ready.  Calls from
\* outside and restarts are not owed.
Fairness ==
    /\ \A r \in Requests : WF_vars(Process(r) \/ Raise(r) \/ SendReturns(r))
    /\ \A u \in Updates : WF_vars(LookAtEvent(u) \/ ApplyConfig(u) \/ DrainTimeout(u))
    /\ WF_vars(ProbeCheck) /\ WF_vars(ProbeRtt \/ ProbeEnds) /\ WF_vars(ProbeSleepEnds)

FairSpec == Spec /\ Fairness

-----------------------------------------------------------------------------
(* Properties.                                                             *)

\* GET /status and the drain rely on one counter that is incremented in a
\* handler and decremented in a finally clause of another task.  It equals the
\* number of requests the node holds, and the event is set exactly when that
\* is zero, whatever raised, timed out or restarted in between.
CounterExact ==
    /\ inFlight = Cardinality(InFlight)
    /\ idleEvent <=> inFlight = 0

\* While the event is set nobody is still blocked on it.
NoneBlocked == idleEvent => probe # "waitIdle" /\ Blocked = {}

\* A handler that may resume never stands behind one that is blocked, and of two
\* that may resume, or are blocked, one stands before the other.
InLine ==
    /\ \A u \in Updates : ahead[u] \subseteq IF u \in Ready THEN Ready
                                             ELSE IF u \in Blocked THEN Blocked ELSE {}
    /\ \A u \in Pending : \A v \in SameDirection(u) \ {u} :
          (u \in Ready /\ v \in Ready) \/ (u \in Blocked /\ v \in Blocked)
             => (u \in ahead[v] <=> v \notin ahead[u])

\* No handler and no prober sleeps through its wake-up, and none stands for ever
\* behind one that is asleep or gone, although the event may be cleared again
\* before the woken ones resume and a handler may time out at any place.
NoLostWakeup == NoneBlocked /\ InLine

RequestsFinish ==
    \A r \in Requests : stage[r] = "accepted" ~> stage[r] = "finished"
UpdatesAnswered ==
    \A u \in Updates : u \in Pending ~> update[u] \in {"applied", "rejected", "lost"}
ProberKeepsProbing == IsLast \/ []<>(probe = "rtt")

\* Nobody waits for ever on the event, a successor or another handler: a request
\* the node answered 202 for is eventually handed on or given up, every POST
\* /config is answered (200 or 409) or dies with the process, and the prober
\* survives failed probes and busy periods and probes again and again.
NothingHangs == RequestsFinish /\ UpdatesAnswered /\ ProberKeepsProbing
=============================================================================
