-------------------------- MODULE MultiNodeHistory --------------------------
(***************************************************************************)
(* MultiNode with history variables: the order of the arrivals since the   *)
(* process started, which of its elders an update went ahead of, and the   *)
(* clocks when the current backlog was begun.                              *)
(***************************************************************************)
EXTENDS MultiNode

VARIABLES
    arrivals,   \* tasks queued and updates arrived, in order
    passed,     \* for each update, those that were woken from their wait while
                \* it had been posted but had not looked at the event
    began       \* the virtual clocks when the worker last resumed

\* One log holds the ids of tasks and the calls of POST /config.
ASSUME HistoryAssumption == Tasks \cap Updates = {}

hvars == <<vars, arrivals, passed, began>>

HInit ==
    /\ Init
    /\ arrivals = <<>>
    /\ passed = [u \in Updates |-> {}]
    /\ began = virtualTime

Arriving(t) == t \in Tasks /\ stage[t] = "absent" /\ stage'[t] = "queued"
Enqueued(u) == u \in Updates /\ update[u] = "absent"
                 /\ update'[u] \notin {"absent", "rejected"}
Woken       == {u \in Blocked : update'[u] = "woken"}
Blocks(u)   == update[u] = "posted" /\ update'[u] = "waiting"

Log ==
    arrivals' = CASE restarts' # restarts -> <<>>
                  [] \E t \in Tasks : Arriving(t) ->
                        Append(arrivals, CHOOSE t \in Tasks : Arriving(t))
                  [] \E u \in Updates : Enqueued(u) ->
                        Append(arrivals, CHOOSE u \in Updates : Enqueued(u))
                  [] OTHER -> arrivals

\* Whoever blocks goes to the end of the line again.
Passing ==
    passed' = [u \in Updates |->
                 IF restarts' # restarts \/ Blocks(u) THEN {}
                 ELSE IF update[u] = "posted" THEN passed[u] \cup (Woken \cap SameSlot(u))
                 ELSE passed[u]]

\* The worker's run through a backlog begins with the clocks of that moment.
Begin ==
    began' = IF worker' # "running" \/ worker # "running" THEN virtualTime' ELSE began

HNext == Next /\ Log /\ Passing /\ Begin

HSpec == HInit /\ [][HNext]_hvars

HFairSpec == HSpec /\ Fairness

-----------------------------------------------------------------------------

\* What a drain guarantees here: when a handler may apply its settings, every
\* task queued before the update arrived has been compressed and decompressed
\* (server.py:424-427) -- though its message may still be on the way.
EarlierTasksServed ==
    \A j \in 1 .. Len(arrivals) :
        /\ arrivals[j] \in Updates
        /\ update[arrivals[j]] \in {"woken", "drained", "applied"}
        => \A i \in 1 .. j - 1 :
              arrivals[i] \in Tasks => stage[arrivals[i]] # "queued"

Earlier(u, v) ==
    \E i, j \in 1 .. Len(arrivals) : i < j /\ arrivals[i] = u /\ arrivals[j] = v

\* The updates of one slot that this process has applied.
AppliedTo(s) == {u \in Updates : /\ SlotOf(u) = s
                                 /\ update[u] = "applied"
                                 /\ \E i \in 1 .. Len(arrivals) : arrivals[i] = u}

\* Per pipeline and direction the last writer wins, but for one race, and no call
\* ever touches the settings of another pipeline.  One that arrived after the
\* update in force was applied before it only if that one was woken from its wait
\* while the later one had been posted and not looked at the event.
LatestUpdateInForce ==
    \A s \in Slots :
        IF AppliedTo(s) = {} THEN config[s] = NoCompression
        ELSE \E u \in AppliedTo(s) :
                /\ config[s] = Value[u]
                /\ \A v \in AppliedTo(s) : Earlier(u, v) => u \in passed[v]

\* A tag is a copy of the pipeline's clock and the clock moves, forward or back,
\* only while nothing can arrive, so every queued task carries its pipeline's
\* clock of the moment the worker began: the tasks of one pipeline in a backlog
\* are not told apart by it.
TagsCurrent == \A t \in Queued : tag[t] = began[PipeOf[t]]

\* A backlog is served pipeline by pipeline: while the worker runs, a pipeline
\* that started ahead of another in virtual time gets nothing as long as the
\* other one has a task waiting -- unless a clock is no number.
LaggardsFirst ==
    worker = "running" /\ (\A p \in Pipelines : began[p] # NaN) =>
        \A p, q \in Pipelines :
            /\ began[p] < began[q]
            /\ \E t \in Queued : PipeOf[t] = p
            => virtualTime[q] = began[q]
=============================================================================
