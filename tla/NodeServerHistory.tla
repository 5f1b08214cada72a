------------------------- MODULE NodeServerHistory -------------------------
(***************************************************************************)
(* NodeServer with three history variables: the order in which requests    *)
(* were accepted and updates arrived since the process started, which of   *)
(* its elders an update went ahead of, and how many arrivals the running   *)
(* probe found.  What POST /config and the prober's idle check really      *)
(* promise is stated over them.                                            *)
(***************************************************************************)
EXTENDS NodeServer, Sequences

VARIABLES
    arrivals,   \* requests accepted and updates arrived, in order
    passed,     \* for each update, those that were woken from their wait while
                \* it had been posted but had not looked at the event
    probedAt    \* their number when the probe that is under way started

\* One log holds the ids of tasks and the calls of POST /config.
ASSUME HistoryAssumption == Requests \cap Updates = {}

hvars == <<vars, arrivals, passed, probedAt>>

HInit ==
    /\ Init
    /\ arrivals = <<>>
    /\ passed = [u \in Updates |-> {}]
    /\ probedAt = 0

Arriving(x) == x \in Requests /\ stage[x] = "absent" /\ stage'[x] = "accepted"
Enqueued(u) == u \in Updates /\ update[u] = "absent"
                 /\ update'[u] \notin {"absent", "rejected"}
Woken       == {u \in Blocked : update'[u] = "woken"}

Log ==
    arrivals' = CASE restarts' # restarts -> <<>>
                  [] \E r \in Requests : Arriving(r) ->
                        Append(arrivals, CHOOSE r \in Requests : Arriving(r))
                  [] \E u \in Updates : Enqueued(u) ->
                        Append(arrivals, CHOOSE u \in Updates : Enqueued(u))
                  [] OTHER -> arrivals

Blocks(u)   == update[u] = "posted" /\ update'[u] = "waiting"

\* Whoever blocks goes to the end of the line again.
Passing ==
    passed' = [u \in Updates |->
                 IF restarts' # restarts \/ Blocks(u) THEN {}
                 ELSE IF update[u] = "posted" THEN passed[u] \cup (Woken \cap SameDirection(u))
                 ELSE passed[u]]

ProbeStarts ==
    probedAt' = IF probe' \notin {"rtt", "throughput"} THEN 0
                ELSE IF probe = "settle" THEN Len(arrivals) ELSE probedAt

HNext == Next /\ Log /\ Passing /\ ProbeStarts

HSpec == HInit /\ [][HNext]_hvars /\ Fairness

-----------------------------------------------------------------------------

\* What the drain guarantees: when a handler may apply its settings, every
\* request the node had accepted before the update arrived is finished, so no
\* request that was there first meets the new settings (server.py:208-226).
EarlierRequestsDone ==
    \A j \in 1 .. Len(arrivals) :
        /\ arrivals[j] \in Updates
        /\ update[arrivals[j]] \in {"woken", "drained", "applied"}
        => \A i \in 1 .. j - 1 :
              arrivals[i] \in Requests => stage[arrivals[i]] = "finished"

Earlier(u, v) ==
    \E i, j \in 1 .. Len(arrivals) : i < j /\ arrivals[i] = u /\ arrivals[j] = v

\* The updates of one direction that this process has applied.
AppliedTo(d) == {u \in Updates : /\ Direction[u] = d
                                 /\ update[u] = "applied"
                                 /\ \E i \in 1 .. Len(arrivals) : arrivals[i] = u}

\* The last writer wins, but for one race.  The settings in force are those of an
\* applied update, and one that arrived after it was applied before it only if
\* the earlier one was woken from its wait while the later one had been posted
\* and not looked at the event -- a moment of the event loop, however long the
\* waits of the concurrent handlers were and whoever timed out.  Without an
\* applied update they are those of the experiment file.
LatestUpdateInForce ==
    \A d \in Directions :
        IF AppliedTo(d) = {} THEN config[d] = Default[d]
        ELSE \E u \in AppliedTo(d) :
                /\ config[d] = Value[u]
                /\ \A v \in AppliedTo(d) : Earlier(u, v) => u \in passed[v]

\* What the prober's check of in_flight is worth (server.py:470-474).  A request
\* accepted while a probe is under way runs beside it, but none that was there
\* when the probe started is still in the node, however often the event was set
\* and cleared before the check.
ProbeStartsIdle ==
    \A i \in 1 .. probedAt : arrivals[i] \in Requests => stage[arrivals[i]] = "finished"
=============================================================================
