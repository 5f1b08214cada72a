--------------------------- MODULE PipelineNodes ---------------------------
(***************************************************************************)
(* The refinement mapping from Pipeline to the component NodeServer: what  *)
(* one node of the chain sees.  The prober is left to NodeServer.          *)
(***************************************************************************)
EXTENDS Pipeline

EndAt(n, d)  == IF d = "outgoing" THEN <<n, d>> ELSE <<n - 1, d>>
NodeUpdates  == Runs \X Directions

NodeDirection == [u \in NodeUpdates |-> u[2]]
NodeValue(n)  == [u \in NodeUpdates |->
                    IF EndAt(n, u[2]) \in Ends
                    THEN RunConfig[u[1]][EndAt(n, u[2])[1]] ELSE NoConfig]
NodeDefault(n) == [d \in Directions |->
                    IF EndAt(n, d) \in Ends THEN Default[EndAt(n, d)[1]] ELSE NoConfig]
NodeConfig(n) == [d \in Directions |->
                    IF EndAt(n, d) \in Ends THEN config[EndAt(n, d)] ELSE NoConfig]
NodeUpdate(n) == [u \in NodeUpdates |->
                    IF EndAt(n, u[2]) \notin Ends \/ u[1] > run THEN "absent"
                    ELSE IF u[1] < run THEN "applied" ELSE push[EndAt(n, u[2])]]
NodeAhead     == [u \in NodeUpdates |-> {}]   \* the runs are pushed one by one
NodeStage(n)  == [t \in Tasks |->
                    IF hop[t][n] \in {"posted", "dropped"} THEN "absent"
                    ELSE hop[t][n]]

FirstNode == INSTANCE NodeServer WITH
    Requests <- Tasks, Updates <- NodeUpdates, Configs <- Configs \cup {NoConfig},
    Direction <- NodeDirection,
    Value <- NodeValue(1), Default <- NodeDefault(1), IsLast <- TRUE,
    inFlight <- inFlight[1], idleEvent <- idleEvent[1], stage <- NodeStage(1),
    update <- NodeUpdate(1), ahead <- NodeAhead, config <- NodeConfig(1),
    probe <- "off", restarts <- restarts[1]

LastNode == INSTANCE NodeServer WITH
    Requests <- Tasks, Updates <- NodeUpdates, Configs <- Configs \cup {NoConfig},
    Direction <- NodeDirection,
    Value <- NodeValue(N), Default <- NodeDefault(N), IsLast <- TRUE,
    inFlight <- inFlight[N], idleEvent <- idleEvent[N], stage <- NodeStage(N),
    update <- NodeUpdate(N), ahead <- NodeAhead, config <- NodeConfig(N),
    probe <- "off", restarts <- restarts[N]

\* The first and the last node of the composed system behave as the component
\* NodeServer: same counter, event, drain and wake-ups, from the node's own
\* requests and updates, with its restarts.
EndNodesAreNodeServers == FirstNode!Spec /\ LastNode!Spec
=============================================================================
