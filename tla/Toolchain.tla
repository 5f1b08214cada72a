------------------------------ MODULE Toolchain ------------------------------
(***************************************************************************)
(* From specs to measurements: the generator, the deployment of generated  *)
(* experiments (deploy/), and what is read from their files by the nodes   *)
(* when they start and by the orchestrator, which expands the sweeps and   *)
(* runs them.                                                              *)
(*                                                                         *)
(* Everything shares the directory of experiments: the generator rewrites  *)
(* it while containers are running, and `docker compose up` keeps a        *)
(* container whose definition is unchanged, whatever the file says now.    *)
(* A run is one step here; what happens during a run is in Pipeline.       *)
(***************************************************************************)
EXTENDS Generator

VARIABLES
    target,    \* "docker" or "k8s"
    node,      \* containers of nodes: name -> [def, up, exp, in, out]
    orch,      \* containers of orchestrators: name -> [name, state, exp, client, sub, run]
    done,      \* <<experiment, run id>> of stored results
    deploys,   \* bound: deployments left
    restarts,  \* bound: containers of nodes still to stop
    touched,   \* history: experiments whose file has changed while in use
    last       \* history: what the last run measured, or None

deployVars == <<target, node, orch, done, deploys, restarts, touched, last>>
vars == <<genVars, deployVars>>

Init ==
    /\ \E s \in Scenarios : GenInit(s) /\ deploys = s.deploys /\ restarts = s.restarts
    /\ target \in {"docker", "k8s"}
    /\ node = << >> /\ orch = << >>
    /\ done = {}
    /\ touched = {}
    /\ last = None

-----------------------------------------------------------------------------
(* Deployment.                                                             *)

Pipelines(exp) == IF exp.kind = "single" THEN {Single} ELSE DOMAIN exp.flows

\* What the loader of the experiment's kind accepts.
Valid(exp) ==
    /\ Whole(exp)
    /\ exp.kind # "single" => \A p \in Pipelines(exp) : Range(exp.flows[p]) \subseteq Range(exp.nodes)
    /\ exp.kind = "opt" => ValidateLinearTopology(exp.flows)

\* A container's definition names the experiment's file and the shaping of its links.
Created(def) == [def |-> def, up |-> FALSE, exp |-> NoFile, in |-> << >>, out |-> << >>]

Started(e) == [name |-> e, state |-> "created", exp |-> NoFile, client |-> None, sub |-> 1, run |-> 1]

\* Mistake: docker compose up leaves every container that is there.
KeptAlways(n, def) == n \in DOMAIN node

\* docker compose up makes anew what is not as defined.
Kept(n, def) == n \in DOMAIN node /\ node[n].def = def

\* The compose project is called after its directory, which is always deploy/, so an
\* experiment's containers replace another's, and there is one orchestrator.
Service == <<"orchestrator">>

ComposeUp(e, def, names) ==
    /\ node' = Over([n \in {n \in names : ~Kept(n, def)} |-> Created(def)], node)
    /\ orch' = IF /\ Service \in DOMAIN orch
                   /\ orch[Service].name = e /\ orch[Service].state # "exited"
                THEN orch ELSE Over([s \in {Service} |-> Started(e)], orch)

\* kubectl apply does not change a pod, and a Job, which is there for each experiment, runs once.
NewPods(names, def) == [n \in names \ DOMAIN node |-> Created(def)]
NewJob(e)           == [j \in {e} \ DOMAIN orch |-> Started(e)]

Apply(e, def, names) ==
    /\ node' = Over(NewPods(names, def), node)
    /\ orch' = Over(NewJob(e), orch)

Deploy ==
    /\ deploys > 0
    /\ deploys' = deploys - 1
    /\ \E e \in DOMAIN disk :
          LET def   == <<e, disk[e].infra>>
              names == Range(disk[e].exp.nodes)
          IN /\ Valid(disk[e].exp) /\ disk[e].infra \notin {None, TornInfra}
             /\ \/ target = "docker" /\ ComposeUp(e, def, names)
                \/ target = "k8s" /\ Apply(e, def, names)
    /\ UNCHANGED <<genVars, target, done, restarts, touched, last>>

\* A node that is not in the file does not start, and is started again.
NodeStart ==
    /\ \E n \in DOMAIN node :
          LET exp == disk[node[n].def[1]].exp IN
          /\ ~node[n].up
          /\ Whole(exp) /\ n \in Range(exp.nodes)
          /\ node' = [node EXCEPT ![n].up = TRUE, ![n].exp = exp,
                                    ![n].in = << >>, ![n].out = << >>]
    /\ UNCHANGED <<genVars, target, orch, done, deploys, restarts, touched, last>>

NodeStops ==
    /\ restarts > 0
    /\ restarts' = restarts - 1
    /\ \E n \in DOMAIN node :
          /\ node[n].up
          /\ node' = [node EXCEPT ![n].up = FALSE]
    /\ UNCHANGED <<genVars, target, orch, done, deploys, touched, last>>

-----------------------------------------------------------------------------
(* Orchestration.  o is the orchestrator's container.                      *)

Exit(o) == orch' = [orch EXCEPT ![o].state = "exited"]

\* A sub-experiment's own dataset replaces the model's.
DatasetOf(exp, k) == IF exp.subs[k].dataset = None THEN exp.dataset ELSE exp.subs[k].dataset

\* The client of a Llama experiment loads the dataset of the first sub-experiment.  What an
\* optimisation experiment then runs is in OptLoop.
OrchestratorStart ==
    /\ \E o \in DOMAIN orch :
          LET exp == disk[orch[o].name].exp IN
          /\ orch[o].state = "created"
          /\ IF Valid(exp) /\ exp.kind # "opt"
             THEN orch' = [orch EXCEPT ![o].state = "running", ![o].exp = exp,
                                       ![o].client = IF exp.llama THEN DatasetOf(exp, 1) ELSE None]
             ELSE Exit(o)
    /\ UNCHANGED <<genVars, target, node, done, deploys, restarts, touched, last>>

\* Where a node sends the batches of a pipeline: to the one after it in its own copy of the
\* definitions, or of the pipeline's flow.
SendsTo(n, p) ==
    LET exp  == node[n].exp
        path == IF exp.kind = "single" THEN exp.nodes
                ELSE IF p \in DOMAIN exp.flows THEN exp.flows[p] ELSE <<>>
    IN  {path[i + 1] : i \in {i \in 1 .. Len(path) - 1 : path[i] = n}}

WalkFrom(n, p) ==
    LET on    == {m \in DOMAIN node : node[m].up /\ SendsTo(m, p) # {}}
        after == [m \in on |-> CHOOSE next \in SendsTo(m, p) : TRUE]
    IN  Walk(n, after, Cardinality(DOMAIN node))

\* The order of the nodes as the orchestrator sees it.
Order(exp, k, p) == IF exp.kind = "single" THEN NodeOrder(exp.nodes, exp.subs[k].links) ELSE exp.flows[p]

\* What a run says of one end of its links to node n, by pipeline.
Told(run, n, end) ==
    LET mine == {d \in DOMAIN run : d[end] = n}
    IN  [p \in {d[1] : d \in mine} |-> run[CHOOSE d \in mine : d[1] = p]]

\* Mistake: only the sender of a link is told.
PushToSenders(run) ==
    [n \in DOMAIN node |-> [node[n] EXCEPT !.out = Over(Told(run, n, 2), @)]]

\* Every link of a run is pushed to both its ends; a link it leaves out is not reset.
Push(run) ==
    [n \in DOMAIN node |-> [node[n] EXCEPT !.out = Over(Told(run, n, 2), @), !.in = Over(Told(run, n, 3), @)]]

At(settings, p) == IF p \in DOMAIN settings THEN settings[p] ELSE NoCompression

\* What a run measures, the nodes set as in `set`.
Measured(o, run, set) ==
    LET exp == orch[o].exp
        k   == orch[o].sub
        walk == [p \in Pipelines(exp) |-> WalkFrom(Order(exp, k, p)[1], p)]
    IN  [exp     |-> exp, sub |-> k, run |-> run,
         walk    |-> walk,
         ends    |-> [p \in Pipelines(exp) |->
                        {<<h, At(set[h[1]].out, p), At(set[h[2]].in, p)>> : h \in Pairs(walk[p])}],
         dataset |-> IF exp.llama THEN orch[o].client ELSE DatasetOf(exp, k),
         clean   |-> orch[o].name \notin touched,
         own     |-> \A n \in Range(exp.nodes) : node[n].def[1] = orch[o].name,
         alone   |-> \A q \in DOMAIN orch \ {o} : orch[q].state # "running"]

Running(o) == orch[o].state = "running"
Sub(o)     == orch[o].exp.subs[orch[o].sub]
Runs(o)    == ResolveSweep(Sub(o))
FirstOrder(o) == Order(orch[o].exp, orch[o].sub, Single)
Sound(o)   == SweepFits(Sub(o)) /\ (orch[o].exp.kind = "single" => FirstOrder(o) \notin {Invalid, Endless})
Ready(o)   == \A n \in Range(orch[o].exp.nodes) : n \in DOMAIN node /\ node[n].up

\* The deployments pass --resume: a run whose id is stored is skipped.
Run ==
    /\ \E o \in DOMAIN orch :
          /\ Running(o) /\ Sound(o) /\ Ready(o)
          /\ orch[o].run <= Len(Runs(o))
          /\ LET run == Runs(o)[orch[o].run]
                 id  == <<orch[o].name, RunId(run)>>
             IN  IF id \in done
                 THEN UNCHANGED <<node, done, last>>
                 ELSE /\ node' = Push(run)
                      /\ done' = done \cup {id}
                      /\ last' = Measured(o, run, node')
          /\ orch' = [orch EXCEPT ![o].run = @ + 1]
    /\ UNCHANGED <<genVars, target, deploys, restarts, touched>>

NextSub ==
    /\ \E o \in DOMAIN orch :
          /\ Running(o) /\ Sound(o)
          /\ orch[o].run > Len(Runs(o))
          /\ IF orch[o].sub = Len(orch[o].exp.subs) THEN Exit(o)
             ELSE orch' = [orch EXCEPT ![o].sub = @ + 1, ![o].run = 1]
    /\ UNCHANGED <<genVars, target, node, done, deploys, restarts, touched, last>>

\* An expansion fails, there is no head of the chain, or a node is not ready in time.
OrchestratorFails ==
    /\ \E o \in DOMAIN orch :
          /\ Running(o)
          /\ \/ ~SweepFits(Sub(o))
             \/ orch[o].exp.kind = "single" /\ FirstOrder(o) = Invalid
             \/ ~Ready(o)
          /\ Exit(o)
    /\ UNCHANGED <<genVars, target, node, done, deploys, restarts, touched, last>>

-----------------------------------------------------------------------------

InUse == {node[n].def[1] : n \in DOMAIN node} \cup {orch[o].name : o \in DOMAIN orch}

Next ==
    \/ /\ GenNext
       /\ touched' = touched \cup {e \in InUse : disk'[e].exp # disk[e].exp}
       /\ UNCHANGED <<target, node, orch, done, deploys, restarts, last>>
    \/ Deploy \/ NodeStart \/ NodeStops
    \/ OrchestratorStart \/ Run \/ NextSub \/ OrchestratorFails

Spec == Init /\ [][Next]_vars

-----------------------------------------------------------------------------
(* Properties.                                                             *)

\* Of two entries for one link either may be in force: their pushes run side by side.
NamesOnce(entry) == \A i, j \in DOMAIN entry : entry[i].at = entry[j].at => i = j

\* A sub-experiment whose run, and whose links if it has any, name exactly the hops of the nodes
\* as they are defined, or of the flows, along which no node comes twice, and each of them once.
Regular(m) ==
    LET Along(p) == IF m.exp.kind = "single" THEN m.exp.nodes ELSE m.exp.flows[p]
        sub      == m.exp.subs[m.sub]
        links    == sub.links
        hops     == UNION {{<<p, h[1], h[2]>> : h \in Pairs(Along(p))} : p \in DOMAIN m.walk}
    IN  /\ \A p \in DOMAIN m.walk : IsInjective(Along(p))
        /\ DOMAIN m.run = hops
        /\ NamesOnce(links) /\ \A e \in DOMAIN sub.sweep : NamesOnce(sub.sweep[e])
        /\ links # <<>> => {links[i].at : i \in DOMAIN links} = hops

\* A run of a regular sub-experiment, of an experiment whose file has not changed since it was
\* first deployed, goes through the nodes in the orchestrator's order, and every hop is sent and
\* received with the setting of the run; on Kubernetes if the pods are the experiment's own and
\* no other orchestrator uses them (runs of two would mix; here a run is one step).  On Docker
\* nothing more is needed, though the containers of all experiments share one project.
RunsMeasureTheExperiment ==
    last # None /\ Regular(last) /\ last.clean /\ (target = "k8s" => last.own /\ last.alone) =>
       \A p \in DOMAIN last.walk :
          /\ last.walk[p] = Order(last.exp, last.sub, p)
          /\ \A end \in last.ends[p] :
                end[2] = last.run[<<p, end[1][1], end[1][2]>>] /\ end[3] = end[2]

\* Every node is defined once and in a flow, and no hop goes against the order of definition.
ListedAlong(exp) ==
    /\ IsInjective(exp.nodes)
    /\ Range(exp.nodes) = UNION {Range(exp.flows[p]) : p \in DOMAIN exp.flows}
    /\ \A p \in DOMAIN exp.flows : \A h \in Pairs(exp.flows[p]) : \A i, j \in DOMAIN exp.nodes :
          exp.nodes[i] = h[1] /\ exp.nodes[j] = h[2] => i < j

\* The part of the chain that the optimiser is given for a pipeline of an experiment that was
\* deployed is the pipeline's flow, if the nodes are defined along the flows: the validator,
\* run by the deployment, goes by the chain of the flows, but build_inference_tasks counts in
\* the order of definition.
SegmentsMatchFlows ==
    \A o \in DOMAIN orch :
       LET exp == disk[orch[o].name].exp IN
       exp.kind = "opt" /\ orch[o].name \notin touched /\ ListedAlong(exp) =>
          \A p \in DOMAIN exp.flows :
             LET s == Segment(exp.flows[p], exp.nodes)
             IN  SubSeq(exp.nodes, s[1], s[1] + s[2] - 1) = exp.flows[p]

\* A run uses the dataset of its own sub-experiment.
OwnDataset == last # None => last.dataset = DatasetOf(last.exp, last.sub)
=============================================================================
