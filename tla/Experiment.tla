----------------------------- MODULE Experiment -----------------------------
(***************************************************************************)
(* What the data models compute from an experiment file: the order of the  *)
(* nodes, the runs of a sweep and their ids (experiment.py and             *)
(* multi_experiment.py), and the chain of an optimisation experiment       *)
(* (topology.py, inference_optimizer_adapter.py).                          *)
(*                                                                         *)
(* Pipelines are numbered; a single-model experiment has the one pipeline  *)
(* Single.  A dimension is <<pipeline, from, to>>.  A setting is a method  *)
(* with its parameters, or NoCompression; None is a value that is absent.  *)
(***************************************************************************)
EXTENDS Naturals, SequencesExt

CONSTANT Text(_)   \* what is left of a setting in a run id: rates have two decimals

None   == <<>>
Single == 0
NoCompression == "none"

\* An error of a validator, and a loop that does not end.
Invalid == <<"invalid">>
Endless == <<"endless">>

Pairs(path) == {<<path[i], path[i + 1]>> : i \in 1 .. Len(path) - 1}

IsSeq(s) == s \in Seq(Range(s))

\* The second function, except where the first is defined.
Over(f, g) == [x \in DOMAIN f \cup DOMAIN g |-> IF x \in DOMAIN f THEN f[x] ELSE g[x]]

-----------------------------------------------------------------------------
(* Sweeps.  An entry is a sequence of [at, rates], one for each link and   *)
(* pipeline it lists; a run is a function from dimensions to settings.     *)

\* Of two entries for a link the later one is pushed last.  (The POSTs of a run are gathered,
\* so either may be applied last: Toolchain!Regular leaves such entries out.)
RunOf(entry, Choice(_)) ==
    [d \in {entry[i].at : i \in DOMAIN entry} |->
        LET i == Max({i \in DOMAIN entry : entry[i].at = d}) IN entry[i].rates[Choice(i)]]

Paired(entry) ==
    [k \in 1 .. (IF entry = <<>> THEN 1 ELSE Len(entry[1].rates)) |-> RunOf(entry, LAMBDA i : k)]

\* The choices of a product, as itertools.product orders them: the last one varies fastest.
Combinations(entry) ==
    LET upTo[n \in 0 .. Len(entry)] ==
            IF n = 0 THEN << <<>> >>
            ELSE LET before == upTo[n - 1]
                 IN  FlattenSeq([p \in DOMAIN before |->
                         [k \in DOMAIN entry[n].rates |-> Append(before[p], k)]])
    IN  upTo[Len(entry)]

Product(entry) ==
    [c \in DOMAIN Combinations(entry) |-> RunOf(entry, LAMBDA i : Combinations(entry)[c][i])]

\* In paired mode the links of an entry must have equally many rates.
SweepFits(sub) ==
    sub.mode = "paired" =>
        \A e \in DOMAIN sub.sweep : \A i, j \in DOMAIN sub.sweep[e] :
            Len(sub.sweep[e][i].rates) = Len(sub.sweep[e][j].rates)

\* A sub-experiment without a sweep is one run of its links.
ResolveSweep(sub) ==
    IF sub.sweep = <<>> THEN Paired(sub.links)
    ELSE FlattenSeq([e \in DOMAIN sub.sweep |->
             IF sub.mode = "paired" THEN Paired(sub.sweep[e]) ELSE Product(sub.sweep[e])])

RunId(run) == {<<d, Text(run[d])>> : d \in DOMAIN run}

-----------------------------------------------------------------------------
(* Orders.                                                                 *)

\* The walk from a node along its successors, for as many steps as are given or there are.
Walk(start, after, steps) ==
    LET path[k \in Nat] ==
            IF k = 0 THEN <<start>>
            ELSE LET before == path[k - 1]
                 IN  IF Last(before) \in DOMAIN after THEN Append(before, after[Last(before)]) ELSE before
    IN  path[steps]

\* Without links the nodes are in the order of their definition; otherwise the chain
\* starts at the only head and each node's last link is followed.
NodeOrder(nodes, links) ==
    LET At(i)   == links[i].at
        froms   == {At(i)[2] : i \in DOMAIN links}
        heads   == froms \ {At(i)[3] : i \in DOMAIN links}
        after   == [n \in froms |-> At(Max({i \in DOMAIN links : At(i)[2] = n}))[3]]
        walk    == Walk(CHOOSE h \in heads : TRUE, after, Len(nodes))
    IN  IF links = <<>> THEN nodes
        ELSE IF Cardinality(heads) # 1 THEN Invalid
        ELSE IF Last(walk) \in froms THEN Endless ELSE walk

\* The order of all nodes of the flows, if they form one chain.
GlobalNodeOrder(flows) ==
    LET nodes   == UNION {Range(flows[i]) : i \in DOMAIN flows}
        edges   == UNION {Pairs(flows[i]) : i \in DOMAIN flows}
        starts  == {n \in nodes : \A e \in edges : e[2] # n}
        after   == [n \in {e[1] : e \in edges} |-> (CHOOSE e \in edges : e[1] = n)[2]]
        chain   == Walk(CHOOSE s \in starts : TRUE, after, Cardinality(nodes))
    IN  IF \E e, f \in edges : e # f /\ (e[1] = f[1] \/ e[2] = f[2]) THEN Invalid
        ELSE IF Cardinality(starts) # 1 \/ Len(chain) # Cardinality(nodes) THEN Invalid
        ELSE chain

\* Mistake: the flows need not form one chain.
NoTopologyCheck(flows) == TRUE

ValidateLinearTopology(flows) == GlobalNodeOrder(flows) # Invalid

\* The first node of a pipeline and its length, counted in the order given.
Segment(flow, order) == <<CHOOSE i \in DOMAIN order : order[i] = flow[1], Len(flow)>>
=============================================================================
