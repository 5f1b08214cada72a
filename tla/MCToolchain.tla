----------------------------- MODULE MCToolchain -----------------------------
(* Sources for Toolchain: a few trees of specs and profiles.               *)
EXTENDS Toolchain

\* Rates a and b are written alike in a run id.
MCText(x) == IF x = "b" THEN "a" ELSE x

Level(kind, nodes, subs) ==
    [kind |-> kind, llama |-> FALSE, dataset |-> <<"d">>, flows |-> <<>>, methods |-> {},
     nodes |-> nodes, subs |-> subs]

Sub_(name, links, sweep, mode, baselines) ==
    [name |-> name, links |-> links, sweep |-> sweep, mode |-> mode, baselines |-> baselines,
     dataset |-> None]

Link(p, a, b, rates) == [at |-> <<p, a, b>>, rates |-> rates]
Base(sub, spec, profile) == [sub |-> sub, spec |-> spec, profile |-> profile]

AB   == {"A", "B"}
Eq   == <<"r", "eq">>
One  == <<"r", "one">>
Fast == <<"lin", "fast">>
Solo == <<"solo", "d">>

\* Two specs that refer to each other and to themselves, and a model level with defaults.
Baselines(plainNodes) ==
    [levels |->
        <<"r">> :> Level("single", None, <<Sub_("plain", <<>>, <<>>, "paired", <<>>)>>)
     @@ Eq :> Level("single", plainNodes,
            <<Sub_("plain", <<Link(0, "A", "B", <<"none">>)>>, <<>>, "paired", <<>>),
              Sub_("comp", <<>>, << <<Link(0, "A", "B", <<"a", "c">>)>> >>, "product",
                   <<Base("plain", None, None), Base("solo", One, Solo)>>)>>)
     @@ One :> Level("single", <<"A">>,
            <<Sub_("solo", <<>>, <<>>, "paired", <<Base("comp", Eq, Fast)>>),
              Sub_("again", <<>>, <<>>, "paired", <<>>)>>),
     profiles |-> Fast :> AB @@ Solo :> {"A"}]

\* A reference that cannot be made, and two specs of one name.
Broken ==
    [levels |->
        <<"r">> :> Level("single", None, None)
     @@ Eq :> Level("single", <<"A">>, <<Sub_("plain", <<>>, <<>>, "paired", <<>>)>>)
     @@ <<"r", "eq", "x">> :> Level("single", <<"A">>,
            <<Sub_("comp", <<>>, <<>>, "paired", <<Base("plain", Eq, None), Base("gone", One, Solo)>>)>>),
     profiles |-> Solo :> {"A"}]

\* Two experiments on the same nodes, in opposite orders; a sweep with two links, and one
\* that leaves out a link.
ABC == <<"A", "B", "C">>
CBA == <<"C", "B", "A">>
Orders ==
    [levels |->
        <<"r">> :> Level("single", None, None)
     @@ Eq :> Level("single", ABC,
            <<Sub_("part", <<>>, << <<Link(0, "A", "B", <<"a">>)>> >>, "paired", <<>>),
              Sub_("prod", <<>>,
                 << <<Link(0, "A", "B", <<"a", "b">>), Link(0, "B", "C", <<"a", "c">>)>> >>, "product", <<>>)>>)
     @@ <<"r", "rev">> :> Level("single", CBA,
            <<Sub_("links", <<Link(0, "C", "B", <<"a">>), Link(0, "B", "A", <<"c">>)>>, <<>>, "paired", <<>>),
              Sub_("pair", <<>>,
                 << <<Link(0, "C", "B", <<"a", "c">>), Link(0, "B", "A", <<"a">>)>> >>, "paired", <<>>)>>),
     profiles |-> <<"lin", "fast">> :> {}]

Multi ==
    [levels |-> <<"m">> :>
        [Level("multi", <<"A", "B">>,
            <<Sub_("mix", <<>>,
               << <<Link(1, "A", "B", <<"a", "c">>), Link(2, "B", "A", <<"c", "c">>)>> >>, "paired", <<>>)>>)
         EXCEPT !.flows = << <<"A", "B">>, <<"B", "A">> >>],
     profiles |-> <<"lin", "fast">> :> AB]

\* All pairs of flows over three nodes.
Flows == {f \in UNION {[1 .. n -> {"A", "B", "C"}] : n \in 1 .. 3} : IsInjective(f)}
Opt ==
    {[levels |-> <<"o">> :> [Level("opt", ABC, <<Sub_("loop", <<>>, <<>>, "paired", <<>>)>>)
                               EXCEPT !.flows = <<f, g>>, !.methods = m],
      profiles |-> <<"lin", "fast">> :> {}] : f \in Flows, g \in Flows, m \in {{}, {"topk"}}}

\* A Llama experiment whose sub-experiments have different datasets.
Llama ==
    [levels |->
        <<"l">> :> [Level("single", <<"A", "B">>,
            <<Sub_("wiki", <<Link(0, "A", "B", <<"a">>)>>, <<>>, "paired", <<>>),
              [Sub_("mmlu", <<Link(0, "A", "B", <<"c">>)>>, <<>>, "paired", <<>>) EXCEPT !.dataset = <<"e">>]>>)
          EXCEPT !.llama = TRUE],
     profiles |-> <<"lin", "fast">> :> AB]

Scenario(trees, c, k, d, r) ==
    [tree : trees, calls : {c}, kills : {k}, deploys : {d}, restarts : {r}]

Split == Baselines(<<"A", "B">>)
MCScenarios ==
    UNION {Scenario({Split, Broken}, 2, 1, 0, 0), Scenario({Split}, 2, 0, 1, 1),
           Scenario({Orders}, 1, 0, 2, 1), Scenario({Multi}, 2, 1, 1, 1),
           Scenario({Llama}, 1, 0, 1, 1), Scenario(Opt, 1, 0, 1, 0)}
MCEdits   == {<<Split, Baselines(<<"B", "A">>)>>}
MCFilters == {{}, {"comp"}}
LlamaOnly == Scenario({Llama}, 1, 0, 1, 1)
=============================================================================
