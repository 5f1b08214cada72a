------------------------------ MODULE Generator ------------------------------
(***************************************************************************)
(* tools/generate.py: experiment directories from specs and profiles.      *)
(*                                                                         *)
(* The sources are a variable, which their author edits between calls.  A  *)
(* call makes one spec and profile, or all of them, into directories; the  *)
(* baselines a single-model spec refers to are made first, recursively     *)
(* (the stack), unless their directory is there or they are being made.    *)
(* A call may be killed between and during its writes.                     *)
(***************************************************************************)
EXTENDS Experiment

CONSTANTS
    Scenarios, \* the sources initially, and bounds: [tree, calls, kills, deploys, restarts]
    Edits,     \* how the sources are edited: pairs of trees
    Filters    \* arguments of --sub-experiments; {} is no filter

\* Trees that the sources may be.
Trees == {s.tree : s \in Scenarios} \cup {e[2] : e \in Edits}

\* A directory of specs is a kind of experiment, so a baseline, which is looked for among the
\* single-model specs, is one; a profile is a file in the directory of its topology.
WellFormed(t) ==
    /\ \A s \in DOMAIN t.levels : IsSeq(s) /\ s # <<>>
    /\ \A p \in DOMAIN t.profiles : IsSeq(p) /\ Len(p) = 2
    /\ \A level \in Range(t.levels) :
          /\ level.kind \in {"single", "multi", "opt"}
          /\ IsSeq(level.nodes) /\ IsSeq(level.flows) /\ IsSeq(level.subs)
          /\ \A flow \in Range(level.flows) : IsSeq(flow) /\ flow # <<>>
          /\ \A sub \in Range(level.subs) :
                /\ IsSeq(sub.links) /\ IsSeq(sub.baselines)
                /\ \A ref \in Range(sub.baselines) : ref.spec # None =>
                      /\ IsSeq(ref.spec)
                      /\ \A s \in DOMAIN t.levels : s = <<ref.spec[1]>> => t.levels[s].kind = "single"

ASSUME SourcesAssumption == \A t \in Trees : WellFormed(t)

VARIABLES
    tree,      \* the sources: [levels: path -> level, profiles: profile -> nodes]
    disk,      \* the experiment directories: name -> [exp, infra]
    call,      \* what a call still has to do, or None
    stack,     \* experiments being made, the outermost first
    seen,      \* their names and those already made: the cycle guard
    calls,     \* bound: calls of the generator left
    kills,     \* bound: calls still to be killed
    written,   \* history: [name, refs] made since the outermost one was begun
    damaged,   \* history: names whose directory is filtered, torn or of other sources
    outcome    \* history: how the last combination ended

genVars == <<tree, disk, call, stack, seen, calls, kills, written, damaged, outcome>>

\* An experiment file that is not there, and one that cannot be read.
NoFile   == [kind |-> "none"]
Torn     == [kind |-> "torn"]
Whole(f) == f.kind \notin {"none", "torn"}
TornInfra == <<"torn">>

GenInit(scenario) ==
    /\ tree = scenario.tree
    /\ calls = scenario.calls /\ kills = scenario.kills
    /\ disk = << >>
    /\ call = None
    /\ stack = <<>>
    /\ seen = {}
    /\ written = {} /\ damaged = {}
    /\ outcome = "none"

-----------------------------------------------------------------------------
(* Sources.  A level of a spec has nodes, or None, and subs, or None.      *)

Levels(spec) == {SubSeq(spec, 1, i) : i \in 1 .. Len(spec)}

\* The deepest level that defines a field wins.
Merged(spec, Field(_)) ==
    LET with == {l \in Levels(spec) \cap DOMAIN tree.levels : Field(tree.levels[l]) # None}
    IN  IF with = {} THEN None
        ELSE Field(tree.levels[CHOOSE l \in with : \A k \in with : Len(k) <= Len(l)])

Nodes(spec) == Merged(spec, LAMBDA level : level.nodes)
Subs(spec)  == Merged(spec, LAMBDA level : level.subs)
Root(spec)  == tree.levels[<<spec[1]>>]
Profiles    == DOMAIN tree.profiles

Names(subs) == {subs[i].name : i \in DOMAIN subs}

LeafSpecs == {s \in DOMAIN tree.levels : Nodes(s) # None /\ Subs(s) # None}

\* Two levels of the path go into the name of a single-model experiment, one into others.
\* The kinds have directories of their own.
SingleName(spec, profile) ==
    <<"single", spec[1], IF Len(spec) > 1 THEN spec[2] ELSE "default", profile[1], profile[2]>>
MultiName(spec, profile) == <<"multi", spec[1], profile[1], profile[2]>>
OptName(spec, profile)   == <<"opt", spec[1], profile[1], profile[2]>>

DeriveName(kind, spec, profile) ==
    [single |-> SingleName(spec, profile), multi |-> MultiName(spec, profile),
     opt |-> OptName(spec, profile)][kind]

\* A profile without nodes fits every spec.
ValidateCompatibility(spec, profile) ==
    tree.profiles[profile] # {} => Range(Nodes(spec)) = tree.profiles[profile]

\* The lists of methods that the links of an optimisation spec have (some may have none).
SameAllowedMethods(spec) == Root(spec).kind = "opt" => Cardinality(Root(spec).methods) <= 1

\* What loading, and the checks before anything is written, find.
Loads(spec, profile, filter) ==
    /\ Levels(spec) \subseteq DOMAIN tree.levels
    /\ profile \in Profiles
    /\ Subs(spec) # None /\ Nodes(spec) # None
    /\ ValidateCompatibility(spec, profile)
    /\ filter \subseteq Names(Subs(spec))
    /\ SameAllowedMethods(spec)

\* A reference may leave out its spec or its profile.
RefSpec(ref, spec)       == IF ref.spec = None THEN spec ELSE ref.spec
RefProfile(ref, profile) == IF ref.profile = None THEN profile ELSE ref.profile

\* The contents of experiment.yaml.
SingleFile(spec, subs) ==
    [kind |-> "single", llama |-> Root(spec).llama, dataset |-> Root(spec).dataset,
     flows |-> <<>>, nodes |-> Nodes(spec), subs |-> subs]
MultiFile(spec, subs) ==
    [SingleFile(spec, subs) EXCEPT !.kind = "multi", !.flows = Root(spec).flows]
OptFile(spec, subs) ==
    [SingleFile(spec, subs) EXCEPT !.kind = "opt", !.flows = Root(spec).flows]

FileOf(kind, spec, subs) ==
    [single |-> SingleFile(spec, subs), multi |-> MultiFile(spec, subs),
     opt |-> OptFile(spec, subs)][kind]

\* The sub-experiments of the names given, or all.
Selected(subs, filter) ==
    IF filter = {} THEN subs
    ELSE FlattenSeq([i \in DOMAIN subs |-> IF subs[i].name \in filter THEN <<subs[i]>> ELSE <<>>])

\* An experiment to make.  Only single-model references are resolved.
Frame(spec, profile, filter) ==
    LET picked == Selected(Subs(spec), filter)
        kind   == Root(spec).kind
        refs   == IF kind = "single"
                  THEN FlattenSeq([i \in DOMAIN picked |-> picked[i].baselines]) ELSE <<>>
        At(i)  == <<RefSpec(refs[i], spec), RefProfile(refs[i], profile)>>
    IN  [name  |-> DeriveName(kind, spec, profile),
         exp   |-> FileOf(kind, spec, picked),
         infra |-> profile,
         refs  |-> {[name |-> DeriveName("single", At(i)[1], At(i)[2]), sub |-> refs[i].sub,
                     real |-> /\ Loads(At(i)[1], At(i)[2], {})
                              /\ refs[i].sub \in Names(Subs(At(i)[1]))] : i \in DOMAIN refs},
         todo  |-> [i \in DOMAIN refs |-> At(i)],
         step  |-> "resolve"]

Top == Last(stack)
SetTop(frame) == [stack EXCEPT ![Len(stack)] = frame]

-----------------------------------------------------------------------------
(* Calls.                                                                  *)

\* --all takes the specs of one kind with every profile, in any order here.
Call ==
    /\ call = None /\ calls > 0
    /\ calls' = calls - 1
    /\ \E filter \in Filters, k \in {"single", "multi", "opt"} :
          LET leaves == {s \in LeafSpecs : Root(s).kind = k} IN
          /\ leaves # {}
          /\ \/ call' = [filter |-> filter, left |-> leaves \X Profiles]
             \/ \E s \in leaves, p \in Profiles :
                   call' = [filter |-> filter, left |-> {<<s, p>>}]
    /\ UNCHANGED <<tree, disk, stack, seen, kills, written, damaged, outcome>>

\* Mistake: a baseline is made under the filter of the call.
BeginFiltered(below, spec, profile) ==
    LET frame == Frame(spec, profile, call.filter)
    IN  /\ stack' = Append(below, frame)
        /\ seen' = seen \cup {frame.name}

\* Only the outermost experiment is made under the filter of the call.
Begin(below, spec, profile) ==
    LET frame == Frame(spec, profile, IF below = <<>> THEN call.filter ELSE {})
    IN  /\ stack' = Append(below, frame)
        /\ seen' = seen \cup {frame.name}

\* A combination that does not load, or refers to one, makes nothing more.
Fails ==
    /\ stack' = <<>> /\ seen' = {}
    /\ outcome' = "failed"
    /\ UNCHANGED written

NextCombination ==
    /\ call # None /\ stack = <<>>
    /\ \E c \in call.left :
          /\ call' = [call EXCEPT !.left = @ \ {c}]
          /\ \/ /\ Loads(c[1], c[2], call.filter)
                /\ Begin(<<>>, c[1], c[2])
                /\ written' = {}
                /\ outcome' = "busy"
             \/ ~Loads(c[1], c[2], call.filter) /\ Fails
    /\ UNCHANGED <<tree, disk, calls, kills, damaged>>

EndCall ==
    /\ call # None /\ stack = <<>> /\ call.left = {}
    /\ call' = None
    /\ UNCHANGED <<tree, disk, stack, seen, calls, kills, written, damaged, outcome>>

-----------------------------------------------------------------------------
(* One experiment.                                                         *)

\* A directory that exists counts as made, whatever is in it.
ResolveBaseline ==
    /\ stack # <<>> /\ Top.step = "resolve" /\ Top.todo # <<>>
    /\ LET ref  == Head(Top.todo)
           rest == SetTop([Top EXCEPT !.todo = Tail(@)])
           made == DeriveName("single", ref[1], ref[2]) \in seen \cup DOMAIN disk
       IN  \/ made /\ stack' = rest /\ UNCHANGED <<seen, written, outcome>>
           \/ ~made /\ Loads(ref[1], ref[2], {}) /\ Begin(rest, ref[1], ref[2])
              /\ UNCHANGED <<written, outcome>>
           \/ ~made /\ ~Loads(ref[1], ref[2], {}) /\ Fails
    /\ UNCHANGED <<tree, disk, call, calls, kills, damaged>>

\* The directory with the given files, or what it had of them.
Files(name, exp, infra) == Over([n \in {name} |-> [exp |-> exp, infra |-> infra]], disk)
InfraOf(name)           == IF name \in DOMAIN disk THEN disk[name].infra ELSE None

WriteExperiment ==
    /\ stack # <<>> /\ Top.step = "resolve" /\ Top.todo = <<>>
    /\ disk' = Files(Top.name, Top.exp, InfraOf(Top.name))
    /\ stack' = SetTop([Top EXCEPT !.step = "infra"])
    /\ UNCHANGED <<tree, call, seen, calls, kills, written, damaged, outcome>>

WriteInfra ==
    /\ stack # <<>> /\ Top.step = "infra"
    /\ disk' = Files(Top.name, Top.exp, Top.infra)
    /\ stack' = Front(stack)
    /\ seen' = IF Len(stack) = 1 THEN {} ELSE seen
    /\ written' = written \cup {[name |-> Top.name, refs |-> Top.refs]}
    /\ damaged' = IF Len(stack) = 1 /\ call.filter # {} THEN damaged \cup {Top.name}
                  ELSE damaged \ {Top.name}
    /\ outcome' = IF Len(stack) = 1 THEN "made" ELSE outcome
    /\ UNCHANGED <<tree, call, calls, kills>>

\* A write may leave nothing, an unreadable file, or a readable one with fewer subs.
Killed ==
    /\ call # None /\ kills > 0
    /\ kills' = kills - 1
    /\ call' = None
    /\ stack' = <<>> /\ seen' = {}
    /\ outcome' = "killed"
    /\ \/ disk' = disk
          /\ damaged' = IF stack # <<>> /\ Top.step = "infra" THEN damaged \cup {Top.name} ELSE damaged
       \/ /\ stack # <<>> /\ Top.todo = <<>>
          /\ damaged' = damaged \cup {Top.name}
          /\ \/ /\ Top.step = "infra"
                /\ disk' = Files(Top.name, Top.exp, TornInfra)
             \/ /\ Top.step = "resolve"
                /\ \E file \in {Torn} \cup {[Top.exp EXCEPT !.subs = SubSeq(@, 1, k)] :
                                               k \in 1 .. Len(Top.exp.subs) - 1} :
                      disk' = Files(Top.name, file, InfraOf(Top.name))
             \/ /\ Top.step = "resolve" /\ Top.name \notin DOMAIN disk
                /\ disk' = Files(Top.name, NoFile, None)
    /\ UNCHANGED <<tree, calls, written>>

\* The author edits the sources; what was made from them before is out of date.
Edit ==
    /\ call = None
    /\ \E t \in {e[2] : e \in {e \in Edits : e[1] = tree}} : tree' = t
    /\ damaged' = DOMAIN disk
    /\ outcome' = "none"
    /\ UNCHANGED <<disk, call, stack, seen, calls, kills, written>>

GenNext ==
    \/ Call \/ NextCombination \/ EndCall
    \/ ResolveBaseline \/ WriteExperiment \/ WriteInfra
    \/ Killed \/ Edit

-----------------------------------------------------------------------------

\* No two leaf specs and profiles have one name (a name holds two levels of a path only).
NamesAreDistinct ==
    \A c, d \in LeafSpecs \X Profiles :
       DeriveName(Root(c[1]).kind, c[1], c[2]) = DeriveName(Root(d[1]).kind, d[1], d[2]) => c = d

\* When a combination is made, every baseline that it, or a baseline made for it, refers to
\* is there; if the reference can be made, and by a name its spec has, then with that
\* sub-experiment and both files, unless the directory was there before, filtered, torn or of
\* other sources (resolve_baseline takes a directory's existence for its content); and the
\* recursion never makes one experiment twice.
BaselinesResolve ==
    /\ \A i, j \in DOMAIN stack : stack[i].name = stack[j].name => i = j
    /\ outcome = "made" /\ NamesAreDistinct =>
          \A w \in written : \A ref \in w.refs :
             /\ ref.name \in DOMAIN disk
             /\ ref.real /\ ref.name \notin damaged =>
                   /\ disk[ref.name].infra \notin {None, TornInfra}
                   /\ ref.sub \in Names(disk[ref.name].exp.subs)
=============================================================================
