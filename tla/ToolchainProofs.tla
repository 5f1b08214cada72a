--------------------------- MODULE ToolchainProofs ---------------------------
(***************************************************************************)
(* Proofs about Toolchain and the modules it is built from: what the       *)
(* walks, the chains and the flattened lists of Experiment are, that the   *)
(* generator's baselines resolve, that the optimiser's segments are the    *)
(* flows, and that a run measures the experiment it is filed under.        *)
(***************************************************************************)
EXTENDS Toolchain, SequenceTheorems, FiniteSetTheorems, WellFoundedInduction, TLAPS

-----------------------------------------------------------------------------
(* The inductive invariant of the generator.                               *)

\* What --all takes, and what is made of it.
Combos      == LeafSpecs \X Profiles
KindOf(c)   == Root(c[1]).kind
NameOf(c)   == DeriveName(KindOf(c), c[1], c[2])
SubsOf(c)   == Subs(c[1])
FullFile(c) == FileOf(KindOf(c), c[1], SubsOf(c))

IsFile(exp) ==
    exp = [kind |-> exp.kind, llama |-> exp.llama, dataset |-> exp.dataset,
           flows |-> exp.flows, nodes |-> exp.nodes, subs |-> exp.subs]

\* What every readable file has.
FileOK(exp) ==
    Whole(exp) =>
       /\ exp.kind \in {"single", "multi", "opt"}
       /\ IsSeq(exp.nodes) /\ exp.nodes # <<>>
       /\ IsSeq(exp.flows) /\ \A f \in Range(exp.flows) : IsSeq(f) /\ f # <<>>
       /\ IsSeq(exp.subs) /\ exp.subs # <<>>
       /\ \A s \in Range(exp.subs) : IsSeq(s.links)

IsFrame(f) ==
    /\ f = [name |-> f.name, exp |-> f.exp, infra |-> f.infra, refs |-> f.refs,
            todo |-> f.todo, step |-> f.step]
    /\ IsFile(f.exp) /\ Whole(f.exp) /\ FileOK(f.exp)
    /\ f.step \in {"resolve", "infra"}
    /\ f.step = "infra" => f.todo = <<>>

\* An experiment on the stack is one of the sources', with all its sub-experiments unless it
\* is the outermost of a call with a filter.
Origin(f, whole) ==
    \E c \in Combos :
       /\ f.name = NameOf(c) /\ f.infra = c[2] /\ f.exp.kind = KindOf(c)
       /\ whole => f.exp = FullFile(c)

\* A baseline still to be looked for.
RefTodo(t) ==
    /\ t = <<t[1], t[2]>>
    /\ IsSeq(t[1]) /\ t[1] # <<>>
    /\ Loads(t[1], t[2], {}) => Root(t[1]).kind = "single"

TodoOK(f) ==
    /\ IsSeq(f.todo)
    /\ \A j \in 1 .. Len(f.todo) : f.exp.kind = "single" /\ RefTodo(f.todo[j])

\* A reference that counts as real is to a sub-experiment of one of the sources.
RefOK(r) ==
    r.real => \E c \in Combos : /\ KindOf(c) = "single" /\ r.name = NameOf(c)
                                /\ r.sub \in Names(SubsOf(c))

StackNames == {stack[i].name : i \in 1 .. Len(stack)}

\* What counts as made for a baseline.
There == DOMAIN disk \cup StackNames

Pending(f) == {SingleName(f.todo[j][1], f.todo[j][2]) : j \in 1 .. Len(f.todo)}

RefsOK(f) == \A r \in f.refs : RefOK(r) /\ r.name \in There \cup Pending(f)

CallInv ==
    /\ tree \in Trees
    /\ call # None => call = [filter |-> call.filter, left |-> call.left] /\ call.left \subseteq Combos
    /\ stack # <<>> => call # None
    /\ stack # <<>> <=> outcome = "busy"

StackInv ==
    /\ IsSeq(stack)
    /\ \A i \in 1 .. Len(stack) :
          /\ IsFrame(stack[i])
          /\ TodoOK(stack[i])
          /\ RefsOK(stack[i])
          /\ Origin(stack[i], i > 1 \/ call.filter = {})
          /\ i < Len(stack) => stack[i].step = "resolve" /\ stack[i].exp.kind = "single"

\* The cycle guard knows what is being made, and nothing that is not there.
SeenInv ==
    /\ StackNames \subseteq seen
    /\ seen \subseteq There
    /\ \A i, j \in 1 .. Len(stack) : stack[i].name = stack[j].name => i = j

\* The experiment whose file is written and whose infra.yaml is not.
HalfWritten(n) == stack # <<>> /\ Top.step = "infra" /\ Top.name = n

\* What is not damaged is whole and of the present sources.
DiskInv ==
    /\ \A n \in DOMAIN disk : FileOK(disk[n].exp)
    /\ \A n \in DOMAIN disk \ damaged : ~ HalfWritten(n) =>
          \E c \in Combos : n = NameOf(c) /\ disk[n].exp = FullFile(c) /\ disk[n].infra = c[2]

WrittenInv ==
    outcome \in {"busy", "made"} => \A w \in written : \A r \in w.refs : RefOK(r) /\ r.name \in There

GenInv == CallInv /\ StackInv /\ SeenInv /\ DiskInv /\ WrittenInv

-----------------------------------------------------------------------------
(* The inductive invariant of deployments and runs.                        *)

IsNode(c) == c = [def |-> c.def, up |-> c.up, exp |-> c.exp, in |-> c.in, out |-> c.out]
IsOrch(c) == c = [name |-> c.name, state |-> c.state, exp |-> c.exp, client |-> c.client,
                  sub |-> c.sub, run |-> c.run]

\* What an orchestrator that runs has read.
Runnable(c) ==
    /\ Valid(c.exp) /\ FileOK(c.exp) /\ c.exp.kind # "opt"
    /\ c.sub \in 1 .. Len(c.exp.subs)

ShapeInv ==
    /\ target \in {"docker", "k8s"}
    /\ IsFiniteSet(DOMAIN node)
    /\ node = [n \in DOMAIN node |-> node[n]] /\ \A n \in DOMAIN node : IsNode(node[n])
    /\ orch = [o \in DOMAIN orch |-> orch[o]] /\ \A o \in DOMAIN orch : IsOrch(orch[o])

\* Whatever is deployed stays on disk, and nodes and orchestrators have read what is there.
FileInv ==
    /\ InUse \subseteq DOMAIN disk
    /\ \A n \in DOMAIN node : node[n].up /\ node[n].def[1] \notin touched =>
          node[n].exp = disk[node[n].def[1]].exp
    /\ \A o \in DOMAIN orch : orch[o].name \notin touched =>
          /\ Valid(disk[orch[o].name].exp)
          /\ Running(o) => orch[o].exp = disk[orch[o].name].exp

\* The nodes of the experiment that the one orchestrator of a compose project runs are its own.
DockerInv ==
    target = "docker" => \A o \in DOMAIN orch :
       /\ o = Service
       /\ orch[o].state # "exited" /\ orch[o].name \notin touched =>
             \A n \in Range(disk[orch[o].name].exp.nodes) :
                n \in DOMAIN node /\ node[n].def[1] = orch[o].name

RunningInv ==
    \A o \in DOMAIN orch :
       /\ orch[o].state = "created" => orch[o].sub = 1
       /\ Running(o) => Runnable(orch[o])

DeployInv == ShapeInv /\ FileInv /\ DockerInv /\ RunningInv

-----------------------------------------------------------------------------
(* Induction, and sequences whose elements have no type of their own.      *)

\* A set of numbers has a least one: the induction of this module.
LEMMA LeastNumber ==
    ASSUME NEW T, T \subseteq Nat, T # {}
    PROVE  \E m \in T : \A k \in T : m <= k
<1>1. PICK m \in T : \A k \in T : ~ (<<k, m>> \in OpToRel(<, Nat))
  BY WFMin, NatLessThanWellFounded, Zenon
<1>2. \A k, n \in Nat : k < n => <<k, n>> \in OpToRel(<, Nat)
  BY DEF OpToRel
<1>3. \A k \in T : ~ (k < m)
  BY <1>1, <1>2, Zenon
<1>4. QED
  BY <1>3

LEMMA SeqFacts ==
    ASSUME NEW s, IsSeq(s)
    PROVE  /\ Len(s) \in Nat /\ DOMAIN s = 1 .. Len(s)
           /\ s = [i \in 1 .. Len(s) |-> s[i]]
           /\ Range(s) = {s[i] : i \in 1 .. Len(s)}
           /\ s # <<>> <=> Len(s) > 0
<1>1. s \in Seq(Range(s))
  BY DEF IsSeq
<1>2. Len(s) \in Nat /\ DOMAIN s = 1 .. Len(s)
  BY <1>1, LenProperties
<1>3. s # <<>> <=> Len(s) > 0
  BY <1>1, <1>2, EmptySeq
<1>4. s = [i \in 1 .. Len(s) |-> s[i]]
  BY <1>1, <1>2
<1>5. QED
  BY <1>2, <1>3, <1>4 DEF Range

\* A sequence of any set is one.
LEMMA TypedIsSeq ==
    ASSUME NEW S, NEW s \in Seq(S)
    PROVE  IsSeq(s) /\ Range(s) \subseteq S
<1> DEFINE n == Len(s)
           R == Range(s)
<1>1. n \in Nat /\ DOMAIN s = 1 .. n /\ \A i \in 1 .. n : s[i] \in S
  BY LenProperties, ElementOfSeq
<1>2. R \subseteq S
  BY <1>1 DEF Range
<1>3. s \in [1 .. n -> R]
  BY <1>1 DEF Range
<1>4. s \in Seq(R)
  <2> HIDE DEF n, R
  <2>1. s \in UNION {[1 .. m -> R] : m \in Nat}
    BY <1>1, <1>3
  <2>2. QED
    BY <2>1, SeqDef, Zenon
<1>5. QED
  BY <1>2, <1>4 DEF IsSeq

LEMMA EmptyIsSeq == IsSeq(<<>>) /\ Range(<<>>) = {}
<1>1. <<>> \in Seq(Range(<<>>))
  BY EmptySeq
<1>2. Range(<<>>) = {}
  BY DEF Range
<1>3. QED
  BY <1>1, <1>2 DEF IsSeq

LEMMA AppendIsSeq ==
    ASSUME NEW s, IsSeq(s), NEW x
    PROVE  /\ IsSeq(Append(s, x)) /\ Len(Append(s, x)) = Len(s) + 1 /\ Len(s) \in Nat
           /\ \A i \in 1 .. Len(s) : Append(s, x)[i] = s[i]
           /\ Append(s, x)[Len(s) + 1] = x
           /\ Range(Append(s, x)) = Range(s) \cup {x}
<1> DEFINE S == Range(s) \cup {x}
<1>1. s \in Seq(S)
  BY SeqMonotonic DEF IsSeq
<1>2. /\ Append(s, x) \in Seq(S) /\ Len(Append(s, x)) = Len(s) + 1 /\ Len(s) \in Nat
      /\ \A i \in 1 .. Len(s) : Append(s, x)[i] = s[i]
      /\ Append(s, x)[Len(s) + 1] = x
  BY <1>1, AppendProperties, LenProperties
<1>3. IsSeq(Append(s, x)) /\ Range(Append(s, x)) \subseteq S
  BY <1>2, TypedIsSeq
<1>4. S \subseteq Range(Append(s, x))
  <2>1. Range(Append(s, x)) = {Append(s, x)[i] : i \in 1 .. Len(s) + 1}
    BY <1>2, <1>3, SeqFacts
  <2>2. \A i \in 1 .. Len(s) : s[i] \in Range(Append(s, x))
    BY <2>1, <1>2
  <2>3. x \in Range(Append(s, x))
    BY <2>1, <1>2
  <2>4. QED
    BY <2>2, <2>3, SeqFacts
<1>5. QED
  BY <1>2, <1>3, <1>4

LEMMA TailIsSeq ==
    ASSUME NEW s, IsSeq(s), s # <<>>
    PROVE  /\ IsSeq(Tail(s)) /\ Len(Tail(s)) = Len(s) - 1 /\ Head(s) = s[1]
           /\ \A i \in 1 .. Len(s) - 1 : Tail(s)[i] = s[i + 1]
<1>1. s \in Seq(Range(s))
  BY DEF IsSeq
<1>2. /\ Tail(s) \in Seq(Range(s)) /\ Len(Tail(s)) = Len(s) - 1 /\ Head(s) = s[1]
      /\ \A i \in 1 .. Len(Tail(s)) : Tail(s)[i] = s[i + 1]
  BY <1>1, HeadTailProperties
<1>3. QED
  BY <1>2, TypedIsSeq

\* A part of a sequence.
LEMMA PartIsSeq ==
    ASSUME NEW s, IsSeq(s), NEW m \in 1 .. Len(s) + 1, NEW n \in Nat, m <= n + 1, n <= Len(s)
    PROVE  /\ IsSeq(SubSeq(s, m, n)) /\ Len(SubSeq(s, m, n)) = n - m + 1
           /\ \A i \in 1 .. n - m + 1 : SubSeq(s, m, n)[i] = s[m + i - 1]
           /\ Range(SubSeq(s, m, n)) \subseteq Range(s)
<1>1. s \in Seq(Range(s)) /\ Len(s) \in Nat
  BY SeqFacts DEF IsSeq
<1>2. \A i \in m .. n : s[i] \in Range(s)
  BY <1>1, SeqFacts
<1>3. /\ SubSeq(s, m, n) \in Seq(Range(s))
      /\ Len(SubSeq(s, m, n)) = (IF m <= n THEN n - m + 1 ELSE 0)
      /\ \A i \in 1 .. n - m + 1 : SubSeq(s, m, n)[i] = s[m + i - 1]
  BY <1>1, <1>2, SubSeqProperties
<1>4. Len(SubSeq(s, m, n)) = n - m + 1
  BY <1>1, <1>3
<1>5. IsSeq(SubSeq(s, m, n)) /\ Range(SubSeq(s, m, n)) \subseteq Range(s)
  BY <1>3, TypedIsSeq
<1>6. QED
  BY <1>3, <1>4, <1>5

\* Sequences are equal if their lengths and elements are.
LEMMA SameSeq ==
    ASSUME NEW s, NEW t, IsSeq(s), IsSeq(t), Len(s) = Len(t),
           \A i \in 1 .. Len(s) : s[i] = t[i]
    PROVE  s = t
BY SeqFacts

LEMMA WholeSubSeq ==
    ASSUME NEW s, IsSeq(s)
    PROVE  SubSeq(s, 1, Len(s)) = s
<1>1. Len(s) \in Nat
  BY SeqFacts
<1>2. /\ IsSeq(SubSeq(s, 1, Len(s))) /\ Len(SubSeq(s, 1, Len(s))) = Len(s)
      /\ \A i \in 1 .. Len(s) : SubSeq(s, 1, Len(s))[i] = s[i]
  BY <1>1, PartIsSeq
<1>3. QED
  BY <1>2, SameSeq

-----------------------------------------------------------------------------
(* Flattening, selecting, merging and walking.                             *)

LEMMA ConcatIsSeq ==
    ASSUME NEW s, NEW t, IsSeq(s), IsSeq(t)
    PROVE  IsSeq(s \o t) /\ Range(s \o t) = Range(s) \cup Range(t)
<1> DEFINE S == Range(s) \cup Range(t)
<1>1. s \in Seq(S) /\ t \in Seq(S)
  BY SeqMonotonic DEF IsSeq
<1>2. s \o t \in Seq(S)
  BY <1>1, ConcatProperties
<1>3. IsSeq(s \o t) /\ Range(s \o t) \subseteq S
  BY <1>2, TypedIsSeq
<1>4. QED
  BY <1>1, <1>3, RangeConcatenation

\* The recursion of FlattenSeq over the first n sequences.
Flattens(h, ss, n) == h = [i \in 1 .. n |-> IF i = 1 THEN ss[i] ELSE h[i - 1] \o ss[i]]

LEMMA FlattensExists ==
    ASSUME NEW ss, NEW n \in Nat
    PROVE  \E h : Flattens(h, ss, n)
<1> DEFINE T == {k \in Nat : ~ \E h : Flattens(h, ss, k)}
<1> SUFFICES ASSUME T # {} PROVE FALSE
  OBVIOUS
<1>1. PICK m \in T : \A k \in T : m <= k
  BY LeastNumber
<1>2. m # 0
  <2>1. Flattens([i \in 1 .. 0 |-> 0], ss, 0)
    BY DEF Flattens
  <2>2. QED
    BY <2>1
<1>3. PICK g : Flattens(g, ss, m - 1)
  BY <1>1, <1>2
<1> DEFINE h == [i \in 1 .. m |-> IF i = m THEN (IF i = 1 THEN ss[i] ELSE g[i - 1] \o ss[i]) ELSE g[i]]
<1>4. \A i \in 1 .. m : h[i] = IF i = 1 THEN ss[i] ELSE h[i - 1] \o ss[i]
  <2> SUFFICES ASSUME NEW i \in 1 .. m
               PROVE  h[i] = IF i = 1 THEN ss[i] ELSE h[i - 1] \o ss[i]
    OBVIOUS
  <2>1. CASE i = 1
    <3>1. CASE m = 1
      BY <2>1, <3>1
    <3>2. CASE m # 1
      <4>1. i \in 1 .. m - 1
        BY <2>1, <3>2, <1>2
      <4>2. g[i] = ss[i]
        BY <4>1, <1>3, <2>1 DEF Flattens
      <4>3. QED
        BY <4>2, <2>1, <3>2
    <3>3. QED
      BY <3>1, <3>2
  <2>2. CASE i # 1 /\ i = m
    <3>1. h[i - 1] = g[i - 1]
      BY <2>2
    <3>2. QED
      BY <2>2, <3>1
  <2>3. CASE i # 1 /\ i # m
    <3>1. i \in 1 .. m - 1 /\ i - 1 \in 1 .. m /\ i - 1 # m
      BY <2>3
    <3>2. g[i] = g[i - 1] \o ss[i]
      BY <3>1, <2>3, <1>3 DEF Flattens
    <3>3. h[i] = g[i] /\ h[i - 1] = g[i - 1]
      BY <2>3, <3>1
    <3>4. QED
      BY <2>3, <3>2, <3>3
  <2>4. QED
    BY <2>1, <2>2, <2>3
<1>5. Flattens(h, ss, m)
  BY <1>4 DEF Flattens
<1> HIDE DEF h
<1>6. QED
  BY <1>5

\* Flattening keeps what is in the sequences.
LEMMA FlattenFacts ==
    ASSUME NEW ss, IsSeq(ss), \A i \in 1 .. Len(ss) : IsSeq(ss[i])
    PROVE  /\ IsSeq(FlattenSeq(ss))
           /\ Range(FlattenSeq(ss)) = UNION {Range(ss[i]) : i \in 1 .. Len(ss)}
<1>1. Len(ss) \in Nat
  BY SeqFacts
<1>2. CASE Len(ss) = 0
  <2>1. ss = <<>> /\ FlattenSeq(ss) = ss
    BY <1>2, SeqFacts DEF FlattenSeq
  <2>2. 1 .. Len(ss) = {}
    BY <1>2
  <2>3. QED
    BY <2>1, <2>2, EmptyIsSeq
<1>3. CASE Len(ss) # 0
  <2> DEFINE f == CHOOSE h : h = [i \in 1 .. Len(ss) |-> IF i = 1 THEN ss[i] ELSE h[i - 1] \o ss[i]]
             All(n) == UNION {Range(ss[i]) : i \in 1 .. n}
  <2>1. FlattenSeq(ss) = f[Len(ss)]
    BY <1>3, Zenon DEF FlattenSeq
  <2>2. Flattens(f, ss, Len(ss))
    BY <1>1, FlattensExists, Zenon DEF Flattens
  <2>3. \A i \in 1 .. Len(ss) : f[i] = IF i = 1 THEN ss[i] ELSE f[i - 1] \o ss[i]
    BY <2>2 DEF Flattens
  <2> HIDE DEF f
  <2>4. \A n \in 1 .. Len(ss) : IsSeq(f[n]) /\ Range(f[n]) = All(n)
    <3> DEFINE T == {n \in 1 .. Len(ss) : ~ (IsSeq(f[n]) /\ Range(f[n]) = All(n))}
    <3> SUFFICES ASSUME T # {} PROVE FALSE
      OBVIOUS
    <3> HIDE DEF All
    <3>0. T \subseteq Nat
      BY <1>1
    <3>1. PICK m \in T : \A k \in T : m <= k
      <4> HIDE DEF T
      <4> QED
        BY <3>0, LeastNumber
    <3>4. m \in 1 .. Len(ss) /\ ~ (IsSeq(f[m]) /\ Range(f[m]) = All(m))
      BY <3>1
    <3>2. CASE m = 1
      <4>1. All(1) = Range(ss[1])
        BY DEF All
      <4>2. f[1] = ss[1]
        BY <2>3, <3>1, <3>2
      <4>3. IsSeq(ss[1])
        BY <3>1, <3>2
      <4>4. IsSeq(f[1]) /\ Range(f[1]) = All(1)
        BY <4>1, <4>2, <4>3
      <4>5. QED
        BY <3>4, <3>2, <4>4
    <3>3. CASE m # 1
      <4>1. m - 1 \in 1 .. Len(ss) /\ m - 1 \notin T
        BY <3>1, <3>3
      <4>2. IsSeq(f[m - 1]) /\ Range(f[m - 1]) = All(m - 1)
        BY <4>1
      <4>3. IsSeq(ss[m]) /\ f[m] = f[m - 1] \o ss[m]
        BY <2>3, <3>1, <3>3
      <4>4. IsSeq(f[m]) /\ Range(f[m]) = All(m - 1) \cup Range(ss[m])
        BY <4>2, <4>3, ConcatIsSeq
      <4>5. 1 .. m = (1 .. m - 1) \cup {m}
        BY <3>1, <3>3
      <4>6. All(m) = All(m - 1) \cup Range(ss[m])
        BY <4>5 DEF All
      <4>7. QED
        BY <3>4, <4>4, <4>6
    <3>5. QED
      BY <3>2, <3>3
  <2>5. Len(ss) \in 1 .. Len(ss)
    BY <1>1, <1>3
  <2>6. QED
    BY <2>1, <2>4, <2>5
<1>4. QED
  BY <1>1, <1>2, <1>3

LEMMA SelectedFacts ==
    ASSUME NEW subs, IsSeq(subs), subs # <<>>, NEW filter, filter \subseteq Names(subs)
    PROVE  /\ IsSeq(Selected(subs, filter)) /\ Selected(subs, filter) # <<>>
           /\ Range(Selected(subs, filter)) \subseteq Range(subs)
<1>1. CASE filter = {}
  BY <1>1 DEF Selected
<1>2. CASE filter # {}
  <2> DEFINE One(i) == IF subs[i].name \in filter THEN <<subs[i]>> ELSE <<>>
             ss == [i \in 1 .. Len(subs) |-> One(i)]
  <2>1. Len(subs) \in Nat /\ DOMAIN subs = 1 .. Len(subs)
        /\ Range(subs) = {subs[i] : i \in 1 .. Len(subs)}
    BY SeqFacts
  <2>2. Selected(subs, filter) = FlattenSeq(ss)
    BY <1>2, <2>1 DEF Selected
  <2>3. \A i \in 1 .. Len(subs) : IsSeq(One(i)) /\ Range(One(i)) = IF subs[i].name \in filter THEN {subs[i]} ELSE {}
    <3> SUFFICES ASSUME NEW i \in 1 .. Len(subs)
                 PROVE  IsSeq(One(i)) /\ Range(One(i)) = IF subs[i].name \in filter THEN {subs[i]} ELSE {}
      OBVIOUS
    <3>1. CASE subs[i].name \in filter
      <4>1. <<subs[i]>> \in Seq({subs[i]})
        OBVIOUS
      <4>2. IsSeq(<<subs[i]>>)
        BY <4>1, TypedIsSeq
      <4>3. Range(<<subs[i]>>) = {subs[i]}
        BY DEF Range
      <4>4. QED
        BY <3>1, <4>2, <4>3
    <3>2. CASE subs[i].name \notin filter
      BY <3>2, EmptyIsSeq
    <3>3. QED
      BY <3>1, <3>2
  <2> HIDE DEF One
  <2>4. /\ IsSeq(ss) /\ Len(ss) = Len(subs) /\ \A i \in 1 .. Len(subs) : ss[i] = One(i)
    <3>1. ss \in Seq({One(i) : i \in 1 .. Len(subs)}) /\ Len(ss) = Len(subs)
      BY <2>1
    <3>2. QED
      BY <3>1, TypedIsSeq
  <2> HIDE DEF ss
  <2>5. IsSeq(FlattenSeq(ss)) /\ Range(FlattenSeq(ss)) = UNION {Range(ss[i]) : i \in 1 .. Len(ss)}
    BY <2>3, <2>4, FlattenFacts
  <2>6. Range(FlattenSeq(ss)) \subseteq Range(subs)
    <3>1. \A i \in 1 .. Len(ss) : Range(ss[i]) \subseteq Range(subs)
      BY <2>1, <2>3, <2>4
    <3>2. QED
      BY <2>5, <3>1
  <2>7. FlattenSeq(ss) # <<>>
    <3>1. PICK i \in 1 .. Len(subs) : subs[i].name \in filter
      BY <1>2, <2>1 DEF Names
    <3>2. Range(ss[i]) # {} /\ i \in 1 .. Len(ss)
      BY <3>1, <2>3, <2>4
    <3>3. Range(FlattenSeq(ss)) # {}
      BY <3>2, <2>5
    <3>4. QED
      BY <3>3, EmptyIsSeq
  <2>8. QED
    BY <2>2, <2>5, <2>6, <2>7
<1>3. QED
  BY <1>1, <1>2

\* Of the levels that define a field there is a deepest one.
LEMMA DeepestLevel ==
    ASSUME NEW spec, IsSeq(spec), NEW with, with \subseteq Levels(spec), with # {}
    PROVE  \E l \in with : \A k \in with : Len(k) <= Len(l)
<1>1. Len(spec) \in Nat
  BY SeqFacts
<1>2. \A l \in with : Len(l) \in 0 .. Len(spec)
  <2> SUFFICES ASSUME NEW i \in 1 .. Len(spec)
               PROVE  Len(SubSeq(spec, 1, i)) \in 0 .. Len(spec)
    BY DEF Levels
  <2>1. Len(SubSeq(spec, 1, i)) = i - 1 + 1
    BY <1>1, PartIsSeq
  <2>2. QED
    BY <1>1, <2>1
<1> DEFINE T == {Len(spec) - Len(l) : l \in with}
<1>3. T \subseteq Nat /\ T # {}
  BY <1>1, <1>2
<1>4. PICK m \in T : \A k \in T : m <= k
  <2> HIDE DEF T
  <2> QED
    BY <1>3, LeastNumber
<1>5. PICK l \in with : m = Len(spec) - Len(l)
  BY <1>4
<1>6. \A k \in with : Len(spec) - Len(l) <= Len(spec) - Len(k)
  BY <1>4, <1>5
<1>7. QED
  BY <1>1, <1>2, <1>5, <1>6

\* A field of a spec is one of its levels'.
LEMMA MergedFacts ==
    ASSUME NEW spec, IsSeq(spec)
    PROVE  /\ Nodes(spec) # None =>
                \E l \in Levels(spec) \cap DOMAIN tree.levels : Nodes(spec) = tree.levels[l].nodes
           /\ Subs(spec) # None =>
                \E l \in Levels(spec) \cap DOMAIN tree.levels : Subs(spec) = tree.levels[l].subs
<1> DEFINE Deep(with) == CHOOSE l \in with : \A k \in with : Len(k) <= Len(l)
           nodes == {l \in Levels(spec) \cap DOMAIN tree.levels : tree.levels[l].nodes # None}
           subs  == {l \in Levels(spec) \cap DOMAIN tree.levels : tree.levels[l].subs # None}
<1>1. Nodes(spec) = IF nodes = {} THEN None ELSE tree.levels[Deep(nodes)].nodes
  BY DEF Nodes, Merged
<1>2. Subs(spec) = IF subs = {} THEN None ELSE tree.levels[Deep(subs)].subs
  BY DEF Subs, Merged
<1>3. \A with \in SUBSET Levels(spec) : with # {} => Deep(with) \in with
  BY DeepestLevel
<1> HIDE DEF Deep
<1>4. QED
  BY <1>1, <1>2, <1>3

-----------------------------------------------------------------------------
(* What is made of one of the sources.                                     *)

LEMMA DeriveSingle ==
    ASSUME NEW s, NEW p
    PROVE  DeriveName("single", s, p) = SingleName(s, p)
BY DEF DeriveName

LEMMA RootLevel ==
    ASSUME NEW s, IsSeq(s), s # <<>>
    PROVE  s \in Levels(s) /\ <<s[1]>> \in Levels(s)
<1>1. Len(s) \in Nat /\ Len(s) > 0
  BY SeqFacts
<1>2. SubSeq(s, 1, Len(s)) = s
  BY WholeSubSeq
<1>3. SubSeq(s, 1, 1) = <<s[1]>>
  <2>1. /\ IsSeq(SubSeq(s, 1, 1)) /\ Len(SubSeq(s, 1, 1)) = 1
        /\ SubSeq(s, 1, 1)[1] = s[1]
    BY <1>1, PartIsSeq
  <2>2. <<s[1]>> \in Seq({s[1]}) /\ Len(<<s[1]>>) = 1 /\ <<s[1]>>[1] = s[1]
    OBVIOUS
  <2>3. IsSeq(<<s[1]>>)
    BY <2>2, TypedIsSeq
  <2>4. \A i \in 1 .. 1 : SubSeq(s, 1, 1)[i] = <<s[1]>>[i]
    BY <2>1, <2>2
  <2> DEFINE u == SubSeq(s, 1, 1)
             v == <<s[1]>>
  <2>5. IsSeq(u) /\ IsSeq(v) /\ Len(u) = Len(v) /\ \A i \in 1 .. Len(u) : u[i] = v[i]
    BY <2>1, <2>2, <2>3, <2>4
  <2> HIDE DEF u, v
  <2>6. u = v
    BY <2>5, SameSeq
  <2>7. QED
    BY <2>6 DEF u, v
<1>4. Len(s) \in 1 .. Len(s) /\ 1 \in 1 .. Len(s)
  BY <1>1
<1>5. SubSeq(s, 1, Len(s)) \in Levels(s) /\ SubSeq(s, 1, 1) \in Levels(s)
  BY <1>4, Zenon DEF Levels
<1>6. QED
  BY <1>2, <1>3, <1>5, Zenon

LEMMA TreeWellFormed ==
    ASSUME tree \in Trees
    PROVE  WellFormed(tree)
BY SourcesAssumption

\* What loads is one of the sources, and its parts are well formed.
LEMMA LoadsFacts ==
    ASSUME tree \in Trees, NEW s, NEW p, NEW filter, IsSeq(s), s # <<>>, Loads(s, p, filter)
    PROVE  /\ <<s, p>> \in Combos
           /\ s \in LeafSpecs /\ p \in Profiles
           /\ <<s[1]>> \in DOMAIN tree.levels
           /\ Root(s).kind \in {"single", "multi", "opt"}
           /\ IsSeq(Nodes(s)) /\ Nodes(s) # <<>>
           /\ IsSeq(Root(s).flows) /\ \A f \in Range(Root(s).flows) : IsSeq(f) /\ f # <<>>
           /\ IsSeq(Subs(s)) /\ Subs(s) # <<>> /\ filter \subseteq Names(Subs(s))
           /\ \E level \in Range(tree.levels) : Subs(s) = level.subs
<1>1. s \in Levels(s) /\ <<s[1]>> \in Levels(s)
  BY RootLevel
<1>2. /\ Levels(s) \subseteq DOMAIN tree.levels /\ p \in Profiles
      /\ Subs(s) # None /\ Nodes(s) # None /\ filter \subseteq Names(Subs(s))
  BY DEF Loads
<1>3. WellFormed(tree)
  BY TreeWellFormed
<1>4. Root(s) \in Range(tree.levels)
  BY <1>1, <1>2 DEF Root, Range
<1>5. PICK l \in DOMAIN tree.levels : Nodes(s) = tree.levels[l].nodes
  BY <1>2, MergedFacts
<1>6. PICK m \in DOMAIN tree.levels : Subs(s) = tree.levels[m].subs
  BY <1>2, MergedFacts
<1>7. tree.levels[l] \in Range(tree.levels) /\ tree.levels[m] \in Range(tree.levels)
  BY DEF Range
<1>8. s \in LeafSpecs
  BY <1>1, <1>2 DEF LeafSpecs
<1>9. /\ Root(s).kind \in {"single", "multi", "opt"}
      /\ IsSeq(Root(s).flows) /\ \A f \in Range(Root(s).flows) : IsSeq(f) /\ f # <<>>
  BY <1>3, <1>4 DEF WellFormed
<1>10. IsSeq(Nodes(s)) /\ IsSeq(Subs(s))
  BY <1>3, <1>5, <1>6, <1>7 DEF WellFormed
<1>11. QED
  BY <1>1, <1>2, <1>6, <1>7, <1>8, <1>9, <1>10 DEF Combos, None

LEMMA FileFacts ==
    ASSUME NEW k \in {"single", "multi", "opt"}, NEW s, NEW subs
    PROVE  /\ IsFile(FileOf(k, s, subs))
           /\ FileOf(k, s, subs).kind = k /\ FileOf(k, s, subs).nodes = Nodes(s)
           /\ FileOf(k, s, subs).subs = subs
           /\ FileOf(k, s, subs).flows = IF k = "single" THEN <<>> ELSE Root(s).flows
<1>1. CASE k = "single"
  BY <1>1 DEF FileOf, SingleFile, IsFile
<1>2. CASE k = "multi"
  BY <1>2 DEF FileOf, SingleFile, MultiFile, IsFile
<1>3. CASE k = "opt"
  BY <1>3 DEF FileOf, SingleFile, OptFile, IsFile
<1>4. QED
  BY <1>1, <1>2, <1>3

\* A file made of well-formed sources is well formed.
LEMMA MadeFileOK ==
    ASSUME tree \in Trees, NEW s, NEW p, NEW filter, IsSeq(s), s # <<>>, Loads(s, p, filter),
           NEW subs, IsSeq(subs), subs # <<>>, Range(subs) \subseteq Range(Subs(s))
    PROVE  /\ IsFile(FileOf(Root(s).kind, s, subs))
           /\ Whole(FileOf(Root(s).kind, s, subs)) /\ FileOK(FileOf(Root(s).kind, s, subs))
<1> DEFINE e == FileOf(Root(s).kind, s, subs)
<1>1. /\ Root(s).kind \in {"single", "multi", "opt"}
      /\ IsSeq(Nodes(s)) /\ Nodes(s) # <<>>
      /\ IsSeq(Root(s).flows) /\ \A f \in Range(Root(s).flows) : IsSeq(f) /\ f # <<>>
  BY LoadsFacts
<1>2. PICK level \in Range(tree.levels) : Subs(s) = level.subs
  BY LoadsFacts
<1>3. \A sub \in Range(subs) : IsSeq(sub.links)
  BY <1>2, TreeWellFormed DEF WellFormed
<1>4. /\ IsFile(e) /\ e.kind = Root(s).kind /\ e.nodes = Nodes(s) /\ e.subs = subs
      /\ e.flows = IF e.kind = "single" THEN <<>> ELSE Root(s).flows
  BY <1>1, FileFacts
<1>5. Whole(e)
  BY <1>1, <1>4 DEF Whole
<1>6. IsSeq(e.flows) /\ \A f \in Range(e.flows) : IsSeq(f) /\ f # <<>>
  <2>1. CASE e.kind = "single"
    BY <1>4, <2>1, EmptyIsSeq
  <2>2. CASE e.kind # "single"
    BY <1>1, <1>4, <2>2
  <2>3. QED
    BY <2>1, <2>2
<1>7. FileOK(e)
  BY <1>1, <1>3, <1>4, <1>6 DEF FileOK
<1>8. QED
  BY <1>4, <1>5, <1>7

\* What a frame has when it is put on the stack: every baseline it refers to is still to be
\* looked for.
FreshFrame(f) ==
    /\ IsFrame(f) /\ f.step = "resolve" /\ TodoOK(f)
    /\ \A r \in f.refs : RefOK(r) /\ r.name \in Pending(f)

\* The references of a list of sub-experiments.
References(subs) == FlattenSeq([i \in DOMAIN subs |-> subs[i].baselines])

LEMMA ReferencesFacts ==
    ASSUME tree \in Trees, NEW level \in Range(tree.levels),
           NEW subs, IsSeq(subs), Range(subs) \subseteq Range(level.subs)
    PROVE  /\ IsSeq(References(subs))
           /\ \A ref \in Range(References(subs)) : ref.spec # None =>
                 /\ IsSeq(ref.spec)
                 /\ \A s \in DOMAIN tree.levels : s = <<ref.spec[1]>> => tree.levels[s].kind = "single"
<1> DEFINE Good(ref) ==
              ref.spec # None =>
                 /\ IsSeq(ref.spec)
                 /\ \A s \in DOMAIN tree.levels : s = <<ref.spec[1]>> => tree.levels[s].kind = "single"
           ss == [i \in 1 .. Len(subs) |-> subs[i].baselines]
<1>1. Len(subs) \in Nat /\ DOMAIN subs = 1 .. Len(subs) /\ \A i \in 1 .. Len(subs) : subs[i] \in Range(subs)
  BY SeqFacts
<1>2. \A sub \in Range(level.subs) : IsSeq(sub.baselines) /\ \A ref \in Range(sub.baselines) : Good(ref)
  BY TreeWellFormed DEF WellFormed
<1> HIDE DEF Good
<1>3. /\ IsSeq(ss) /\ Len(ss) = Len(subs) /\ \A i \in 1 .. Len(subs) : ss[i] = subs[i].baselines
  <2>1. ss \in Seq({subs[i].baselines : i \in 1 .. Len(subs)}) /\ Len(ss) = Len(subs)
    BY <1>1
  <2>2. QED
    BY <2>1, TypedIsSeq
<1>4. References(subs) = FlattenSeq(ss)
  BY <1>1 DEF References
<1> HIDE DEF ss
<1>5. \A i \in 1 .. Len(ss) : IsSeq(ss[i]) /\ \A ref \in Range(ss[i]) : Good(ref)
  BY <1>1, <1>2, <1>3
<1>6. /\ IsSeq(FlattenSeq(ss))
      /\ Range(FlattenSeq(ss)) = UNION {Range(ss[i]) : i \in 1 .. Len(ss)}
  BY <1>3, <1>5, FlattenFacts
<1>7. \A ref \in Range(FlattenSeq(ss)) : Good(ref)
  BY <1>5, <1>6
<1>8. QED
  BY <1>4, <1>6, <1>7 DEF Good

\* The baselines of one experiment that loads.
BaselinesOf(s, p, filter) ==
    IF Root(s).kind = "single" THEN References(Selected(Subs(s), filter)) ELSE <<>>

Referent(ref, s, p) == <<RefSpec(ref, s), RefProfile(ref, p)>>

LEMMA FrameFields ==
    ASSUME NEW s, NEW p, NEW filter
    PROVE  Frame(s, p, filter) =
             [name  |-> NameOf(<<s, p>>),
              exp   |-> FileOf(KindOf(<<s, p>>), s, Selected(Subs(s), filter)),
              infra |-> p,
              refs  |-> {[name |-> DeriveName("single", Referent(BaselinesOf(s, p, filter)[i], s, p)[1],
                                              Referent(BaselinesOf(s, p, filter)[i], s, p)[2]),
                          sub  |-> BaselinesOf(s, p, filter)[i].sub,
                          real |-> /\ Loads(Referent(BaselinesOf(s, p, filter)[i], s, p)[1],
                                            Referent(BaselinesOf(s, p, filter)[i], s, p)[2], {})
                                   /\ BaselinesOf(s, p, filter)[i].sub \in
                                        Names(Subs(Referent(BaselinesOf(s, p, filter)[i], s, p)[1]))] :
                             i \in DOMAIN BaselinesOf(s, p, filter)},
              todo  |-> [i \in DOMAIN BaselinesOf(s, p, filter) |-> Referent(BaselinesOf(s, p, filter)[i], s, p)],
              step  |-> "resolve"]
BY DEF Frame, NameOf, KindOf, BaselinesOf, References, Referent

LEMMA ReferentFacts ==
    ASSUME tree \in Trees, NEW s, NEW p, NEW filter, IsSeq(s), s # <<>>, Loads(s, p, filter)
    PROVE  /\ IsSeq(BaselinesOf(s, p, filter))
           /\ \A i \in DOMAIN BaselinesOf(s, p, filter) :
                 /\ Root(s).kind = "single"
                 /\ RefTodo(Referent(BaselinesOf(s, p, filter)[i], s, p))
<1>1. CASE Root(s).kind # "single"
  <2>1. BaselinesOf(s, p, filter) = <<>>
    BY <1>1 DEF BaselinesOf
  <2>2. QED
    BY <2>1, EmptyIsSeq
<1>2. CASE Root(s).kind = "single"
  <2> DEFINE picked == Selected(Subs(s), filter)
             refs == References(picked)
  <2>1. BaselinesOf(s, p, filter) = refs
    BY <1>2 DEF BaselinesOf
  <2>2. IsSeq(picked) /\ Range(picked) \subseteq Range(Subs(s))
    BY LoadsFacts, SelectedFacts
  <2>3. PICK level \in Range(tree.levels) : Subs(s) = level.subs
    BY LoadsFacts
  <2>4. /\ IsSeq(refs)
        /\ \A ref \in Range(refs) : ref.spec # None =>
              /\ IsSeq(ref.spec)
              /\ \A l \in DOMAIN tree.levels : l = <<ref.spec[1]>> => tree.levels[l].kind = "single"
    <3> HIDE DEF picked
    <3> QED
      BY <2>2, <2>3, ReferencesFacts
  <2> HIDE DEF refs
  <2>5. ASSUME NEW i \in DOMAIN refs
        PROVE  RefTodo(Referent(refs[i], s, p))
    <3> DEFINE ref == refs[i]
               t == Referent(ref, s, p)
    <3>1. ref \in Range(refs)
      BY DEF Range
    <3>2. t = <<t[1], t[2]>> /\ t[1] = RefSpec(ref, s)
      BY DEF Referent
    <3>3. CASE ref.spec = None
      <4>1. t[1] = s
        BY <3>2, <3>3 DEF RefSpec
      <4>2. QED
        BY <3>2, <4>1, <1>2 DEF RefTodo
    <3>4. CASE ref.spec # None
      <4>1. t[1] = ref.spec /\ ref.spec # <<>>
        BY <3>2, <3>4 DEF RefSpec, None
      <4>2. IsSeq(t[1])
        BY <2>4, <3>1, <3>4, <4>1
      <4>3. Loads(t[1], t[2], {}) => Root(t[1]).kind = "single"
        <5> HIDE DEF t
        <5>1. SUFFICES ASSUME Loads(t[1], t[2], {}) PROVE Root(t[1]).kind = "single"
          OBVIOUS
        <5>2. <<t[1][1]>> \in DOMAIN tree.levels
          BY <5>1, <4>1, <4>2, LoadsFacts
        <5>3. tree.levels[<<t[1][1]>>].kind = "single"
          BY <2>4, <3>1, <3>4, <4>1, <5>2
        <5>4. QED
          BY <5>3 DEF Root
      <4>4. QED
        BY <3>2, <4>1, <4>2, <4>3 DEF RefTodo
    <3>5. QED
      BY <3>3, <3>4
  <2>6. QED
    BY <2>1, <2>4, <2>5, <1>2
<1>3. QED
  BY <1>1, <1>2

LEMMA FrameFacts ==
    ASSUME tree \in Trees, NEW s, NEW p, NEW filter, IsSeq(s), s # <<>>, Loads(s, p, filter)
    PROVE  /\ FreshFrame(Frame(s, p, filter))
           /\ Origin(Frame(s, p, filter), filter = {})
           /\ Frame(s, p, filter).name = NameOf(<<s, p>>)
           /\ Frame(s, p, filter).exp.kind = KindOf(<<s, p>>)
<1> DEFINE f == Frame(s, p, filter)
           bs == BaselinesOf(s, p, filter)
           picked == Selected(Subs(s), filter)
           To(i) == Referent(bs[i], s, p)
           c == <<s, p>>
<1>1. IsSeq(bs) /\ \A i \in DOMAIN bs : Root(s).kind = "single" /\ RefTodo(To(i))
  BY ReferentFacts
<1>2. Len(bs) \in Nat /\ DOMAIN bs = 1 .. Len(bs)
  BY <1>1, SeqFacts
<1>3. IsSeq(picked) /\ picked # <<>> /\ Range(picked) \subseteq Range(Subs(s))
  BY LoadsFacts, SelectedFacts
<1>4. /\ f = [name |-> f.name, exp |-> f.exp, infra |-> f.infra, refs |-> f.refs,
              todo |-> f.todo, step |-> f.step]
      /\ f.name = NameOf(c) /\ f.infra = p /\ f.step = "resolve"
      /\ f.exp = FileOf(Root(s).kind, s, picked)
      /\ f.todo = [i \in 1 .. Len(bs) |-> To(i)]
      /\ f.refs = {[name |-> DeriveName("single", To(i)[1], To(i)[2]), sub |-> bs[i].sub,
                    real |-> /\ Loads(To(i)[1], To(i)[2], {})
                             /\ bs[i].sub \in Names(Subs(To(i)[1]))] : i \in 1 .. Len(bs)}
  BY <1>2, FrameFields DEF KindOf
<1> HIDE DEF f, bs, picked, To
<1>5. IsFile(f.exp) /\ Whole(f.exp) /\ FileOK(f.exp)
  BY <1>3, <1>4, MadeFileOK
<1>6. /\ c \in Combos /\ Root(s).kind \in {"single", "multi", "opt"} /\ KindOf(c) = Root(s).kind
      /\ c[1] = s /\ c[2] = p
  BY LoadsFacts DEF KindOf
<1>7. f.exp.kind = Root(s).kind
  BY <1>4, <1>6, FileFacts
<1>8. IsFrame(f)
  BY <1>4, <1>5 DEF IsFrame
<1>9. IsSeq(f.todo) /\ Len(f.todo) = Len(bs) /\ \A i \in 1 .. Len(bs) : f.todo[i] = To(i)
  <2>1. f.todo \in Seq({To(i) : i \in 1 .. Len(bs)}) /\ Len(f.todo) = Len(bs)
    BY <1>2, <1>4
  <2>2. QED
    BY <2>1, <1>4, TypedIsSeq
<1>10. TodoOK(f)
  BY <1>1, <1>2, <1>7, <1>9 DEF TodoOK
<1>11. ASSUME NEW r \in f.refs PROVE RefOK(r) /\ r.name \in Pending(f)
  <2>1. PICK i \in 1 .. Len(bs) :
           r = [name |-> DeriveName("single", To(i)[1], To(i)[2]), sub |-> bs[i].sub,
                real |-> /\ Loads(To(i)[1], To(i)[2], {})
                         /\ bs[i].sub \in Names(Subs(To(i)[1]))]
    BY <1>4
  <2>2. /\ r.name = SingleName(To(i)[1], To(i)[2]) /\ r.sub = bs[i].sub
        /\ r.real = (/\ Loads(To(i)[1], To(i)[2], {})
                     /\ bs[i].sub \in Names(Subs(To(i)[1])))
    BY <2>1, DeriveSingle
  <2>3. r.name \in Pending(f)
    BY <1>9, <2>2 DEF Pending
  <2>4. RefOK(r)
    <3>1. SUFFICES ASSUME r.real
                   PROVE  \E d \in Combos : /\ KindOf(d) = "single" /\ r.name = NameOf(d)
                                            /\ r.sub \in Names(SubsOf(d))
      BY DEF RefOK
    <3>2. Loads(To(i)[1], To(i)[2], {}) /\ r.sub \in Names(Subs(To(i)[1]))
      BY <2>2, <3>1
    <3>3. RefTodo(To(i))
      BY <1>1, <1>2
    <3>4. To(i) = <<To(i)[1], To(i)[2]>> /\ Root(To(i)[1]).kind = "single"
      BY <3>2, <3>3 DEF RefTodo
    <3>5. To(i) \in Combos
      <4>1. PICK q, v : q = To(i)[1] /\ v = To(i)[2]
        OBVIOUS
      <4>2. IsSeq(q) /\ q # <<>> /\ Loads(q, v, {})
        BY <3>2, <3>3, <4>1 DEF RefTodo
      <4>3. <<q, v>> \in Combos
        BY <4>2, LoadsFacts
      <4>4. QED
        BY <3>4, <4>1, <4>3
    <3>6. KindOf(To(i)) = "single" /\ r.name = NameOf(To(i)) /\ r.sub \in Names(SubsOf(To(i)))
      BY <2>2, <3>2, <3>4, DeriveSingle DEF KindOf, NameOf, SubsOf
    <3>7. QED
      BY <3>5, <3>6
  <2>5. QED
    BY <2>3, <2>4
<1>12. Origin(f, filter = {})
  <2>1. filter = {} => f.exp = FullFile(c)
    BY <1>4, <1>6 DEF FullFile, SubsOf, Selected, picked
  <2>2. QED
    BY <1>4, <1>6, <1>7, <2>1 DEF Origin
<1>13. QED
  BY <1>4, <1>6, <1>7, <1>8, <1>10, <1>11, <1>12 DEF FreshFrame, f

LEMMA SameSources ==
    ASSUME tree' = tree
    PROVE  /\ LeafSpecs' = LeafSpecs /\ Profiles' = Profiles /\ Combos' = Combos
           /\ \A s : Nodes(s)' = Nodes(s) /\ Subs(s)' = Subs(s) /\ Root(s)' = Root(s)
<1>1. \A s : Nodes(s)' = Nodes(s)
  BY DEF Nodes, Merged
<1>2. \A s : Subs(s)' = Subs(s)
  BY DEF Subs, Merged
<1>3. \A s : Root(s)' = Root(s)
  BY DEF Root
<1>4. LeafSpecs' = LeafSpecs
  BY <1>1, <1>2 DEF LeafSpecs
<1>5. Profiles' = Profiles
  BY DEF Profiles
<1>6. QED
  BY <1>1, <1>2, <1>3, <1>4, <1>5 DEF Combos

LEMMA SameMeaning ==
    ASSUME tree' = tree
    PROVE  /\ \A s, p, filter : Loads(s, p, filter)' <=> Loads(s, p, filter)
           /\ \A c : KindOf(c)' = KindOf(c) /\ NameOf(c)' = NameOf(c) /\ SubsOf(c)' = SubsOf(c)
                     /\ FullFile(c)' = FullFile(c)
           /\ \A t : RefTodo(t)' <=> RefTodo(t)
           /\ \A f : TodoOK(f)' <=> TodoOK(f)
           /\ \A r : RefOK(r)' <=> RefOK(r)
           /\ \A f, whole : Origin(f, whole)' <=> Origin(f, whole)
<1>1. /\ LeafSpecs' = LeafSpecs /\ Profiles' = Profiles /\ Combos' = Combos
      /\ \A s : Nodes(s)' = Nodes(s) /\ Subs(s)' = Subs(s) /\ Root(s)' = Root(s)
  BY SameSources
<1>2. \A s, p, filter : Loads(s, p, filter)' <=> Loads(s, p, filter)
  BY <1>1 DEF Loads, ValidateCompatibility, SameAllowedMethods
<1>3. \A c : KindOf(c)' = KindOf(c) /\ NameOf(c)' = NameOf(c) /\ SubsOf(c)' = SubsOf(c)
  BY <1>1 DEF KindOf, NameOf, SubsOf
<1>4. \A c : FullFile(c)' = FullFile(c)
  BY <1>1, <1>3 DEF FullFile, FileOf, SingleFile, MultiFile, OptFile
<1>5. \A t : RefTodo(t)' <=> RefTodo(t)
  BY <1>1, <1>2 DEF RefTodo
<1>6. \A f : TodoOK(f)' <=> TodoOK(f)
  BY <1>5 DEF TodoOK
<1>7. \A r : RefOK(r)' <=> RefOK(r)
  BY <1>1, <1>3 DEF RefOK
<1>8. \A f, whole : Origin(f, whole)' <=> Origin(f, whole)
  BY <1>1, <1>3, <1>4 DEF Origin
<1>9. QED
  BY <1>2, <1>3, <1>4, <1>5, <1>6, <1>7, <1>8

-----------------------------------------------------------------------------
(* The invariant of the generator.                                         *)

LEMMA ComboFacts ==
    ASSUME tree \in Trees, NEW c \in Combos
    PROVE  /\ c = <<c[1], c[2]>> /\ IsSeq(c[1]) /\ c[1] # <<>>
           /\ IsSeq(c[2]) /\ Len(c[2]) = 2
<1>1. c = <<c[1], c[2]>> /\ c[1] \in DOMAIN tree.levels /\ c[2] \in DOMAIN tree.profiles
  BY DEF Combos, LeafSpecs, Profiles
<1>2. QED
  BY <1>1, TreeWellFormed DEF WellFormed

LEMMA TopFacts ==
    ASSUME StackInv, stack # <<>>
    PROVE  /\ Len(stack) \in Nat /\ Len(stack) \in 1 .. Len(stack)
           /\ DOMAIN stack = 1 .. Len(stack)
           /\ Top = stack[Len(stack)]
<1>1. IsSeq(stack)
  BY DEF StackInv
<1>2. QED
  BY <1>1, SeqFacts DEF Top, Last

LEMMA NothingNamed ==
    ASSUME stack = <<>>
    PROVE  StackNames = {} /\ There = DOMAIN disk
<1>1. Len(stack) = 0 /\ 1 .. Len(stack) = {}
  OBVIOUS
<1>2. QED
  BY <1>1 DEF StackNames, There

\* With nothing being made, the stack and the cycle guard are right.
LEMMA NothingMade ==
    ASSUME stack' = <<>>, seen' \subseteq (DOMAIN disk)'
    PROVE  StackInv' /\ SeenInv' /\ StackNames' = {} /\ There' = (DOMAIN disk)'
<1>1. Len(stack') = 0 /\ 1 .. Len(stack') = {}
  OBVIOUS
<1>2. IsSeq(stack')
  BY EmptyIsSeq
<1>3. StackNames' = {}
  BY <1>1 DEF StackNames
<1>4. There' = (DOMAIN disk)'
  BY <1>3 DEF There
<1>5. QED
  BY <1>1, <1>2, <1>3, <1>4 DEF StackInv, SeenInv

\* Fails leaves nothing being made.
LEMMA FailsKeeps ==
    ASSUME GenInv, Fails, tree' = tree, disk' = disk, damaged' = damaged,
           call' # None => call' = [filter |-> call'.filter, left |-> call'.left] /\ call'.left \subseteq Combos,
           \A n \in DOMAIN disk \ damaged : ~ HalfWritten(n)
    PROVE  GenInv'
<1>1. stack' = <<>> /\ seen' = {} /\ outcome' = "failed"
  BY DEF Fails
<1>2. StackInv' /\ SeenInv'
  BY <1>1, NothingMade
<1>3. CallInv'
  BY <1>1, SameSources DEF CallInv, GenInv
<1>4. DiskInv'
  BY <1>1, SameSources, SameMeaning DEF DiskInv, GenInv
<1>5. WrittenInv'
  BY <1>1 DEF WrittenInv
<1>6. QED
  BY <1>2, <1>3, <1>4, <1>5 DEF GenInv

LEMMA StutterKeepsGenInv ==
    ASSUME GenInv, UNCHANGED genVars
    PROVE  GenInv'
<1>1. /\ tree' = tree /\ disk' = disk /\ call' = call /\ stack' = stack /\ seen' = seen
      /\ written' = written /\ damaged' = damaged /\ outcome' = outcome
  BY DEF genVars
<1>2. StackNames' = StackNames /\ There' = There
  BY <1>1 DEF StackNames, There
<1>3. CallInv'
  BY <1>1, SameSources DEF CallInv, GenInv
<1>4. \A f : Pending(f)' = Pending(f) /\ (RefsOK(f)' <=> RefsOK(f))
  BY <1>1, <1>2, SameMeaning DEF Pending, RefsOK
<1>5. StackInv'
  BY <1>1, <1>4, SameMeaning DEF StackInv, GenInv
<1>6. SeenInv'
  BY <1>1, <1>2 DEF SeenInv, GenInv
<1>7. \A n : HalfWritten(n)' <=> HalfWritten(n)
  BY <1>1 DEF HalfWritten, Top
<1>8. DiskInv'
  BY <1>1, <1>7, SameSources, SameMeaning DEF DiskInv, GenInv
<1>9. WrittenInv'
  BY <1>1, <1>2, SameMeaning DEF WrittenInv, GenInv
<1>10. QED
  BY <1>3, <1>5, <1>6, <1>8, <1>9 DEF GenInv

LEMMA InitGenInv ==
    ASSUME Init
    PROVE  GenInv
<1>1. PICK s \in Scenarios : GenInit(s)
  BY DEF Init
<1>2. /\ tree = s.tree /\ disk = << >> /\ call = None /\ stack = <<>> /\ seen = {}
      /\ written = {} /\ damaged = {} /\ outcome = "none"
  BY <1>1 DEF GenInit
<1>3. tree \in Trees
  BY <1>2 DEF Trees
<1>4. Len(stack) = 0 /\ 1 .. Len(stack) = {} /\ DOMAIN disk = {}
  BY <1>2
<1>5. IsSeq(stack)
  BY <1>2, EmptyIsSeq
<1>6. QED
  BY <1>2, <1>3, <1>4, <1>5
  DEF GenInv, CallInv, StackInv, SeenInv, StackNames, There, DiskInv, WrittenInv, None

LEMMA CallKeeps ==
    ASSUME GenInv, Call
    PROVE  GenInv'
<1>1. /\ call = None /\ tree' = tree /\ disk' = disk /\ stack' = stack /\ seen' = seen
      /\ written' = written /\ damaged' = damaged /\ outcome' = outcome
  BY DEF Call
<1>2. stack = <<>> /\ outcome # "busy"
  BY <1>1 DEF GenInv, CallInv
<1>3. call' = [filter |-> call'.filter, left |-> call'.left] /\ call'.left \subseteq Combos
  BY DEF Call, Combos
<1>4. StackNames = {} /\ There = DOMAIN disk
  BY <1>2, NothingNamed
<1>5. /\ StackInv' /\ SeenInv' /\ There' = There
  BY <1>1, <1>2, <1>4, NothingMade DEF SeenInv, GenInv
<1>6. CallInv'
  BY <1>1, <1>2, <1>3, SameSources DEF CallInv, GenInv
<1>7. DiskInv'
  BY <1>1, <1>2, SameSources, SameMeaning DEF DiskInv, GenInv, HalfWritten
<1>8. WrittenInv'
  BY <1>1, <1>5, SameMeaning DEF WrittenInv, GenInv
<1>9. QED
  BY <1>5, <1>6, <1>7, <1>8 DEF GenInv

LEMMA EndCallKeeps ==
    ASSUME GenInv, EndCall
    PROVE  GenInv'
<1>1. /\ call' = None /\ stack = <<>> /\ tree' = tree /\ disk' = disk /\ stack' = stack /\ seen' = seen
      /\ written' = written /\ damaged' = damaged /\ outcome' = outcome
  BY DEF EndCall
<1>2. StackNames = {} /\ There = DOMAIN disk
  BY <1>1, NothingNamed
<1>3. /\ StackInv' /\ SeenInv' /\ There' = There
  BY <1>1, <1>2, NothingMade DEF SeenInv, GenInv
<1>4. CallInv'
  BY <1>1, SameSources DEF CallInv, GenInv
<1>5. DiskInv'
  BY <1>1, SameSources, SameMeaning DEF DiskInv, GenInv, HalfWritten
<1>6. WrittenInv'
  BY <1>1, <1>3, SameMeaning DEF WrittenInv, GenInv
<1>7. QED
  BY <1>3, <1>4, <1>5, <1>6 DEF GenInv

LEMMA EditKeeps ==
    ASSUME GenInv, Edit
    PROVE  GenInv'
<1>1. /\ call = None /\ disk' = disk /\ call' = call /\ stack' = stack /\ seen' = seen
      /\ written' = written /\ damaged' = DOMAIN disk /\ outcome' = "none"
  BY DEF Edit
<1>2. tree' \in Trees
  BY DEF Edit, Trees
<1>3. stack = <<>>
  BY <1>1 DEF GenInv, CallInv
<1>4. StackNames = {} /\ There = DOMAIN disk
  BY <1>3, NothingNamed
<1>5. StackInv' /\ SeenInv'
  BY <1>1, <1>3, <1>4, NothingMade DEF SeenInv, GenInv
<1>6. CallInv'
  <2>1. Trees' = Trees
    BY DEF Trees
  <2>2. QED
    BY <1>1, <1>2, <1>3, <2>1 DEF CallInv
<1>7. DiskInv'
  BY <1>1 DEF DiskInv, GenInv
<1>8. WrittenInv'
  BY <1>1 DEF WrittenInv
<1>9. QED
  BY <1>5, <1>6, <1>7, <1>8 DEF GenInv

\* An experiment that waits for one of its baselines, called `name`.
Waiting(f, i, name, filter) ==
    /\ IsFrame(f) /\ TodoOK(f) /\ Origin(f, i > 1 \/ filter = {})
    /\ f.step = "resolve" /\ f.exp.kind = "single"
    /\ \A r \in f.refs : RefOK(r) /\ r.name \in There \cup Pending(f) \cup {name}

\* An experiment begun on top of those that wait for it.
LEMMA BegunKeepsStack ==
    ASSUME GenInv, tree' = tree, disk' = disk, NEW below, NEW f,
           IsSeq(below), FreshFrame(f), Origin(f, below # <<>> \/ call'.filter = {}),
           \A i \in 1 .. Len(below) : Waiting(below[i], i, f.name, call'.filter),
           StackNames = {below[i].name : i \in 1 .. Len(below)},
           \A i, j \in 1 .. Len(below) : below[i].name = below[j].name => i = j,
           f.name \notin StackNames,
           stack' = Append(below, f), seen' = seen \cup {f.name}
    PROVE  /\ StackInv' /\ SeenInv' /\ There' = There \cup {f.name}
           /\ Top' = f /\ stack' # <<>>
<1> DEFINE n == Len(below) + 1
<1>1. /\ Len(below) \in Nat /\ IsSeq(stack') /\ Len(stack') = n
      /\ \A i \in 1 .. Len(below) : stack'[i] = below[i]
      /\ stack'[n] = f
  BY AppendIsSeq
<1>2. 1 .. n = (1 .. Len(below)) \cup {n} /\ n \notin 1 .. Len(below) /\ n > 0
  BY <1>1
<1>3. below # <<>> <=> Len(below) > 0
  BY SeqFacts
<1> HIDE DEF n
<1>4. StackNames' = StackNames \cup {f.name}
  <2>1. StackNames' = {stack'[i].name : i \in 1 .. n}
    BY <1>1 DEF StackNames
  <2>2. QED
    BY <2>1, <1>1, <1>2
<1>5. There' = There \cup {f.name}
  BY <1>4 DEF There
<1>6. SeenInv'
  <2>1. StackNames \subseteq seen /\ seen \subseteq There
    BY DEF GenInv, SeenInv
  <2>2. \A i \in 1 .. Len(below) : below[i].name \in StackNames
    OBVIOUS
  <2>3. \A i, j \in 1 .. n : stack'[i].name = stack'[j].name => i = j
    BY <1>1, <1>2, <2>1, <2>2
  <2>4. QED
    BY <1>1, <1>4, <1>5, <2>1, <2>3 DEF SeenInv
<1>7. ASSUME NEW i \in 1 .. n
      PROVE  /\ IsFrame(stack'[i])
             /\ TodoOK(stack[i])'
             /\ RefsOK(stack[i])'
             /\ Origin(stack[i], i > 1 \/ call.filter = {})'
             /\ i < n => stack'[i].step = "resolve" /\ stack'[i].exp.kind = "single"
  <2>1. CASE i = n
    <3>1. stack'[i] = f
      BY <1>1, <2>1
    <3>2. IsFrame(f) /\ TodoOK(f) /\ \A r \in f.refs : RefOK(r) /\ r.name \in Pending(f)
      BY DEF FreshFrame
    <3>3. TodoOK(f)' /\ \A r \in f.refs : RefOK(r)' /\ r.name \in There' \cup Pending(f)
      BY <3>2, SameMeaning
    <3>4. RefsOK(f)'
      BY <3>3 DEF RefsOK, Pending
    <3>5. below # <<>> <=> i > 1
      BY <2>1, <1>1, <1>3 DEF n
    <3>6. Origin(f, i > 1 \/ call'.filter = {})
      BY <3>5
    <3>7. Origin(f, i > 1 \/ call.filter = {})'
      BY <3>6, SameMeaning
    <3>8. QED
      BY <3>1, <3>2, <3>3, <3>4, <3>7, <2>1
  <2>2. CASE i # n
    <3>1. i \in 1 .. Len(below) /\ stack'[i] = below[i]
      BY <1>1, <1>2, <2>2
    <3>2. Waiting(below[i], i, f.name, call'.filter)
      BY <3>1
    <3>3. /\ IsFrame(below[i]) /\ TodoOK(below[i]) /\ Origin(below[i], i > 1 \/ call'.filter = {})
          /\ below[i].step = "resolve" /\ below[i].exp.kind = "single"
          /\ \A r \in below[i].refs : RefOK(r) /\ r.name \in There' \cup Pending(below[i])
      BY <3>2, <1>5 DEF Waiting
    <3>4. /\ TodoOK(below[i])' /\ Origin(below[i], i > 1 \/ call.filter = {})'
          /\ \A r \in below[i].refs : RefOK(r)'
      BY <3>3, SameMeaning
    <3>5. RefsOK(below[i])'
      BY <3>3, <3>4 DEF RefsOK, Pending
    <3>6. QED
      BY <3>1, <3>3, <3>4, <3>5
  <2>3. QED
    BY <2>1, <2>2
<1>8. StackInv'
  BY <1>1, <1>7 DEF StackInv
<1>9. Top' = f /\ stack' # <<>>
  BY <1>1, <1>2, SeqFacts DEF Top, Last
<1>10. QED
  BY <1>5, <1>6, <1>8, <1>9

LEMMA NextCombinationKeeps ==
    ASSUME GenInv, NextCombination
    PROVE  GenInv'
<1>1. PICK c \in call.left :
         /\ call' = [call EXCEPT !.left = @ \ {c}]
         /\ \/ /\ Loads(c[1], c[2], call.filter)
               /\ Begin(<<>>, c[1], c[2])
               /\ written' = {}
               /\ outcome' = "busy"
            \/ ~Loads(c[1], c[2], call.filter) /\ Fails
  BY Zenon DEF NextCombination
<1>2. call # None /\ stack = <<>> /\ tree' = tree /\ disk' = disk /\ damaged' = damaged
  BY DEF NextCombination
<1>3. call = [filter |-> call.filter, left |-> call.left] /\ call.left \subseteq Combos /\ tree \in Trees
  BY <1>2 DEF GenInv, CallInv
<1>4. /\ call' = [filter |-> call.filter, left |-> call.left \ {c}] /\ call'.filter = call.filter
      /\ call'.left \subseteq Combos
  BY <1>1, <1>3
<1>5. call' # None
  BY <1>4 DEF None
<1>6. \A n : ~ HalfWritten(n)
  BY <1>2 DEF HalfWritten
<1>7. CASE ~Loads(c[1], c[2], call.filter) /\ Fails
  BY <1>2, <1>4, <1>6, <1>7, FailsKeeps
<1>8. CASE /\ Loads(c[1], c[2], call.filter)
           /\ Begin(<<>>, c[1], c[2])
           /\ written' = {}
           /\ outcome' = "busy"
  <2>1. PICK f : f = Frame(c[1], c[2], call.filter)
    OBVIOUS
  <2>2. stack' = Append(<<>>, f) /\ seen' = seen \cup {f.name}
    BY <1>8, <2>1 DEF Begin
  <2>3. IsSeq(c[1]) /\ c[1] # <<>>
    BY <1>3, ComboFacts
  <2>4. FreshFrame(f) /\ Origin(f, call.filter = {})
    BY <1>3, <1>8, <2>1, <2>3, FrameFacts
  <2>5. StackNames = {} /\ Len(<<>>) = 0 /\ 1 .. Len(<<>>) = {}
    BY <1>2, NothingNamed
  <2>6. /\ StackInv' /\ SeenInv' /\ There' = There \cup {f.name}
        /\ Top' = f /\ stack' # <<>>
    <3>1. PICK below : below = <<>>
      OBVIOUS
    <3>2. /\ IsSeq(below) /\ 1 .. Len(below) = {}
          /\ StackNames = {below[i].name : i \in 1 .. Len(below)}
      BY <2>5, <3>1, EmptyIsSeq
    <3>3. Origin(f, below # <<>> \/ call'.filter = {})
      BY <1>4, <2>4, <3>1
    <3>4. stack' = Append(below, f) /\ f.name \notin StackNames
      BY <2>2, <2>5, <3>1
    <3>5. QED
      BY <1>2, <2>2, <2>4, <3>2, <3>3, <3>4, BegunKeepsStack
  <2>7. CallInv'
    BY <1>2, <1>3, <1>4, <1>5, <1>8, <2>6, SameSources DEF CallInv
  <2>8. DiskInv'
    BY <1>2, <1>6, SameSources, SameMeaning DEF DiskInv, GenInv
  <2>9. WrittenInv'
    BY <1>8 DEF WrittenInv
  <2>10. QED
    BY <2>6, <2>7, <2>8, <2>9 DEF GenInv
<1>9. QED
  BY <1>1, <1>7, <1>8

LEMMA SetTopFacts ==
    ASSUME StackInv, stack # <<>>, NEW f
    PROVE  /\ IsSeq(SetTop(f)) /\ Len(SetTop(f)) = Len(stack) /\ SetTop(f) # <<>>
           /\ \A i \in 1 .. Len(stack) : SetTop(f)[i] = IF i = Len(stack) THEN f ELSE stack[i]
<1> DEFINE n == Len(stack)
           S == Range(stack) \cup {f}
<1>1. n \in Nat /\ n \in 1 .. n /\ DOMAIN stack = 1 .. n
  BY TopFacts
<1>2. \A i \in 1 .. n : stack[i] \in S
  BY <1>1 DEF Range
<1>3. stack = [i \in 1 .. n |-> stack[i]]
  BY SeqFacts DEF StackInv
<1>4. SetTop(f) = [i \in 1 .. n |-> IF i = n THEN f ELSE stack[i]]
  BY <1>1, <1>3 DEF SetTop
<1>5. SetTop(f) \in Seq(S) /\ Len(SetTop(f)) = n
  <2>1. n \in Nat /\ \A i \in 1 .. n : (IF i = n THEN f ELSE stack[i]) \in S
    BY <1>1, <1>2
  <2> HIDE DEF n, S
  <2>2. [i \in 1 .. n |-> IF i = n THEN f ELSE stack[i]] \in Seq(S)
    BY <2>1
  <2>3. Len([i \in 1 .. n |-> IF i = n THEN f ELSE stack[i]]) = n
    BY <2>1
  <2>4. QED
    BY <1>4, <2>2, <2>3
<1>6. IsSeq(SetTop(f))
  BY <1>5, TypedIsSeq
<1>7. SetTop(f) # <<>>
  BY <1>1, <1>5, <1>6, SeqFacts
<1>8. QED
  BY <1>4, <1>5, <1>6, <1>7

\* What is left to do of the one on top when a baseline has been looked at.
LEMMA LookedAtFacts ==
    ASSUME NEW f, IsFrame(f), TodoOK(f), f.step = "resolve", f.todo # <<>>, NEW g,
           g = [f EXCEPT !.todo = Tail(@)]
    PROVE  /\ IsFrame(g) /\ TodoOK(g) /\ g.name = f.name /\ g.exp = f.exp /\ g.infra = f.infra
           /\ g.refs = f.refs /\ g.step = "resolve" /\ f.exp.kind = "single" /\ RefTodo(Head(f.todo))
           /\ Pending(f) = Pending(g) \cup {SingleName(Head(f.todo)[1], Head(f.todo)[2])}
           /\ \A w : Origin(f, w) => Origin(g, w)
<1>1. f = [name |-> f.name, exp |-> f.exp, infra |-> f.infra, refs |-> f.refs,
            todo |-> f.todo, step |-> f.step]
  BY DEF IsFrame
<1>2. g = [name |-> f.name, exp |-> f.exp, infra |-> f.infra, refs |-> f.refs,
            todo |-> Tail(f.todo), step |-> f.step]
  BY <1>1
<1>3. IsSeq(f.todo) /\ \A j \in 1 .. Len(f.todo) : f.exp.kind = "single" /\ RefTodo(f.todo[j])
  BY DEF TodoOK
<1>4. Len(f.todo) \in Nat /\ Len(f.todo) > 0
  BY <1>3, SeqFacts
<1>5. /\ IsSeq(Tail(f.todo)) /\ Len(Tail(f.todo)) = Len(f.todo) - 1 /\ Head(f.todo) = f.todo[1]
      /\ \A i \in 1 .. Len(f.todo) - 1 : Tail(f.todo)[i] = f.todo[i + 1]
  BY <1>3, TailIsSeq
<1>6. /\ g.name = f.name /\ g.exp = f.exp /\ g.infra = f.infra /\ g.refs = f.refs
      /\ g.step = "resolve" /\ g.todo = Tail(f.todo)
  BY <1>2
<1>7. IsFrame(g)
  BY <1>2, <1>6 DEF IsFrame
<1>8. TodoOK(g)
  <2>1. \A j \in 1 .. Len(g.todo) : j + 1 \in 1 .. Len(f.todo) /\ g.todo[j] = f.todo[j + 1]
    BY <1>4, <1>5, <1>6
  <2>2. \A j \in 1 .. Len(g.todo) : g.exp.kind = "single" /\ RefTodo(g.todo[j])
    BY <1>3, <1>6, <2>1
  <2>3. QED
    BY <1>5, <1>6, <2>2 DEF TodoOK
<1>9. f.exp.kind = "single" /\ RefTodo(Head(f.todo))
  BY <1>3, <1>4, <1>5
<1>10. Pending(f) = Pending(g) \cup {SingleName(Head(f.todo)[1], Head(f.todo)[2])}
  <2>1. \A j \in 1 .. Len(f.todo) : j = 1 \/ (j - 1 \in 1 .. Len(g.todo) /\ f.todo[j] = g.todo[j - 1])
    BY <1>4, <1>5, <1>6
  <2>2. \A i \in 1 .. Len(g.todo) : i + 1 \in 1 .. Len(f.todo) /\ f.todo[i + 1] = g.todo[i]
    BY <1>4, <1>5, <1>6
  <2>3. 1 \in 1 .. Len(f.todo) /\ Head(f.todo) = f.todo[1]
    BY <1>4, <1>5
  <2>4. QED
    BY <2>1, <2>2, <2>3 DEF Pending
<1>11. \A w : Origin(f, w) => Origin(g, w)
  BY <1>6 DEF Origin
<1>12. QED
  BY <1>6, <1>7, <1>8, <1>9, <1>10, <1>11

\* What a stack frame is, for the one on top and those below it.
LEMMA FramesFacts ==
    ASSUME GenInv, NEW i \in 1 .. Len(stack)
    PROVE  /\ IsFrame(stack[i]) /\ TodoOK(stack[i]) /\ RefsOK(stack[i])
           /\ Origin(stack[i], i > 1 \/ call.filter = {})
           /\ i < Len(stack) => stack[i].step = "resolve" /\ stack[i].exp.kind = "single"
BY DEF GenInv, StackInv

LEMMA ResolveBaselineKeeps ==
    ASSUME GenInv, ResolveBaseline
    PROVE  GenInv'
<1>1. PICK f : f = Top
  OBVIOUS
<1>2. PICK g : g = [f EXCEPT !.todo = Tail(@)]
  OBVIOUS
<1>3. PICK rest : rest = SetTop(g)
  OBVIOUS
<1>4. PICK ref : ref = Head(f.todo)
  OBVIOUS
<1> DEFINE made == DeriveName("single", ref[1], ref[2]) \in seen \cup DOMAIN disk
           n == Len(stack)
<1>5. /\ stack # <<>> /\ f.step = "resolve" /\ f.todo # <<>>
      /\ \/ made /\ stack' = rest /\ UNCHANGED <<seen, written, outcome>>
         \/ ~made /\ Loads(ref[1], ref[2], {}) /\ Begin(rest, ref[1], ref[2])
            /\ UNCHANGED <<written, outcome>>
         \/ ~made /\ ~Loads(ref[1], ref[2], {}) /\ Fails
      /\ tree' = tree /\ disk' = disk /\ call' = call /\ damaged' = damaged
  BY <1>1, <1>2, <1>3, <1>4 DEF ResolveBaseline
<1>6. StackInv /\ tree \in Trees
  BY DEF GenInv, CallInv
<1>7. n \in Nat /\ n \in 1 .. n /\ f = stack[n]
  BY <1>1, <1>5, <1>6, TopFacts
<1>8. /\ IsFrame(f) /\ TodoOK(f) /\ RefsOK(f) /\ Origin(f, n > 1 \/ call.filter = {})
  BY <1>7, FramesFacts
<1>9. /\ IsFrame(g) /\ TodoOK(g) /\ g.name = f.name /\ g.exp = f.exp /\ g.infra = f.infra
      /\ g.refs = f.refs /\ g.step = "resolve" /\ f.exp.kind = "single" /\ RefTodo(ref)
      /\ Pending(f) = Pending(g) \cup {SingleName(ref[1], ref[2])}
      /\ \A w : Origin(f, w) => Origin(g, w)
  BY <1>2, <1>4, <1>5, <1>8, LookedAtFacts
<1>10. /\ IsSeq(rest) /\ Len(rest) = n /\ rest # <<>>
       /\ \A i \in 1 .. n : rest[i] = IF i = n THEN g ELSE stack[i]
  BY <1>3, <1>5, <1>6, SetTopFacts
<1>11. \A k : ~ HalfWritten(k)
  BY <1>1, <1>5 DEF HalfWritten
<1>12. /\ CallInv /\ SeenInv /\ DiskInv /\ WrittenInv /\ call # None /\ outcome = "busy"
       /\ \A i, j \in 1 .. n : stack[i].name = stack[j].name => i = j
       /\ StackNames \subseteq seen /\ seen \subseteq There /\ DOMAIN disk \subseteq There
  BY <1>5 DEF GenInv, CallInv, SeenInv, There
<1>13. DeriveName("single", ref[1], ref[2]) = SingleName(ref[1], ref[2])
  BY DeriveSingle
<1> HIDE DEF n
<1>14. ASSUME NEW name, SingleName(ref[1], ref[2]) \in There \cup {name}, NEW i \in 1 .. n
       PROVE  Waiting(rest[i], i, name, call.filter)
  <2>1. CASE i = n
    <3>1. rest[i] = g
      BY <1>10, <2>1
    <3>2. Origin(g, i > 1 \/ call.filter = {})
      BY <1>8, <1>9, <2>1
    <3>3. \A r \in g.refs : RefOK(r) /\ r.name \in There \cup Pending(g) \cup {name}
      BY <1>8, <1>9, <1>14 DEF RefsOK
    <3>4. QED
      BY <1>9, <3>1, <3>2, <3>3 DEF Waiting
  <2>2. CASE i # n
    <3>1. rest[i] = stack[i] /\ i < n
      BY <1>7, <1>10, <2>2
    <3>2. /\ IsFrame(stack[i]) /\ TodoOK(stack[i]) /\ RefsOK(stack[i])
          /\ Origin(stack[i], i > 1 \/ call.filter = {})
          /\ stack[i].step = "resolve" /\ stack[i].exp.kind = "single"
      BY <3>1, FramesFacts DEF n
    <3>3. QED
      BY <3>1, <3>2 DEF Waiting, RefsOK
  <2>3. QED
    BY <2>1, <2>2
<1>15. StackNames = {rest[i].name : i \in 1 .. n}
  <2>1. \A i \in 1 .. n : rest[i].name = stack[i].name
    BY <1>7, <1>9, <1>10
  <2>2. QED
    BY <2>1 DEF StackNames, n
<1>16. \A i, j \in 1 .. n : rest[i].name = rest[j].name => i = j
  BY <1>7, <1>9, <1>10, <1>12
<1>17. CASE made /\ stack' = rest /\ UNCHANGED <<seen, written, outcome>>
  <2>1. SingleName(ref[1], ref[2]) \in There
    BY <1>12, <1>13, <1>17
  <2>2. \A i \in 1 .. n : Waiting(rest[i], i, f.name, call.filter)
    BY <1>14, <2>1
  <2>3. StackNames' = StackNames /\ There' = There
    <3>1. StackNames' = StackNames
      BY <1>10, <1>15, <1>17 DEF StackNames
    <3>2. QED
      BY <1>5, <3>1 DEF There
  <2>4. f.name \in There
    BY <1>7, <1>12 DEF StackNames, n
  <2>5. StackInv'
    <3>1. ASSUME NEW i \in 1 .. n
          PROVE  /\ IsFrame(rest[i]) /\ TodoOK(rest[i])' /\ RefsOK(rest[i])'
                 /\ Origin(rest[i], i > 1 \/ call.filter = {})'
                 /\ rest[i].step = "resolve" /\ rest[i].exp.kind = "single"
      <4>1. Waiting(rest[i], i, f.name, call.filter)
        BY <2>2
      <4>2. /\ IsFrame(rest[i]) /\ TodoOK(rest[i]) /\ Origin(rest[i], i > 1 \/ call.filter = {})
            /\ rest[i].step = "resolve" /\ rest[i].exp.kind = "single"
            /\ \A r \in rest[i].refs : RefOK(r) /\ r.name \in There' \cup Pending(rest[i])
        BY <4>1, <2>3, <2>4 DEF Waiting
      <4>3. TodoOK(rest[i])' /\ \A r \in rest[i].refs : RefOK(r)'
        BY <1>5, <4>2, SameMeaning
      <4>4. Origin(rest[i], i > 1 \/ call'.filter = {})
        BY <1>5, <4>2
      <4>5. Origin(rest[i], i > 1 \/ call.filter = {})'
        BY <1>5, <4>4, SameMeaning
      <4>6. RefsOK(rest[i])'
        BY <4>2, <4>3 DEF RefsOK, Pending
      <4>7. QED
        BY <4>2, <4>3, <4>5, <4>6
    <3>2. stack' = rest /\ Len(stack') = n
      BY <1>10, <1>17
    <3>3. QED
      BY <1>10, <3>1, <3>2 DEF StackInv
  <2>6. SeenInv'
    BY <1>10, <1>12, <1>16, <1>17, <2>3 DEF SeenInv
  <2>7. CallInv'
    BY <1>5, <1>10, <1>12, <1>17, SameSources DEF CallInv
  <2>8. DiskInv'
    BY <1>5, <1>11, <1>12, SameSources, SameMeaning DEF DiskInv
  <2>9. WrittenInv'
    BY <1>5, <1>12, <1>17, <2>3, SameMeaning DEF WrittenInv
  <2>10. QED
    BY <2>5, <2>6, <2>7, <2>8, <2>9 DEF GenInv
<1>18. CASE ~made /\ Loads(ref[1], ref[2], {}) /\ Begin(rest, ref[1], ref[2])
            /\ UNCHANGED <<written, outcome>>
  <2>1. PICK h : h = Frame(ref[1], ref[2], {})
    OBVIOUS
  <2>2. stack' = Append(rest, h) /\ seen' = seen \cup {h.name}
    BY <1>10, <1>18, <2>1 DEF Begin
  <2>3. IsSeq(ref[1]) /\ ref[1] # <<>> /\ Root(ref[1]).kind = "single"
    BY <1>9, <1>18 DEF RefTodo
  <2>4. /\ FreshFrame(h) /\ Origin(h, {} = {}) /\ h.name = NameOf(<<ref[1], ref[2]>>)
    BY <1>6, <1>18, <2>1, <2>3, FrameFacts
  <2>5. h.name = SingleName(ref[1], ref[2])
    BY <1>13, <2>3, <2>4 DEF NameOf, KindOf
  <2>6. h.name \notin StackNames
    BY <1>12, <1>13, <1>18, <2>5
  <2>7. \A i \in 1 .. n : Waiting(rest[i], i, h.name, call'.filter)
    BY <1>5, <1>14, <2>5
  <2>8. Origin(h, rest # <<>> \/ call'.filter = {})
    BY <1>10, <2>4 DEF Origin
  <2>9. /\ StackInv' /\ SeenInv' /\ There' = There \cup {h.name} /\ Top' = h /\ stack' # <<>>
    BY <1>5, <1>10, <1>15, <1>16, <2>2, <2>4, <2>6, <2>7, <2>8, BegunKeepsStack
  <2>10. CallInv'
    BY <1>5, <1>12, <1>18, <2>9, SameSources DEF CallInv
  <2>11. DiskInv'
    BY <1>5, <1>11, <1>12, SameSources, SameMeaning DEF DiskInv
  <2>12. WrittenInv'
    BY <1>5, <1>12, <1>18, <2>9, SameMeaning DEF WrittenInv
  <2>13. QED
    BY <2>9, <2>10, <2>11, <2>12 DEF GenInv
<1>19. CASE ~made /\ ~Loads(ref[1], ref[2], {}) /\ Fails
  <2>1. call' # None => call' = [filter |-> call'.filter, left |-> call'.left] /\ call'.left \subseteq Combos
    BY <1>5, <1>12 DEF CallInv
  <2>2. QED
    BY <1>5, <1>11, <1>19, <2>1, FailsKeeps
<1>20. QED
  BY <1>5, <1>17, <1>18, <1>19

LEMMA FilesFacts ==
    ASSUME NEW name, NEW exp, NEW infra, disk' = Files(name, exp, infra)
    PROVE  /\ (DOMAIN disk)' = {name} \cup DOMAIN disk
           /\ disk'[name].exp = exp /\ disk'[name].infra = infra
           /\ \A n \in DOMAIN disk \ {name} : disk'[n] = disk[n]
<1> DEFINE new == [n \in {name} |-> [exp |-> exp, infra |-> infra]]
<1>1. disk' = Over(new, disk)
  BY DEF Files
<1>2. /\ (DOMAIN disk)' = DOMAIN new \cup DOMAIN disk
      /\ \A n \in DOMAIN new : disk'[n] = new[n]
      /\ \A n \in DOMAIN disk \ DOMAIN new : disk'[n] = disk[n]
  BY <1>1 DEF Over
<1>3. QED
  BY <1>2

LEMMA WriteExperimentKeeps ==
    ASSUME GenInv, WriteExperiment
    PROVE  GenInv'
<1>1. PICK f : f = Top
  OBVIOUS
<1>2. PICK g : g = [f EXCEPT !.step = "infra"]
  OBVIOUS
<1> DEFINE n == Len(stack)
<1>3. /\ stack # <<>> /\ f.step = "resolve" /\ f.todo = <<>>
      /\ disk' = Files(f.name, f.exp, InfraOf(f.name)) /\ stack' = SetTop(g)
      /\ tree' = tree /\ call' = call /\ seen' = seen /\ written' = written
      /\ damaged' = damaged /\ outcome' = outcome
  BY <1>1, <1>2 DEF WriteExperiment
<1>4. StackInv /\ CallInv /\ SeenInv /\ DiskInv /\ WrittenInv
  BY DEF GenInv
<1>5. n \in Nat /\ n \in 1 .. n /\ f = stack[n]
  BY <1>1, <1>3, <1>4, TopFacts
<1>6. IsFrame(f) /\ TodoOK(f) /\ RefsOK(f) /\ Origin(f, n > 1 \/ call.filter = {})
  BY <1>5, FramesFacts
<1>7. f = [name |-> f.name, exp |-> f.exp, infra |-> f.infra, refs |-> f.refs,
            todo |-> f.todo, step |-> f.step]
  BY <1>6 DEF IsFrame
<1>8. g = [name |-> f.name, exp |-> f.exp, infra |-> f.infra, refs |-> f.refs,
            todo |-> f.todo, step |-> "infra"]
  BY <1>2, <1>7
<1>9. /\ g.name = f.name /\ g.exp = f.exp /\ g.infra = f.infra /\ g.refs = f.refs
      /\ g.step = "infra" /\ g.todo = f.todo
  BY <1>8
<1>10. IsFrame(g)
  BY <1>3, <1>6, <1>8, <1>9 DEF IsFrame
<1>11. /\ IsSeq(stack') /\ Len(stack') = n /\ stack' # <<>>
       /\ \A i \in 1 .. n : stack'[i] = IF i = n THEN g ELSE stack[i]
  BY <1>3, <1>4, SetTopFacts
<1>12. /\ DOMAIN disk' = {f.name} \cup DOMAIN disk /\ disk'[f.name].exp = f.exp
       /\ \A k \in DOMAIN disk \ {f.name} : disk'[k] = disk[k]
  <2>1. PICK infra : infra = InfraOf(f.name)
    OBVIOUS
  <2>2. disk' = Files(f.name, f.exp, infra)
    BY <1>3, <2>1
  <2>3. QED
    BY <2>2, FilesFacts
<1>13. StackNames' = StackNames /\ There \subseteq There'
  <2>1. \A i \in 1 .. n : stack'[i].name = stack[i].name
    BY <1>5, <1>9, <1>11
  <2>2. StackNames' = StackNames
    BY <1>11, <2>1 DEF StackNames
  <2>3. QED
    BY <1>12, <2>2 DEF There
<1> HIDE DEF n
<1>14. ASSUME NEW i \in 1 .. n
       PROVE  /\ IsFrame(stack'[i]) /\ TodoOK(stack[i])' /\ RefsOK(stack[i])'
              /\ Origin(stack[i], i > 1 \/ call.filter = {})'
              /\ i < n => stack'[i].step = "resolve" /\ stack'[i].exp.kind = "single"
  <2>1. PICK h : h = stack'[i]
    OBVIOUS
  <2>2. PICK e : e = stack[i]
    OBVIOUS
  <2>3. /\ IsFrame(e) /\ TodoOK(e) /\ RefsOK(e) /\ Origin(e, i > 1 \/ call.filter = {})
        /\ i < n => e.step = "resolve" /\ e.exp.kind = "single"
    BY <2>2, FramesFacts DEF n
  <2>4. /\ h.name = e.name /\ h.exp = e.exp /\ h.infra = e.infra /\ h.refs = e.refs /\ h.todo = e.todo
    BY <1>5, <1>9, <1>10, <1>11, <2>1, <2>2, <2>3
  <2>5. IsFrame(h)
    BY <1>5, <1>10, <1>11, <2>1, <2>2, <2>3
  <2>6. i < n => h = e
    BY <1>5, <1>11, <2>1, <2>2
  <2>7. TodoOK(h) /\ Origin(h, i > 1 \/ call.filter = {}) /\ \A r \in h.refs : RefOK(r)
    BY <2>3, <2>4 DEF TodoOK, Origin, RefsOK
  <2>8. TodoOK(h)' /\ \A r \in h.refs : RefOK(r)'
    BY <1>3, <2>7, SameMeaning
  <2>9. Origin(h, i > 1 \/ call.filter = {})'
    <3>1. Origin(h, i > 1 \/ call'.filter = {})
      BY <1>3, <2>7
    <3>2. QED
      BY <1>3, <3>1, SameMeaning
  <2>10. \A r \in h.refs : r.name \in There' \cup Pending(h)
    BY <1>13, <2>3, <2>4 DEF RefsOK, Pending
  <2>11. RefsOK(h)'
    BY <2>8, <2>10 DEF RefsOK, Pending
  <2>12. QED
    BY <2>1, <2>3, <2>5, <2>6, <2>8, <2>9, <2>11
<1>15. StackInv'
  BY <1>11, <1>14 DEF StackInv
<1>16. SeenInv'
  <2>1. \A i, j \in 1 .. n : stack'[i].name = stack'[j].name => i = j
    BY <1>4, <1>5, <1>9, <1>11 DEF SeenInv, n
  <2>2. QED
    BY <1>3, <1>4, <1>11, <1>13, <2>1 DEF SeenInv
<1>17. CallInv'
  BY <1>3, <1>4, <1>11, SameSources DEF CallInv
<1>18. DiskInv'
  <2>1. Top' = g
    BY <1>5, <1>11, SeqFacts DEF Top, Last
  <2>2. \A k : HalfWritten(k)' <=> f.name = k
    BY <1>9, <1>11, <2>1 DEF HalfWritten
  <2>3. \A k : ~ HalfWritten(k)
    BY <1>1, <1>3 DEF HalfWritten
  <2>4. FileOK(f.exp)
    BY <1>6 DEF IsFrame
  <2>5. \A k \in DOMAIN disk' : FileOK(disk'[k].exp)
    BY <1>4, <1>12, <2>4 DEF DiskInv
  <2>6. ASSUME NEW k \in DOMAIN disk' \ damaged', ~ HalfWritten(k)'
        PROVE  \E c \in Combos : k = NameOf(c) /\ disk'[k].exp = FullFile(c) /\ disk'[k].infra = c[2]
    <3>1. k \in DOMAIN disk \ damaged /\ k # f.name
      BY <1>3, <1>12, <2>2, <2>6
    <3>2. disk'[k] = disk[k]
      BY <1>12, <3>1
    <3>3. QED
      BY <1>4, <2>3, <3>1, <3>2 DEF DiskInv
  <2>7. QED
    BY <1>3, <2>5, <2>6, SameSources, SameMeaning DEF DiskInv
<1>19. WrittenInv'
  BY <1>3, <1>4, <1>13, SameMeaning DEF WrittenInv
<1>20. QED
  BY <1>15, <1>16, <1>17, <1>18, <1>19 DEF GenInv

LEMMA WriteInfraKeeps ==
    ASSUME GenInv, WriteInfra
    PROVE  GenInv'
<1>1. PICK f : f = Top
  OBVIOUS
<1> DEFINE n == Len(stack)
<1>2. /\ stack # <<>> /\ f.step = "infra"
      /\ disk' = Files(f.name, f.exp, f.infra)
      /\ stack' = Front(stack)
      /\ seen' = IF n = 1 THEN {} ELSE seen
      /\ written' = written \cup {[name |-> f.name, refs |-> f.refs]}
      /\ damaged' = IF n = 1 /\ call.filter # {} THEN damaged \cup {f.name} ELSE damaged \ {f.name}
      /\ outcome' = IF n = 1 THEN "made" ELSE outcome
      /\ tree' = tree /\ call' = call
  BY <1>1 DEF WriteInfra
<1>3. StackInv /\ CallInv /\ SeenInv /\ DiskInv /\ WrittenInv
  BY DEF GenInv
<1>4. n \in Nat /\ n \in 1 .. n /\ f = stack[n]
  BY <1>1, <1>2, <1>3, TopFacts
<1>5. /\ IsFrame(f) /\ TodoOK(f) /\ RefsOK(f) /\ Origin(f, n > 1 \/ call.filter = {})
  BY <1>4, FramesFacts
<1>6. f.todo = <<>> /\ FileOK(f.exp)
  BY <1>2, <1>5 DEF IsFrame
<1>7. /\ DOMAIN disk' = {f.name} \cup DOMAIN disk
      /\ disk'[f.name].exp = f.exp /\ disk'[f.name].infra = f.infra
      /\ \A k \in DOMAIN disk \ {f.name} : disk'[k] = disk[k]
  BY <1>2, FilesFacts
<1>8. /\ IsSeq(stack') /\ Len(stack') = n - 1
      /\ \A i \in 1 .. n - 1 : stack'[i] = stack[i]
  <2>1. stack' = SubSeq(stack, 1, n - 1)
    BY <1>2 DEF Front
  <2>2. IsSeq(stack) /\ 1 \in 1 .. n + 1 /\ n - 1 \in Nat
    BY <1>3, <1>4 DEF StackInv
  <2>3. /\ IsSeq(SubSeq(stack, 1, n - 1)) /\ Len(SubSeq(stack, 1, n - 1)) = (n - 1) - 1 + 1
        /\ \A i \in 1 .. (n - 1) - 1 + 1 : SubSeq(stack, 1, n - 1)[i] = stack[1 + i - 1]
    <3>1. PICK s : s = stack
      OBVIOUS
    <3>2. PICK m \in Nat : m = n - 1
      BY <2>2
    <3>3. IsSeq(s) /\ 1 \in 1 .. Len(s) + 1 /\ m \in Nat /\ 1 <= m + 1 /\ m <= Len(s)
      BY <1>4, <2>2, <3>1, <3>2
    <3>4. /\ IsSeq(SubSeq(s, 1, m)) /\ Len(SubSeq(s, 1, m)) = m - 1 + 1
          /\ \A i \in 1 .. m - 1 + 1 : SubSeq(s, 1, m)[i] = s[1 + i - 1]
      BY <3>3, PartIsSeq
    <3>5. QED
      BY <3>1, <3>2, <3>4
  <2>4. \A i \in 1 .. n - 1 : SubSeq(stack, 1, n - 1)[i] = stack[i]
    BY <1>4, <2>3
  <2>5. Len(SubSeq(stack, 1, n - 1)) = n - 1
    BY <1>4, <2>3
  <2>6. QED
    BY <2>1, <2>3, <2>4, <2>5
<1> HIDE DEF n
<1>9. \A i \in 1 .. n - 1 : i \in 1 .. n /\ i # n /\ i < n
  BY <1>4
<1>10. There \subseteq There' /\ StackNames' \subseteq StackNames
  <2>1. StackNames = {stack[i].name : i \in 1 .. n}
    BY DEF StackNames, n
  <2>2. StackNames' = {stack[i].name : i \in 1 .. n - 1}
    BY <1>8 DEF StackNames
  <2>3. StackNames = StackNames' \cup {f.name}
    BY <1>4, <2>1, <2>2
  <2>4. QED
    BY <1>7, <2>3 DEF There
<1>11. \A r \in f.refs : RefOK(r) /\ r.name \in There
  <2>1. Pending(f) = {}
    <3>1. 1 .. Len(f.todo) = {}
      BY <1>6
    <3>2. QED
      BY <3>1 DEF Pending
  <2>2. QED
    BY <1>5, <2>1 DEF RefsOK
<1>12. outcome = "busy" /\ call # None
  BY <1>2, <1>3 DEF CallInv
<1>13. stack' # <<>> <=> n # 1
  BY <1>4, <1>8, SeqFacts
<1>14. StackInv'
  <2>1. ASSUME NEW i \in 1 .. n - 1
        PROVE  /\ IsFrame(stack'[i]) /\ TodoOK(stack[i])' /\ RefsOK(stack[i])'
               /\ Origin(stack[i], i > 1 \/ call.filter = {})'
               /\ i < n - 1 => stack'[i].step = "resolve" /\ stack'[i].exp.kind = "single"
    <3>1. PICK h : h = stack[i]
      OBVIOUS
    <3>2. h = stack'[i]
      BY <1>8, <3>1
    <3>3. /\ IsFrame(h) /\ TodoOK(h) /\ RefsOK(h) /\ Origin(h, i > 1 \/ call.filter = {})
          /\ h.step = "resolve" /\ h.exp.kind = "single"
      BY <1>9, <3>1, FramesFacts DEF n
    <3>4. TodoOK(h)' /\ \A r \in h.refs : RefOK(r)'
      BY <1>2, <3>3, SameMeaning DEF RefsOK
    <3>5. Origin(h, i > 1 \/ call.filter = {})'
      <4>1. Origin(h, i > 1 \/ call'.filter = {})
        BY <1>2, <3>3
      <4>2. QED
        BY <1>2, <4>1, SameMeaning
    <3>6. \A r \in h.refs : r.name \in There' \cup Pending(h)
      BY <1>10, <3>3 DEF RefsOK
    <3>7. RefsOK(h)'
      BY <3>4, <3>6 DEF RefsOK, Pending
    <3>8. QED
      BY <3>2, <3>3, <3>4, <3>5, <3>7
  <2>2. QED
    BY <1>8, <2>1 DEF StackInv
<1>15. SeenInv'
  <2>1. \A i, j \in 1 .. n - 1 : stack'[i].name = stack'[j].name => i = j
    BY <1>3, <1>8, <1>9 DEF SeenInv, n
  <2>2. StackNames \subseteq seen /\ seen \subseteq There
    BY <1>3 DEF SeenInv
  <2>3. CASE n = 1
    <3>1. StackNames' = {} /\ seen' = {}
      <4>1. stack' = <<>>
        BY <1>13, <2>3
      <4>2. seen' = {}
        BY <1>2, <2>3
      <4>3. QED
        BY <4>1, <4>2, NothingMade
    <3>2. QED
      BY <1>8, <2>1, <3>1 DEF SeenInv
  <2>4. CASE n # 1
    BY <1>2, <1>8, <1>10, <2>1, <2>2, <2>4 DEF SeenInv
  <2>5. QED
    BY <2>3, <2>4
<1>16. CallInv'
  BY <1>2, <1>3, <1>12, <1>13, SameSources DEF CallInv
<1>17. DiskInv'
  <2>1. \A k : ~ HalfWritten(k)'
    <3>1. CASE n = 1
      BY <1>13, <3>1 DEF HalfWritten
    <3>2. CASE n # 1
      <4>1. n - 1 \in 1 .. n - 1 /\ n - 1 < n
        BY <1>4, <3>2
      <4>2. stack'[n - 1].step = "resolve"
        BY <1>8, <1>9, <4>1, FramesFacts DEF n
      <4>3. Top' = stack'[n - 1]
        BY <1>8 DEF Top, Last
      <4>4. QED
        BY <4>2, <4>3 DEF HalfWritten
    <3>3. QED
      BY <3>1, <3>2
  <2>2. \A k \in DOMAIN disk' : FileOK(disk'[k].exp)
    BY <1>3, <1>6, <1>7 DEF DiskInv
  <2>3. ASSUME NEW k \in DOMAIN disk' \ damaged'
        PROVE  \E c \in Combos : k = NameOf(c) /\ disk'[k].exp = FullFile(c) /\ disk'[k].infra = c[2]
    <3>1. CASE k = f.name
      <4>1. n > 1 \/ call.filter = {}
        BY <1>2, <1>4, <2>3, <3>1
      <4>2. QED
        BY <1>5, <1>7, <3>1, <4>1 DEF Origin
    <3>2. CASE k # f.name
      <4>1. k \in DOMAIN disk \ damaged /\ disk'[k] = disk[k]
        BY <1>2, <1>7, <2>3, <3>2
      <4>2. ~ HalfWritten(k)
        BY <1>1, <3>2 DEF HalfWritten
      <4>3. QED
        BY <1>3, <4>1, <4>2 DEF DiskInv
    <3>3. QED
      BY <3>1, <3>2
  <2>4. QED
    BY <1>2, <2>2, <2>3, SameSources, SameMeaning DEF DiskInv
<1>18. WrittenInv'
  <2>1. \A w \in written : \A r \in w.refs : RefOK(r) /\ r.name \in There
    BY <1>3, <1>12 DEF WrittenInv
  <2>2. \A w \in written' : \A r \in w.refs : RefOK(r) /\ r.name \in There'
    BY <1>2, <1>10, <1>11, <2>1
  <2>3. QED
    BY <1>2, <2>2, SameMeaning DEF WrittenInv
<1>19. QED
  BY <1>14, <1>15, <1>16, <1>17, <1>18 DEF GenInv

\* What is left of a file whose writing was cut short.
LEMMA TornFiles ==
    ASSUME NEW exp, IsFile(exp), FileOK(exp), Whole(exp)
    PROVE  /\ FileOK(Torn) /\ FileOK(NoFile)
           /\ \A k \in 1 .. Len(exp.subs) - 1 : FileOK([exp EXCEPT !.subs = SubSeq(@, 1, k)])
<1>1. FileOK(Torn) /\ FileOK(NoFile)
  BY DEF FileOK, Whole, Torn, NoFile
<1>2. ASSUME NEW k \in 1 .. Len(exp.subs) - 1
      PROVE  FileOK([exp EXCEPT !.subs = SubSeq(@, 1, k)])
  <2>1. PICK part : part = SubSeq(exp.subs, 1, k)
    OBVIOUS
  <2>2. PICK e : e = [exp EXCEPT !.subs = part]
    OBVIOUS
  <2>3. /\ e.kind = exp.kind /\ e.nodes = exp.nodes /\ e.flows = exp.flows /\ e.subs = part
    BY <2>2 DEF IsFile
  <2>4. IsSeq(exp.subs) /\ \A s \in Range(exp.subs) : IsSeq(s.links)
    BY DEF FileOK
  <2>5. Len(exp.subs) \in Nat /\ k \in Nat /\ 1 <= k + 1 /\ k <= Len(exp.subs) /\ 1 \in 1 .. Len(exp.subs) + 1
    BY <2>4, SeqFacts
  <2>6. IsSeq(part) /\ Len(part) = k - 1 + 1 /\ Range(part) \subseteq Range(exp.subs)
    BY <2>1, <2>4, <2>5, PartIsSeq
  <2>7. part # <<>>
    BY <2>5, <2>6, SeqFacts
  <2>8. FileOK(e)
    BY <2>3, <2>4, <2>6, <2>7 DEF FileOK, Whole
  <2>9. QED
    BY <2>1, <2>2, <2>8
<1>3. QED
  BY <1>1, <1>2

LEMMA KilledKeeps ==
    ASSUME GenInv, Killed
    PROVE  GenInv'
<1>1. PICK f : f = Top
  OBVIOUS
<1>2. /\ call' = None /\ stack' = <<>> /\ seen' = {} /\ outcome' = "killed" /\ tree' = tree
      /\ \/ disk' = disk
            /\ damaged' = IF stack # <<>> /\ f.step = "infra" THEN damaged \cup {f.name} ELSE damaged
         \/ /\ stack # <<>>
            /\ damaged' = damaged \cup {f.name}
            /\ \/ disk' = Files(f.name, f.exp, TornInfra)
               \/ \E file \in {Torn} \cup {[f.exp EXCEPT !.subs = SubSeq(@, 1, k)] :
                                               k \in 1 .. Len(f.exp.subs) - 1} :
                      disk' = Files(f.name, file, InfraOf(f.name))
               \/ disk' = Files(f.name, NoFile, None)
  BY <1>1, Zenon DEF Killed
<1>3. StackInv' /\ SeenInv'
  BY <1>2, NothingMade
<1>4. CallInv'
  BY <1>2, SameSources DEF CallInv, GenInv
<1>5. WrittenInv'
  BY <1>2 DEF WrittenInv
<1>6. \A k : HalfWritten(k) <=> stack # <<>> /\ f.step = "infra" /\ f.name = k
  BY <1>1 DEF HalfWritten
<1>7. DiskInv
  BY DEF GenInv
<1>8. \A k : ~ HalfWritten(k)'
  BY <1>2 DEF HalfWritten
<1>9. CASE disk' = disk
            /\ damaged' = IF stack # <<>> /\ f.step = "infra" THEN damaged \cup {f.name} ELSE damaged
  <2>1. \A k \in DOMAIN disk \ damaged' : k \in DOMAIN disk \ damaged /\ ~ HalfWritten(k)
    BY <1>6, <1>9
  <2>2. QED
    BY <1>2, <1>3, <1>4, <1>5, <1>7, <1>9, <2>1, SameSources, SameMeaning DEF DiskInv, GenInv
<1>10. CASE /\ stack # <<>>
            /\ damaged' = damaged \cup {f.name}
            /\ \/ disk' = Files(f.name, f.exp, TornInfra)
               \/ \E file \in {Torn} \cup {[f.exp EXCEPT !.subs = SubSeq(@, 1, k)] :
                                               k \in 1 .. Len(f.exp.subs) - 1} :
                      disk' = Files(f.name, file, InfraOf(f.name))
               \/ disk' = Files(f.name, NoFile, None)
  <2>1. StackInv
    BY DEF GenInv
  <2>2. IsFrame(f)
    BY <1>1, <1>10, <2>1, TopFacts, FramesFacts
  <2>3. IsFile(f.exp) /\ FileOK(f.exp) /\ Whole(f.exp)
    BY <2>2 DEF IsFrame
  <2>4. PICK exp, infra : FileOK(exp) /\ disk' = Files(f.name, exp, infra)
    <3>1. CASE disk' = Files(f.name, f.exp, TornInfra)
      BY <2>3, <3>1
    <3>2. CASE \E file \in {Torn} \cup {[f.exp EXCEPT !.subs = SubSeq(@, 1, k)] :
                                           k \in 1 .. Len(f.exp.subs) - 1} :
                  disk' = Files(f.name, file, InfraOf(f.name))
      <4>1. PICK file \in {Torn} \cup {[f.exp EXCEPT !.subs = SubSeq(@, 1, k)] :
                                          k \in 1 .. Len(f.exp.subs) - 1} :
                  disk' = Files(f.name, file, InfraOf(f.name))
        BY <3>2
      <4>2. FileOK(file)
        BY <2>3, TornFiles
      <4>3. QED
        BY <4>1, <4>2
    <3>3. CASE disk' = Files(f.name, NoFile, None)
      BY <2>3, <3>3, TornFiles
    <3>4. QED
      BY <1>10, <3>1, <3>2, <3>3
  <2>5. /\ DOMAIN disk' = {f.name} \cup DOMAIN disk /\ disk'[f.name].exp = exp
        /\ \A k \in DOMAIN disk \ {f.name} : disk'[k] = disk[k]
    BY <2>4, FilesFacts
  <2>6. \A k \in DOMAIN disk' : FileOK(disk'[k].exp)
    BY <1>7, <2>4, <2>5 DEF DiskInv
  <2>7. ASSUME NEW k \in DOMAIN disk' \ damaged'
        PROVE  \E c \in Combos : k = NameOf(c) /\ disk'[k].exp = FullFile(c) /\ disk'[k].infra = c[2]
    <3>1. k \in DOMAIN disk \ damaged /\ disk'[k] = disk[k] /\ ~ HalfWritten(k)
      BY <1>6, <1>10, <2>5, <2>7
    <3>2. QED
      BY <1>7, <3>1 DEF DiskInv
  <2>8. DiskInv'
    BY <1>2, <2>6, <2>7, SameSources, SameMeaning DEF DiskInv
  <2>9. QED
    BY <1>3, <1>4, <1>5, <2>8 DEF GenInv
<1>11. QED
  BY <1>2, <1>9, <1>10

LEMMA NextKeepsGenInv ==
    ASSUME GenInv, [Next]_vars
    PROVE  GenInv'
<1>1. CASE UNCHANGED genVars
  BY <1>1, StutterKeepsGenInv
<1>2. CASE GenNext
  BY <1>2, CallKeeps, NextCombinationKeeps, EndCallKeeps, ResolveBaselineKeeps,
     WriteExperimentKeeps, WriteInfraKeeps, KilledKeeps, EditKeeps DEF GenNext
<1>3. CASE ~ GenNext /\ Next
  BY <1>1, <1>3
  DEF Next, Deploy, NodeStart, NodeStops, OrchestratorStart, Run, NextSub, OrchestratorFails
<1>4. QED
  BY <1>1, <1>2, <1>3 DEF vars

\* The invariant of the generator: what is being made, what the cycle guard knows, what is on
\* disk and what was written fit together in every state of every scenario.
THEOREM GeneratorInvariant == Spec => []GenInv
BY InitGenInv, NextKeepsGenInv, PTL DEF Spec

LEMMA GenInvImpliesBaselinesResolve ==
    ASSUME GenInv
    PROVE  BaselinesResolve
<1>1. ASSUME NEW i \in DOMAIN stack, NEW j \in DOMAIN stack, stack[i].name = stack[j].name
      PROVE  i = j
  BY <1>1, SeqFacts DEF GenInv, StackInv, SeenInv
<1>2. ASSUME outcome = "made", NamesAreDistinct, NEW w \in written, NEW ref \in w.refs
      PROVE  /\ ref.name \in DOMAIN disk
             /\ ref.real /\ ref.name \notin damaged =>
                   /\ disk[ref.name].infra \notin {None, TornInfra}
                   /\ ref.sub \in Names(disk[ref.name].exp.subs)
  <2>1. stack = <<>> /\ tree \in Trees
    BY <1>2 DEF GenInv, CallInv
  <2>2. RefOK(ref) /\ ref.name \in DOMAIN disk
    BY <1>2, <2>1, NothingNamed DEF GenInv, WrittenInv
  <2>3. ASSUME ref.real, ref.name \notin damaged
        PROVE  /\ disk[ref.name].infra \notin {None, TornInfra}
               /\ ref.sub \in Names(disk[ref.name].exp.subs)
    <3>1. PICK c \in Combos : KindOf(c) = "single" /\ ref.name = NameOf(c) /\ ref.sub \in Names(SubsOf(c))
      BY <2>2, <2>3 DEF RefOK
    <3>2. ~ HalfWritten(ref.name)
      BY <2>1 DEF HalfWritten
    <3>3. PICK d \in Combos : /\ ref.name = NameOf(d) /\ disk[ref.name].exp = FullFile(d)
                              /\ disk[ref.name].infra = d[2]
      BY <2>2, <2>3, <3>2 DEF GenInv, DiskInv
    <3>4. c = d
      BY <1>2, <3>1, <3>3 DEF NamesAreDistinct, NameOf, KindOf, Combos
    <3>5. FullFile(c).subs = SubsOf(c)
      BY <3>1, FileFacts DEF FullFile
    <3>6. IsSeq(d[2]) /\ Len(d[2]) = 2
      BY <2>1, ComboFacts
    <3>7. d[2] # None /\ d[2] # TornInfra
      <4>1. Len(<<>>) = 0 /\ Len(<<"torn">>) = 1
        OBVIOUS
      <4>2. PICK p : p = d[2]
        OBVIOUS
      <4>3. Len(p) = 2
        BY <3>6, <4>2
      <4>4. p # <<>> /\ p # <<"torn">>
        BY <4>1, <4>3
      <4>5. QED
        BY <4>2, <4>4 DEF None, TornInfra
    <3>8. QED
      BY <3>1, <3>3, <3>4, <3>5, <3>7
  <2>4. QED
    BY <2>2, <2>3
<1>3. QED
  BY <1>1, <1>2 DEF BaselinesResolve

\* When a combination is made, every baseline that it, or a baseline made for it, refers to is
\* there, with the sub-experiment it names and both files unless the directory was damaged, and
\* the recursion of resolve_baseline never makes one experiment twice.
THEOREM BaselinesAlwaysResolve == Spec => []BaselinesResolve
BY GeneratorInvariant, GenInvImpliesBaselinesResolve, PTL

-----------------------------------------------------------------------------
(* The invariant of deployments and runs.                                  *)

\* What may happen to a container of an orchestrator, and of a node, that stays.
OrchStep(c, d) ==
    /\ IsOrch(d) /\ d.name = c.name
    /\ c.state = "exited" => d.state = "exited"
    /\ d.state = "created" => d.sub = 1
    /\ d.state = "running" =>
          /\ Runnable(d)
          /\ \/ c.state = "running" /\ d.exp = c.exp
             \/ d.exp = disk[c.name].exp

NodeStep(c, d) ==
    /\ IsNode(d) /\ d.def = c.def
    /\ d.up => \/ c.up /\ d.exp = c.exp
               \/ d.exp = disk[c.def[1]].exp

LEMMA ContainersKeep ==
    ASSUME DeployInv, disk' = disk, target' = target, touched' = touched,
           node' = [n \in DOMAIN node |-> node'[n]],
           \A n \in DOMAIN node : NodeStep(node[n], node'[n]),
           orch' = [o \in DOMAIN orch |-> orch'[o]],
           \A o \in DOMAIN orch : OrchStep(orch[o], orch'[o])
    PROVE  DeployInv'
<1>1. DOMAIN node' = DOMAIN node /\ DOMAIN orch' = DOMAIN orch
  OBVIOUS
<1>2. ShapeInv /\ FileInv /\ DockerInv /\ RunningInv
  BY DEF DeployInv
<1>3. /\ \A n \in DOMAIN node : node'[n].def = node[n].def
      /\ \A o \in DOMAIN orch : orch'[o].name = orch[o].name
  BY DEF NodeStep, OrchStep
<1>4. ShapeInv'
  BY <1>1, <1>2 DEF ShapeInv, NodeStep, OrchStep
<1>5. FileInv'
  <2>1. InUse' = InUse
    BY <1>1, <1>3 DEF InUse
  <2>2. \A n \in DOMAIN node : node'[n].up /\ node[n].def[1] \notin touched =>
           node'[n].exp = disk[node[n].def[1]].exp
    BY <1>2 DEF FileInv, NodeStep
  <2>3. \A o \in DOMAIN orch : orch[o].name \notin touched =>
           /\ Valid(disk[orch[o].name].exp)
           /\ orch'[o].state = "running" => orch'[o].exp = disk[orch[o].name].exp
    BY <1>2 DEF FileInv, OrchStep, Running
  <2>4. QED
    BY <1>1, <1>2, <1>3, <2>1, <2>2, <2>3 DEF FileInv, Running
<1>6. DockerInv'
  BY <1>1, <1>2, <1>3 DEF DockerInv, OrchStep
<1>7. RunningInv'
  BY <1>1 DEF RunningInv, OrchStep, Running
<1>8. QED
  BY <1>4, <1>5, <1>6, <1>7 DEF DeployInv

\* Containers that are left alone.
LEMMA SameNodes ==
    ASSUME DeployInv, node' = node
    PROVE  /\ node' = [n \in DOMAIN node |-> node'[n]]
           /\ \A n \in DOMAIN node : NodeStep(node[n], node'[n])
<1>1. /\ node = [n \in DOMAIN node |-> node[n]]
      /\ \A n \in DOMAIN node : IsNode(node[n])
  BY DEF DeployInv, ShapeInv
<1>2. QED
  BY <1>1 DEF NodeStep

LEMMA SameOrch ==
    ASSUME DeployInv, NEW o \in DOMAIN orch
    PROVE  OrchStep(orch[o], orch[o])
<1>1. IsOrch(orch[o])
  BY DEF DeployInv, ShapeInv
<1>2. QED
  BY <1>1 DEF OrchStep, DeployInv, RunningInv, Running

\* One orchestrator's container changes.
LEMMA OneOrch ==
    ASSUME DeployInv, NEW o \in DOMAIN orch, NEW d, orch' = [orch EXCEPT ![o] = d], OrchStep(orch[o], d)
    PROVE  /\ orch' = [q \in DOMAIN orch |-> orch'[q]]
           /\ \A q \in DOMAIN orch : OrchStep(orch[q], orch'[q])
<1>1. orch = [q \in DOMAIN orch |-> orch[q]]
  BY DEF DeployInv, ShapeInv
<1>2. orch' = [q \in DOMAIN orch |-> IF q = o THEN d ELSE orch[q]]
  BY <1>1
<1>3. \A q \in DOMAIN orch : OrchStep(orch[q], orch'[q])
  BY <1>2, SameOrch
<1>4. QED
  BY <1>2, <1>3

LEMMA ExitStep ==
    ASSUME DeployInv, NEW o \in DOMAIN orch, Exit(o)
    PROVE  /\ orch' = [q \in DOMAIN orch |-> orch'[q]]
           /\ \A q \in DOMAIN orch : OrchStep(orch[q], orch'[q])
<1>1. PICK d : d = [orch[o] EXCEPT !.state = "exited"]
  OBVIOUS
<1>2. orch' = [orch EXCEPT ![o] = d]
  BY <1>1 DEF Exit
<1>3. IsOrch(orch[o])
  BY DEF DeployInv, ShapeInv
<1>4. IsOrch(d) /\ d.name = orch[o].name /\ d.state = "exited"
  BY <1>1, <1>3 DEF IsOrch
<1>5. OrchStep(orch[o], d)
  BY <1>4 DEF OrchStep
<1>6. QED
  BY <1>2, <1>5, OneOrch

LEMMA InitDeployInv ==
    ASSUME Init
    PROVE  DeployInv
<1>1. node = << >> /\ orch = << >> /\ target \in {"docker", "k8s"}
  BY DEF Init
<1>2. DOMAIN node = {} /\ DOMAIN orch = {} /\ IsFiniteSet(DOMAIN node)
  BY <1>1, FS_EmptySet
<1>3. node = [n \in DOMAIN node |-> node[n]] /\ orch = [o \in DOMAIN orch |-> orch[o]]
  BY <1>1, <1>2
<1>4. InUse = {}
  BY <1>2 DEF InUse
<1>5. QED
  BY <1>1, <1>2, <1>3, <1>4
  DEF DeployInv, ShapeInv, FileInv, DockerInv, RunningInv

\* A directory that is there stays.
LEMMA DirectoriesStay ==
    ASSUME GenNext
    PROVE  DOMAIN disk \subseteq (DOMAIN disk)'
<1>1. CASE disk' = disk
  BY <1>1
<1>2. CASE \E name, exp, infra : disk' = Files(name, exp, infra)
  BY <1>2, FilesFacts
<1>3. disk' = disk \/ \E name, exp, infra : disk' = Files(name, exp, infra)
  <2>1. Killed => disk' = disk \/ \E name, exp, infra : disk' = Files(name, exp, infra)
    BY Zenon DEF Killed
  <2>2. WriteExperiment \/ WriteInfra => \E name, exp, infra : disk' = Files(name, exp, infra)
    BY DEF WriteExperiment, WriteInfra
  <2>3. Call \/ NextCombination \/ EndCall \/ ResolveBaseline \/ Edit => disk' = disk
    BY DEF Call, NextCombination, EndCall, ResolveBaseline, Edit
  <2>4. QED
    BY <2>1, <2>2, <2>3 DEF GenNext
<1>4. QED
  BY <1>1, <1>2, <1>3

LEMMA GenStepKeeps ==
    ASSUME DeployInv, DOMAIN disk \subseteq (DOMAIN disk)',
           touched' = touched \cup {e \in InUse : disk'[e].exp # disk[e].exp},
           UNCHANGED <<target, node, orch>>
    PROVE  DeployInv'
<1>1. ShapeInv /\ FileInv /\ DockerInv /\ RunningInv
  BY DEF DeployInv
<1>2. InUse' = InUse
  BY DEF InUse
<1>3. /\ \A n \in DOMAIN node : node[n].def[1] \in InUse
      /\ \A o \in DOMAIN orch : orch[o].name \in InUse
  BY DEF InUse
<1>4. \A e \in InUse : e \notin touched' => e \notin touched /\ disk'[e].exp = disk[e].exp
  OBVIOUS
<1>5. ShapeInv'
  BY <1>1 DEF ShapeInv
<1>6. FileInv'
  BY <1>1, <1>2, <1>3, <1>4 DEF FileInv, Running
<1>7. DockerInv'
  BY <1>1, <1>3, <1>4 DEF DockerInv
<1>8. RunningInv'
  BY <1>1 DEF RunningInv, Running
<1>9. QED
  BY <1>5, <1>6, <1>7, <1>8 DEF DeployInv

LEMMA NodeStartKeeps ==
    ASSUME DeployInv, NodeStart
    PROVE  DeployInv'
<1>1. PICK n \in DOMAIN node :
         node' = [node EXCEPT ![n].up = TRUE, ![n].exp = disk[node[n].def[1]].exp,
                              ![n].in = << >>, ![n].out = << >>]
  BY DEF NodeStart
<1>2. /\ disk' = disk /\ target' = target /\ touched' = touched /\ orch' = orch
  BY DEF NodeStart, genVars
<1>3. node = [m \in DOMAIN node |-> node[m]] /\ \A m \in DOMAIN node : IsNode(node[m])
  BY DEF DeployInv, ShapeInv
<1>4. node' = [m \in DOMAIN node |-> node'[m]]
  BY <1>1
<1>5. ASSUME NEW m \in DOMAIN node PROVE NodeStep(node[m], node'[m])
  <2>1. IsNode(node[m])
    BY <1>3
  <2>2. CASE m = n
    <3>1. node'[m] = [def |-> node[m].def, up |-> TRUE, exp |-> disk[node[m].def[1]].exp,
                      in |-> << >>, out |-> << >>]
      BY <1>1, <2>1, <2>2 DEF IsNode
    <3>2. QED
      BY <3>1 DEF NodeStep, IsNode
  <2>3. CASE m # n
    BY <1>1, <2>1, <2>3 DEF NodeStep
  <2>4. QED
    BY <2>2, <2>3
<1>6. orch' = [o \in DOMAIN orch |-> orch'[o]]
  BY <1>2 DEF DeployInv, ShapeInv
<1>7. \A o \in DOMAIN orch : OrchStep(orch[o], orch'[o])
  BY <1>2, SameOrch
<1>8. QED
  BY <1>2, <1>4, <1>5, <1>6, <1>7, ContainersKeep

LEMMA NodeStopsKeeps ==
    ASSUME DeployInv, NodeStops
    PROVE  DeployInv'
<1>1. PICK n \in DOMAIN node : node' = [node EXCEPT ![n].up = FALSE]
  BY DEF NodeStops
<1>2. /\ disk' = disk /\ target' = target /\ touched' = touched /\ orch' = orch
  BY DEF NodeStops, genVars
<1>3. node = [m \in DOMAIN node |-> node[m]] /\ \A m \in DOMAIN node : IsNode(node[m])
  BY DEF DeployInv, ShapeInv
<1>4. node' = [m \in DOMAIN node |-> node'[m]]
  BY <1>1
<1>5. ASSUME NEW m \in DOMAIN node PROVE NodeStep(node[m], node'[m])
  <2>1. IsNode(node[m])
    BY <1>3
  <2>2. CASE m = n
    <3>1. node'[m] = [def |-> node[m].def, up |-> FALSE, exp |-> node[m].exp,
                      in |-> node[m].in, out |-> node[m].out]
      BY <1>1, <2>1, <2>2 DEF IsNode
    <3>2. QED
      BY <3>1 DEF NodeStep, IsNode
  <2>3. CASE m # n
    BY <1>1, <2>1, <2>3 DEF NodeStep
  <2>4. QED
    BY <2>2, <2>3
<1>6. orch' = [o \in DOMAIN orch |-> orch'[o]]
  BY <1>2 DEF DeployInv, ShapeInv
<1>7. \A o \in DOMAIN orch : OrchStep(orch[o], orch'[o])
  BY <1>2, SameOrch
<1>8. QED
  BY <1>2, <1>4, <1>5, <1>6, <1>7, ContainersKeep

LEMMA OrchestratorStartKeeps ==
    ASSUME DeployInv, GenInv, OrchestratorStart
    PROVE  DeployInv'
<1>1. PICK o \in DOMAIN orch :
         LET exp == disk[orch[o].name].exp IN
         /\ orch[o].state = "created"
         /\ IF Valid(exp) /\ exp.kind # "opt"
            THEN orch' = [orch EXCEPT ![o].state = "running", ![o].exp = exp,
                                      ![o].client = IF exp.llama THEN DatasetOf(exp, 1) ELSE None]
            ELSE Exit(o)
  BY DEF OrchestratorStart
<1>2. /\ disk' = disk /\ target' = target /\ touched' = touched /\ node' = node
  BY DEF OrchestratorStart, genVars
<1>3. /\ IsOrch(orch[o]) /\ orch[o].sub = 1 /\ orch[o].name \in DOMAIN disk
  BY <1>1 DEF DeployInv, ShapeInv, RunningInv, FileInv, InUse
<1>4. PICK exp : exp = disk[orch[o].name].exp
  OBVIOUS
<1>5. PICK client : client = IF exp.llama THEN DatasetOf(exp, 1) ELSE None
  OBVIOUS
<1>6. FileOK(exp)
  BY <1>3, <1>4 DEF GenInv, DiskInv
<1>7. /\ orch' = [q \in DOMAIN orch |-> orch'[q]]
      /\ \A q \in DOMAIN orch : OrchStep(orch[q], orch'[q])
  <2>1. CASE Valid(exp) /\ exp.kind # "opt"
    <3>1. PICK d : d = [orch[o] EXCEPT !.state = "running", !.exp = exp, !.client = client]
      OBVIOUS
    <3>2. orch' = [orch EXCEPT ![o] = d]
      BY <1>1, <1>4, <1>5, <2>1, <3>1
    <3>3. d = [name |-> orch[o].name, state |-> "running", exp |-> exp, client |-> client,
               sub |-> 1, run |-> orch[o].run]
      BY <1>3, <3>1 DEF IsOrch
    <3>4. Len(exp.subs) \in Nat /\ Len(exp.subs) > 0
      BY <1>6, <2>1, SeqFacts DEF FileOK, Valid
    <3>5. Runnable(d)
      BY <1>6, <2>1, <3>3, <3>4 DEF Runnable
    <3>6. OrchStep(orch[o], d)
      BY <1>1, <1>4, <3>3, <3>5 DEF OrchStep, IsOrch
    <3>7. QED
      BY <3>2, <3>6, OneOrch
  <2>2. CASE ~ (Valid(exp) /\ exp.kind # "opt")
    BY <1>1, <1>4, <2>2, ExitStep
  <2>3. QED
    BY <2>1, <2>2
<1>8. QED
  BY <1>2, <1>7, SameNodes, ContainersKeep

LEMMA NextSubKeeps ==
    ASSUME DeployInv, NextSub
    PROVE  DeployInv'
<1>1. PICK o \in DOMAIN orch :
         /\ Running(o)
         /\ IF orch[o].sub = Len(orch[o].exp.subs) THEN Exit(o)
            ELSE orch' = [orch EXCEPT ![o].sub = @ + 1, ![o].run = 1]
  BY DEF NextSub
<1>2. /\ disk' = disk /\ target' = target /\ touched' = touched /\ node' = node
  BY DEF NextSub, genVars
<1>3. IsOrch(orch[o]) /\ Runnable(orch[o]) /\ orch[o].state = "running"
  BY <1>1 DEF DeployInv, ShapeInv, RunningInv, Running
<1>4. /\ orch' = [q \in DOMAIN orch |-> orch'[q]]
      /\ \A q \in DOMAIN orch : OrchStep(orch[q], orch'[q])
  <2>1. CASE orch[o].sub = Len(orch[o].exp.subs)
    BY <1>1, <2>1, ExitStep
  <2>2. CASE orch[o].sub # Len(orch[o].exp.subs)
    <3>1. PICK d : d = [orch[o] EXCEPT !.sub = @ + 1, !.run = 1]
      OBVIOUS
    <3>2. orch' = [orch EXCEPT ![o] = d]
      BY <1>1, <2>2, <3>1
    <3>3. d = [name |-> orch[o].name, state |-> "running", exp |-> orch[o].exp,
               client |-> orch[o].client, sub |-> orch[o].sub + 1, run |-> 1]
      BY <1>3, <3>1 DEF IsOrch
    <3>4. Len(orch[o].exp.subs) \in Nat
      BY <1>3, SeqFacts DEF Runnable, Valid, FileOK
    <3>5. Runnable(d)
      BY <1>3, <2>2, <3>3, <3>4 DEF Runnable
    <3>6. OrchStep(orch[o], d)
      BY <1>3, <3>3, <3>5 DEF OrchStep, IsOrch
    <3>7. QED
      BY <3>2, <3>6, OneOrch
  <2>3. QED
    BY <2>1, <2>2
<1>5. QED
  BY <1>2, <1>4, SameNodes, ContainersKeep

LEMMA OrchestratorFailsKeeps ==
    ASSUME DeployInv, OrchestratorFails
    PROVE  DeployInv'
<1>1. PICK o \in DOMAIN orch : Exit(o)
  BY DEF OrchestratorFails
<1>2. /\ disk' = disk /\ target' = target /\ touched' = touched /\ node' = node
  BY DEF OrchestratorFails, genVars
<1>3. QED
  BY <1>1, <1>2, ExitStep, SameNodes, ContainersKeep

LEMMA PushFacts ==
    ASSUME DeployInv, NEW run, NEW n \in DOMAIN node
    PROVE  Push(run)[n] = [def |-> node[n].def, up |-> node[n].up, exp |-> node[n].exp,
                           in |-> Over(Told(run, n, 3), node[n].in),
                           out |-> Over(Told(run, n, 2), node[n].out)]
<1>1. IsNode(node[n])
  BY DEF DeployInv, ShapeInv
<1>2. PICK in, out : in = Over(Told(run, n, 3), node[n].in) /\ out = Over(Told(run, n, 2), node[n].out)
  OBVIOUS
<1>3. Push(run)[n] = [node[n] EXCEPT !.out = out, !.in = in]
  BY <1>2 DEF Push
<1>4. QED
  BY <1>1, <1>2, <1>3 DEF IsNode

LEMMA RunKeeps ==
    ASSUME DeployInv, Run
    PROVE  DeployInv'
<1>1. PICK o \in DOMAIN orch :
         /\ Running(o)
         /\ node' = node \/ node' = Push(Runs(o)[orch[o].run])
         /\ orch' = [orch EXCEPT ![o].run = @ + 1]
  BY DEF Run
<1>2. /\ disk' = disk /\ target' = target /\ touched' = touched
  BY DEF Run, genVars
<1>3. IsOrch(orch[o]) /\ Runnable(orch[o]) /\ orch[o].state = "running"
  BY <1>1 DEF DeployInv, ShapeInv, RunningInv, Running
<1>4. /\ orch' = [q \in DOMAIN orch |-> orch'[q]]
      /\ \A q \in DOMAIN orch : OrchStep(orch[q], orch'[q])
  <2>1. PICK d : d = [orch[o] EXCEPT !.run = @ + 1]
    OBVIOUS
  <2>2. orch' = [orch EXCEPT ![o] = d]
    BY <1>1, <2>1
  <2>3. d = [name |-> orch[o].name, state |-> "running", exp |-> orch[o].exp,
             client |-> orch[o].client, sub |-> orch[o].sub, run |-> orch[o].run + 1]
    BY <1>3, <2>1 DEF IsOrch
  <2>4. Runnable(d)
    BY <1>3, <2>3 DEF Runnable
  <2>5. OrchStep(orch[o], d)
    BY <1>3, <2>3, <2>4 DEF OrchStep, IsOrch
  <2>6. QED
    BY <2>2, <2>5, OneOrch
<1>5. /\ node' = [n \in DOMAIN node |-> node'[n]]
      /\ \A n \in DOMAIN node : NodeStep(node[n], node'[n])
  <2>1. CASE node' = node
    BY <2>1, SameNodes
  <2>2. CASE node' = Push(Runs(o)[orch[o].run])
    <3>1. PICK run : run = Runs(o)[orch[o].run]
      OBVIOUS
    <3>2. node' = Push(run)
      BY <2>2, <3>1
    <3>3. node' = [n \in DOMAIN node |-> node'[n]]
      BY <3>2 DEF Push
    <3>4. ASSUME NEW n \in DOMAIN node PROVE NodeStep(node[n], node'[n])
      <4>1. node'[n] = [def |-> node[n].def, up |-> node[n].up, exp |-> node[n].exp,
                        in |-> Over(Told(run, n, 3), node[n].in),
                        out |-> Over(Told(run, n, 2), node[n].out)]
        BY <3>2, PushFacts
      <4>2. QED
        BY <4>1 DEF NodeStep, IsNode
    <3>5. QED
      BY <3>3, <3>4
  <2>3. QED
    BY <1>1, <2>1, <2>2
<1>6. QED
  BY <1>2, <1>4, <1>5, ContainersKeep

LEMMA FiniteRange ==
    ASSUME NEW s, IsSeq(s)
    PROVE  IsFiniteSet(Range(s))
<1>1. Len(s) \in Nat /\ Range(s) = {s[i] : i \in 1 .. Len(s)} /\ s \in [1 .. Len(s) -> Range(s)]
  BY SeqFacts
<1>2. IsFiniteSet(1 .. Len(s))
  BY <1>1, FS_Interval
<1>3. s \in Surjection(1 .. Len(s), Range(s))
  BY <1>1 DEF Surjection
<1>4. QED
  BY <1>2, <1>3, FS_Surjection

LEMMA DeployKeeps ==
    ASSUME GenInv, DeployInv, Deploy
    PROVE  DeployInv'
<1>1. PICK e \in DOMAIN disk :
         LET def   == <<e, disk[e].infra>>
             names == Range(disk[e].exp.nodes)
         IN /\ Valid(disk[e].exp) /\ disk[e].infra \notin {None, TornInfra}
            /\ \/ target = "docker" /\ ComposeUp(e, def, names)
               \/ target = "k8s" /\ Apply(e, def, names)
  BY DEF Deploy
<1>2. disk' = disk /\ target' = target /\ touched' = touched
  BY DEF Deploy, genVars
<1>3. PICK def : def = <<e, disk[e].infra>>
  OBVIOUS
<1>4. PICK names : names = Range(disk[e].exp.nodes)
  OBVIOUS
<1>5. /\ Valid(disk[e].exp) /\ def[1] = e
      /\ \/ target = "docker" /\ ComposeUp(e, def, names)
         \/ target = "k8s" /\ Apply(e, def, names)
  BY <1>1, <1>3, <1>4
<1>6. ShapeInv /\ FileInv /\ DockerInv /\ RunningInv
  BY DEF DeployInv
<1>7. IsFiniteSet(names)
  <2>1. IsSeq(disk[e].exp.nodes)
    BY <1>5 DEF GenInv, DiskInv, FileOK, Valid
  <2>2. QED
    BY <1>4, <2>1, FiniteRange
\* The containers that are made anew, and those that stay.
<1>8. PICK new \in SUBSET names :
         /\ node' = Over([n \in new |-> Created(def)], node)
         /\ target = "docker" => new = {n \in names : ~Kept(n, def)}
  <2>1. CASE target = "docker" /\ ComposeUp(e, def, names)
    BY <2>1 DEF ComposeUp
  <2>2. CASE target = "k8s" /\ Apply(e, def, names)
    <3>1. names \ DOMAIN node \in SUBSET names /\ target # "docker"
      BY <2>2
    <3>2. QED
      BY <2>2, <3>1 DEF Apply, NewPods
  <2>3. QED
    BY <1>5, <2>1, <2>2
<1>9. /\ DOMAIN node' = new \cup DOMAIN node
      /\ node' = [n \in DOMAIN node' |-> node'[n]]
      /\ \A n \in new : node'[n] = Created(def)
      /\ \A n \in DOMAIN node \ new : node'[n] = node[n]
  BY <1>8 DEF Over
<1>10. PICK made :
         /\ orch' = Over([o \in made |-> Started(e)], orch)
         /\ target = "docker" => /\ made \in SUBSET {Service}
                                 /\ Service \notin made =>
                                       Service \in DOMAIN orch /\ orch[Service].name = e
  <2>1. CASE target = "docker" /\ ComposeUp(e, def, names)
    <3>1. CASE /\ Service \in DOMAIN orch
               /\ orch[Service].name = e /\ orch[Service].state # "exited"
      <4>1. orch' = orch
        BY <2>1, <3>1 DEF ComposeUp
      <4>2. Over([o \in {} |-> Started(e)], orch) = orch
        BY <1>6 DEF Over, ShapeInv
      <4>3. QED
        BY <3>1, <4>1, <4>2
    <3>2. CASE ~ (/\ Service \in DOMAIN orch
                  /\ orch[Service].name = e /\ orch[Service].state # "exited")
      <4>1. orch' = Over([s \in {Service} |-> Started(e)], orch)
        BY <2>1, <3>2 DEF ComposeUp
      <4>2. QED
        BY <4>1
    <3>3. QED
      BY <3>1, <3>2
  <2>2. CASE target = "k8s" /\ Apply(e, def, names)
    <3>1. target # "docker"
      BY <2>2
    <3>2. QED
      BY <2>2, <3>1 DEF Apply, NewJob
  <2>3. QED
    BY <1>5, <2>1, <2>2
<1>11. /\ DOMAIN orch' = made \cup DOMAIN orch
       /\ orch' = [o \in DOMAIN orch' |-> orch'[o]]
       /\ \A o \in made : orch'[o] = Started(e)
       /\ \A o \in DOMAIN orch \ made : orch'[o] = orch[o]
  BY <1>10 DEF Over
<1>12. /\ Created(def).def = def /\ Created(def).up = FALSE /\ IsNode(Created(def))
       /\ Started(e).name = e /\ Started(e).state = "created" /\ Started(e).sub = 1 /\ IsOrch(Started(e))
  BY DEF Created, Started, IsNode, IsOrch
<1>13. \A n \in DOMAIN node' : n \in new \/ n \in DOMAIN node \ new
  BY <1>9
<1>14. \A o \in DOMAIN orch' : o \in made \/ o \in DOMAIN orch \ made
  BY <1>11
<1>15. ShapeInv'
  <2>1. IsFiniteSet(new)
    BY <1>7, FS_Subset
  <2>2. IsFiniteSet(new \cup DOMAIN node)
    BY <1>6, <2>1, FS_Union DEF ShapeInv
  <2>3. \A n \in DOMAIN node' : IsNode(node'[n])
    BY <1>6, <1>9, <1>12, <1>13 DEF ShapeInv
  <2>4. \A o \in DOMAIN orch' : IsOrch(orch'[o])
    BY <1>6, <1>11, <1>12, <1>14 DEF ShapeInv
  <2>5. IsFiniteSet(DOMAIN node')
    BY <1>9, <2>2
  <2>6. QED
    BY <1>2, <1>6, <1>9, <1>11, <2>3, <2>4, <2>5 DEF ShapeInv
<1>16. FileInv'
  <2>1. InUse' \subseteq DOMAIN disk
    <3>1. \A n \in DOMAIN node' : node'[n].def[1] \in DOMAIN disk
      BY <1>5, <1>6, <1>9, <1>12, <1>13 DEF FileInv, InUse
    <3>2. \A o \in DOMAIN orch' : orch'[o].name \in DOMAIN disk
      BY <1>6, <1>11, <1>12, <1>14 DEF FileInv, InUse
    <3>3. QED
      BY <3>1, <3>2 DEF InUse
  <2>2. \A n \in DOMAIN node' : node'[n].up /\ node'[n].def[1] \notin touched =>
           node'[n].exp = disk[node'[n].def[1]].exp
    BY <1>6, <1>9, <1>12, <1>13 DEF FileInv
  <2>3. \A o \in DOMAIN orch' : orch'[o].name \notin touched =>
           /\ Valid(disk[orch'[o].name].exp)
           /\ orch'[o].state = "running" => orch'[o].exp = disk[orch'[o].name].exp
    <3>1. \A o \in made : orch'[o].name = e /\ orch'[o].state = "created"
      BY <1>11, <1>12
    <3>2. \A o \in DOMAIN orch \ made : orch'[o] = orch[o]
      BY <1>11
    <3>3. QED
      BY <1>5, <1>6, <1>14, <3>1, <3>2 DEF FileInv, Running
  <2>4. QED
    BY <1>2, <2>1, <2>2, <2>3 DEF FileInv, Running
<1>17. DockerInv'
  <2>1. SUFFICES ASSUME target = "docker", NEW o \in DOMAIN orch'
                 PROVE  /\ o = Service
                        /\ orch'[o].state # "exited" /\ orch'[o].name \notin touched =>
                              \A n \in Range(disk[orch'[o].name].exp.nodes) :
                                 n \in DOMAIN node' /\ node'[n].def[1] = orch'[o].name
    BY <1>2 DEF DockerInv
  <2>2. o = Service
    BY <1>6, <1>10, <1>14, <2>1 DEF DockerInv
  <2>3. orch'[o].name = e
    BY <1>10, <1>11, <1>12, <1>14, <2>1, <2>2
  <2>4. \A n \in names : n \in DOMAIN node' /\ node'[n].def[1] = e
    <3>1. TAKE n \in names
    <3>2. CASE n \in new
      BY <1>5, <1>9, <1>12, <3>2
    <3>3. CASE n \notin new
      <4>1. n \in DOMAIN node /\ node[n].def = def
        BY <1>8, <2>1, <3>3 DEF Kept
      <4>2. QED
        BY <1>5, <1>9, <3>3, <4>1
    <3>4. QED
      BY <3>2, <3>3
  <2>5. QED
    BY <1>4, <2>2, <2>3, <2>4
<1>18. RunningInv'
  BY <1>6, <1>11, <1>12, <1>14 DEF RunningInv, Running
<1>19. QED
  BY <1>15, <1>16, <1>17, <1>18 DEF DeployInv

LEMMA NextKeepsDeployInv ==
    ASSUME GenInv, DeployInv, [Next]_vars
    PROVE  DeployInv'
<1>1. CASE UNCHANGED vars
  <2>1. /\ disk' = disk /\ target' = target /\ touched' = touched /\ node' = node /\ orch' = orch
    BY <1>1 DEF vars, genVars, deployVars
  <2>2. /\ orch' = [q \in DOMAIN orch |-> orch'[q]]
        /\ \A q \in DOMAIN orch : OrchStep(orch[q], orch'[q])
    BY <2>1, SameOrch DEF DeployInv, ShapeInv
  <2>3. QED
    BY <2>1, <2>2, SameNodes, ContainersKeep
<1>2. CASE /\ GenNext
           /\ touched' = touched \cup {e \in InUse : disk'[e].exp # disk[e].exp}
           /\ UNCHANGED <<target, node, orch, done, deploys, restarts, last>>
  BY <1>2, DirectoriesStay, GenStepKeeps
<1>3. CASE \/ Deploy \/ NodeStart \/ NodeStops
           \/ OrchestratorStart \/ Run \/ NextSub \/ OrchestratorFails
  BY <1>3, DeployKeeps, NodeStartKeeps, NodeStopsKeeps, OrchestratorStartKeeps, RunKeeps,
     NextSubKeeps, OrchestratorFailsKeeps
<1>4. QED
  BY <1>1, <1>2, <1>3 DEF Next

\* The invariant of deployments: what is deployed is on disk, what was read is what is there as
\* long as it has not changed, and a compose project's nodes are the experiment's that runs.
THEOREM DeploymentInvariant == Spec => [](GenInv /\ DeployInv)
<1>1. Init => GenInv /\ DeployInv
  BY InitGenInv, InitDeployInv
<1>2. GenInv /\ DeployInv /\ [Next]_vars => (GenInv /\ DeployInv)'
  BY NextKeepsGenInv, NextKeepsDeployInv
<1>3. QED
  BY <1>1, <1>2, PTL DEF Spec

-----------------------------------------------------------------------------
(* The segments of the optimiser.                                          *)

NodesOf(flows) == UNION {Range(flows[i]) : i \in DOMAIN flows}
EdgesOf(flows) == UNION {Pairs(flows[i]) : i \in DOMAIN flows}

\* What the validator of the topology makes sure of.
LEMMA LinearTopology ==
    ASSUME NEW flows, ValidateLinearTopology(flows)
    PROVE  /\ \A e, f \in EdgesOf(flows) : e[1] = f[1] => e = f
           /\ Cardinality({n \in NodesOf(flows) : \A e \in EdgesOf(flows) : e[2] # n}) = 1
<1> DEFINE nodes == NodesOf(flows)
           edges == EdgesOf(flows)
           starts == {n \in nodes : \A e \in edges : e[2] # n}
           after == [n \in {e[1] : e \in edges} |-> (CHOOSE e \in edges : e[1] = n)[2]]
           chain == Walk(CHOOSE s \in starts : TRUE, after, Cardinality(nodes))
<1>1. GlobalNodeOrder(flows) =
         IF \E e, f \in edges : e # f /\ (e[1] = f[1] \/ e[2] = f[2]) THEN Invalid
         ELSE IF Cardinality(starts) # 1 \/ Len(chain) # Cardinality(nodes) THEN Invalid
         ELSE chain
  BY Zenon DEF GlobalNodeOrder, NodesOf, EdgesOf
<1>2. GlobalNodeOrder(flows) # Invalid
  BY DEF ValidateLinearTopology
<1>3. ~ (\E e, f \in edges : e # f /\ (e[1] = f[1] \/ e[2] = f[2])) /\ Cardinality(starts) = 1
  BY <1>1, <1>2, Zenon
<1>4. QED
  BY <1>3

\* A pair of a flow is a hop between two nodes that are defined in this order.
Forward(flows, nodes) ==
    \A h \in EdgesOf(flows) : \A i, j \in 1 .. Len(nodes) :
       nodes[i] = h[1] /\ nodes[j] = h[2] => i < j

\* If the nodes are defined along the flows of one chain, the chain is their order.
LEMMA ChainIsOrder ==
    ASSUME NEW flows, NEW nodes, IsSeq(nodes), IsInjective(nodes),
           ValidateLinearTopology(flows), Range(nodes) = NodesOf(flows),
           \A e \in EdgesOf(flows) : e[1] \in NodesOf(flows) /\ e[2] \in NodesOf(flows),
           \A e \in EdgesOf(flows) : e = <<e[1], e[2]>>,
           Forward(flows, nodes)
    PROVE  \A j \in 2 .. Len(nodes) : <<nodes[j - 1], nodes[j]>> \in EdgesOf(flows)
<1> DEFINE E == EdgesOf(flows)
           N == Len(nodes)
           starts == {n \in NodesOf(flows) : \A e \in E : e[2] # n}
<1>1. /\ N \in Nat /\ DOMAIN nodes = 1 .. N /\ Range(nodes) = {nodes[i] : i \in 1 .. N}
      /\ \A i, j \in 1 .. N : nodes[i] = nodes[j] => i = j
  BY SeqFacts DEF IsInjective
<1>2. /\ \A e, f \in E : e[1] = f[1] => e = f
      /\ Cardinality(starts) = 1
  BY LinearTopology
<1>3. \A e \in E : \E i, j \in 1 .. N : nodes[i] = e[1] /\ nodes[j] = e[2] /\ i < j
  <2>1. TAKE e \in E
  <2>2. PICK i \in 1 .. N, j \in 1 .. N : nodes[i] = e[1] /\ nodes[j] = e[2]
    BY <1>1
  <2>3. QED
    BY <2>2 DEF Forward
<1>4. PICK s : starts = {s}
  <2>1. IsFiniteSet(NodesOf(flows))
    BY FiniteRange
  <2>2. IsFiniteSet(starts)
    BY <2>1, FS_Subset
  <2> HIDE DEF starts
  <2>3. QED
    BY <1>2, <2>2, FS_Singleton
<1> HIDE DEF E, N
\* Only the first node has no predecessor.
<1>5. \A j \in 2 .. N : \E i \in 1 .. N : i < j /\ <<nodes[i], nodes[j]>> \in E
  <2> SUFFICES ASSUME NEW j \in 2 .. N PROVE \E i \in 1 .. N : i < j /\ <<nodes[i], nodes[j]>> \in E
    OBVIOUS
  <2>1. 1 \in 1 .. N /\ j \in 1 .. N /\ j # 1
    BY <1>1
  <2>2. nodes[1] \in NodesOf(flows) /\ nodes[j] \in NodesOf(flows) /\ nodes[1] # nodes[j]
    BY <1>1, <2>1
  <2>3. \A e \in E : e[2] # nodes[1]
    <3>1. SUFFICES ASSUME NEW e \in E, e[2] = nodes[1] PROVE FALSE
      OBVIOUS
    <3>2. PICK i \in 1 .. N, k \in 1 .. N : nodes[i] = e[1] /\ nodes[k] = e[2] /\ i < k
      BY <1>3
    <3>3. k = 1
      BY <1>1, <2>1, <3>1, <3>2
    <3>4. QED
      BY <1>1, <3>2, <3>3
  <2>4. nodes[1] \in starts
    BY <2>2, <2>3
  <2>5. nodes[j] \notin starts
    BY <1>4, <2>2, <2>4
  <2>6. PICK e \in E : e[2] = nodes[j]
    BY <2>2, <2>5
  <2>7. PICK i \in 1 .. N, k \in 1 .. N : nodes[i] = e[1] /\ nodes[k] = e[2] /\ i < k
    BY <1>3
  <2>8. k = j
    BY <1>1, <2>1, <2>6, <2>7
  <2>9. e = <<nodes[i], nodes[j]>>
    BY <2>6, <2>7 DEF E
  <2>10. QED
    BY <2>7, <2>8, <2>9
<1>6. SUFFICES ASSUME \E j \in 2 .. N : <<nodes[j - 1], nodes[j]>> \notin E PROVE FALSE
  BY DEF E, N
<1> DEFINE T == {j \in 2 .. N : <<nodes[j - 1], nodes[j]>> \notin E}
<1>7. T \subseteq Nat /\ T # {}
  BY <1>1, <1>6
<1>8. PICK m \in T : \A k \in T : m <= k
  <2> HIDE DEF T
  <2> QED
    BY <1>7, LeastNumber
<1>9. m \in 2 .. N /\ <<nodes[m - 1], nodes[m]>> \notin E
  BY <1>8
<1>10. PICK i \in 1 .. N : i < m /\ <<nodes[i], nodes[m]>> \in E
  BY <1>5, <1>9
<1>11. i # m - 1
  BY <1>9, <1>10
<1>12. i + 1 \in 2 .. N /\ i + 1 < m
  BY <1>1, <1>9, <1>10, <1>11
<1>13. <<nodes[i], nodes[i + 1]>> \in E
  <2>1. i + 1 \notin T
    <3>1. i + 1 \in Nat /\ m \in Nat /\ ~ (m <= i + 1)
      BY <1>1, <1>9, <1>12
    <3> HIDE DEF T
    <3>2. QED
      BY <1>8, <3>1
  <2>2. (i + 1) - 1 = i
    BY <1>10
  <2>3. QED
    BY <1>12, <2>1, <2>2
<1>14. nodes[i + 1] = nodes[m]
  BY <1>2, <1>10, <1>13 DEF E
<1>15. i + 1 \in 1 .. N /\ m \in 1 .. N
  BY <1>1, <1>9, <1>12
<1>16. QED
  BY <1>1, <1>12, <1>14, <1>15

\* Then the part of the order that a flow takes is the flow.
LEMMA SegmentIsFlow ==
    ASSUME NEW flows, NEW nodes, IsSeq(nodes), IsInjective(nodes), Range(nodes) = NodesOf(flows),
           \A j \in 2 .. Len(nodes) : <<nodes[j - 1], nodes[j]>> \in EdgesOf(flows),
           ValidateLinearTopology(flows), Forward(flows, nodes),
           NEW p \in DOMAIN flows, IsSeq(flows[p]), flows[p] # <<>>
    PROVE  LET s == Segment(flows[p], nodes)
           IN  SubSeq(nodes, s[1], s[1] + s[2] - 1) = flows[p]
<1> DEFINE E == EdgesOf(flows)
           N == Len(nodes)
           f == flows[p]
           L == Len(f)
           a == CHOOSE i \in DOMAIN nodes : nodes[i] = f[1]
<1>1. /\ N \in Nat /\ DOMAIN nodes = 1 .. N /\ Range(nodes) = {nodes[i] : i \in 1 .. N}
      /\ L \in Nat /\ L > 0 /\ Range(f) = {f[i] : i \in 1 .. L}
  BY SeqFacts
<1>2. \A e, g \in E : e[1] = g[1] => e = g
  BY LinearTopology
<1>3. \A k \in 1 .. L - 1 : <<f[k], f[k + 1]>> \in E
  BY DEF EdgesOf, Pairs
<1>4. Range(f) \subseteq Range(nodes)
  BY DEF NodesOf
<1>5. a \in 1 .. N /\ nodes[a] = f[1]
  <2>1. f[1] \in Range(nodes)
    BY <1>1, <1>4
  <2>2. \E i \in DOMAIN nodes : nodes[i] = f[1]
    BY <1>1, <2>1
  <2>3. QED
    BY <1>1, <2>2
<1>6. Segment(f, nodes) = <<a, L>>
  BY DEF Segment
<1> HIDE DEF a, L, f, N, E
<1>7. \A k \in 1 .. L : a + k - 1 \in 1 .. N /\ nodes[a + k - 1] = f[k]
  <2> DEFINE T == {k \in 1 .. L : ~ (a + k - 1 \in 1 .. N /\ nodes[a + k - 1] = f[k])}
  <2> SUFFICES ASSUME T # {} PROVE FALSE
    OBVIOUS
  <2>1. T \subseteq Nat
    BY <1>1
  <2>2. PICK m \in T : \A k \in T : m <= k
    <3> HIDE DEF T
    <3> QED
      BY <2>1, LeastNumber
  <2>3. m \in 1 .. L /\ ~ (a + m - 1 \in 1 .. N /\ nodes[a + m - 1] = f[m])
    BY <2>2
  <2>4. m # 1
    BY <1>1, <1>5, <2>3
  <2>5. m - 1 \in 1 .. L /\ m - 1 \in 1 .. L - 1 /\ a + (m - 1) - 1 = a + m - 2 /\ (m - 1) + 1 = m
    BY <1>1, <1>5, <2>3, <2>4
  <2>6. a + m - 2 \in 1 .. N /\ nodes[a + m - 2] = f[m - 1]
    <3>1. m - 1 \notin T
      <4>1. m - 1 \in Nat /\ ~ (m <= m - 1)
        BY <1>1, <2>3, <2>4
      <4> HIDE DEF T
      <4>2. QED
        BY <2>2, <4>1
    <3>2. QED
      BY <2>5, <3>1
  <2>7. <<f[m - 1], f[m]>> \in E
    BY <1>3, <2>5
  <2>8. PICK j \in 1 .. N : nodes[j] = f[m]
    <3>1. f[m] \in Range(nodes)
      BY <1>1, <1>4, <2>3
    <3>2. QED
      BY <1>1, <3>1
  <2>9. a + m - 2 < j
    <3>1. Forward(flows, nodes) /\ <<f[m - 1], f[m]>>[1] = f[m - 1] /\ <<f[m - 1], f[m]>>[2] = f[m]
      OBVIOUS
    <3>2. QED
      BY <2>6, <2>7, <2>8, <3>1 DEF Forward, E, N
  <2>10. a + m - 1 \in 2 .. N /\ (a + m - 1) - 1 = a + m - 2
    BY <1>1, <1>5, <2>3, <2>6, <2>8, <2>9
  <2>11. <<nodes[a + m - 2], nodes[a + m - 1]>> \in E
    <3>1. <<nodes[(a + m - 1) - 1], nodes[a + m - 1]>> \in E
      BY <2>10 DEF E, N
    <3>2. QED
      BY <2>10, <3>1
  <2>12. f[m] = nodes[a + m - 1]
    BY <1>2, <2>6, <2>7, <2>11
  <2>13. QED
    BY <1>1, <2>3, <2>10, <2>12
<1>8. a + L - 1 \in 1 .. N /\ a \in 1 .. N + 1 /\ a <= (a + L - 1) + 1 /\ (a + L - 1) - a + 1 = L
  BY <1>1, <1>5, <1>7
<1>9. PICK b \in Nat : b = a + L - 1
  BY <1>1, <1>8
<1>10. /\ IsSeq(SubSeq(nodes, a, b)) /\ Len(SubSeq(nodes, a, b)) = b - a + 1
       /\ \A i \in 1 .. b - a + 1 : SubSeq(nodes, a, b)[i] = nodes[a + i - 1]
  <2>1. a \in 1 .. Len(nodes) + 1 /\ a <= b + 1 /\ b <= Len(nodes)
    BY <1>1, <1>8, <1>9 DEF N
  <2>2. QED
    BY <2>1, PartIsSeq
<1>11. \A i \in 1 .. L : SubSeq(nodes, a, b)[i] = f[i]
  BY <1>7, <1>8, <1>9, <1>10
<1>12. SubSeq(nodes, a, b) = f
  <2>1. Len(SubSeq(nodes, a, b)) = L /\ IsSeq(f)
    BY <1>8, <1>9, <1>10 DEF f
  <2>2. QED
    BY <1>10, <1>11, <2>1, SameSeq DEF L
<1>13. QED
  BY <1>6, <1>9, <1>12 DEF f

LEMMA GenDeployImplySegmentsMatchFlows ==
    ASSUME GenInv, DeployInv
    PROVE  SegmentsMatchFlows
<1>1. SUFFICES ASSUME NEW o \in DOMAIN orch, NEW exp, exp = disk[orch[o].name].exp,
                      exp.kind = "opt", orch[o].name \notin touched, ListedAlong(exp),
                      NEW p \in DOMAIN exp.flows
               PROVE  LET s == Segment(exp.flows[p], exp.nodes)
                      IN  SubSeq(exp.nodes, s[1], s[1] + s[2] - 1) = exp.flows[p]
  BY DEF SegmentsMatchFlows
<1>2. Valid(exp) /\ FileOK(exp)
  BY <1>1 DEF DeployInv, FileInv, InUse, GenInv, DiskInv
<1>3. PICK flows : flows = exp.flows
  OBVIOUS
<1>4. PICK nodes : nodes = exp.nodes
  OBVIOUS
<1>5. /\ ValidateLinearTopology(flows) /\ IsSeq(nodes) /\ IsSeq(flows)
      /\ \A f \in Range(flows) : IsSeq(f) /\ f # <<>>
  BY <1>1, <1>2, <1>3, <1>4 DEF Valid, FileOK
<1>6. /\ IsInjective(nodes) /\ Range(nodes) = NodesOf(flows)
      /\ \A q \in DOMAIN flows : \A h \in Pairs(flows[q]) : \A i, j \in DOMAIN nodes :
            nodes[i] = h[1] /\ nodes[j] = h[2] => i < j
  BY <1>1, <1>3, <1>4 DEF ListedAlong, NodesOf
<1>7. DOMAIN nodes = 1 .. Len(nodes)
  BY <1>5, SeqFacts
<1>8. Forward(flows, nodes)
  BY <1>6, <1>7 DEF Forward, EdgesOf
<1>9. \A q \in DOMAIN flows : IsSeq(flows[q]) /\ flows[q] # <<>>
  BY <1>5 DEF Range
<1>10. \A e \in EdgesOf(flows) : /\ e = <<e[1], e[2]>>
                                 /\ e[1] \in NodesOf(flows) /\ e[2] \in NodesOf(flows)
  <2>1. SUFFICES ASSUME NEW q \in DOMAIN flows, NEW e \in Pairs(flows[q])
                 PROVE  e = <<e[1], e[2]>> /\ e[1] \in Range(flows[q]) /\ e[2] \in Range(flows[q])
    BY DEF EdgesOf, NodesOf
  <2>2. PICK i \in 1 .. Len(flows[q]) - 1 : e = <<flows[q][i], flows[q][i + 1]>>
    BY DEF Pairs
  <2>3. Len(flows[q]) \in Nat /\ Range(flows[q]) = {flows[q][k] : k \in 1 .. Len(flows[q])}
    BY <1>9, SeqFacts
  <2>4. i \in 1 .. Len(flows[q]) /\ i + 1 \in 1 .. Len(flows[q])
    BY <2>3
  <2>5. QED
    BY <2>2, <2>3, <2>4
<1>11. \A j \in 2 .. Len(nodes) : <<nodes[j - 1], nodes[j]>> \in EdgesOf(flows)
  BY <1>5, <1>6, <1>8, <1>10, ChainIsOrder
<1>12. p \in DOMAIN flows
  BY <1>3
<1>13. QED
  BY <1>3, <1>4, <1>5, <1>6, <1>8, <1>9, <1>11, <1>12, SegmentIsFlow

\* The part of the chain that the optimiser is given for a pipeline is the pipeline's flow, if
\* the nodes are defined along the flows: build_inference_tasks counts in the order of
\* definition, which the validator of the topology then makes the order of the chain.
THEOREM SegmentsAlwaysMatchFlows == Spec => []SegmentsMatchFlows
BY DeploymentInvariant, GenDeployImplySegmentsMatchFlows, PTL

-----------------------------------------------------------------------------
(* Walks.                                                                  *)

\* One step of the recursion of Walk.
Step(h, k, start, after) ==
    IF k = 0 THEN <<start>>
    ELSE LET before == h[k - 1]
         IN  IF Last(before) \in DOMAIN after THEN Append(before, after[Last(before)]) ELSE before

\* Two functions that satisfy the recursion of Walk are one.
LEMMA WalkDefined ==
    ASSUME NEW start, NEW after, NEW g,
           g = [k \in Nat |-> Step(g, k, start, after)]
    PROVE  \A k \in Nat : Walk(start, after, k) = g[k]
<1> DEFINE f == CHOOSE h : h = [k \in Nat |-> Step(h, k, start, after)]
<1>1. f = [k \in Nat |-> Step(f, k, start, after)]
  OBVIOUS
<1>2. \A k \in Nat : Walk(start, after, k) = f[k]
  BY Zenon DEF Walk, Step
<1> HIDE DEF f
<1>3. \A k \in Nat : f[k] = g[k]
  <2> DEFINE T == {k \in Nat : f[k] # g[k]}
  <2> SUFFICES ASSUME T # {} PROVE FALSE
    OBVIOUS
  <2>1. PICK m \in T : \A k \in T : m <= k
    BY LeastNumber
  <2>2. m # 0
    BY <1>1 DEF Step
  <2>3. f[m - 1] = g[m - 1]
    BY <2>1, <2>2
  <2>4. f[m] = g[m]
    BY <1>1, <2>2, <2>3 DEF Step
  <2>5. QED
    BY <2>4
<1>4. QED
  BY <1>2, <1>3

\* What a sequence begins with.
LEMMA PrefixFacts ==
    ASSUME NEW s, IsSeq(s), NEW k \in 1 .. Len(s)
    PROVE  /\ IsSeq(SubSeq(s, 1, k)) /\ Len(SubSeq(s, 1, k)) = k
           /\ \A i \in 1 .. k : SubSeq(s, 1, k)[i] = s[i]
<1>1. Len(s) \in Nat /\ 1 \in 1 .. Len(s) + 1 /\ k \in Nat /\ 1 <= k + 1 /\ k <= Len(s)
  BY SeqFacts
<1>2. /\ IsSeq(SubSeq(s, 1, k)) /\ Len(SubSeq(s, 1, k)) = k - 1 + 1
      /\ \A i \in 1 .. k - 1 + 1 : SubSeq(s, 1, k)[i] = s[1 + i - 1]
  BY <1>1, PartIsSeq
<1>3. k - 1 + 1 = k /\ \A i \in 1 .. k : 1 + i - 1 = i
  BY <1>1
<1>4. QED
  BY <1>2, <1>3

LEMMA PrefixGrows ==
    ASSUME NEW s, IsSeq(s), NEW k \in 1 .. Len(s) - 1
    PROVE  SubSeq(s, 1, k + 1) = Append(SubSeq(s, 1, k), s[k + 1])
<1>1. Len(s) \in Nat /\ k \in 1 .. Len(s) /\ k + 1 \in 1 .. Len(s)
  BY SeqFacts
<1>2. PICK a : a = SubSeq(s, 1, k + 1)
  OBVIOUS
<1>3. PICK p : p = SubSeq(s, 1, k)
  OBVIOUS
<1>4. PICK b : b = Append(p, s[k + 1])
  OBVIOUS
<1>5. IsSeq(a) /\ Len(a) = k + 1 /\ \A i \in 1 .. k + 1 : a[i] = s[i]
  BY <1>1, <1>2, PrefixFacts
<1>6. IsSeq(p) /\ Len(p) = k /\ \A i \in 1 .. k : p[i] = s[i]
  BY <1>1, <1>3, PrefixFacts
<1>7. IsSeq(b) /\ Len(b) = k + 1 /\ (\A i \in 1 .. k : b[i] = p[i]) /\ b[k + 1] = s[k + 1]
  BY <1>4, <1>6, AppendIsSeq
<1>8. \A i \in 1 .. k + 1 : a[i] = b[i]
  BY <1>1, <1>5, <1>6, <1>7
<1>9. a = b
  BY <1>5, <1>7, <1>8, SameSeq
<1>10. QED
  BY <1>2, <1>3, <1>4, <1>9

LEMMA PrefixOne ==
    ASSUME NEW s, IsSeq(s), s # <<>>
    PROVE  SubSeq(s, 1, 1) = <<s[1]>>
<1>1. 1 \in 1 .. Len(s)
  BY SeqFacts
<1>2. PICK a : a = SubSeq(s, 1, 1)
  OBVIOUS
<1>3. PICK b : b = <<s[1]>>
  OBVIOUS
<1>4. IsSeq(a) /\ Len(a) = 1 /\ a[1] = s[1]
  BY <1>1, <1>2, PrefixFacts
<1>5. b \in Seq({s[1]}) /\ Len(b) = 1 /\ b[1] = s[1]
  BY <1>3
<1>6. IsSeq(b) /\ \A i \in 1 .. 1 : a[i] = b[i]
  BY <1>4, <1>5, TypedIsSeq
<1>7. a = b
  BY <1>4, <1>5, <1>6, SameSeq
<1>8. QED
  BY <1>2, <1>3, <1>7

\* A walk whose successors are those of a path is the path.
LEMMA WalkAlong ==
    ASSUME NEW path, IsSeq(path), path # <<>>, NEW after,
           \A i \in 1 .. Len(path) - 1 : path[i] \in DOMAIN after /\ after[path[i]] = path[i + 1],
           path[Len(path)] \notin DOMAIN after,
           NEW steps \in Nat, steps >= Len(path) - 1
    PROVE  Walk(path[1], after, steps) = path
<1> DEFINE L == Len(path)
           Upto(k) == SubSeq(path, 1, k)
           g == [k \in Nat |-> Upto(IF k < L THEN k + 1 ELSE L)]
<1>1. L \in Nat /\ L > 0 /\ L \in 1 .. L
  BY SeqFacts
<1>2. \A k \in 1 .. L : Last(Upto(k)) = path[k]
  <2>1. \A k \in 1 .. L : Len(Upto(k)) = k /\ \A i \in 1 .. k : Upto(k)[i] = path[i]
    BY PrefixFacts
  <2> HIDE DEF Upto
  <2>2. QED
    BY <1>1, <2>1 DEF Last
<1>3. Upto(1) = <<path[1]>>
  BY PrefixOne
<1>4. \A k \in 1 .. L - 1 : Upto(k + 1) = Append(Upto(k), path[k + 1])
  BY PrefixGrows
<1>5. Upto(L) = path
  BY WholeSubSeq
<1> HIDE DEF L, Upto
<1>6. ASSUME NEW k \in Nat PROVE g[k] = Step(g, k, path[1], after)
  <2>1. CASE k = 0
    BY <1>1, <1>3, <2>1 DEF Step
  <2>2. CASE k # 0 /\ k < L
    <3>1. k - 1 \in Nat /\ k - 1 < L /\ (k - 1) + 1 = k /\ k \in 1 .. L - 1 /\ k \in 1 .. L
      BY <1>1, <2>2
    <3>2. g[k - 1] = Upto(k) /\ g[k] = Upto(k + 1)
      BY <2>2, <3>1
    <3>3. Last(Upto(k)) = path[k]
      BY <1>2, <3>1
    <3>4. path[k] \in DOMAIN after /\ after[path[k]] = path[k + 1]
      BY <3>1 DEF L
    <3>5. Step(g, k, path[1], after) = Append(Upto(k), path[k + 1])
      <4> HIDE DEF g
      <4>1. QED
        BY <2>2, <3>2, <3>3, <3>4 DEF Step
    <3>6. QED
      BY <1>4, <3>1, <3>2, <3>5
  <2>3. CASE k # 0 /\ ~ (k < L)
    <3>1. g[k] = Upto(L)
      BY <2>3
    <3>2. g[k - 1] = Upto(L)
      <4>1. CASE k - 1 < L
        <5>1. (k - 1) + 1 = L /\ k - 1 \in Nat
          BY <1>1, <2>3, <4>1
        <5>2. QED
          BY <4>1, <5>1
      <4>2. CASE ~ (k - 1 < L)
        BY <2>3, <4>2
      <4>3. QED
        BY <4>1, <4>2
    <3>3. Last(Upto(L)) \notin DOMAIN after
      BY <1>1, <1>2 DEF L
    <3>4. Step(g, k, path[1], after) = Upto(L)
      <4> HIDE DEF g
      <4>1. QED
        BY <2>3, <3>2, <3>3 DEF Step
    <3>5. QED
      BY <3>1, <3>4
  <2>4. QED
    BY <2>1, <2>2, <2>3
<1>7. Walk(path[1], after, steps) = g[steps]
  <2>1. PICK h : h = g
    OBVIOUS
  <2>2. h = [k \in Nat |-> Step(h, k, path[1], after)]
    <3>1. h = [k \in Nat |-> h[k]] /\ \A k \in Nat : h[k] = Step(h, k, path[1], after)
      BY <1>6, <2>1
    <3>2. QED
      BY <3>1
  <2>3. QED
    BY <2>1, <2>2, WalkDefined
<1>8. g[steps] = Upto(L)
  <2>1. CASE steps < L
    <3>1. steps + 1 = L
      BY <1>1, <2>1 DEF L
    <3>2. QED
      BY <2>1, <3>1
  <2>2. CASE ~ (steps < L)
    BY <2>2
  <2>3. QED
    BY <2>1, <2>2
<1>9. QED
  BY <1>5, <1>7, <1>8

LEMMA MaxIsOne ==
    ASSUME NEW n \in Nat, NEW S, S \subseteq 1 .. n, S # {}
    PROVE  Max(S) \in S
<1> DEFINE T == {n - i : i \in S}
<1>1. T \subseteq Nat /\ T # {}
  <2>1. \A i \in S : i \in 1 .. n /\ n - i \in Nat
    OBVIOUS
  <2>2. QED
    BY <2>1
<1>2. PICK m \in T : \A k \in T : m <= k
  <2> HIDE DEF T
  <2> QED
    BY <1>1, LeastNumber
<1>3. PICK i \in S : m = n - i
  BY <1>2
<1>4. \A j \in S : i >= j
  <2>1. TAKE j \in S
  <2>2. n - i <= n - j
    BY <1>2, <1>3
  <2>3. QED
    BY <2>2
<1>5. QED
  BY <1>4 DEF Max

\* The hops of a path.
LEMMA HopsOf ==
    ASSUME NEW path, IsSeq(path), IsInjective(path)
    PROVE  /\ Pairs(path) = {<<path[i], path[i + 1]>> : i \in 1 .. Len(path) - 1}
           /\ \A i \in 1 .. Len(path) - 1 : i \in 1 .. Len(path) /\ i + 1 \in 1 .. Len(path)
           /\ \A i, j \in 1 .. Len(path) : path[i] = path[j] => i = j
<1>1. Len(path) \in Nat /\ DOMAIN path = 1 .. Len(path)
  BY SeqFacts
<1>2. QED
  BY <1>1 DEF Pairs, IsInjective

\* Links that name the hops of the nodes, as they are defined, order the nodes as they are
\* defined.
LEMMA OrderOfNodes ==
    ASSUME NEW nodes, IsSeq(nodes), nodes # <<>>, IsInjective(nodes), NEW links, IsSeq(links),
           links # <<>> =>
              {links[i].at : i \in DOMAIN links} = {<<Single, h[1], h[2]>> : h \in Pairs(nodes)}
    PROVE  NodeOrder(nodes, links) = nodes
<1> DEFINE froms == {links[i].at[2] : i \in DOMAIN links}
           heads == froms \ {links[i].at[3] : i \in DOMAIN links}
           after == [n \in froms |-> links[Max({i \in DOMAIN links : links[i].at[2] = n})].at[3]]
           walk  == Walk(CHOOSE h \in heads : TRUE, after, Len(nodes))
           L == Len(nodes)
<1>1. NodeOrder(nodes, links) =
         IF links = <<>> THEN nodes
         ELSE IF Cardinality(heads) # 1 THEN Invalid
         ELSE IF Last(walk) \in froms THEN Endless ELSE walk
  BY DEF NodeOrder
<1>2. CASE links = <<>>
  BY <1>1, <1>2
<1>3. CASE links # <<>>
  <2>1. /\ Pairs(nodes) = {<<nodes[i], nodes[i + 1]>> : i \in 1 .. L - 1}
        /\ \A i \in 1 .. L - 1 : i \in 1 .. L /\ i + 1 \in 1 .. L
        /\ \A i, j \in 1 .. L : nodes[i] = nodes[j] => i = j
    BY HopsOf
  <2>2. Len(links) \in Nat /\ DOMAIN links = 1 .. Len(links) /\ Len(links) > 0 /\ L \in Nat /\ L > 0
    BY <1>3, SeqFacts
  <2>3. \A i \in DOMAIN links : \E k \in 1 .. L - 1 :
           links[i].at[2] = nodes[k] /\ links[i].at[3] = nodes[k + 1]
    <3>1. TAKE i \in DOMAIN links
    <3>2. PICK h \in Pairs(nodes) : links[i].at = <<Single, h[1], h[2]>>
      BY <1>3
    <3>3. PICK k \in 1 .. L - 1 : h = <<nodes[k], nodes[k + 1]>>
      BY <2>1
    <3>4. QED
      BY <3>2, <3>3
  <2>4. \A k \in 1 .. L - 1 : \E i \in DOMAIN links :
           links[i].at[2] = nodes[k] /\ links[i].at[3] = nodes[k + 1]
    <3>1. TAKE k \in 1 .. L - 1
    <3>2. PICK h : h = <<nodes[k], nodes[k + 1]>>
      OBVIOUS
    <3>3. h \in Pairs(nodes)
      BY <2>1, <3>2
    <3>4. <<Single, h[1], h[2]>> \in {links[i].at : i \in DOMAIN links}
      BY <1>3, <3>3
    <3>5. PICK i \in DOMAIN links : links[i].at = <<Single, h[1], h[2]>>
      BY <3>4
    <3>6. QED
      BY <3>2, <3>5
  <2> HIDE DEF L
  <2>5. froms = {nodes[k] : k \in 1 .. L - 1}
    <3>1. froms \subseteq {nodes[k] : k \in 1 .. L - 1}
      BY <2>3, SMTT(30)
    <3>2. {nodes[k] : k \in 1 .. L - 1} \subseteq froms
      BY <2>4
    <3>3. QED
      BY <3>1, <3>2
  <2>6. {links[i].at[3] : i \in DOMAIN links} = {nodes[k + 1] : k \in 1 .. L - 1}
    <3>1. {links[i].at[3] : i \in DOMAIN links} \subseteq {nodes[k + 1] : k \in 1 .. L - 1}
      BY <2>3
    <3>2. {nodes[k + 1] : k \in 1 .. L - 1} \subseteq {links[i].at[3] : i \in DOMAIN links}
      BY <2>4
    <3>3. QED
      BY <3>1, <3>2
  <2>7. heads = {nodes[1]}
    <3>1. 1 \in 1 .. L - 1
      <4>1. 1 \in DOMAIN links
        BY <2>2
      <4>2. PICK k \in 1 .. L - 1 : links[1].at[2] = nodes[k]
        BY <2>3, <4>1
      <4>3. QED
        BY <2>2, <4>2
    <3>2. nodes[1] \in froms
      BY <2>5, <3>1
    <3>3. \A k \in 1 .. L - 1 : nodes[1] # nodes[k + 1]
      BY <2>1, <3>1
    <3>4. \A n \in froms : n # nodes[1] => n \in {nodes[k + 1] : k \in 1 .. L - 1}
      <4>1. TAKE n \in froms
      <4>2. PICK k \in 1 .. L - 1 : n = nodes[k]
        BY <2>5
      <4>3. ASSUME n # nodes[1] PROVE n \in {nodes[j + 1] : j \in 1 .. L - 1}
        <5>1. k - 1 \in 1 .. L - 1 /\ (k - 1) + 1 = k
          BY <2>2, <4>2, <4>3
        <5>2. QED
          BY <4>2, <5>1
      <4>4. QED
        BY <4>3
    <3> HIDE DEF froms
    <3>5. QED
      BY <2>6, <3>2, <3>3, <3>4
  <2>8. Cardinality(heads) = 1 /\ (CHOOSE h \in heads : TRUE) = nodes[1]
    <3> HIDE DEF heads
    <3>1. QED
      BY <2>7, FS_Singleton
  <2>9. \A k \in 1 .. L - 1 : nodes[k] \in DOMAIN after /\ after[nodes[k]] = nodes[k + 1]
    <3>1. TAKE k \in 1 .. L - 1
    <3> DEFINE I == {i \in DOMAIN links : links[i].at[2] = nodes[k]}
    <3>2. I # {} /\ I \subseteq 1 .. Len(links)
      BY <2>2, <2>4
    <3>3. Max(I) \in I
      <4> HIDE DEF I
      <4>1. QED
        BY <2>2, <3>2, MaxIsOne
    <3>4. PICK j \in 1 .. L - 1 : links[Max(I)].at[2] = nodes[j] /\ links[Max(I)].at[3] = nodes[j + 1]
      BY <2>3, <3>3
    <3>5. j = k
      BY <2>1, <3>3, <3>4
    <3>6. nodes[k] \in froms
      BY <2>5
    <3>7. after[nodes[k]] = links[Max(I)].at[3]
      BY <3>6
    <3>8. QED
      BY <3>4, <3>5, <3>6, <3>7
  <2>10. nodes[L] \notin DOMAIN after
    <3>1. \A k \in 1 .. L - 1 : nodes[k] # nodes[L]
      BY <2>1, <2>2
    <3>2. nodes[L] \notin froms
      BY <2>5, <3>1
    <3>3. QED
      BY <3>2
  <2>11. walk = nodes
    <3>1. PICK a : a = after
      OBVIOUS
    <3>2. /\ \A k \in 1 .. Len(nodes) - 1 : nodes[k] \in DOMAIN a /\ a[nodes[k]] = nodes[k + 1]
          /\ nodes[Len(nodes)] \notin DOMAIN a
      BY <2>9, <2>10, <3>1 DEF L
    <3>3. Len(nodes) \in Nat /\ Len(nodes) >= Len(nodes) - 1
      BY <2>2 DEF L
    <3>4. Walk(nodes[1], a, Len(nodes)) = nodes
      BY <3>2, <3>3, WalkAlong
    <3>5. QED
      BY <2>8, <3>1, <3>4
  <2>12. Last(walk) \notin froms
    <3>1. Last(walk) = nodes[L]
      BY <2>11 DEF Last, L
    <3>2. QED
      BY <2>10, <3>1
  <2> HIDE DEF heads, walk, froms
  <2>13. QED
    BY <1>1, <1>3, <2>8, <2>11, <2>12
<1>4. QED
  BY <1>2, <1>3

-----------------------------------------------------------------------------
(* What a run measures.                                                    *)

\* Batches go from node to node along a path whose nodes send along it.
LEMMA WalkFromPath ==
    ASSUME DeployInv, NEW p, NEW path, IsSeq(path), path # <<>>, IsInjective(path),
           Range(path) \subseteq DOMAIN node,
           \A n \in Range(path) :
              /\ node[n].up
              /\ SendsTo(n, p) = {path[i + 1] : i \in {i \in 1 .. Len(path) - 1 : path[i] = n}}
    PROVE  WalkFrom(path[1], p) = path
<1> DEFINE on == {m \in DOMAIN node : node[m].up /\ SendsTo(m, p) # {}}
           after == [m \in on |-> CHOOSE next \in SendsTo(m, p) : TRUE]
           L == Len(path)
<1>1. WalkFrom(path[1], p) = Walk(path[1], after, Cardinality(DOMAIN node))
  BY DEF WalkFrom
<1>2. /\ L \in Nat /\ L > 0 /\ DOMAIN path = 1 .. L /\ Range(path) = {path[i] : i \in 1 .. L}
      /\ L \in 1 .. L /\ \A j \in 1 .. L - 1 : j # L
  BY SeqFacts
<1>3. /\ \A i \in 1 .. L - 1 : i \in 1 .. L /\ i + 1 \in 1 .. L
      /\ \A i, j \in 1 .. L : path[i] = path[j] => i = j
  BY HopsOf
<1>4. \A i \in 1 .. L : path[i] \in Range(path)
  BY <1>2
<1>5. \A i \in 1 .. L - 1 : path[i] \in on /\ after[path[i]] = path[i + 1]
  <2>1. TAKE i \in 1 .. L - 1
  <2>2. {j \in 1 .. L - 1 : path[j] = path[i]} = {i}
    BY <1>3
  <2>3. SendsTo(path[i], p) = {path[j + 1] : j \in {j \in 1 .. L - 1 : path[j] = path[i]}}
    BY <1>3, <1>4
  <2>4. SendsTo(path[i], p) = {path[i + 1]}
    BY <2>2, <2>3
  <2>5. path[i] \in on
    BY <1>3, <1>4, <2>4
  <2>6. (CHOOSE next \in {path[i + 1]} : TRUE) = path[i + 1]
    OBVIOUS
  <2> HIDE DEF on
  <2>7. QED
    BY <2>4, <2>5, <2>6
<1>6. path[L] \notin on
  <2>1. \A j \in 1 .. L - 1 : path[j] # path[L]
    BY <1>2, <1>3
  <2>2. path[L] \in Range(path)
    BY <1>2, <1>4
  <2>3. SendsTo(path[L], p) = {}
    BY <2>1, <2>2
  <2>4. QED
    BY <2>3
<1>7. Cardinality(DOMAIN node) \in Nat /\ Cardinality(DOMAIN node) >= L - 1
  <2>1. IsFiniteSet(DOMAIN node)
    BY DEF DeployInv, ShapeInv
  <2>2. path \in Injection(1 .. L, DOMAIN node)
    <3>1. path = [i \in 1 .. L |-> path[i]] /\ \A i \in 1 .. L : path[i] \in DOMAIN node
      BY <1>4, SeqFacts
    <3>2. QED
      BY <3>1 DEF Injection
  <2>3. Cardinality(DOMAIN node) \in Nat
    BY <2>1, FS_CardinalityType
  <2>4. Cardinality(1 .. L) <= Cardinality(DOMAIN node)
    <3>1. PICK S : S = 1 .. L
      OBVIOUS
    <3>2. PICK N : N = DOMAIN node
      OBVIOUS
    <3>3. Cardinality(S) <= Cardinality(N)
      BY <2>1, <2>2, <3>1, <3>2, FS_Injection
    <3>4. QED
      BY <3>1, <3>2, <3>3
  <2>5. Cardinality(1 .. L) = L
    <3>1. PICK l \in Nat : l = L /\ l > 0
      BY <1>2
    <3>2. Cardinality(1 .. l) = IF 1 > l THEN 0 ELSE l - 1 + 1
      BY FS_Interval
    <3>3. Cardinality(1 .. l) = l
      BY <3>1, <3>2
    <3>4. QED
      BY <3>1, <3>3
  <2>6. L \in Nat /\ L <= Cardinality(DOMAIN node)
    BY <1>2, <2>4, <2>5
  <2> HIDE DEF L
  <2>7. QED
    BY <2>3, <2>6
<1>8. PICK a : a = after
  OBVIOUS
<1>9. PICK steps \in Nat : steps = Cardinality(DOMAIN node)
  BY <1>7
<1>10. /\ \A i \in 1 .. Len(path) - 1 : path[i] \in DOMAIN a /\ a[path[i]] = path[i + 1]
       /\ path[Len(path)] \notin DOMAIN a /\ steps >= Len(path) - 1
  BY <1>5, <1>6, <1>7, <1>8, <1>9
<1>11. Walk(path[1], a, steps) = path
  BY <1>10, WalkAlong
<1>12. QED
  BY <1>1, <1>8, <1>9, <1>11

\* What one end of a link is told, if no other link of the run has this end in its pipeline.
LEMMA ToldOfLink ==
    ASSUME NEW run, NEW d \in DOMAIN run, NEW end,
           \A c \in DOMAIN run : c[1] = d[1] /\ c[end] = d[end] => c = d, NEW old
    PROVE  At(Over(Told(run, d[end], end), old), d[1]) = run[d]
<1> DEFINE mine == {c \in DOMAIN run : c[end] = d[end]}
           told == Told(run, d[end], end)
<1>1. told = [p \in {c[1] : c \in mine} |-> run[CHOOSE c \in mine : c[1] = p]]
  BY DEF Told
<1>2. d[1] \in {c[1] : c \in mine}
  OBVIOUS
<1>3. (CHOOSE c \in mine : c[1] = d[1]) = d
  OBVIOUS
<1>4. d[1] \in DOMAIN told /\ told[d[1]] = run[d]
  BY <1>1, <1>2, <1>3
<1> HIDE DEF told
<1>5. d[1] \in DOMAIN Over(told, old) /\ Over(told, old)[d[1]] = run[d]
  BY <1>4 DEF Over
<1>6. QED
  BY <1>5 DEF At, told

\* The nodes of a pipeline, in the order they are defined.
Along(exp, p) == IF exp.kind = "single" THEN exp.nodes ELSE exp.flows[p]

HopsAlong(exp) == UNION {{<<p, h[1], h[2]>> : h \in Pairs(Along(exp, p))} : p \in Pipelines(exp)}

\* The nodes of a running experiment that has not changed and has them to itself have read it.
LEMMA NodesHaveRead ==
    ASSUME DeployInv, NEW o \in DOMAIN orch, Running(o), Ready(o), orch[o].name \notin touched,
           target = "k8s" => \A n \in Range(orch[o].exp.nodes) : node[n].def[1] = orch[o].name
    PROVE  \A n \in Range(orch[o].exp.nodes) :
              n \in DOMAIN node /\ node[n].up /\ node[n].exp = orch[o].exp
<1>1. orch[o].exp = disk[orch[o].name].exp /\ orch[o].state = "running"
  BY DEF DeployInv, FileInv, Running
<1>2. target \in {"docker", "k8s"}
  BY DEF DeployInv, ShapeInv
<1>3. \A n \in Range(orch[o].exp.nodes) : n \in DOMAIN node /\ node[n].up
  BY DEF Ready
<1>4. \A n \in Range(orch[o].exp.nodes) : node[n].def[1] = orch[o].name
  <2>1. CASE target = "docker"
    BY <1>1, <2>1 DEF DeployInv, DockerInv
  <2>2. CASE target = "k8s"
    BY <2>2
  <2>3. QED
    BY <1>2, <2>1, <2>2
<1>5. \A n \in DOMAIN node : node[n].up /\ node[n].def[1] \notin touched =>
         node[n].exp = disk[node[n].def[1]].exp
  BY DEF DeployInv, FileInv
<1>6. QED
  BY <1>1, <1>3, <1>4, <1>5

\* The path of a pipeline of an experiment that runs.
LEMMA PathFacts ==
    ASSUME DeployInv, NEW o \in DOMAIN orch, Running(o), NEW p \in Pipelines(orch[o].exp)
    PROVE  /\ IsSeq(Along(orch[o].exp, p)) /\ Along(orch[o].exp, p) # <<>>
           /\ Range(Along(orch[o].exp, p)) \subseteq Range(orch[o].exp.nodes)
           /\ orch[o].exp.kind # "single" => p \in DOMAIN orch[o].exp.flows
<1>1. PICK exp : exp = orch[o].exp
  OBVIOUS
<1>2. Valid(exp) /\ FileOK(exp) /\ Whole(exp)
  BY <1>1 DEF DeployInv, RunningInv, Runnable, Valid
<1>3. CASE exp.kind = "single"
  BY <1>1, <1>2, <1>3 DEF Along, FileOK
<1>4. CASE exp.kind # "single"
  <2>1. p \in DOMAIN exp.flows
    BY <1>1, <1>4 DEF Pipelines
  <2>2. exp.flows[p] \in Range(exp.flows)
    BY <2>1 DEF Range
  <2>3. IsSeq(exp.flows[p]) /\ exp.flows[p] # <<>>
    BY <1>2, <2>2 DEF FileOK
  <2>4. Range(exp.flows[p]) \subseteq Range(exp.nodes)
    BY <1>1, <1>2, <1>4 DEF Valid
  <2>5. QED
    BY <1>1, <1>4, <2>1, <2>3, <2>4 DEF Along
<1>5. QED
  BY <1>3, <1>4

\* The orchestrator sees this path too, if the links of the sub-experiment, if any, name its hops.
LEMMA OrderIsAlong ==
    ASSUME DeployInv, NEW o \in DOMAIN orch, Running(o),
           NEW exp, exp = orch[o].exp, NEW k, k = orch[o].sub, NEW p \in Pipelines(exp),
           NEW links, links = exp.subs[k].links, IsInjective(Along(exp, p)),
           links # <<>> => {links[i].at : i \in DOMAIN links} = HopsAlong(exp)
    PROVE  Order(exp, k, p) = Along(exp, p)
<1>1. exp = orch[o].exp
  OBVIOUS
<1>2. k = orch[o].sub
  OBVIOUS
<1>3. CASE exp.kind # "single"
  BY <1>1, <1>2, <1>3 DEF Order, Along
<1>4. CASE exp.kind = "single"
  <2>1. Along(exp, p) = exp.nodes /\ Order(exp, k, p) = NodeOrder(exp.nodes, links)
    BY <1>1, <1>2, <1>4 DEF Order, Along
  <2>2. IsSeq(links)
    <3>1. FileOK(exp) /\ Whole(exp) /\ k \in 1 .. Len(exp.subs)
      BY <1>1, <1>2 DEF DeployInv, RunningInv, Runnable, Valid
    <3>2. exp.subs[k] \in Range(exp.subs)
      BY <3>1, SeqFacts DEF FileOK
    <3>3. QED
      BY <1>1, <1>2, <3>1, <3>2 DEF FileOK
  <2>3. HopsAlong(exp) = {<<Single, h[1], h[2]>> : h \in Pairs(exp.nodes)}
    BY <1>4 DEF HopsAlong, Pipelines, Along
  <2>4. IsSeq(exp.nodes) /\ exp.nodes # <<>> /\ IsInjective(exp.nodes)
    BY <1>1, <2>1, PathFacts
  <2>5. NodeOrder(exp.nodes, links) = exp.nodes
    <3>1. PICK nodes : nodes = exp.nodes
      OBVIOUS
    <3>2. IsSeq(nodes) /\ nodes # <<>> /\ IsInjective(nodes)
      BY <2>4, <3>1
    <3>3. links # <<>> =>
             {links[i].at : i \in DOMAIN links} = {<<Single, h[1], h[2]>> : h \in Pairs(nodes)}
      BY <1>1, <2>3, <3>1
    <3>4. NodeOrder(nodes, links) = nodes
      BY <2>2, <3>2, <3>3, OrderOfNodes
    <3>5. QED
      BY <3>1, <3>4
  <2>6. QED
    BY <1>1, <1>2, <2>1, <2>5
<1>5. QED
  BY <1>3, <1>4

\* Each hop of a run is told to both its ends.
LEMMA EndsAreTold ==
    ASSUME DeployInv, NEW exp, NEW p \in Pipelines(exp), NEW run, DOMAIN run = HopsAlong(exp),
           IsSeq(Along(exp, p)), IsInjective(Along(exp, p)), Range(Along(exp, p)) \subseteq DOMAIN node,
           NEW h \in Pairs(Along(exp, p))
    PROVE  /\ <<p, h[1], h[2]>> \in DOMAIN run
           /\ At(Push(run)[h[1]].out, p) = run[<<p, h[1], h[2]>>]
           /\ At(Push(run)[h[2]].in, p) = run[<<p, h[1], h[2]>>]
<1>1. PICK path : path = Along(exp, p)
  OBVIOUS
<1>2. PICK d : d = <<p, h[1], h[2]>>
  OBVIOUS
<1>3. /\ Pairs(path) = {<<path[i], path[i + 1]>> : i \in 1 .. Len(path) - 1}
      /\ \A i \in 1 .. Len(path) - 1 : i \in 1 .. Len(path) /\ i + 1 \in 1 .. Len(path)
      /\ \A i, j \in 1 .. Len(path) : path[i] = path[j] => i = j
  <2>1. IsSeq(path) /\ IsInjective(path)
    BY <1>1
  <2>2. QED
    BY <2>1, HopsOf
<1>4. d \in DOMAIN run
  BY <1>2 DEF HopsAlong
<1>5. PICK i \in 1 .. Len(path) - 1 : h = <<path[i], path[i + 1]>>
  BY <1>1, <1>3
<1>6. \A c \in DOMAIN run : c[1] = p =>
         \E j \in 1 .. Len(path) - 1 : c = <<p, path[j], path[j + 1]>>
  <2>1. TAKE c \in DOMAIN run
  <2>5. PICK q \in Pipelines(exp) : c \in {<<q, g[1], g[2]>> : g \in Pairs(Along(exp, q))}
    BY DEF HopsAlong
  <2>2. PICK g \in Pairs(Along(exp, q)) : c = <<q, g[1], g[2]>>
    BY <2>5
  <2>3. ASSUME c[1] = p PROVE \E j \in 1 .. Len(path) - 1 : c = <<p, path[j], path[j + 1]>>
    <3>1. q = p
      BY <2>2, <2>3
    <3>2. PICK j \in 1 .. Len(path) - 1 : g = <<path[j], path[j + 1]>>
      BY <1>1, <1>3, <2>2, <3>1
    <3>3. QED
      BY <2>2, <3>1, <3>2
  <2>4. QED
    BY <2>3
<1>7. \A c \in DOMAIN run : c[1] = d[1] /\ c[2] = d[2] => c = d
  <2>1. TAKE c \in DOMAIN run
  <2>2. ASSUME c[1] = d[1], c[2] = d[2] PROVE c = d
    <3>1. PICK j \in 1 .. Len(path) - 1 : c = <<p, path[j], path[j + 1]>>
      BY <1>2, <1>6, <2>2
    <3>2. path[j] = path[i]
      BY <1>2, <1>5, <2>2, <3>1
    <3>3. j = i
      BY <1>3, <3>2
    <3>4. QED
      BY <1>2, <1>5, <3>1, <3>3
  <2>3. QED
    BY <2>2
<1>8. \A c \in DOMAIN run : c[1] = d[1] /\ c[3] = d[3] => c = d
  <2>1. TAKE c \in DOMAIN run
  <2>2. ASSUME c[1] = d[1], c[3] = d[3] PROVE c = d
    <3>1. PICK j \in 1 .. Len(path) - 1 : c = <<p, path[j], path[j + 1]>>
      BY <1>2, <1>6, <2>2
    <3>2. path[j + 1] = path[i + 1]
      BY <1>2, <1>5, <2>2, <3>1
    <3>3. j + 1 = i + 1
      BY <1>3, <3>2
    <3>4. j = i
      BY <3>3
    <3>5. QED
      BY <1>2, <1>5, <3>1, <3>4
  <2>3. QED
    BY <2>2
<1>9. h[1] \in DOMAIN node /\ h[2] \in DOMAIN node
  <2>1. Range(path) = {path[j] : j \in 1 .. Len(path)}
    BY <1>1, SeqFacts
  <2>2. QED
    BY <1>1, <1>3, <1>5, <2>1
<1>10. d[1] = p /\ d[2] = h[1] /\ d[3] = h[2]
  BY <1>2
<1>11. At(Push(run)[h[1]].out, p) = run[d]
  <2>1. Push(run)[h[1]].out = Over(Told(run, h[1], 2), node[h[1]].out)
    <3>1. PICK n \in DOMAIN node : n = h[1]
      BY <1>9
    <3>2. Push(run)[n] = [def |-> node[n].def, up |-> node[n].up, exp |-> node[n].exp,
                           in |-> Over(Told(run, n, 3), node[n].in),
                           out |-> Over(Told(run, n, 2), node[n].out)]
      BY PushFacts
    <3>3. Push(run)[n].out = Over(Told(run, n, 2), node[n].out)
      BY <3>2
    <3>4. QED
      BY <3>1, <3>3
  <2>2. PICK old : old = node[h[1]].out
    OBVIOUS
  <2>3. At(Over(Told(run, d[2], 2), old), d[1]) = run[d]
    BY <1>4, <1>7, ToldOfLink
  <2>4. PICK set : set = Push(run)[h[1]].out
    OBVIOUS
  <2>5. set = Over(Told(run, d[2], 2), old)
    BY <1>10, <2>1, <2>2, <2>4
  <2>6. At(set, p) = run[d]
    BY <1>10, <2>3, <2>5
  <2>7. QED
    BY <2>4, <2>6
<1>12. At(Push(run)[h[2]].in, p) = run[d]
  <2>1. Push(run)[h[2]].in = Over(Told(run, h[2], 3), node[h[2]].in)
    <3>1. PICK n \in DOMAIN node : n = h[2]
      BY <1>9
    <3>2. Push(run)[n] = [def |-> node[n].def, up |-> node[n].up, exp |-> node[n].exp,
                           in |-> Over(Told(run, n, 3), node[n].in),
                           out |-> Over(Told(run, n, 2), node[n].out)]
      BY PushFacts
    <3>3. Push(run)[n].in = Over(Told(run, n, 3), node[n].in)
      BY <3>2
    <3>4. QED
      BY <3>1, <3>3
  <2>2. PICK old : old = node[h[2]].in
    OBVIOUS
  <2>3. At(Over(Told(run, d[3], 3), old), d[1]) = run[d]
    BY <1>4, <1>8, ToldOfLink
  <2>4. PICK set : set = Push(run)[h[2]].in
    OBVIOUS
  <2>5. set = Over(Told(run, d[3], 3), old)
    BY <1>10, <2>1, <2>2, <2>4
  <2>6. At(set, p) = run[d]
    BY <1>10, <2>3, <2>5
  <2>7. QED
    BY <2>4, <2>6
<1>13. QED
  BY <1>2, <1>4, <1>11, <1>12

\* What is recorded of a run.
LEMMA MeasuredFacts ==
    ASSUME NEW o, NEW run, NEW set, NEW m, m = Measured(o, run, set),
           NEW exp, exp = orch[o].exp, NEW k, k = orch[o].sub
    PROVE  /\ m.exp = exp /\ m.sub = k /\ m.run = run /\ DOMAIN m.walk = Pipelines(exp)
           /\ \A p \in Pipelines(exp) :
                 /\ m.walk[p] = WalkFrom(Order(exp, k, p)[1], p)
                 /\ m.ends[p] = {<<h, At(set[h[1]].out, p), At(set[h[2]].in, p)>> : h \in Pairs(m.walk[p])}
           /\ m.clean => orch[o].name \notin touched
           /\ m.own => \A n \in Range(exp.nodes) : node[n].def[1] = orch[o].name
<1>1. PICK walk : walk = [p \in Pipelines(exp) |-> WalkFrom(Order(exp, k, p)[1], p)]
  OBVIOUS
<1>2. PICK ends : ends = [p \in Pipelines(exp) |->
                            {<<h, At(set[h[1]].out, p), At(set[h[2]].in, p)>> : h \in Pairs(walk[p])}]
  OBVIOUS
<1>3. PICK clean, own, alone :
         /\ clean = (orch[o].name \notin touched)
         /\ own = (\A n \in Range(exp.nodes) : node[n].def[1] = orch[o].name)
         /\ alone = (\A q \in DOMAIN orch \ {o} : orch[q].state # "running")
  OBVIOUS
<1>4. PICK data : data = IF exp.llama THEN orch[o].client ELSE DatasetOf(exp, k)
  OBVIOUS
<1>5. m = [exp |-> exp, sub |-> k, run |-> run, walk |-> walk, ends |-> ends, dataset |-> data,
           clean |-> clean, own |-> own, alone |-> alone]
  BY <1>1, <1>2, <1>3, <1>4, Zenon DEF Measured
<1>6. /\ m.exp = exp /\ m.sub = k /\ m.run = run /\ m.walk = walk /\ m.ends = ends
      /\ m.clean = clean /\ m.own = own
  BY <1>5
<1>7. m.clean => orch[o].name \notin touched
  BY <1>3, <1>6, Zenon
<1>8. m.own => \A n \in Range(exp.nodes) : node[n].def[1] = orch[o].name
  BY <1>3, <1>6, Zenon
<1>9. QED
  BY <1>1, <1>2, <1>6, <1>7, <1>8

\* A run of a regular sub-experiment measures the experiment.
LEMMA RunMeasures ==
    ASSUME DeployInv, NEW o \in DOMAIN orch, Running(o), Ready(o), NEW run, NEW m,
           m = Measured(o, run, Push(run)), Regular(m), m.clean, target = "k8s" => m.own
    PROVE  \A p \in DOMAIN m.walk :
              /\ m.walk[p] = Order(m.exp, m.sub, p)
              /\ \A end \in m.ends[p] :
                    end[2] = m.run[<<p, end[1][1], end[1][2]>>] /\ end[3] = end[2]
<1>1. PICK exp, k, set : exp = orch[o].exp /\ k = orch[o].sub /\ set = Push(run)
  OBVIOUS
<1>2. m = Measured(o, run, set)
  BY <1>1
<1>3. /\ m.exp = exp /\ m.sub = k /\ m.run = run /\ DOMAIN m.walk = Pipelines(exp)
      /\ \A p \in Pipelines(exp) :
            /\ m.walk[p] = WalkFrom(Order(exp, k, p)[1], p)
            /\ m.ends[p] = {<<h, At(set[h[1]].out, p), At(set[h[2]].in, p)>> : h \in Pairs(m.walk[p])}
      /\ m.clean => orch[o].name \notin touched
      /\ m.own => \A n \in Range(exp.nodes) : node[n].def[1] = orch[o].name
  BY <1>1, <1>2, MeasuredFacts
<1>4. \A n \in Range(exp.nodes) : n \in DOMAIN node /\ node[n].up /\ node[n].exp = exp
  BY <1>1, <1>3, NodesHaveRead
<1>5. PICK links : links = exp.subs[k].links
  OBVIOUS
<1>6. /\ \A p \in Pipelines(exp) : IsInjective(Along(exp, p))
      /\ DOMAIN run = HopsAlong(exp)
      /\ links # <<>> => {links[i].at : i \in DOMAIN links} = HopsAlong(exp)
  <2> DEFINE Hops(e, ps) == UNION {{<<p, h[1], h[2]>> : h \in Pairs(Along(e, p))} : p \in ps}
  <2>1. /\ \A p \in DOMAIN m.walk : IsInjective(Along(m.exp, p))
        /\ DOMAIN m.run = Hops(m.exp, DOMAIN m.walk)
        /\ m.exp.subs[m.sub].links # <<>> =>
              {m.exp.subs[m.sub].links[i].at : i \in DOMAIN m.exp.subs[m.sub].links}
                 = Hops(m.exp, DOMAIN m.walk)
    BY Zenon DEF Regular, Along
  <2>2. Hops(exp, Pipelines(exp)) = HopsAlong(exp)
    BY Zenon DEF HopsAlong
  <2> HIDE DEF Hops
  <2>3. QED
    BY <1>3, <1>5, <2>1, <2>2
<1>7. ASSUME NEW p \in Pipelines(exp)
      PROVE  /\ m.walk[p] = Order(exp, k, p)
             /\ \A end \in m.ends[p] : end[2] = run[<<p, end[1][1], end[1][2]>>] /\ end[3] = end[2]
  <2>1. PICK path : path = Along(exp, p)
    OBVIOUS
  <2>2. /\ IsSeq(path) /\ path # <<>> /\ Range(path) \subseteq Range(exp.nodes)
        /\ exp.kind # "single" => p \in DOMAIN exp.flows
    BY <1>1, <2>1, PathFacts
  <2>3. Range(path) \subseteq DOMAIN node /\ IsInjective(path)
    BY <1>4, <1>6, <2>1, <2>2
  <2>4. Order(exp, k, p) = path
    <3>1. exp = orch[o].exp /\ k = orch[o].sub /\ links = exp.subs[k].links
      BY <1>1, <1>5
    <3>2. IsInjective(Along(exp, p))
      BY <1>6
    <3>3. links # <<>> => {links[i].at : i \in DOMAIN links} = HopsAlong(exp)
      BY <1>6
    <3>4. Order(exp, k, p) = Along(exp, p)
      BY <3>1, <3>2, <3>3, OrderIsAlong, SMTT(40)
    <3>5. QED
      BY <2>1, <3>4
  <2>5. \A n \in Range(path) :
           /\ node[n].up
           /\ SendsTo(n, p) = {path[i + 1] : i \in {i \in 1 .. Len(path) - 1 : path[i] = n}}
    <3>1. TAKE n \in Range(path)
    <3>2. node[n].up /\ node[n].exp = exp
      BY <1>4, <2>2
    <3>3. path = IF exp.kind = "single" THEN exp.nodes
                 ELSE IF p \in DOMAIN exp.flows THEN exp.flows[p] ELSE <<>>
      BY <2>1, <2>2 DEF Along
    <3>4. SendsTo(n, p) = {path[i + 1] : i \in {i \in 1 .. Len(path) - 1 : path[i] = n}}
      BY <3>2, <3>3, Zenon DEF SendsTo
    <3>5. QED
      BY <3>2, <3>4
  <2>6. m.walk[p] = path
    <3>1. WalkFrom(path[1], p) = path
      BY <2>2, <2>3, <2>5, WalkFromPath
    <3>2. QED
      BY <1>3, <2>4, <3>1
  <2>7. ASSUME NEW end \in m.ends[p]
        PROVE  end[2] = run[<<p, end[1][1], end[1][2]>>] /\ end[3] = end[2]
    <3>1. PICK h \in Pairs(path) : end = <<h, At(set[h[1]].out, p), At(set[h[2]].in, p)>>
      BY <1>3, <2>6
    <3>2. /\ At(Push(run)[h[1]].out, p) = run[<<p, h[1], h[2]>>]
          /\ At(Push(run)[h[2]].in, p) = run[<<p, h[1], h[2]>>]
      BY <1>6, <2>1, <2>2, <2>3, <3>1, EndsAreTold
    <3>3. /\ At(set[h[1]].out, p) = run[<<p, h[1], h[2]>>]
          /\ At(set[h[2]].in, p) = run[<<p, h[1], h[2]>>]
      BY <1>1, <3>2
    <3>4. QED
      BY <3>1, <3>3
  <2>8. QED
    BY <2>4, <2>6, <2>7
<1>8. QED
  BY <1>3, <1>7

\* Once a run has measured the experiment, what it recorded of it does not change.
LEMMA NextKeepsRunsMeasure ==
    ASSUME DeployInv, RunsMeasureTheExperiment, [Next]_vars
    PROVE  RunsMeasureTheExperiment'
<1>1. target' = target
  BY DEF Next, vars, deployVars, genVars, Deploy, NodeStart, NodeStops, OrchestratorStart, Run,
         NextSub, OrchestratorFails
<1>2. CASE last' = last
  BY <1>1, <1>2 DEF RunsMeasureTheExperiment
<1>3. CASE last' # last
  <2>1. Run
    BY <1>3 DEF Next, vars, deployVars, Deploy, NodeStart, NodeStops, OrchestratorStart,
                NextSub, OrchestratorFails
  <2>2. PICK o \in DOMAIN orch :
           /\ Running(o) /\ Ready(o)
           /\ node' = Push(Runs(o)[orch[o].run])
           /\ last' = Measured(o, Runs(o)[orch[o].run], node')
    BY <1>3, <2>1 DEF Run
  <2>3. PICK run : run = Runs(o)[orch[o].run]
    OBVIOUS
  <2>4. PICK m : m = last'
    OBVIOUS
  <2>5. m = Measured(o, run, Push(run))
    BY <2>2, <2>3, <2>4
  <2>6. ASSUME Regular(m), m.clean, target = "k8s" => m.own
        PROVE  \A p \in DOMAIN m.walk :
                  /\ m.walk[p] = Order(m.exp, m.sub, p)
                  /\ \A end \in m.ends[p] :
                        end[2] = m.run[<<p, end[1][1], end[1][2]>>] /\ end[3] = end[2]
    BY <2>2, <2>5, <2>6, RunMeasures
  <2>7. QED
    BY <1>1, <2>4, <2>6 DEF RunsMeasureTheExperiment
<1>4. QED
  BY <1>2, <1>3

\* RunsMeasureTheExperiment: whatever the generator, the deployments and the restarts have done
\* before, a run of a regular sub-experiment goes along the nodes of the experiment, each hop
\* with the run's own setting at both ends.
THEOREM RunsAlwaysMeasureTheExperiment == Spec => []RunsMeasureTheExperiment
<1>1. Init => GenInv /\ DeployInv /\ RunsMeasureTheExperiment
  BY InitGenInv, InitDeployInv DEF Init, RunsMeasureTheExperiment
<1>2. GenInv /\ DeployInv /\ RunsMeasureTheExperiment /\ [Next]_vars =>
         (GenInv /\ DeployInv /\ RunsMeasureTheExperiment)'
  BY NextKeepsGenInv, NextKeepsDeployInv, NextKeepsRunsMeasure
<1>3. QED
  BY <1>1, <1>2, PTL DEF Spec

-----------------------------------------------------------------------------
(* Sweeps.                                                                 *)

\* What Combinations adds to the choices for the links before the n-th.
Added(before, entry, n) ==
    FlattenSeq([p \in DOMAIN before |-> [k \in DOMAIN entry[n].rates |-> Append(before[p], k)]])

\* The recursion of Combinations over the first n links.
Combines(h, entry, n) ==
    h = [i \in 0 .. n |-> IF i = 0 THEN << <<>> >> ELSE Added(h[i - 1], entry, i)]

LEMMA CombinesExists ==
    ASSUME NEW entry, NEW n \in Nat
    PROVE  \E h : Combines(h, entry, n)
<1> DEFINE T == {k \in Nat : ~ \E h : Combines(h, entry, k)}
<1> SUFFICES ASSUME T # {} PROVE FALSE
  OBVIOUS
<1>1. PICK m \in T : \A k \in T : m <= k
  BY LeastNumber
<1>2. m # 0
  <2>1. Combines([i \in 0 .. 0 |-> << <<>> >>], entry, 0)
    BY DEF Combines
  <2>2. QED
    BY <2>1
<1>3. PICK g : Combines(g, entry, m - 1)
  BY <1>1, <1>2
<1>4. \A i \in 0 .. m - 1 : g[i] = IF i = 0 THEN << <<>> >> ELSE Added(g[i - 1], entry, i)
  BY <1>3 DEF Combines
<1> DEFINE h == [i \in 0 .. m |-> IF i = m THEN Added(g[m - 1], entry, m) ELSE g[i]]
<1>5. \A i \in 0 .. m : h[i] = IF i = 0 THEN << <<>> >> ELSE Added(h[i - 1], entry, i)
  <2> SUFFICES ASSUME NEW i \in 0 .. m
               PROVE  h[i] = IF i = 0 THEN << <<>> >> ELSE Added(h[i - 1], entry, i)
    OBVIOUS
  <2>1. CASE i = m
    <3>1. h[m - 1] = g[m - 1] /\ h[i] = Added(g[m - 1], entry, m)
      BY <1>2, <2>1
    <3> HIDE DEF h
    <3>2. QED
      BY <1>2, <2>1, <3>1
  <2>2. CASE i # m
    <3>1. i \in 0 .. m - 1 /\ h[i] = g[i]
      BY <2>2
    <3>2. i # 0 => h[i - 1] = g[i - 1]
      BY <2>2
    <3> HIDE DEF h
    <3>3. QED
      BY <1>4, <3>1, <3>2
  <2>3. QED
    BY <2>1, <2>2
<1> HIDE DEF h
<1>6. h = [i \in 0 .. m |-> h[i]]
  BY DEF h
<1>7. Combines(h, entry, m)
  BY <1>5, <1>6 DEF Combines
<1>8. QED
  BY <1>7

\* The ways to choose a rate of each of the first n links.
Picks(entry, n) ==
    {c \in Seq(Nat) : Len(c) = n /\ \A i \in 1 .. n : c[i] \in DOMAIN entry[i].rates}

LEMMA AddedFacts ==
    ASSUME NEW entry, NEW n \in Nat \ {0}, IsSeq(entry[n].rates),
           NEW before, IsSeq(before), Range(before) = Picks(entry, n - 1)
    PROVE  IsSeq(Added(before, entry, n)) /\ Range(Added(before, entry, n)) = Picks(entry, n)
<1> DEFINE more(p) == [k \in DOMAIN entry[n].rates |-> Append(before[p], k)]
           ss == [p \in DOMAIN before |-> more(p)]
           K == Len(entry[n].rates)
<1>1. K \in Nat /\ DOMAIN entry[n].rates = 1 .. K
  BY SeqFacts
<1>2. Len(before) \in Nat /\ DOMAIN before = 1 .. Len(before) /\ Range(before) = {before[p] : p \in 1 .. Len(before)}
  BY SeqFacts
<1>3. \A p \in 1 .. Len(before) : before[p] \in Picks(entry, n - 1)
  BY <1>2
<1>4. ASSUME NEW p \in 1 .. Len(before)
      PROVE  IsSeq(more(p)) /\ Range(more(p)) = {Append(before[p], k) : k \in 1 .. K}
  <2> HIDE DEF K
  <2>1. more(p) = [k \in 1 .. K |-> Append(before[p], k)]
    BY <1>1
  <2>2. PICK f : f = more(p)
    OBVIOUS
  <2>3. f \in Seq({Append(before[p], k) : k \in 1 .. K})
    BY <1>1, <2>1, <2>2
  <2>4. IsSeq(f)
    BY <2>3, TypedIsSeq
  <2>5. DOMAIN f = 1 .. K /\ \A k \in 1 .. K : f[k] = Append(before[p], k)
    BY <2>1, <2>2
  <2>6. Range(f) = {Append(before[p], k) : k \in 1 .. K}
    BY <2>5 DEF Range
  <2>7. QED
    BY <2>2, <2>4, <2>6
<1>5. IsSeq(ss) /\ Len(ss) = Len(before) /\ \A p \in 1 .. Len(before) : ss[p] = more(p)
  <2> HIDE DEF more
  <2>1. ss = [p \in 1 .. Len(before) |-> more(p)]
    BY <1>2
  <2>2. PICK f : f = ss
    OBVIOUS
  <2>3. f \in Seq({more(p) : p \in 1 .. Len(before)})
    BY <1>2, <2>1, <2>2
  <2>4. IsSeq(f) /\ Len(f) = Len(before)
    <3>1. f = [p \in 1 .. Len(before) |-> more(p)]
      BY <2>1, <2>2
    <3>2. IsSeq(f)
      BY <2>3, TypedIsSeq
    <3> HIDE DEF ss
    <3>3. Len(f) = Len(before)
      BY <1>2, <3>1
    <3>4. QED
      BY <3>2, <3>3
  <2>5. \A p \in 1 .. Len(before) : f[p] = more(p)
    BY <2>1, <2>2
  <2> HIDE DEF ss
  <2>6. QED
    BY <2>2, <2>4, <2>5
<1>6. Added(before, entry, n) = FlattenSeq(ss)
  BY DEF Added
<1> HIDE DEF ss, K
<1>7. /\ IsSeq(FlattenSeq(ss))
      /\ Range(FlattenSeq(ss)) = UNION {Range(ss[p]) : p \in 1 .. Len(ss)}
  <2>1. \A p \in 1 .. Len(ss) : IsSeq(ss[p])
    BY <1>4, <1>5
  <2>2. QED
    BY <1>5, <2>1, FlattenFacts
<1> HIDE DEF more
<1>8. ASSUME NEW c, c \in Range(FlattenSeq(ss)) PROVE c \in Picks(entry, n)
  <2>1. PICK p \in 1 .. Len(before) : c \in Range(ss[p])
    BY <1>5, <1>7, <1>8
  <2>2. PICK k \in 1 .. K : c = Append(before[p], k)
    BY <1>4, <1>5, <2>1
  <2>3. PICK b : b = before[p]
    OBVIOUS
  <2>4. b \in Seq(Nat) /\ Len(b) = n - 1 /\ \A i \in 1 .. n - 1 : b[i] \in DOMAIN entry[i].rates
    BY <1>3, <2>3 DEF Picks
  <2>5. k \in Nat
    BY <1>1
  <2>6. /\ c \in Seq(Nat) /\ Len(c) = n /\ c[n] = k
        /\ \A i \in 1 .. n - 1 : c[i] = b[i]
    BY <2>2, <2>3, <2>4, <2>5, AppendProperties
  <2>7. \A i \in 1 .. n : c[i] \in DOMAIN entry[i].rates
    <3>1. TAKE i \in 1 .. n
    <3>2. CASE i = n
      BY <1>1, <2>6, <3>2
    <3>3. CASE i # n
      <4>1. i \in 1 .. n - 1
        BY <3>3
      <4>2. QED
        BY <2>4, <2>6, <4>1
    <3>4. QED
      BY <3>2, <3>3
  <2>8. QED
    BY <2>6, <2>7 DEF Picks
<1>9. ASSUME NEW c \in Picks(entry, n) PROVE c \in Range(FlattenSeq(ss))
  <2>1. c \in Seq(Nat) /\ Len(c) = n /\ \A i \in 1 .. n : c[i] \in DOMAIN entry[i].rates
    BY DEF Picks
  <2>2. PICK b : b = Front(c)
    OBVIOUS
  <2>3. PICK k \in 1 .. K : k = c[n]
    BY <1>1, <2>1
  <2>4. /\ b \in Seq(Nat) /\ Len(b) = n - 1 /\ \A i \in 1 .. n - 1 : b[i] = c[i]
        /\ c = Append(b, k)
    <3>1. c # <<>>
      BY <2>1
    <3>2. b = SubSeq(c, 1, n - 1)
      BY <2>1, <2>2 DEF Front
    <3>3. b \in Seq(Nat) /\ Len(b) = n - 1 /\ \A i \in 1 .. n - 1 : b[i] = c[i]
      BY <2>1, <3>2
    <3>4. c = Append(b, k)
      BY <2>1, <2>3, <3>3
    <3>5. QED
      BY <3>3, <3>4
  <2>5. b \in Picks(entry, n - 1)
    BY <2>1, <2>4 DEF Picks
  <2>6. PICK p \in 1 .. Len(before) : b = before[p]
    BY <1>2, <2>5
  <2>7. c \in Range(ss[p])
    BY <1>4, <1>5, <2>4, <2>6
  <2>8. QED
    BY <1>5, <1>7, <2>7
<1>10. Range(FlattenSeq(ss)) = Picks(entry, n)
  BY <1>8, <1>9
<1>11. QED
  BY <1>6, <1>7, <1>10

\* The combinations of a product are the ways to choose a rate of each link.
LEMMA CombinationFacts ==
    ASSUME NEW entry, IsSeq(entry), \A i \in DOMAIN entry : IsSeq(entry[i].rates)
    PROVE  /\ IsSeq(Combinations(entry))
           /\ Range(Combinations(entry)) = Picks(entry, Len(entry))
<1> DEFINE f == CHOOSE h : Combines(h, entry, Len(entry))
           OK(n) == IsSeq(f[n]) /\ Range(f[n]) = Picks(entry, n)
<1>1. Len(entry) \in Nat /\ DOMAIN entry = 1 .. Len(entry)
  BY SeqFacts
<1>2. Combinations(entry) = f[Len(entry)]
  BY Zenon DEF Combinations, Combines, Added
<1>3. Combines(f, entry, Len(entry))
  BY <1>1, CombinesExists
<1> HIDE DEF f
<1>4. \A i \in 0 .. Len(entry) : f[i] = IF i = 0 THEN << <<>> >> ELSE Added(f[i - 1], entry, i)
  BY <1>3 DEF Combines
<1>5. \A n \in 0 .. Len(entry) : OK(n)
  <2> DEFINE T == {n \in 0 .. Len(entry) : ~ OK(n)}
  <2> SUFFICES ASSUME T # {} PROVE FALSE
    OBVIOUS
  <2>1. T \subseteq Nat
    BY <1>1
  <2>2. PICK n \in T : \A k \in T : n <= k
    <3> HIDE DEF T
    <3>1. QED
      BY <2>1, LeastNumber
  <2>3. CASE n = 0
    <3>1. f[0] = << <<>> >>
      BY <1>1, <1>4
    <3>2. f[0] \in Seq({<<>>}) /\ Range(f[0]) = {<<>>}
      BY <3>1 DEF Range
    <3>3. Picks(entry, 0) = {<<>>}
      <4>1. <<>> \in Picks(entry, 0)
        BY EmptySeq DEF Picks
      <4>2. \A c \in Picks(entry, 0) : c = <<>>
        BY EmptySeq DEF Picks
      <4>3. QED
        BY <4>1, <4>2
    <3>4. OK(0)
      BY <3>2, <3>3, TypedIsSeq
    <3>5. QED
      BY <2>2, <2>3, <3>4
  <2>4. CASE n # 0
    <3>1. n - 1 \in 0 .. Len(entry) /\ n \in 1 .. Len(entry) /\ n \in Nat \ {0}
      BY <1>1, <2>2, <2>4
    <3>2. OK(n - 1)
      BY <2>2, <3>1
    <3>3. PICK before : before = f[n - 1]
      OBVIOUS
    <3>4. f[n] = Added(before, entry, n)
      BY <1>4, <2>4, <3>1, <3>3
    <3>5. OK(n)
      BY <1>1, <3>1, <3>2, <3>3, <3>4, AddedFacts
    <3>6. QED
      BY <2>2, <3>5
  <2>5. QED
    BY <2>3, <2>4
<1>6. QED
  BY <1>1, <1>2, <1>5

\* The settings of a run, given which rate of each link is chosen.
SettingsOf(entry, c) ==
    [d \in {entry[i].at : i \in DOMAIN entry} |->
        LET i == Max({i \in DOMAIN entry : entry[i].at = d}) IN entry[i].rates[c[i]]]

\* The choices that the mode of a sweep admits.
ModePicks(mode, entry) ==
    {c \in Picks(entry, Len(entry)) : mode = "paired" => \A i, j \in 1 .. Len(entry) : c[i] = c[j]}

LEMMA PairedFacts ==
    ASSUME NEW entry, IsSeq(entry), \A i \in DOMAIN entry : IsSeq(entry[i].rates),
           \A i, j \in DOMAIN entry : Len(entry[i].rates) = Len(entry[j].rates)
    PROVE  /\ IsSeq(Paired(entry))
           /\ Range(Paired(entry)) = {SettingsOf(entry, c) : c \in ModePicks("paired", entry)}
<1>1. Len(entry) \in Nat /\ DOMAIN entry = 1 .. Len(entry)
  BY SeqFacts
<1> DEFINE run(k) == [d \in {entry[i].at : i \in DOMAIN entry} |->
                        LET i == Max({i \in DOMAIN entry : entry[i].at = d}) IN entry[i].rates[k]]
<1>2. PICK n : n = IF entry = <<>> THEN 1 ELSE Len(entry[1].rates)
  OBVIOUS
<1>3. Paired(entry) = [k \in 1 .. n |-> run(k)]
  BY <1>2, Zenon DEF Paired, RunOf
<1>4. n \in Nat /\ \A i \in 1 .. Len(entry) : DOMAIN entry[i].rates = 1 .. n
  <2>1. CASE entry = <<>>
    BY <1>1, <1>2, <2>1, SeqFacts
  <2>2. CASE entry # <<>>
    <3>1. 1 \in 1 .. Len(entry) /\ n = Len(entry[1].rates)
      BY <1>1, <1>2, <2>2, SeqFacts
    <3>2. \A i \in 1 .. Len(entry) :
             Len(entry[i].rates) \in Nat /\ DOMAIN entry[i].rates = 1 .. Len(entry[i].rates)
      <4>1. TAKE i \in 1 .. Len(entry)
      <4>2. PICK r : r = entry[i].rates
        OBVIOUS
      <4>3. IsSeq(r)
        BY <1>1, <4>2
      <4>4. Len(r) \in Nat /\ DOMAIN r = 1 .. Len(r)
        BY <4>3, SeqFacts
      <4>5. QED
        BY <4>2, <4>4
    <3>3. QED
      BY <1>1, <3>1, <3>2
  <2>3. QED
    BY <2>1, <2>2
<1> HIDE DEF run
<1>5. PICK f : f = Paired(entry)
  OBVIOUS
<1>6. f = [k \in 1 .. n |-> run(k)]
  BY <1>3, <1>5
<1>7. IsSeq(f)
  <2>1. f \in Seq({run(k) : k \in 1 .. n})
    BY <1>4, <1>6
  <2>2. QED
    BY <2>1, TypedIsSeq
<1>8. Range(f) = {run(k) : k \in 1 .. n}
  BY <1>6 DEF Range
<1>9. ASSUME NEW c, NEW k, \A i \in 1 .. Len(entry) : c[i] = k
      PROVE  SettingsOf(entry, c) = run(k)
  <2> DEFINE at(d) == {i \in DOMAIN entry : entry[i].at = d}
  <2>1. \A d \in {entry[i].at : i \in DOMAIN entry} : Max(at(d)) \in 1 .. Len(entry)
    <3>1. TAKE d \in {entry[i].at : i \in DOMAIN entry}
    <3>2. at(d) \subseteq 1 .. Len(entry) /\ at(d) # {}
      BY <1>1
    <3> HIDE DEF at
    <3>3. Max(at(d)) \in at(d)
      BY <1>1, <3>2, MaxIsOne
    <3>4. QED
      BY <3>2, <3>3
  <2>2. run(k) = [d \in {entry[i].at : i \in DOMAIN entry} |-> entry[Max(at(d))].rates[k]]
    BY Zenon DEF run
  <2>3. SettingsOf(entry, c) =
           [d \in {entry[i].at : i \in DOMAIN entry} |-> entry[Max(at(d))].rates[c[Max(at(d))]]]
    BY Zenon DEF SettingsOf
  <2> HIDE DEF at
  <2>4. QED
    BY <1>9, <2>1, <2>2, <2>3
<1>10. ASSUME NEW k \in 1 .. n
      PROVE  \E c \in ModePicks("paired", entry) : run(k) = SettingsOf(entry, c)
  <2>1. PICK c : c = [i \in 1 .. Len(entry) |-> k]
    OBVIOUS
  <2>2. c \in Seq(Nat) /\ Len(c) = Len(entry) /\ \A i \in 1 .. Len(entry) : c[i] = k
    BY <1>1, <1>4, <2>1
  <2>3. c \in ModePicks("paired", entry)
    BY <1>4, <2>2 DEF ModePicks, Picks
  <2>4. run(k) = SettingsOf(entry, c)
    BY <1>9, <2>2
  <2>5. QED
    BY <2>3, <2>4
<1>11. ASSUME NEW c \in ModePicks("paired", entry)
       PROVE  \E k \in 1 .. n : SettingsOf(entry, c) = run(k)
  <2>1. /\ \A i \in 1 .. Len(entry) : c[i] \in 1 .. n
        /\ \A i, j \in 1 .. Len(entry) : c[i] = c[j]
    BY <1>4 DEF ModePicks, Picks
  <2>2. PICK k \in 1 .. n : \A i \in 1 .. Len(entry) : c[i] = k
    <3>1. CASE entry = <<>>
      <4>1. n = 1 /\ Len(entry) = 0
        BY <1>1, <1>2, <3>1, SeqFacts
      <4>2. 1 \in 1 .. n
        BY <4>1
      <4>3. QED
        BY <4>1, <4>2
    <3>2. CASE entry # <<>>
      <4>1. 1 \in 1 .. Len(entry)
        BY <1>1, <3>2, SeqFacts
      <4>2. QED
        BY <2>1, <4>1
    <3>3. QED
      BY <3>1, <3>2
  <2>3. QED
    BY <1>9, <2>2
<1>12. Range(f) = {SettingsOf(entry, c) : c \in ModePicks("paired", entry)}
  BY <1>8, <1>10, <1>11
<1>13. QED
  BY <1>5, <1>7, <1>12

LEMMA ProductFacts ==
    ASSUME NEW entry, IsSeq(entry), \A i \in DOMAIN entry : IsSeq(entry[i].rates)
    PROVE  /\ IsSeq(Product(entry))
           /\ Range(Product(entry)) = {SettingsOf(entry, c) : c \in Picks(entry, Len(entry))}
<1>1. PICK all : all = Combinations(entry)
  OBVIOUS
<1>2. IsSeq(all) /\ Range(all) = Picks(entry, Len(entry))
  BY <1>1, CombinationFacts
<1>3. Len(all) \in Nat /\ DOMAIN all = 1 .. Len(all) /\ Range(all) = {all[k] : k \in 1 .. Len(all)}
  BY <1>2, SeqFacts
<1>4. Product(entry) = [k \in 1 .. Len(all) |-> SettingsOf(entry, all[k])]
  <2>1. Product(entry) = [k \in DOMAIN all |-> SettingsOf(entry, all[k])]
    BY <1>1, Zenon DEF Product, RunOf, SettingsOf
  <2>2. QED
    BY <1>3, <2>1
<1>5. PICK f : f = Product(entry)
  OBVIOUS
<1>6. f \in Seq({SettingsOf(entry, all[k]) : k \in 1 .. Len(all)})
  BY <1>3, <1>4, <1>5
<1>7. IsSeq(f)
  BY <1>6, TypedIsSeq
<1>8. Range(f) = {SettingsOf(entry, all[k]) : k \in 1 .. Len(all)}
  BY <1>4, <1>5 DEF Range
<1>9. Range(f) = {SettingsOf(entry, c) : c \in Picks(entry, Len(entry))}
  BY <1>2, <1>3, <1>8
<1>10. QED
  BY <1>5, <1>7, <1>9

\* ResolveSweep (_expand_paired, _expand_product): a sweep that fits its mode is expanded into
\* exactly the runs that choose a rate of each link of an entry, in paired mode the one at the
\* same position for all links; none is missing, and a run sets the links of its entry only.
THEOREM SweepsAreExhaustive ==
    ASSUME NEW sub, IsSeq(sub.sweep), sub.sweep # <<>>, SweepFits(sub),
           \A e \in DOMAIN sub.sweep :
              /\ IsSeq(sub.sweep[e])
              /\ \A i \in DOMAIN sub.sweep[e] : IsSeq(sub.sweep[e][i].rates)
    PROVE  Range(ResolveSweep(sub)) =
              UNION {{SettingsOf(entry, c) : c \in ModePicks(sub.mode, entry)} : entry \in Range(sub.sweep)}
<1>1. PICK sweep, mode : sweep = sub.sweep /\ mode = sub.mode
  OBVIOUS
<1>2. /\ Len(sweep) \in Nat /\ DOMAIN sweep = 1 .. Len(sweep)
      /\ Range(sweep) = {sweep[e] : e \in 1 .. Len(sweep)}
  BY <1>1, SeqFacts
<1> DEFINE Expanded(e) == IF mode = "paired" THEN Paired(sweep[e]) ELSE Product(sweep[e])
           Wanted(entry) == {SettingsOf(entry, c) : c \in ModePicks(mode, entry)}
<1>3. ASSUME NEW e \in 1 .. Len(sweep)
      PROVE  IsSeq(Expanded(e)) /\ Range(Expanded(e)) = Wanted(sweep[e])
  <2>1. PICK entry : entry = sweep[e]
    OBVIOUS
  <2>2. IsSeq(entry) /\ \A i \in DOMAIN entry : IsSeq(entry[i].rates)
    BY <1>1, <1>2, <2>1
  <2>3. CASE mode = "paired"
    <3>1. \A i, j \in DOMAIN entry : Len(entry[i].rates) = Len(entry[j].rates)
      BY <1>1, <1>2, <2>1, <2>3 DEF SweepFits
    <3>2. /\ IsSeq(Paired(entry))
          /\ Range(Paired(entry)) = {SettingsOf(entry, c) : c \in ModePicks(mode, entry)}
      BY <2>2, <2>3, <3>1, PairedFacts
    <3>3. QED
      BY <2>1, <2>3, <3>2
  <2>4. CASE mode # "paired"
    <3>1. /\ IsSeq(Product(entry))
          /\ Range(Product(entry)) = {SettingsOf(entry, c) : c \in Picks(entry, Len(entry))}
      BY <2>2, ProductFacts
    <3>2. ModePicks(mode, entry) = Picks(entry, Len(entry))
      BY <2>4 DEF ModePicks
    <3>3. QED
      BY <2>1, <2>4, <3>1, <3>2
  <2>5. QED
    BY <2>3, <2>4
<1>4. PICK ss : ss = [e \in DOMAIN sweep |-> Expanded(e)]
  OBVIOUS
<1>5. ResolveSweep(sub) = FlattenSeq(ss)
  BY <1>1, <1>4, Zenon DEF ResolveSweep
<1> HIDE DEF Expanded
<1>6. ss = [e \in 1 .. Len(sweep) |-> Expanded(e)]
  BY <1>2, <1>4
<1>7. IsSeq(ss) /\ Len(ss) = Len(sweep) /\ \A e \in 1 .. Len(sweep) : ss[e] = Expanded(e)
  <2>1. ss \in Seq({Expanded(e) : e \in 1 .. Len(sweep)})
    BY <1>2, <1>6
  <2>2. IsSeq(ss)
    BY <2>1, TypedIsSeq
  <2>3. Len(ss) = Len(sweep)
    BY <1>2, <1>6
  <2>4. QED
    BY <1>6, <2>2, <2>3
<1> HIDE DEF Wanted
<1>8. \A e \in 1 .. Len(ss) : IsSeq(ss[e]) /\ Range(ss[e]) = Wanted(sweep[e])
  BY <1>3, <1>7
<1>9. Range(FlattenSeq(ss)) = UNION {Range(ss[e]) : e \in 1 .. Len(ss)}
  BY <1>7, <1>8, FlattenFacts
<1>10. UNION {Range(ss[e]) : e \in 1 .. Len(ss)} = UNION {Wanted(entry) : entry \in Range(sweep)}
  BY <1>2, <1>7, <1>8
<1>11. Range(ResolveSweep(sub)) = UNION {Wanted(entry) : entry \in Range(sweep)}
  BY <1>5, <1>9, <1>10
<1>12. QED
  BY <1>1, <1>11 DEF Wanted
=============================================================================
