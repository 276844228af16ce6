---------------------------- MODULE Parser_proofs ----------------------------
(* Theorems about Parser, for all texts: the types of its call stack, that    *)
(* the trees keep every lexeme, that they follow the precedence table, and    *)
(* that the spans of their nodes are those of their text.                     *)
EXTENDS Trees_proofs

----------------------------------------------------------------------------
(* The stack: every activation is in form, and waits in a call for the one    *)
(* above it.                                                                  *)

ActivationFormed(a) ==
  /\ a = [node |-> a.node, todo |-> a.todo, level |-> a.level]
  /\ a.level \in 0..AnyLevel
  /\ Form(a.node, a.todo)
Waits(st, n) ==
  n < Len(st) => /\ st[n].todo # << >> /\ st[n].todo[1].do = "parse"
                 /\ st[n].todo[1].level = st[n + 1].level
Activations(st) ==
  /\ IsASequence(st) /\ st # << >>
  /\ \A n \in 1..Len(st) : /\ ActivationFormed(st[n])
                           /\ st[n].node.kind = "unit" <=> n = 1
                           /\ Waits(st, n)

(* What the activations have built, outermost first; without the innermost.   *)
PartsEach(st) == [n \in 1..Len(st) |-> Members(st[n].node)]
PartsOf(st) == FlattenSeq(PartsEach(st))
Below(st) == FlattenSeq(Front(PartsEach(st)))

LEMMA FlattenedFinished ==
  ASSUME NEW ss, AllSequences(ss), \A i \in 1..Len(ss) : AllFinished(ss[i])
  PROVE  AllFinished(FlattenSeq(ss))
  <1> DEFINE T == {n \in Nat : \A tt : /\ AllSequences(tt) /\ Len(tt) = n
                                       /\ \A i \in 1..Len(tt) : AllFinished(tt[i])
                                       => AllFinished(FlattenSeq(tt))}
  <1>1. 0 \in T
    <2> SUFFICES ASSUME NEW tt, AllSequences(tt), Len(tt) = 0
                 PROVE  AllFinished(FlattenSeq(tt))
      OBVIOUS
    <2>1. tt = << >>
      BY EmptySequence DEF AllSequences
    <2> QED
      BY <2>1, FlattenedEmpty, NoTrees
  <1>2. ASSUME NEW n \in Nat, n \in T
        PROVE  n + 1 \in T
    <2> SUFFICES ASSUME NEW tt, AllSequences(tt), Len(tt) = n + 1,
                        \A i \in 1..Len(tt) : AllFinished(tt[i])
                 PROVE  AllFinished(FlattenSeq(tt))
      OBVIOUS
    <2>0. \A uu : /\ AllSequences(uu) /\ Len(uu) = n
                  /\ \A i \in 1..Len(uu) : AllFinished(uu[i])
                  => AllFinished(FlattenSeq(uu))
      BY <1>2
    <2> HIDE DEF T
    <2> DEFINE front == Front(tt)
    <2>1. /\ AllSequences(front) /\ Len(front) = n
          /\ \A i \in 1..n : front[i] = tt[i]
          /\ FlattenSeq(tt) = Join(FlattenSeq(front), tt[n + 1])
      BY FrontOfMore DEF Join
    <2> HIDE DEF front
    <2>2. AllFinished(FlattenSeq(front))
      BY <2>0, <2>1
    <2>3. AllFinished(tt[n + 1])
      OBVIOUS
    <2> QED
      BY <2>1, <2>2, <2>3, AllFinishedJoined
  <1> HIDE DEF T
  <1>3. Nat \subseteq T
    BY <1>1, <1>2, SetInduction
  <1>4. Len(ss) \in Nat
    BY SequenceShape DEF AllSequences
  <1> QED
    BY <1>3, <1>4 DEF T

LEMMA PartsOfEach ==
  ASSUME NEW st, IsASequence(st), \A n \in 1..Len(st) : ActivationFormed(st[n])
  PROVE  /\ AllSequences(PartsEach(st)) /\ Len(PartsEach(st)) = Len(st)
         /\ \A n \in 1..Len(st) : /\ PartsEach(st)[n] = Members(st[n].node)
                                  /\ AllFinished(PartsEach(st)[n])
         /\ AllFinished(PartsOf(st)) /\ IsASequence(PartsOf(st))
  <1> DEFINE ps == PartsEach(st)
  <1>1. Len(st) \in Nat
    BY SequenceShape
  <1>2. ps = [n \in 1..Len(st) |-> ps[n]] /\ \A n \in 1..Len(st) : ps[n] = Members(st[n].node)
    BY DEF PartsEach
  <1> HIDE DEF ps
  <1>3. IsASequence(ps) /\ Len(ps) = Len(st)
    BY <1>1, <1>2, MadeASequence
  <1>4. ASSUME NEW n \in 1..Len(st)
        PROVE  AllFinished(ps[n]) /\ IsASequence(ps[n])
    <2>1. Form(st[n].node, st[n].todo)
      BY DEF ActivationFormed
    <2> QED
      BY <2>1, <1>2, FormText
  <1>5. AllSequences(ps)
    BY <1>3, <1>4 DEF AllSequences
  <1>6. AllFinished(FlattenSeq(ps)) /\ IsASequence(FlattenSeq(ps))
    BY <1>3, <1>4, <1>5, FlattenedFinished, FlattenedSequence
  <1> QED
    BY <1>2, <1>3, <1>4, <1>5, <1>6 DEF ps, PartsOf

LEMMA PartsBelow ==
  ASSUME NEW st, Activations(st)
  PROVE  /\ PartsOf(st) = Join(Below(st), Members(st[Len(st)].node))
         /\ AllFinished(Below(st)) /\ IsASequence(Below(st))
         /\ AllFinished(PartsOf(st)) /\ IsASequence(PartsOf(st))
         /\ Len(st) \in Nat /\ Len(st) >= 1 /\ Len(st) \in 1..Len(st)
  <1> DEFINE ps == PartsEach(st)  front == Front(ps)
  <1>1. Len(st) \in Nat /\ Len(st) >= 1 /\ Len(st) \in 1..Len(st)
    BY SequenceShape, EmptySequence DEF Activations
  <1>2. /\ AllSequences(ps) /\ Len(ps) = Len(st)
        /\ \A n \in 1..Len(st) : ps[n] = Members(st[n].node) /\ AllFinished(ps[n])
        /\ AllFinished(PartsOf(st)) /\ IsASequence(PartsOf(st)) /\ PartsOf(st) = FlattenSeq(ps)
    BY PartsOfEach DEF Activations, PartsOf
  <1>3. ps # << >>
    BY <1>1, <1>2, EmptySequence DEF AllSequences
  <1>4. /\ AllSequences(front) /\ Len(front) = Len(ps) - 1
        /\ \A i \in 1..Len(ps) - 1 : front[i] = ps[i]
        /\ FlattenSeq(ps) = Join(FlattenSeq(front), ps[Len(ps)])
    BY <1>2, <1>3, FrontOfAll DEF Join
  <1>5. Below(st) = FlattenSeq(front)
    BY DEF Below
  <1> HIDE DEF ps, front
  <1>6. \A i \in 1..Len(front) : AllFinished(front[i])
    <2>1. ASSUME NEW i \in 1..Len(front)
          PROVE  AllFinished(front[i])
      <3>1. i \in 1..Len(ps) - 1 /\ i \in 1..Len(st)
        BY <1>1, <1>2, <1>4
      <3> QED
        BY <3>1, <1>2, <1>4
    <2> QED
      BY <2>1
  <1>7. AllFinished(FlattenSeq(front)) /\ IsASequence(FlattenSeq(front))
    BY <1>4, <1>6, FlattenedFinished, FlattenedSequence
  <1> QED
    BY <1>1, <1>2, <1>4, <1>5, <1>7

(* Stacks that agree below their innermost activation. *)
LEMMA SameBelow ==
  ASSUME NEW a, Activations(a), NEW b, Activations(b), Len(a) = Len(b),
         \A n \in 1..Len(a) : n < Len(a) => a[n].node = b[n].node
  PROVE  Below(a) = Below(b)
  <1> DEFINE pa == PartsEach(a)  pb == PartsEach(b)
  <1>1. Len(a) \in Nat /\ Len(a) >= 1
    BY SequenceShape, EmptySequence DEF Activations
  <1>2. /\ IsASequence(pa) /\ Len(pa) = Len(a) /\ \A n \in 1..Len(a) : pa[n] = Members(a[n].node)
    BY PartsOfEach DEF Activations, AllSequences
  <1>3. /\ IsASequence(pb) /\ Len(pb) = Len(b) /\ \A n \in 1..Len(b) : pb[n] = Members(b[n].node)
    BY PartsOfEach DEF Activations, AllSequences
  <1> HIDE DEF pa, pb
  <1>4. pa # << >> /\ pb # << >>
    BY <1>1, <1>2, <1>3, EmptySequence
  <1>5. /\ IsASequence(Front(pa)) /\ Len(Front(pa)) = Len(a) - 1
        /\ \A n \in 1..Len(a) - 1 : Front(pa)[n] = pa[n]
    BY <1>2, <1>4, FrontOfSequence
  <1>6. /\ IsASequence(Front(pb)) /\ Len(Front(pb)) = Len(a) - 1
        /\ \A n \in 1..Len(a) - 1 : Front(pb)[n] = pb[n]
    BY <1>3, <1>4, FrontOfSequence
  <1>7. \A n \in 1..Len(a) - 1 : Front(pa)[n] = Front(pb)[n]
    <2>1. ASSUME NEW n \in 1..Len(a) - 1
          PROVE  Front(pa)[n] = Front(pb)[n]
      <3>1. n \in 1..Len(a) /\ n < Len(a)
        BY <1>1
      <3>2. pa[n] = pb[n]
        BY <3>1, <1>2, <1>3
      <3> QED
        BY <3>2, <1>5, <1>6
    <2> QED
      BY <2>1
  <1>8. Front(pa) = Front(pb)
    BY <1>5, <1>6, <1>7, SameSequence
  <1> QED
    BY <1>8 DEF Below, pa, pb

(* The stack with another node and other steps on top. *)
Changed(new, st, node, todo) ==
  /\ IsASequence(new) /\ Len(new) = Len(st)
  /\ \A n \in 1..Len(st) : n < Len(st) => new[n] = st[n]
  /\ new[Len(st)] = [node |-> node, todo |-> todo, level |-> st[Len(st)].level]

LEMMA TopChanges ==
  ASSUME NEW st, Activations(st), NEW node, NEW todo, NEW new,
         new = [st EXCEPT ![Len(st)].node = node, ![Len(st)].todo = todo]
  PROVE  Changed(new, st, node, todo)
  <1> DEFINE top == Len(st)
  <1>1. top \in 1..Len(st) /\ Len(st) \in Nat /\ DOMAIN st = 1..Len(st) /\ IsASequence(st)
    BY PartsBelow, SequenceShape DEF Activations
  <1>2. st[top] = [node |-> st[top].node, todo |-> st[top].todo, level |-> st[top].level]
    BY <1>1 DEF Activations, ActivationFormed
  <1>3. new = [n \in 1..Len(st) |-> new[n]]
    BY <1>1
  <1>4. \A n \in 1..Len(st) : n < Len(st) => new[n] = st[n]
    BY <1>1
  <1>5. new[top] = [node |-> node, todo |-> todo, level |-> st[top].level]
    <2>1. new[top] = [[st[top] EXCEPT !.node = node] EXCEPT !.todo = todo]
      BY <1>1
    <2> QED
      BY <2>1, <1>2
  <1>6. IsASequence(new) /\ Len(new) = Len(st)
    <2> DEFINE n == Len(st)
    <2>1. n \in Nat /\ new = [i \in 1..n |-> new[i]]
      BY <1>1, <1>3
    <2> HIDE DEF n
    <2>2. IsASequence(new) /\ Len(new) = n
      BY <2>1, MadeASequence
    <2> QED
      BY <2>2 DEF n
  <1> QED
    BY <1>4, <1>5, <1>6 DEF Changed

LEMMA ChangedStack ==
  ASSUME NEW st, Activations(st), NEW node, NEW todo, Form(node, todo),
         node.kind = "unit" <=> st[Len(st)].node.kind = "unit",
         NEW new, Changed(new, st, node, todo)
  PROVE  /\ Activations(new) /\ Len(new) = Len(st)
         /\ PartsOf(new) = Join(Below(st), Members(node))
  <1> DEFINE top == Len(st)
  <1>1. top \in 1..Len(st) /\ Len(st) \in Nat /\ IsASequence(st)
    BY PartsBelow DEF Activations
  <1>2. /\ IsASequence(new) /\ Len(new) = Len(st)
        /\ \A n \in 1..Len(st) : n < Len(st) => new[n] = st[n]
        /\ new[top].node = node /\ new[top].todo = todo /\ new[top].level = st[top].level
        /\ new[top] = [node |-> new[top].node, todo |-> new[top].todo, level |-> new[top].level]
    BY DEF Changed
  <1>3. new # << >>
    BY <1>1, <1>2, EmptySequence
  <1>4. ASSUME NEW n \in 1..Len(new)
        PROVE  ActivationFormed(new[n]) /\ (new[n].node.kind = "unit" <=> n = 1) /\ Waits(new, n)
    <2>0. ActivationFormed(st[n]) /\ (st[n].node.kind = "unit" <=> n = 1) /\ Waits(st, n)
      BY <1>2 DEF Activations
    <2>1. CASE n = top
      <3>1. ActivationFormed(new[n])
        BY <2>0, <2>1, <1>2 DEF ActivationFormed
      <3>2. new[n].node.kind = "unit" <=> n = 1
        BY <2>0, <2>1, <1>2
      <3>3. Waits(new, n)
        BY <2>1, <1>1, <1>2 DEF Waits
      <3> QED
        BY <3>1, <3>2, <3>3
    <2>2. CASE n # top
      <3>1. n < Len(st) /\ new[n] = st[n] /\ n + 1 \in 1..Len(st)
        BY <2>2, <1>1, <1>2
      <3>2. new[n + 1].level = st[n + 1].level
        <4>1. CASE n + 1 = top
          BY <4>1, <1>2
        <4>2. CASE n + 1 # top
          <5>1. n + 1 < Len(st)
            BY <4>2, <3>1, <1>1
          <5> QED
            BY <5>1, <3>1, <1>2
        <4> QED
          BY <4>1, <4>2
      <3>3. Waits(new, n)
        BY <2>0, <3>1, <3>2 DEF Waits
      <3> QED
        BY <2>0, <3>1, <3>3
    <2> QED
      BY <2>1, <2>2
  <1>5. Activations(new)
    BY <1>2, <1>3, <1>4 DEF Activations
  <1>6. Below(new) = Below(st)
    <2>1. \A n \in 1..Len(new) : n < Len(new) => new[n].node = st[n].node
      BY <1>2
    <2> QED
      BY <2>1, <1>2, <1>5, SameBelow
  <1>7. PartsOf(new) = Join(Below(new), Members(new[Len(new)].node))
    BY <1>5, PartsBelow
  <1> QED
    BY <1>2, <1>5, <1>6, <1>7

(* The steps of the innermost activation, for the whole stack. *)
LEMMA StackKeeps ==
  ASSUME NEW st, Activations(st), NEW node, NEW todo, Keeps(st[Len(st)].node, node, todo),
         NEW new, new = [st EXCEPT ![Len(st)].node = node, ![Len(st)].todo = todo]
  PROVE  Activations(new) /\ SameText(PartsOf(new), PartsOf(st))
  <1>1. /\ Form(node, todo) /\ (node.kind = "unit" <=> st[Len(st)].node.kind = "unit")
        /\ SameText(Members(node), Members(st[Len(st)].node))
    BY DEF Keeps
  <1>2. Changed(new, st, node, todo)
    BY TopChanges
  <1>3. Activations(new) /\ PartsOf(new) = Join(Below(st), Members(node))
    BY <1>1, <1>2, ChangedStack
  <1>4. PartsOf(st) = Join(Below(st), Members(st[Len(st)].node)) /\ AllFinished(Below(st))
        /\ Len(st) \in 1..Len(st)
    BY PartsBelow
  <1>5. AllFinished(Members(node)) /\ AllFinished(Members(st[Len(st)].node))
    <2>1. Form(st[Len(st)].node, st[Len(st)].todo)
      BY <1>4 DEF Activations, ActivationFormed
    <2> QED
      BY <2>1, <1>1, FormText
  <1> QED
    BY <1>1, <1>3, <1>4, <1>5, LaterReadsSame

LEMMA StackGains ==
  ASSUME NEW st, Activations(st), NEW node, NEW todo, NEW v, Gains(st[Len(st)].node, node, todo, v),
         NEW new, new = [st EXCEPT ![Len(st)].node = node, ![Len(st)].todo = todo]
  PROVE  Activations(new) /\ OneMore(PartsOf(new), PartsOf(st), v)
  <1>1. /\ Form(node, todo) /\ (node.kind = "unit" <=> st[Len(st)].node.kind = "unit")
        /\ OneMore(Members(node), Members(st[Len(st)].node), v)
    BY DEF Gains
  <1>2. Changed(new, st, node, todo)
    BY TopChanges
  <1>3. Activations(new) /\ PartsOf(new) = Join(Below(st), Members(node))
    BY <1>1, <1>2, ChangedStack
  <1>4. PartsOf(st) = Join(Below(st), Members(st[Len(st)].node)) /\ AllFinished(Below(st))
        /\ Len(st) \in 1..Len(st)
    BY PartsBelow
  <1>5. AllFinished(Members(node)) /\ AllFinished(Members(st[Len(st)].node))
    <2>1. Form(st[Len(st)].node, st[Len(st)].todo)
      BY <1>4 DEF Activations, ActivationFormed
    <2> QED
      BY <2>1, <1>1, FormText
  <1> QED
    BY <1>1, <1>3, <1>4, <1>5, LaterReadsMore

(* A call: an activation that has read nothing. *)
LEMMA CalledStack ==
  ASSUME NEW st, Activations(st), NEW step, step = st[Len(st)].todo[1], st[Len(st)].todo # << >>,
         step.do = "parse", NEW function, Begins(function),
         NEW new, new = Append(st, Activation(function, step.level))
  PROVE  Activations(new) /\ PartsOf(new) = PartsOf(st)
  <1> DEFINE top == Len(st)  a == Activation(function, step.level)
  <1>1. top \in 1..Len(st) /\ Len(st) \in Nat /\ Len(st) >= 1 /\ IsASequence(st)
        /\ IsASequence(PartsOf(st))
    BY PartsBelow DEF Activations
  <1>2. /\ a.node = function.node /\ a.todo = function.todo /\ a.level = step.level
        /\ a = [node |-> a.node, todo |-> a.todo, level |-> a.level]
    BY DEF Activation
  <1> HIDE DEF a
  <1>3. /\ IsASequence(new) /\ Len(new) = top + 1 /\ new[top + 1] = a
        /\ \A n \in 1..top : new[n] = st[n]
    BY <1>1, AppendedSequence DEF a
  <1>4. step.level \in 0..AnyLevel
    <2>1. Form(st[top].node, st[top].todo)
      BY <1>1 DEF Activations, ActivationFormed
    <2> QED
      BY <2>1, FirstFits DEF Fits
  <1>5. /\ Form(function.node, function.todo) /\ Members(function.node) = << >>
        /\ function.node.kind # "unit"
    BY DEF Begins
  <1>6. ASSUME NEW n \in 1..Len(new)
        PROVE  ActivationFormed(new[n]) /\ (new[n].node.kind = "unit" <=> n = 1) /\ Waits(new, n)
    <2>1. CASE n = top + 1
      BY <2>1, <1>1, <1>2, <1>3, <1>4, <1>5 DEF ActivationFormed, Waits
    <2>2. CASE n \in 1..top
      <3>1. ActivationFormed(st[n]) /\ (st[n].node.kind = "unit" <=> n = 1) /\ Waits(st, n)
        BY <2>2 DEF Activations
      <3>2. Waits(new, n)
        <4>1. CASE n = top
          BY <4>1, <1>1, <1>2, <1>3 DEF Waits
        <4>2. CASE n < top
          <5>1. n + 1 \in 1..top
            BY <4>2, <2>2, <1>1
          <5> QED
            BY <5>1, <4>2, <3>1, <2>2, <1>1, <1>3 DEF Waits
        <4> QED
          BY <4>1, <4>2, <2>2
      <3> QED
        BY <3>1, <3>2, <2>2, <1>3
    <2> QED
      BY <2>1, <2>2, <1>1, <1>3
  <1>7. new # << >>
    BY <1>1, <1>3, EmptySequence
  <1>8. Activations(new)
    BY <1>3, <1>6, <1>7 DEF Activations
  <1>9. PartsEach(new) = Append(PartsEach(st), << >>)
    <2>1. /\ IsASequence(PartsEach(st)) /\ Len(PartsEach(st)) = top
          /\ \A n \in 1..top : PartsEach(st)[n] = Members(st[n].node)
      BY PartsOfEach DEF Activations, AllSequences
    <2> DEFINE ps == PartsEach(st)  qs == PartsEach(new)  rs == Append(ps, << >>)
    <2>2. /\ IsASequence(qs) /\ Len(qs) = top + 1
          /\ \A n \in 1..top + 1 : qs[n] = Members(new[n].node)
      <3>1. IsASequence(new) /\ \A n \in 1..Len(new) : ActivationFormed(new[n])
        BY <1>8 DEF Activations
      <3>2. /\ AllSequences(PartsEach(new)) /\ Len(PartsEach(new)) = Len(new)
            /\ \A n \in 1..Len(new) : PartsEach(new)[n] = Members(new[n].node)
        BY <3>1, PartsOfEach
      <3> QED
        BY <3>2, <1>3 DEF AllSequences
    <2>3. /\ IsASequence(rs) /\ Len(rs) = top + 1 /\ rs[top + 1] = << >>
          /\ \A n \in 1..top : rs[n] = ps[n]
      BY <2>1, AppendedSequence
    <2> HIDE DEF ps, qs, rs
    <2>4. \A n \in 1..top + 1 : qs[n] = rs[n]
      <3>1. ASSUME NEW n \in 1..top + 1
            PROVE  qs[n] = rs[n]
        <4>1. CASE n = top + 1
          BY <4>1, <1>1, <1>2, <1>3, <1>5, <2>2, <2>3
        <4>2. CASE n \in 1..top
          BY <4>2, <2>1, <2>2, <2>3, <1>1, <1>3 DEF ps
        <4> QED
          BY <4>1, <4>2, <1>1
      <3> QED
        BY <3>1
    <2>5. qs = rs
      BY <2>2, <2>3, <2>4, SameSequence
    <2> QED
      BY <2>5 DEF qs, rs, ps
  <1>10. PartsOf(new) = Join(PartsOf(st), << >>)
    <2>1. IsASequence(PartsEach(st))
      BY PartsOfEach DEF Activations, AllSequences
    <2>2. Append(PartsEach(st), << >>) = PartsEach(st) \o << << >> >>
      BY <2>1, AppendedIsJoined
    <2> QED
      BY <2>1, <2>2, <1>9, EmptySequence, FlattenedWithLast DEF PartsOf, Join
  <1> QED
    BY <1>1, <1>8, <1>10, JoinEmpty

(* A return: the callee's activation is gone, what it built is its caller's.  *)
LEMMA FrontStack ==
  ASSUME NEW st, Activations(st), st[Len(st)].todo = << >>
  PROVE  /\ Len(st) >= 2 /\ Len(st) \in Nat
         /\ Activations(Front(st)) /\ Len(Front(st)) = Len(st) - 1
         /\ Front(st)[Len(st) - 1] = st[Len(st) - 1]
         /\ PartsOf(st) = Join(PartsOf(Front(st)), Members(st[Len(st)].node))
         /\ Form(st[Len(st)].node, << >>)
  <1> DEFINE top == Len(st)  front == Front(st)
  <1>1. top \in 1..Len(st) /\ Len(st) \in Nat /\ Len(st) >= 1 /\ IsASequence(st) /\ st # << >>
    BY PartsBelow DEF Activations
  <1>2. Form(st[top].node, << >>) /\ (st[top].node.kind = "unit" <=> top = 1)
    BY <1>1 DEF Activations, ActivationFormed
  <1>3. top # 1
    BY <1>2, CalleeFinished
  <1>4. /\ IsASequence(front) /\ Len(front) = top - 1
        /\ \A i \in 1..top - 1 : front[i] = st[i]
    BY <1>1, FrontOfSequence
  <1> HIDE DEF front
  <1>5. front # << >> /\ top - 1 \in 1..top - 1
    BY <1>1, <1>3, <1>4, EmptySequence
  <1>6. ASSUME NEW n \in 1..Len(front)
        PROVE  ActivationFormed(front[n]) /\ (front[n].node.kind = "unit" <=> n = 1) /\ Waits(front, n)
    <2>1. n \in 1..Len(st) /\ n \in 1..top - 1 /\ front[n] = st[n] /\ n < top
      BY <1>1, <1>4
    <2>2. ActivationFormed(st[n]) /\ (st[n].node.kind = "unit" <=> n = 1) /\ Waits(st, n)
      BY <2>1 DEF Activations
    <2>3. Waits(front, n)
      <3>1. CASE n < Len(front)
        <4>1. n + 1 \in 1..top - 1
          BY <3>1, <2>1, <1>1, <1>4
        <4> QED
          BY <4>1, <2>1, <2>2, <1>4 DEF Waits
      <3>2. CASE ~(n < Len(front))
        BY <3>2 DEF Waits
      <3> QED
        BY <3>1, <3>2
    <2> QED
      BY <2>1, <2>2, <2>3
  <1>7. Activations(front)
    BY <1>4, <1>5, <1>6 DEF Activations
  <1>8. Below(st) = PartsOf(front)
    <2> DEFINE ps == PartsEach(st)  fs == Front(ps)  qs == PartsEach(front)
    <2>1. /\ IsASequence(ps) /\ Len(ps) = top
          /\ \A n \in 1..top : ps[n] = Members(st[n].node)
      BY PartsOfEach DEF Activations, AllSequences
    <2>2. /\ IsASequence(qs) /\ Len(qs) = top - 1
          /\ \A n \in 1..top - 1 : qs[n] = Members(front[n].node)
      BY <1>4, <1>7, PartsOfEach DEF Activations, AllSequences
    <2> HIDE DEF ps, qs
    <2>3. ps # << >>
      BY <2>1, <1>1, EmptySequence
    <2>4. IsASequence(fs) /\ Len(fs) = top - 1 /\ \A n \in 1..top - 1 : fs[n] = ps[n]
      BY <2>1, <2>3, FrontOfSequence
    <2> HIDE DEF fs
    <2>5. ASSUME NEW n \in 1..top - 1
          PROVE  fs[n] = qs[n]
      <3>1. n \in 1..top
        BY <1>1
      <3> QED
        BY <3>1, <2>1, <2>2, <2>4, <1>4
    <2>6. fs = qs
      BY <2>2, <2>4, <2>5, SameSequence
    <2> QED
      BY <2>6 DEF fs, ps, qs, Below, PartsOf
  <1>9. PartsOf(st) = Join(PartsOf(front), Members(st[top].node))
    BY <1>8, PartsBelow
  <1>10. Len(st) >= 2
    <2>1. Len(st) \in Nat /\ Len(st) >= 1 /\ Len(st) # 1
      BY <1>1, <1>3
    <2> QED
      BY <2>1
  <1> QED
    BY <1>1, <1>2, <1>4, <1>5, <1>7, <1>9, <1>10 DEF front

LEMMA ReturnedStack ==
  ASSUME NEW st, Activations(st), st[Len(st)].todo = << >>, NEW n, n = Len(st) - 1,
         NEW step, step = Head(st[n].todo), NEW new,
         new = [Front(st) EXCEPT ![n].node = Put(st[n].node, step.member, st[Len(st)].node),
                                 ![n].todo = Tail(st[n].todo)]
  PROVE  Activations(new) /\ SameText(PartsOf(new), PartsOf(st))
  <1> DEFINE front == Front(st)  caller == st[n]  callee == st[Len(st)].node
             next == Put(caller.node, step.member, callee)  rest == Tail(caller.todo)
  <1>1. /\ Len(st) >= 2 /\ Len(st) \in Nat
        /\ Activations(front) /\ Len(front) = n /\ front[n] = caller
        /\ PartsOf(st) = Join(PartsOf(front), Members(callee))
        /\ Form(callee, << >>)
    BY FrontStack
  <1>2. n \in 1..Len(st) /\ n < Len(st)
    BY <1>1
  <1>3. /\ Form(caller.node, caller.todo) /\ caller.todo # << >> /\ caller.todo[1].do = "parse"
    BY <1>2 DEF Activations, ActivationFormed, Waits
  <1>4. step = caller.todo[1]
    <2>1. IsASequence(caller.todo)
      BY <1>3, FirstFits
    <2> QED
      BY <2>1, <1>3, TailSteps
  <1> HIDE DEF callee
  <1>5. /\ Form(next, rest) /\ (next.kind = "unit" <=> caller.node.kind = "unit")
        /\ SameText(Members(next), Join(Members(caller.node), Members(callee)))
    BY <1>1, <1>3, <1>4, Returned
  <1>6. new = [front EXCEPT ![Len(front)].node = next, ![Len(front)].todo = rest]
    BY <1>1 DEF callee
  <1> HIDE DEF front, next, rest, caller
  <1>7. Changed(new, front, next, rest)
    BY <1>1, <1>6, TopChanges
  <1>8. Activations(new) /\ PartsOf(new) = Join(Below(front), Members(next))
    BY <1>1, <1>5, <1>7, ChangedStack
  <1>9. /\ PartsOf(front) = Join(Below(front), Members(caller.node))
        /\ AllFinished(Below(front)) /\ IsASequence(Below(front))
    BY <1>1, PartsBelow
  <1>10. /\ AllFinished(Members(next)) /\ AllFinished(Members(caller.node))
         /\ IsASequence(Members(caller.node))
         /\ AllFinished(Members(callee)) /\ IsASequence(Members(callee))
    BY <1>1, <1>3, <1>5, FormText
  <1>11. PartsOf(st) = Join(Below(front), Join(Members(caller.node), Members(callee)))
    <2>1. Join(Join(Below(front), Members(caller.node)), Members(callee))
            = Join(Below(front), Join(Members(caller.node), Members(callee)))
      BY <1>9, <1>10, JoinInTurn
    <2> QED
      BY <2>1, <1>1, <1>9
  <1>12. AllFinished(Join(Members(caller.node), Members(callee)))
    BY <1>10, AllFinishedJoined
  <1>13. SameText(Join(Below(front), Members(next)),
                  Join(Below(front), Join(Members(caller.node), Members(callee))))
    BY <1>5, <1>9, <1>10, <1>12, LaterReadsSame
  <1> QED
    BY <1>8, <1>11, <1>13

----------------------------------------------------------------------------
(* The invariant of the parser: the stack is in form, and its nodes read as   *)
(* the lexemes read so far.                                                   *)

Tokens == input.tokens \cup Range(input.start) \cup {"eof"}
Types ==
  /\ input \in Inputs /\ tokens \in Seq(Tokens) /\ ahead \in Tokens \cup {Unseen}
  /\ outcome \in {"parsing", "parsed", "unexpected_token", "lex_error"}
Lexemes == [n \in 1..Len(tokens) |-> [kind |-> "lexeme", token |-> tokens[n], at |-> n]]
TextRead == outcome \in {"parsing", "parsed"} => ReadsAs(PartsOf(stack), Lexemes)

IInv == Types /\ Activations(stack) /\ TextRead

LEMMA LexemeIs == Lexeme.kind = "lexeme"
  BY DEF Lexeme

LEMMA LexemesGrow ==
  ASSUME Types, Reading, UNCHANGED input, ahead # Unseen
  PROVE  /\ tokens' \in Seq(Tokens') /\ ahead' \in Tokens' \cup {Unseen} /\ Tokens' = Tokens
         /\ Lexemes' = Join(Lexemes, <<Lexeme>>)
  <1>1. Tokens' = Tokens
    BY DEF Tokens
  <1> DEFINE n == Len(tokens)
  <1>2. tokens \in Seq(Tokens) /\ ahead \in Tokens /\ tokens' = Append(tokens, ahead) /\ ahead' = Unseen
    BY DEF Types, Reading
  <1>3. /\ tokens' \in Seq(Tokens) /\ n \in Nat /\ Len(tokens') = n + 1 /\ tokens'[n + 1] = ahead
        /\ \A i \in 1..n : tokens'[i] = tokens[i]
    BY <1>2
  <1> DEFINE old == Lexemes  new == Lexemes'  both == Join(old, <<Lexeme>>)
  <1>4. /\ old = [i \in 1..n |-> old[i]]
        /\ \A i \in 1..n : old[i] = [kind |-> "lexeme", token |-> tokens[i], at |-> i]
    BY DEF Lexemes
  <1>5. /\ new = [i \in 1..n + 1 |-> new[i]]
        /\ \A i \in 1..n + 1 : new[i] = [kind |-> "lexeme", token |-> tokens'[i], at |-> i]
    BY <1>3 DEF Lexemes
  <1> HIDE DEF old, new
  <1>6. IsASequence(old) /\ Len(old) = n
    BY <1>3, <1>4, MadeASequence
  <1>7. IsASequence(new) /\ Len(new) = n + 1
    BY <1>3, <1>5, MadeASequence
  <1>8. /\ IsASequence(both) /\ Len(both) = n + 1 /\ both[n + 1] = Lexeme
        /\ \A i \in 1..n : both[i] = old[i]
    BY <1>6, JoinOne
  <1> HIDE DEF both
  <1>9. ASSUME NEW i \in 1..n + 1
        PROVE  new[i] = both[i]
    <2>1. CASE i = n + 1
      BY <2>1, <1>3, <1>5, <1>8 DEF Lexeme
    <2>2. CASE i \in 1..n
      BY <2>2, <1>3, <1>4, <1>5, <1>8
    <2> QED
      BY <2>1, <2>2, <1>3
  <1>10. new = both
    BY <1>7, <1>8, <1>9, SameSequence
  <1> QED
    BY <1>1, <1>2, <1>3, <1>10 DEF new, both, old

LEMMA TopForm ==
  ASSUME Activations(stack)
  PROVE  /\ Form(Top.node, Top.todo) /\ IsASequence(Top.todo)
         /\ Top.level \in 0..AnyLevel
         /\ Top.todo # << >> => Step = Top.todo[1]
  <1>1. ActivationFormed(stack[Len(stack)])
    BY PartsBelow DEF Activations
  <1>2. Form(Top.node, Top.todo) /\ IsASequence(Top.todo)
    BY <1>1 DEF ActivationFormed, Top, Form, StepsInTurn
  <1> QED
    BY <1>1, <1>2, TailSteps DEF ActivationFormed, Top, Step

(* A step that reads nothing. *)
LEMMA KeptOn ==
  ASSUME IInv, outcome = "parsing", NEW node, NEW steps, Do(node, steps), Peeking,
         Keeps(Top.node, node, Join(steps, Tail(Top.todo)))
  PROVE  IInv'
  <1>1. /\ stack' = [stack EXCEPT ![Len(stack)].node = node,
                                  ![Len(stack)].todo = Join(steps, Tail(Top.todo))]
        /\ UNCHANGED <<input, outcome, tokens, ahead>>
    BY DEF Do, Continue, Peeking, Join
  <1>2. Activations(stack') /\ SameText(PartsOf(stack'), PartsOf(stack))
    BY <1>1, StackKeeps DEF IInv, Top
  <1>3. Types'
    BY <1>1 DEF IInv, Types, Tokens
  <1>4. Lexemes' = Lexemes
    BY <1>1 DEF Lexemes
  <1>5. ReadsAs(PartsOf(stack), Lexemes)
    BY DEF IInv, TextRead
  <1>6. ReadsAs(PartsOf(stack'), Lexemes')
    BY <1>2, <1>4, <1>5 DEF SameText
  <1> QED
    BY <1>2, <1>3, <1>6 DEF IInv, TextRead

(* A step that reads the token it has seen. *)
LEMMA ReadOn ==
  ASSUME IInv, outcome = "parsing", ahead # Unseen, NEW node, NEW steps, Do(node, steps), Reading,
         Gains(Top.node, node, Join(steps, Tail(Top.todo)), Lexeme)
  PROVE  IInv'
  <1>1. /\ stack' = [stack EXCEPT ![Len(stack)].node = node,
                                  ![Len(stack)].todo = Join(steps, Tail(Top.todo))]
        /\ UNCHANGED <<input, outcome>>
    BY DEF Do, Continue, Join
  <1>2. Activations(stack') /\ OneMore(PartsOf(stack'), PartsOf(stack), Lexeme)
    BY <1>1, StackGains DEF IInv, Top
  <1>3. /\ tokens' \in Seq(Tokens') /\ ahead' \in Tokens' \cup {Unseen}
        /\ Lexemes' = Join(Lexemes, <<Lexeme>>)
    BY <1>1, LexemesGrow DEF IInv
  <1>4. Types'
    BY <1>1, <1>3 DEF IInv, Types
  <1>5. ReadsAs(PartsOf(stack), Lexemes)
    BY DEF IInv, TextRead
  <1>6. ReadsAs(PartsOf(stack'), Lexemes')
    BY <1>2, <1>3, <1>5 DEF OneMore
  <1> QED
    BY <1>2, <1>4, <1>6 DEF IInv, TextRead

(* What does not change the stack. *)
LEMMA StackStays ==
  ASSUME IInv, UNCHANGED <<input, tokens, stack>>, ahead' \in Tokens \cup {Unseen},
         outcome' \in {"parsing", "parsed", "unexpected_token", "lex_error"},
         outcome' \in {"parsing", "parsed"} => outcome \in {"parsing", "parsed"}
  PROVE  IInv'
  <1>1. Types' /\ Activations(stack')
    BY DEF IInv, Types, Tokens
  <1>2. PartsOf(stack') = PartsOf(stack) /\ Lexemes' = Lexemes
    BY DEF Lexemes
  <1>3. TextRead'
    BY <1>2 DEF IInv, TextRead
  <1> QED
    BY <1>1, <1>3 DEF IInv

(* An exception. *)
LEMMA Thrown ==
  ASSUME IInv, NEW e \in {"unexpected_token", "lex_error"}, Throw(e),
         \/ Peeking
         \/ Reading /\ ahead # Unseen
  PROVE  IInv'
  <1>1. Types'
    <2>1. UNCHANGED input /\ outcome' = e
      BY DEF Throw
    <2>2. tokens' \in Seq(Tokens') /\ ahead' \in Tokens' \cup {Unseen}
      <3>1. CASE Peeking
        BY <3>1, <2>1 DEF IInv, Types, Peeking, Tokens
      <3>2. CASE Reading /\ ahead # Unseen
        BY <3>2, <2>1, LexemesGrow DEF IInv
      <3> QED
        BY <3>1, <3>2
    <2> QED
      BY <2>1, <2>2 DEF IInv, Types
  <1>2. Activations(stack') /\ TextRead'
    BY DEF IInv, Throw, TextRead
  <1> QED
    BY <1>1, <1>2 DEF IInv

----------------------------------------------------------------------------
(* Every action keeps the invariant. *)

LEMMA InitKeeps ==
  ASSUME Init
  PROVE  IInv
  <1> DEFINE node == [kind |-> "unit", statements |-> << >>]
             a == Activation(Unit, AnyLevel)
  <1>1. Form(node, <<Decide("unit")>>) /\ Members(node) = << >> /\ node.kind = "unit"
    BY UnitBegins
  <1>2. a = [node |-> node, todo |-> <<Decide("unit")>>, level |-> AnyLevel]
    BY DEF Activation, Unit
  <1> HIDE DEF node
  <1>3. /\ a.node = node /\ a.todo = <<Decide("unit")>> /\ a.level = AnyLevel
        /\ a = [node |-> a.node, todo |-> a.todo, level |-> a.level]
    BY <1>2
  <1> HIDE DEF a
  <1>4. ActivationFormed(a)
    BY <1>1, <1>3, AnyLevelIs DEF ActivationFormed
  <1>5. stack = <<a>> /\ IsASequence(stack) /\ Len(stack) = 1 /\ stack[1] = a /\ stack # << >>
    BY OneStep DEF Init, a
  <1>6. Activations(stack)
    BY <1>1, <1>3, <1>4, <1>5 DEF Activations, Waits
  <1>7. PartsOf(stack) = << >>
    <2>1. /\ IsASequence(PartsEach(stack)) /\ Len(PartsEach(stack)) = 1
          /\ PartsEach(stack)[1] = << >>
      BY <1>1, <1>3, <1>5, <1>6, PartsOfEach DEF Activations, AllSequences
    <2> DEFINE one == << << >> >>
    <2>2. IsASequence(one) /\ Len(one) = 1 /\ one[1] = << >>
      BY OneStep
    <2>3. FlattenSeq(one) = << >>
      BY FlattenedOne
    <2> HIDE DEF one
    <2>4. \A i \in 1..Len(PartsEach(stack)) : PartsEach(stack)[i] = one[i]
      BY <2>1, <2>2
    <2>5. PartsEach(stack) = one
      BY <2>1, <2>2, <2>4, SameSequence
    <2> QED
      BY <2>3, <2>5 DEF PartsOf
  <1>8. Lexemes = << >>
    <2>1. Lexemes = [n \in 1..0 |-> Lexemes[n]]
      BY DEF Init, Lexemes
    <2>2. IsASequence(Lexemes) /\ Len(Lexemes) = 0
      BY <2>1, MadeASequence
    <2> QED
      BY <2>2, EmptySequence
  <1>9. TextRead
    BY <1>7, <1>8, ReadsOfNothing DEF TextRead
  <1>10. Types
    BY DEF Init, Types
  <1> QED
    BY <1>6, <1>9, <1>10 DEF IInv

LEMMA PeeksKeeps ==
  ASSUME IInv, Peeks
  PROVE  IInv'
  <1>0. outcome = "parsing" /\ input \in Inputs /\ tokens \in Seq(Tokens)
    BY DEF Peeks, Running, IInv, Types
  <1>1. CASE /\ ahead' \in IF Len(tokens) < Len(input.start) THEN {input.start[Len(tokens) + 1]}
                           ELSE IF Len(tokens) = input.length THEN {"eof"}
                           ELSE input.tokens \cup {"eof"}
             /\ UNCHANGED <<input, tokens, stack, outcome>>
    <2>1. input.start \in Seq(Range(input.start))
      BY <1>0, InputsAssumption
    <2>2. Len(tokens) < Len(input.start) => input.start[Len(tokens) + 1] \in Range(input.start)
      BY <1>0, <2>1
    <2>3. ahead' \in Tokens
      BY <1>1, <2>2 DEF Tokens
    <2> QED
      BY <1>0, <1>1, <2>3, StackStays
  <1>2. CASE UNCHANGED <<tokens, ahead>> /\ Throw("lex_error")
    BY <1>2, Thrown DEF Peeking
  <1> QED
    BY <1>1, <1>2 DEF Peeks

LEMMA RunningForm ==
  ASSUME IInv, Running
  PROVE  /\ outcome = "parsing" /\ Top.todo # << >> /\ Form(Top.node, Top.todo)
         /\ Step = Top.todo[1] /\ Activations(stack)
  BY TopForm DEF IInv, Running

LEMMA ExpectsKeeps ==
  ASSUME IInv, Expects
  PROVE  IInv'
  <1>1. /\ outcome = "parsing" /\ Top.todo # << >> /\ Form(Top.node, Top.todo)
        /\ Step = Top.todo[1] /\ Step.do = "expect" /\ ahead # Unseen /\ Reading
    BY RunningForm DEF Expects
  <1>2. CASE ahead = Step.token
    <2>1. Do(Put(Top.node, Step.member, Lexeme), << >>)
      BY <1>2 DEF Expects
    <2>2. Gains(Top.node, Put(Top.node, Top.todo[1].member, Lexeme), Join(<< >>, Tail(Top.todo)), Lexeme)
      BY <1>1, LexemeIs, GainsMember
    <2> QED
      BY <2>1, <2>2, <1>1, ReadOn
  <1>3. CASE ahead # Step.token
    BY <1>1, <1>3, Thrown DEF Expects
  <1> QED
    BY <1>2, <1>3

LEMMA AcceptsKeeps ==
  ASSUME IInv, Accepts
  PROVE  IInv'
  <1>1. /\ outcome = "parsing" /\ Top.todo # << >> /\ Form(Top.node, Top.todo)
        /\ Step = Top.todo[1] /\ Step.do = "accept" /\ ahead # Unseen
    BY RunningForm DEF Accepts
  <1>2. CASE ahead = Step.token
    <2>1. Reading /\ Do(Put(Top.node, Step.member, Lexeme), << >>)
      BY <1>2 DEF Accepts
    <2>2. Gains(Top.node, Put(Top.node, Top.todo[1].member, Lexeme), Join(<< >>, Tail(Top.todo)), Lexeme)
      BY <1>1, LexemeIs, GainsMember
    <2> QED
      BY <2>1, <2>2, <1>1, ReadOn
  <1>3. CASE ahead # Step.token
    <2>1. Peeking /\ Do(Top.node, << >>)
      BY <1>3 DEF Accepts, Go
    <2>2. Keeps(Top.node, Top.node, Join(<< >>, Tail(Top.todo)))
      BY <1>1, KeepsSkipping
    <2> QED
      BY <2>1, <2>2, <1>1, KeptOn
  <1> QED
    BY <1>2, <1>3

LEMMA CallsKeeps ==
  ASSUME IInv, Calls
  PROVE  IInv'
  <1>1. /\ outcome = "parsing" /\ Top.todo # << >> /\ Form(Top.node, Top.todo)
        /\ Step = Top.todo[1] /\ Step.do = "parse"
        /\ stack' = Append(stack, Activation(Functions[Step.what], Step.level))
        /\ UNCHANGED <<input, tokens, ahead, outcome>> /\ Activations(stack)
    BY RunningForm DEF Calls
  <1>2. Step.what \in DOMAIN Functions
    BY <1>1, FirstFits DEF Fits
  <1>3. Begins(Functions[Step.what])
    BY <1>2, FunctionsBegin
  <1>4. /\ Step = stack[Len(stack)].todo[1] /\ stack[Len(stack)].todo # << >>
    BY <1>1 DEF Top
  <1>5. Activations(stack') /\ PartsOf(stack') = PartsOf(stack)
    BY <1>1, <1>3, <1>4, CalledStack
  <1>6. Types' /\ Lexemes' = Lexemes
    BY <1>1 DEF IInv, Types, Tokens, Lexemes
  <1> QED
    BY <1>1, <1>5, <1>6 DEF IInv, TextRead

LEMMA ReturnsKeeps ==
  ASSUME IInv, Returns
  PROVE  IInv'
  <1> DEFINE n == Len(stack) - 1  step == Head(stack[n].todo)
  <1>1. /\ outcome = "parsing" /\ stack[Len(stack)].todo = << >>
        /\ UNCHANGED <<input, tokens, ahead, outcome>> /\ Activations(stack)
    BY DEF Returns, Top, IInv
  <1>2. stack' = [Front(stack) EXCEPT ![n].node = Put(@, step.member, Top.node), ![n].todo = Tail(@)]
    BY DEF Returns
  <1>3. n \in DOMAIN Front(stack) /\ Front(stack)[n] = stack[n]
    <2>1. /\ Len(stack) >= 2 /\ Len(stack) \in Nat /\ Len(Front(stack)) = n
          /\ Front(stack)[n] = stack[n] /\ IsASequence(Front(stack))
      BY <1>1, FrontStack DEF Activations
    <2> QED
      BY <2>1, SequenceShape
  <1>4. stack' = [Front(stack) EXCEPT ![n].node = Put(stack[n].node, step.member, stack[Len(stack)].node),
                                      ![n].todo = Tail(stack[n].todo)]
    BY <1>2, <1>3 DEF Top
  <1>5. Activations(stack') /\ SameText(PartsOf(stack'), PartsOf(stack))
    BY <1>1, <1>4, ReturnedStack
  <1>6. Types' /\ Lexemes' = Lexemes
    BY <1>1 DEF IInv, Types, Tokens, Lexemes
  <1> QED
    BY <1>1, <1>5, <1>6 DEF IInv, TextRead, SameText

(* The decisions. *)

LEMMA AtForm ==
  ASSUME IInv, NEW what, At(what)
  PROVE  /\ outcome = "parsing" /\ ahead # Unseen
         /\ Top.todo # << >> /\ Form(Top.node, Top.todo) /\ Top.todo[1] = Decide(what)
  BY RunningForm DEF At

LEMMA GoesOn ==
  ASSUME IInv, outcome = "parsing", NEW steps, Keeps(Top.node, Top.node, Join(steps, Tail(Top.todo)))
  PROVE  Go(steps) => IInv'
  BY KeptOn DEF Go

LEMMA EndOfUnitKeeps ==
  ASSUME IInv, EndOfUnit
  PROVE  IInv'
  BY AtForm, StackStays DEF EndOfUnit, IInv, Types

LEMMA NextStatementKeeps ==
  ASSUME IInv, NextStatement
  PROVE  IInv'
  BY AtForm, StatementBeginning, GoesOn DEF NextStatement

LEMMA KeywordStatementIs ==
  ASSUME ahead \in StatementKeywords
  PROVE  KeywordStatement \in {"let", "return", "while"}
  BY DEF StatementKeywords, KeywordStatement

LEMMA ChooseStatementKeeps ==
  ASSUME IInv, ChooseStatement
  PROVE  IInv'
  <1>1. /\ outcome = "parsing" /\ Top.todo # << >> /\ Form(Top.node, Top.todo)
        /\ Top.todo[1] = Decide("statement")
    BY AtForm DEF ChooseStatement
  <1>2. PICK f \in {Functions[KeywordStatement], ExpressionStatement} :
          /\ Become(f)
          /\ ahead \notin StatementKeywords => f = ExpressionStatement
    BY DEF ChooseStatement
  <1>3. Begins(f)
    <2>1. CASE ahead \in StatementKeywords
      BY <2>1, <1>2, KeywordStatementIs, FunctionsAre, FunctionsBegin, ExpressionStatementIs
    <2>2. CASE ahead \notin StatementKeywords
      BY <2>2, <1>2, ExpressionStatementIs
    <2> QED
      BY <2>1, <2>2
  <1>4. Keeps(Top.node, f.node, Join(f.todo, Tail(Top.todo)))
    BY <1>1, <1>3, Becomes
  <1> QED
    BY <1>1, <1>2, <1>4, KeptOn DEF Become

LEMMA BlockStatementKeeps ==
  ASSUME IInv, BlockStatement
  PROVE  IInv'
  <1>1. /\ outcome = "parsing" /\ Top.todo # << >> /\ Form(Top.node, Top.todo)
        /\ Top.todo[1] = Decide("item")
    BY AtForm DEF BlockStatement
  <1>2. KeywordStatement \in {"let", "return", "while"}
    BY KeywordStatementIs DEF BlockStatement
  <1> QED
    BY <1>1, <1>2, KeepsStatement, GoesOn DEF BlockStatement

LEMMA BlockExpressionItemKeeps ==
  ASSUME IInv, BlockExpressionItem
  PROVE  IInv'
  <1>1. At("item") /\ Go(<<Parse("expression", "tail"), Decide("tail")>>)
    BY Zenon DEF BlockExpressionItem
  <1> QED
    BY <1>1, AtForm, KeepsTailExpression, GoesOn

LEMMA EndOfBlockKeeps ==
  ASSUME IInv, EndOfBlock \/ BlockTail
  PROVE  IInv'
  <1>1. ASSUME NEW a, NEW what \in {"item", "tail"}, At(what), Go(<<Expect(a, "rbrace")>>)
        PROVE  IInv'
    BY <1>1, AtForm, KeepsEndOfBlock, GoesOn
  <1>2. \E what \in {"item", "tail"} : \E a : At(what) /\ Go(<<Expect(a, "rbrace")>>)
    BY Zenon DEF EndOfBlock, BlockTail
  <1> QED
    BY <1>1, <1>2

LEMMA BlockSemicolonKeeps ==
  ASSUME IInv, BlockSemicolon
  PROVE  IInv'
  <1> DEFINE made == [kind |-> "expression_statement", expression |-> Top.node.tail, semicolon |-> Lexeme]
             next == Put(WithoutTail(Top.node), "statements", made)
  <1>1. At("tail") /\ Reading /\ Do(next, <<Decide("item")>>)
    BY Zenon DEF BlockSemicolon
  <1>2. /\ outcome = "parsing" /\ Top.todo # << >> /\ Form(Top.node, Top.todo) /\ ahead # Unseen
        /\ Top.todo[1] = Decide("tail")
    BY <1>1, AtForm
  <1>3. Gains(Top.node, next, Join(<<Decide("item")>>, Tail(Top.todo)), Lexeme)
    BY <1>2, LexemeIs, GainsSemicolon
  <1> HIDE DEF next
  <1> QED
    BY <1>1, <1>2, <1>3, ReadOn

LEMMA PrefixOperatorKeeps ==
  ASSUME IInv, PrefixOperator
  PROVE  IInv'
  <1>1. /\ At("operand") /\ Reading
        /\ Do([kind |-> "prefix", op |-> Lexeme], <<Operand(PrefixLevel, "operand")>>)
    BY DEF PrefixOperator
  <1>2. /\ outcome = "parsing" /\ Top.todo # << >> /\ Form(Top.node, Top.todo) /\ ahead # Unseen
        /\ Top.todo[1] = Decide("operand")
    BY <1>1, AtForm
  <1>3. PrefixLevel \in 0..AnyLevel
    BY AnyLevelIs DEF PrefixLevel
  <1>4. Gains(Top.node, [kind |-> "prefix", op |-> Lexeme],
              Join(<<Operand(PrefixLevel, "operand")>>, Tail(Top.todo)), Lexeme)
    BY <1>2, <1>3, LexemeIs, PrefixBeginning
  <1> QED
    BY <1>1, <1>2, <1>4, ReadOn

LEMMA PrefixBracketKeeps ==
  ASSUME IInv, PrefixBracket
  PROVE  IInv'
  BY AtForm, BracketBeginning, KeptOn DEF PrefixBracket

LEMMA SizeKeeps ==
  ASSUME IInv, Size
  PROVE  IInv'
  <1>1. /\ outcome = "parsing" /\ Top.todo # << >> /\ Form(Top.node, Top.todo)
        /\ Top.todo[1] = Decide("size")
    BY AtForm DEF Size
  <1>2. Top.node.kind = "prefix_bracket" /\ Decide("size").do = "decide"
    BY <1>1, AtChoice, ChoicesOf, DecisionIs DEF Choice
  <1>3. Keeps(Top.node, Top.node, Join(<< >>, Tail(Top.todo)))
    BY <1>1, <1>2, KeepsSkipping
  <1>4. Keeps(Top.node, Top.node, Join(<<Parse("expression", "size")>>, Tail(Top.todo)))
    BY <1>1, KeepsSize
  <1> QED
    BY <1>1, <1>3, <1>4, GoesOn DEF Size

LEMMA PrimaryOperandKeeps ==
  ASSUME IInv, PrimaryOperand
  PROVE  IInv'
  BY AtForm, PrimaryBeginning, GoesOn DEF PrimaryOperand

LEMMA CallKeeps ==
  ASSUME IInv, Call
  PROVE  IInv'
  BY AtForm, CallWraps, KeptOn DEF Call

LEMMA IndexKeeps ==
  ASSUME IInv, Index
  PROVE  IInv'
  BY AtForm, IndexWraps, KeptOn DEF Index

LEMMA DereferenceKeeps ==
  ASSUME IInv, Dereference
  PROVE  IInv'
  BY AtForm, LexemeIs, PostfixWraps, ReadOn DEF Dereference

LEMMA EndOfOperatorsKeeps ==
  ASSUME IInv, EndOfPostfix \/ EndOfInfix
  PROVE  IInv'
  <1>1. PICK what \in {"postfix", "infix"} : At(what) /\ Go(<< >>)
    BY DEF EndOfPostfix, EndOfInfix
  <1>2. /\ outcome = "parsing" /\ Top.todo # << >> /\ Form(Top.node, Top.todo)
        /\ Top.todo[1] = Decide(what)
    BY <1>1, AtForm
  <1>3. Top.node.kind \notin {"none", "unit"} /\ Decide(what).do = "decide"
    BY <1>2, AtOperators, DecisionIs
  <1>4. Keeps(Top.node, Top.node, Join(<< >>, Tail(Top.todo)))
    BY <1>2, <1>3, KeepsSkipping
  <1> QED
    BY <1>1, <1>2, <1>4, GoesOn

LEMMA RightLevelIs ==
  ASSUME ahead \in BinaryOperators
  PROVE  RightLevel(ahead) \in 0..AnyLevel
  BY AnyLevelIs DEF BinaryOperators, RightLevel, BinaryLevel

LEMMA InfixKeeps ==
  ASSUME IInv, Infix
  PROVE  IInv'
  <1>1. /\ At("infix") /\ Reading /\ ahead \in BinaryOperators
        /\ Do([kind |-> "binary", left |-> Top.node, op |-> Lexeme],
              <<Operand(RightLevel(ahead), "right"), Decide("infix")>>)
    BY DEF Infix, IsInfixOperator
  <1>2. /\ outcome = "parsing" /\ Top.todo # << >> /\ Form(Top.node, Top.todo) /\ ahead # Unseen
        /\ Top.todo[1] = Decide("infix")
    BY <1>1, AtForm
  <1>3. RightLevel(ahead) \in 0..AnyLevel
    BY <1>1, RightLevelIs
  <1>4. Gains(Top.node, [kind |-> "binary", left |-> Top.node, op |-> Lexeme],
              Join(<<Operand(RightLevel(ahead), "right"), Decide("infix")>>, Tail(Top.todo)), Lexeme)
    BY <1>2, <1>3, LexemeIs, BinaryWraps
  <1> QED
    BY <1>1, <1>2, <1>4, ReadOn

ArgumentList == [items |-> "arguments", commas |-> "argument_commas",
                 item |-> "argument", comma |-> "argument_comma"]
ParameterList == [items |-> "parameters", commas |-> "parameter_commas",
                  item |-> "parameter", comma |-> "parameter_comma"]

LEMMA TheCommaLists == ArgumentList \in CommaLists /\ ParameterList \in CommaLists
  BY DEF CommaLists, ArgumentList, ParameterList

LEMMA NextOfKeeps ==
  ASSUME IInv, NEW list \in CommaLists, NEW what \in DOMAIN Functions,
         At(list.item),
         Go(<< >>) \/ Go(<<Parse(what, list.items), Decide(list.comma)>>)
  PROVE  IInv'
  <1>1. /\ outcome = "parsing" /\ Top.todo # << >> /\ Form(Top.node, Top.todo)
        /\ Top.todo[1] = Decide(list.item)
    BY AtForm
  <1>2. Top.node.kind \notin {"none", "unit"} /\ Decide(list.item).do = "decide"
    <2>1. list.item \in DOMAIN Choice /\ Choice[list.item].of \notin {"none", "unit"}
      BY CommaListNames, ChoicesOf DEF Choice
    <2> QED
      BY <2>1, <1>1, AtChoice, DecisionIs
  <1>3. Keeps(Top.node, Top.node, Join(<< >>, Tail(Top.todo)))
    BY <1>1, <1>2, KeepsSkipping
  <1>4. Keeps(Top.node, Top.node, Join(<<Parse(what, list.items), Decide(list.comma)>>, Tail(Top.todo)))
    BY <1>1, KeepsNextOf
  <1> QED
    BY <1>1, <1>3, <1>4, GoesOn

LEMMA CommaOfKeeps ==
  ASSUME IInv, NEW list \in CommaLists, At(list.comma),
         \/ Go(<< >>)
         \/ Reading /\ Do(Put(Top.node, list.commas, Lexeme), <<Decide(list.item)>>)
  PROVE  IInv'
  <1>1. /\ outcome = "parsing" /\ Top.todo # << >> /\ Form(Top.node, Top.todo) /\ ahead # Unseen
        /\ Top.todo[1] = Decide(list.comma)
    BY AtForm
  <1>2. Top.node.kind \notin {"none", "unit"} /\ Decide(list.comma).do = "decide"
    <2>1. list.comma \in DOMAIN Choice /\ Choice[list.comma].of \notin {"none", "unit"}
      BY CommaListNames, ChoicesOf DEF Choice
    <2> QED
      BY <2>1, <1>1, AtChoice, DecisionIs
  <1>3. Keeps(Top.node, Top.node, Join(<< >>, Tail(Top.todo)))
    BY <1>1, <1>2, KeepsSkipping
  <1>4. Gains(Top.node, Put(Top.node, list.commas, Lexeme), Join(<<Decide(list.item)>>, Tail(Top.todo)), Lexeme)
    BY <1>1, LexemeIs, GainsComma
  <1>5. CASE Go(<< >>)
    BY <1>1, <1>3, <1>5, GoesOn
  <1>6. CASE Reading /\ Do(Put(Top.node, list.commas, Lexeme), <<Decide(list.item)>>)
    BY <1>1, <1>4, <1>6, ReadOn
  <1> QED
    BY <1>5, <1>6

LEMMA NextOfEither ==
  ASSUME NEW item, NEW a, NEW b, NEW c, NextOf(item, <<a, b, c>>)
  PROVE  At(item) /\ (Go(<< >>) \/ Go(<<Parse(a, b), Decide(c)>>))
  BY DEF NextOf

LEMMA CommaOfEither ==
  ASSUME NEW comma, NEW member, NEW item, CommaOf(comma, member, item)
  PROVE  /\ At(comma)
         /\ \/ Go(<< >>)
            \/ Reading /\ Do(Put(Top.node, member, Lexeme), <<Decide(item)>>)
  BY Zenon DEF CommaOf

LEMMA ListsKeep ==
  ASSUME IInv, NextArgument \/ ArgumentComma \/ NextParameter \/ ParameterComma
  PROVE  IInv'
  <1>1. /\ ArgumentList.items = "arguments" /\ ArgumentList.commas = "argument_commas"
        /\ ArgumentList.item = "argument" /\ ArgumentList.comma = "argument_comma"
        /\ ParameterList.items = "parameters" /\ ParameterList.commas = "parameter_commas"
        /\ ParameterList.item = "parameter" /\ ParameterList.comma = "parameter_comma"
        /\ "expression" \in DOMAIN Functions /\ "parameter" \in DOMAIN Functions
    BY FunctionsAre DEF ArgumentList, ParameterList
  <1>2. CASE NextArgument
    <2>1. NextOf("argument", <<"expression", "arguments", "argument_comma">>)
      BY <1>2 DEF NextArgument
    <2>2. /\ At("argument")
          /\ Go(<< >>) \/ Go(<<Parse("expression", "arguments"), Decide("argument_comma")>>)
      BY <2>1, NextOfEither
    <2> QED
      BY <2>2, <1>1, TheCommaLists, NextOfKeeps
  <1>3. CASE NextParameter
    <2>1. NextOf("parameter", <<"parameter", "parameters", "parameter_comma">>)
      BY <1>3 DEF NextParameter
    <2>2. /\ At("parameter")
          /\ Go(<< >>) \/ Go(<<Parse("parameter", "parameters"), Decide("parameter_comma")>>)
      BY <2>1, NextOfEither
    <2> QED
      BY <2>2, <1>1, TheCommaLists, NextOfKeeps
  <1>4. CASE ArgumentComma
    <2>1. /\ At("argument_comma")
          /\ \/ Go(<< >>)
             \/ Reading /\ Do(Put(Top.node, "argument_commas", Lexeme), <<Decide("argument")>>)
      BY <1>4, CommaOfEither DEF ArgumentComma
    <2> QED
      BY <2>1, <1>1, TheCommaLists, CommaOfKeeps
  <1>5. CASE ParameterComma
    <2>1. /\ At("parameter_comma")
          /\ \/ Go(<< >>)
             \/ Reading /\ Do(Put(Top.node, "parameter_commas", Lexeme), <<Decide("parameter")>>)
      BY <1>5, CommaOfEither DEF ParameterComma
    <2> QED
      BY <2>1, <1>1, TheCommaLists, CommaOfKeeps
  <1> QED
    BY <1>2, <1>3, <1>4, <1>5

LEMMA AtomKeeps ==
  ASSUME IInv, Atom
  PROVE  IInv'
  BY AtForm, LexemeIs, AtomBeginning, ReadOn DEF Atom

LEMMA OneOfFour ==
  ASSUME NEW x, NEW p, NEW q, NEW r, NEW s, x \in {p, q, r, s}, NEW A, NEW B, NEW C, NEW D
  PROVE  (CASE x = p -> A [] x = q -> B [] x = r -> C [] x = s -> D) \in {A, B, C, D}
  OBVIOUS

LEMMA CompositeKeeps ==
  ASSUME IInv, Composite
  PROVE  IInv'
  <1> DEFINE f == CASE ahead = "kw_if" -> IfExpression [] ahead = "{" -> BlockExpression
                    [] ahead = "(" -> ParenExpression [] ahead = "kw_fn" -> FnExpression
  <1>1. At("primary") /\ Become(f)
    BY Zenon DEF Composite
  <1>2. ahead \in {"kw_if", "{", "(", "kw_fn"}
    BY Zenon DEF Composite
  <1>3. f \in {IfExpression, BlockExpression, ParenExpression, FnExpression}
    BY <1>2, OneOfFour, Zenon
  <1> HIDE DEF f
  <1>4. Begins(f)
    BY <1>3, IfIs, BlockIs, ParenIs, FnIs
  <1>5. /\ outcome = "parsing" /\ Top.todo # << >> /\ Form(Top.node, Top.todo)
        /\ Top.todo[1] = Decide("primary")
    BY <1>1, AtForm
  <1>6. Keeps(Top.node, f.node, Join(f.todo, Tail(Top.todo)))
    BY <1>4, <1>5, Becomes
  <1> QED
    BY <1>1, <1>5, <1>6, KeptOn DEF Become

LEMMA NotAnExpressionKeeps ==
  ASSUME IInv, NotAnExpression
  PROVE  IInv'
  <1>1. Peeking /\ Throw("unexpected_token")
    BY Zenon DEF NotAnExpression
  <1> QED
    BY <1>1, Thrown

LEMMA NextElseKeeps ==
  ASSUME IInv, NextElse
  PROVE  IInv'
  <1>1. /\ outcome = "parsing" /\ Top.todo # << >> /\ Form(Top.node, Top.todo)
        /\ Top.todo[1] = Decide("else")
    BY AtForm DEF NextElse
  <1>2. Top.node.kind = "if" /\ Decide("else").do = "decide"
    BY <1>1, AtChoice, ChoicesOf, DecisionIs DEF Choice
  <1>3. Keeps(Top.node, Top.node, Join(<< >>, Tail(Top.todo)))
    BY <1>1, <1>2, KeepsSkipping
  <1>4. Keeps(Top.node, Top.node, Join(<<Parse("else", "elses"), Decide("else")>>, Tail(Top.todo)))
    BY <1>1, KeepsElse
  <1>5. Go(<< >>) \/ Go(<<Parse("else", "elses"), Decide("else")>>)
    BY DEF NextElse
  <1> QED
    BY <1>1, <1>3, <1>4, <1>5, GoesOn

LEMMA ElseIfKeeps ==
  ASSUME IInv, ElseIf
  PROVE  IInv'
  <1>1. /\ outcome = "parsing" /\ Top.todo # << >> /\ Form(Top.node, Top.todo)
        /\ Top.todo[1] = Decide("else_if")
    BY AtForm DEF ElseIf
  <1>2. \/ Go(<<Expect("kw_if", "kw_if"), Parse("expression", "condition"), Parse("block", "body")>>)
        \/ Go(<<Parse("block", "body")>>)
    BY DEF ElseIf
  <1> QED
    BY <1>1, <1>2, KeepsElseIf, GoesOn

LEMMA NextKeeps ==
  ASSUME IInv, [Next]_vars
  PROVE  IInv'
  <1>1. CASE UNCHANGED vars
    <2>1. /\ UNCHANGED <<input, tokens, stack>> /\ ahead' = ahead /\ outcome' = outcome
          /\ ahead \in Tokens \cup {Unseen}
          /\ outcome \in {"parsing", "parsed", "unexpected_token", "lex_error"}
      BY <1>1 DEF vars, IInv, Types
    <2> QED
      BY <2>1, StackStays
  <1>2. CASE Next
    <2>1. CASE Done
      BY <2>1, <1>1 DEF Done
    <2> QED
      BY <2>1, <1>2, Zenon, PeeksKeeps, ExpectsKeeps, AcceptsKeeps, CallsKeeps, ReturnsKeeps, EndOfUnitKeeps,
         NextStatementKeeps, ChooseStatementKeeps, BlockStatementKeeps, BlockExpressionItemKeeps,
         EndOfBlockKeeps, BlockSemicolonKeeps, PrefixOperatorKeeps, PrefixBracketKeeps, SizeKeeps,
         PrimaryOperandKeeps, CallKeeps, IndexKeeps, DereferenceKeeps, EndOfOperatorsKeeps, InfixKeeps,
         ListsKeep, AtomKeeps, CompositeKeeps, NotAnExpressionKeeps, NextElseKeeps, ElseIfKeeps
         DEF Next
  <1> QED
    BY <1>1, <1>2

(* What the activations have built, opened once. *)
LEMMA ReadFollows ==
  ASSUME IInv
  PROVE  EveryLexemeOnce
  <1> SUFFICES ASSUME outcome \in {"parsing", "parsed"}
               PROVE  Yield(Built) = Lexemes
    BY DEF EveryLexemeOnce, Lexemes
  <1>1. Activations(stack) /\ ReadsAs(PartsOf(stack), Lexemes)
    BY DEF IInv, TextRead
  <1>2. Len(tokens) \in Nat
    BY DEF IInv, Types
  <1>3. Len(Lexemes) = Len(tokens)
    <2>1. Lexemes = [n \in 1..Len(tokens) |-> Lexemes[n]]
      BY DEF Lexemes
    <2> QED
      BY <2>1, <1>2, MadeASequence
  <1>4. Levels(PartsOf(stack))[Len(tokens)] = Lexemes
    BY <1>1, <1>2, <1>3, PartsBelow, ReadsSoon
  <1>5. Expanded(Built) = PartsOf(stack)
    <2>1. DOMAIN stack = 1..Len(stack) /\ DOMAIN Built = 1..Len(stack)
      BY <1>1, SequenceShape DEF Activations, Built
    <2>2. ASSUME NEW n \in 1..Len(stack)
          PROVE  Opened(Built[n]) = Members(stack[n].node)
      <3>1. Built[n] = stack[n].node
        BY <2>1 DEF Built
      <3>2. stack[n].node.kind \in DOMAIN Written
        BY <1>1 DEF Activations, ActivationFormed, Form, NodeFormed
      <3>3. stack[n].node.kind # "lexeme"
        BY <3>2, WrittenKinds
      <3> QED
        BY <3>1, <3>3 DEF Opened
    <2>3. [n \in DOMAIN Built |-> Opened(Built[n])] = PartsEach(stack)
      BY <2>1, <2>2 DEF PartsEach
    <2> QED
      BY <2>3 DEF Expanded, PartsOf
  <1>6. Levels(Built)[Len(tokens) + 1] = Levels(Expanded(Built))[Len(tokens)]
    BY <1>2, LevelsOfExpanded
  <1> QED
    BY <1>4, <1>5, <1>6 DEF Yield, Deepest

(* "AST nodes must preserve all lexemes": for every text, however long and    *)
(* deep, and after every step, the lexemes in the nodes built so far are      *)
(* those read, each once and in order, though expressions are rewrapped by    *)
(* what follows them and a block's tail becomes a statement.                  *)
THEOREM LexemesHold == Spec => []EveryLexemeOnce
  <1>1. Init => IInv
    BY InitKeeps
  <1>2. IInv /\ [Next]_vars => IInv'
    BY NextKeeps
  <1>3. IInv => EveryLexemeOnce
    BY ReadFollows
  <1> QED
    BY <1>1, <1>2, <1>3, PTL DEF Spec

----------------------------------------------------------------------------
(* The members at the edges of a node, and an operator's: they must be there. *)
Required ==
  [let |-> {"kw_let", "semicolon"}, return |-> {"kw_return", "semicolon"},
   while |-> {"kw_while", "body"}, expression_statement |-> {"expression", "semicolon"},
   atom |-> {"lexeme"}, paren |-> {"lparen", "rparen"}, block |-> {"lbrace", "rbrace"},
   if |-> {"kw_if", "then_block"}, else |-> {"body"}, fn |-> {"kw_fn", "body"},
   prefix |-> {"op", "operand"}, prefix_bracket |-> {"lbracket", "operand"},
   call |-> {"callee", "rparen"}, index |-> {"operand", "rbracket"},
   postfix |-> {"operand", "op"}, binary |-> {"left", "op", "right"},
   parameter |-> {}, return_type |-> {}, unit |-> {}, none |-> {}]

Bracketed(kind, m) == m = "then_block" \/ (m = "body" /\ kind \in {"while", "else"})

(* Trees none of whose rightmost nodes is a function.                         *)
Shut(tree, row) ==
  /\ Row(tree) <= row
  /\ \A d \in Nat : /\ Levels(<<tree>>)[d] # << >>
                    /\ Last(Levels(<<tree>>)[d]).kind # "fn"

LeftRow(op) == IF BinaryLevel(op.token) = 6 THEN 5 ELSE BinaryLevel(op.token)

(* What may be a member of a node.                                            *)
Fitting(node, m, v) ==
  /\ m \in Required[node.kind] \/ m = "tail" =>
       v.kind \in ExpressionKinds \cup StatementKinds \cup {"lexeme"}
  /\ Bracketed(node.kind, m) => v.kind = "block"
  /\ node.kind = "binary" =>
       /\ m = "op" => v.token \in BinaryOperators
       /\ m = "left" => Shut(v, LeftRow(node.op))
       /\ m = "right" => Row(v) \in Nat /\ Row(v) <= RightLevel(node.op.token)
  /\ node.kind \in {"prefix", "prefix_bracket"} /\ m = "operand" => Row(v) <= 1
  /\ node.kind = "call" /\ m = "callee" => Shut(v, 0)
  /\ node.kind \in {"index", "postfix"} /\ m = "operand" => Shut(v, 0)

AllFitting(node) ==
  /\ \A m \in DOMAIN node : m \notin Lists /\ m # "kind" => Fitting(node, m, node[m])
  /\ "elses" \in DOMAIN node => \A i \in 1..Len(node.elses) : node.elses[i].kind = "else"
  /\ node.kind = "if" => "elses" \in DOMAIN node

Proper(tree) ==
  tree.kind # "lexeme" =>
    /\ tree.kind \in DOMAIN Written \ {"none", "unit"}
    /\ Required[tree.kind] \subseteq DOMAIN tree
    /\ AllFitting(tree)
AllProper(trees) ==
  \A d \in Nat : \A i \in 1..Len(Levels(trees)[d]) : Proper(Levels(trees)[d][i])

(* An activation's steps bring what its node still needs.                     *)
Brings(step, m) ==
  \/ step.do \in {"expect", "parse"} /\ step.member = m
  \/ step = Decide("item") /\ m = "rbrace"
  \/ step = Decide("tail") /\ m = "rbrace"
  \/ step = Decide("else_if") /\ m = "body"
Complete(node, todo) ==
  \A m \in Required[node.kind] :
    m \in DOMAIN node \/ \E i \in 1..Len(todo) : Brings(todo[i], m)

RightCall(node, step) ==
  /\ step.member # "op"
  /\ step.do \in {"expect", "accept"} =>
       step.member # "body" /\ \A v : v.kind = "lexeme" => Fitting(node, step.member, v)
  /\ step.do = "parse" =>
       /\ step.level >= 1
       /\ step.member = "whole" => step.what = "primary"
       /\ \A v : v.kind \in KindsOf[step.what] /\ Row(v) \in Nat /\ Row(v) <= step.level =>
                Fitting(node, step.member, v)
       /\ step.member = "elses" => step.what = "else"
       /\ node.kind = "fn" /\ step.member = "body" => step.what = "expression" /\ step.level = AnyLevel
       /\ node.kind = "binary" /\ step.member = "right" =>
            step.what = "expression" /\ step.level = RightLevel(node.op.token)
RightCalls(node, todo) == \A i \in 1..Len(todo) : todo[i].do # "decide" => RightCall(node, todo[i])

(* What stands before the decision about another binary operator.             *)
BeforeInfix(step) ==
  \/ step \in {Decide("operand"), Decide("postfix")}
  \/ step.do = "parse" /\ step.what = "expression" /\ step.member \in {"operand", "right"}
InfixInTurn(todo) ==
  \A i \in 2..Len(todo) : todo[i] = Decide("infix") => BeforeInfix(todo[i - 1])

PostfixStage(kind, todo) ==
  (\E i \in 1..Len(todo) : todo[i] = Decide("postfix")) => kind \notin {"prefix", "prefix_bracket", "binary"}

Shape(node, todo, level) ==
  /\ level >= 1 /\ Row(node) <= level
  /\ AllFitting(node) /\ AllProper(Members(node))
  /\ node.kind = "binary" => "op" \in DOMAIN node
  /\ Complete(node, todo) /\ RightCalls(node, todo)
  /\ InfixInTurn(todo) /\ PostfixStage(node.kind, todo)

(* What the function called has become.                                       *)
NoOperators(todo) == \A i \in 1..Len(todo) : todo[i] \notin {Decide("postfix"), Decide("infix")}
Role(what, kind, todo) ==
  \/ /\ kind = "none" /\ todo # << >>
     /\ \/ what = "statement" /\ todo[1] = Decide("statement")
        \/ what = "primary" /\ todo[1] = Decide("primary")
        \/ what = "expression" /\ todo[1] \in {Decide("operand"), Parse("primary", "whole")}
  \/ /\ kind \in KindsOf[what]
     /\ IF what = "expression" THEN todo # << >> => todo[Len(todo)] = Decide("infix")
                               ELSE NoOperators(todo)

(* What the next token cannot be.                                             *)
Halt(token) == token # Unseen /\ token \notin PostfixOperators /\ token \notin BinaryOperators
Binds(token, level) == token \in BinaryOperators /\ BinaryLevel(token) <= level
Stopped(token, level) == token # Unseen /\ token \notin PostfixOperators /\ ~Binds(token, level)
Opens(trees) == \E d \in Nat : /\ Levels(trees)[d] # << >>
                               /\ Last(Levels(trees)[d]).kind = "fn"
Stops(node, todo, token) ==
  /\ Opens(Members(node)) => Halt(token)
  /\ node.kind = "fn" /\ "body" \in DOMAIN node => Halt(token)
  /\ todo # << >> /\ todo[1] = Decide("infix") =>
       Stopped(token, IF node.kind = "binary" THEN RightLevel(node.op.token) ELSE 0)

(* The function that an activation runs; what is known of the innermost one.  *)
Called(st, n) == IF n = 1 THEN "unit" ELSE st[n - 1].todo[1].what
Runs(what, node, todo, level) == Shape(node, todo, level) /\ Role(what, node.kind, todo)
Rests(what, node, todo, level, token) ==
  /\ Stops(node, todo, token)
  /\ what = "expression" /\ todo = << >> => Stopped(token, level)
AllRun(st) == \A n \in 1..Len(st) : Runs(Called(st, n), st[n].node, st[n].todo, st[n].level)
TopRests(st, token) ==
  LET n == Len(st) IN Rests(Called(st, n), st[n].node, st[n].todo, st[n].level, token)
PInv == outcome = "parsing" => AllRun(stack) /\ TopRests(stack, ahead)

----------------------------------------------------------------------------
(* Trees all of whose nodes are proper.                                       *)

LEMMA JoinParts ==
  ASSUME NEW a, IsASequence(a), NEW b, IsASequence(b)
  PROVE  /\ Len(a) \in Nat /\ Len(b) \in Nat /\ Len(Join(a, b)) = Len(a) + Len(b)
         /\ \A i \in 1..Len(a) : Join(a, b)[i] = a[i]
         /\ \A i \in 1..Len(b) : Join(a, b)[Len(a) + i] = b[i]
         /\ b # << >> => Len(b) \in 1..Len(b)
  <1>1. Len(a) \in Nat /\ Len(b) \in Nat
    BY SequenceShape
  <1>2. b # << >> => Len(b) # 0
    BY EmptySequence
  <1>3. b # << >> => Len(b) \in 1..Len(b)
    BY <1>1, <1>2
  <1>4. /\ Len(Join(a, b)) = Len(a) + Len(b)
        /\ \A i \in 1..Len(a) : Join(a, b)[i] = a[i]
        /\ \A i \in 1..Len(b) : Join(a, b)[Len(a) + i] = b[i]
    BY JoinSequence
  <1> QED
    BY <1>1, <1>3, <1>4

LEMMA JoinPartsIs ==
  ASSUME NEW a, IsASequence(a), NEW b, IsASequence(b), NEW c, c = Join(a, b)
  PROVE  /\ Len(a) \in Nat /\ Len(b) \in Nat /\ Len(c) = Len(a) + Len(b)
         /\ \A i \in 1..Len(a) : c[i] = a[i]
         /\ \A i \in 1..Len(b) : c[Len(a) + i] = b[i]
         /\ b # << >> => Len(b) \in 1..Len(b)
  BY JoinParts

LEMMA ProperNothing == AllProper(<< >>)
  <1>1. \A d \in Nat : Levels(<< >>)[d] = << >> /\ Len(<< >>) = 0
    BY NoTrees, EmptySequence
  <1> QED
    BY <1>1 DEF AllProper

LEMMA ProperJoined ==
  ASSUME NEW s, AllSound(s), NEW t, AllSound(t)
  PROVE  AllProper(Join(s, t)) <=> AllProper(s) /\ AllProper(t)
  <1>1. ASSUME NEW d \in Nat
        PROVE  LET a == Levels(s)[d]  b == Levels(t)[d]  c == Levels(Join(s, t))[d]
               IN  /\ Len(a) \in Nat /\ Len(b) \in Nat /\ Len(c) = Len(a) + Len(b)
                   /\ \A i \in 1..Len(a) : c[i] = a[i]
                   /\ \A i \in 1..Len(b) : c[Len(a) + i] = b[i]
    <2> DEFINE a == Levels(s)[d]  b == Levels(t)[d]  c == Levels(Join(s, t))[d]
    <2>1. IsASequence(a) /\ IsASequence(b) /\ c = Join(a, b)
      BY LevelsJoined DEF AllSound, SoundEach
    <2> HIDE DEF a, b, c
    <2>2. /\ Len(a) \in Nat /\ Len(b) \in Nat /\ Len(c) = Len(a) + Len(b)
          /\ \A i \in 1..Len(a) : c[i] = a[i]
          /\ \A i \in 1..Len(b) : c[Len(a) + i] = b[i]
      BY <2>1, JoinPartsIs
    <2> QED
      BY <2>2 DEF a, b, c
  <1>2. ASSUME AllProper(s), AllProper(t)
        PROVE  AllProper(Join(s, t))
    <2> SUFFICES ASSUME NEW d \in Nat, NEW i \in 1..Len(Levels(Join(s, t))[d])
                 PROVE  Proper(Levels(Join(s, t))[d][i])
      BY DEF AllProper
    <2> DEFINE a == Levels(s)[d]  b == Levels(t)[d]  c == Levels(Join(s, t))[d]
    <2>1. /\ Len(a) \in Nat /\ Len(b) \in Nat /\ Len(c) = Len(a) + Len(b)
          /\ \A j \in 1..Len(a) : c[j] = a[j]
          /\ \A j \in 1..Len(b) : c[Len(a) + j] = b[j]
      BY <1>1
    <2>2. /\ \A j \in 1..Len(a) : Proper(a[j])
          /\ \A j \in 1..Len(b) : Proper(b[j])
      BY <1>2 DEF AllProper
    <2>3. i \in 1..Len(c)
      OBVIOUS
    <2> HIDE DEF a, b, c
    <2>4. CASE i \in 1..Len(a)
      BY <2>1, <2>2, <2>4 DEF c
    <2>5. CASE i \notin 1..Len(a)
      <3>1. i - Len(a) \in 1..Len(b) /\ i = Len(a) + (i - Len(a))
        BY <2>1, <2>3, <2>5
      <3> QED
        BY <3>1, <2>1, <2>2 DEF c
    <2> QED
      BY <2>4, <2>5
  <1>3. ASSUME AllProper(Join(s, t))
        PROVE  AllProper(s) /\ AllProper(t)
    <2>1. ASSUME NEW d \in Nat
          PROVE  /\ \A j \in 1..Len(Levels(s)[d]) : Proper(Levels(s)[d][j])
                 /\ \A j \in 1..Len(Levels(t)[d]) : Proper(Levels(t)[d][j])
      <3> DEFINE a == Levels(s)[d]  b == Levels(t)[d]  c == Levels(Join(s, t))[d]
      <3>1. /\ Len(a) \in Nat /\ Len(b) \in Nat /\ Len(c) = Len(a) + Len(b)
            /\ \A j \in 1..Len(a) : c[j] = a[j]
            /\ \A j \in 1..Len(b) : c[Len(a) + j] = b[j]
        BY <1>1
      <3>2. \A j \in 1..Len(c) : Proper(c[j])
        BY <1>3 DEF AllProper
      <3> HIDE DEF a, b, c
      <3>3. \A j \in 1..Len(a) : j \in 1..Len(c)
        BY <3>1
      <3>4. \A j \in 1..Len(b) : Len(a) + j \in 1..Len(c)
        BY <3>1
      <3>5. /\ \A j \in 1..Len(a) : Proper(a[j])
            /\ \A j \in 1..Len(b) : Proper(b[j])
        BY <3>1, <3>2, <3>3, <3>4
      <3> QED
        BY <3>5 DEF a, b
    <2> QED
      BY <2>1 DEF AllProper
  <1> QED
    BY <1>2, <1>3

LEMMA ProperLeaf ==
  ASSUME NEW tree, tree.kind = "lexeme"
  PROVE  AllProper(<<tree>>)
  <1> DEFINE one == <<tree>>
  <1>1. Len(one) = 1 /\ one[1] = tree /\ \A d \in Nat : Levels(one)[d] = one
    BY FinishedLeaf
  <1> HIDE DEF one
  <1>2. \A i \in 1..Len(one) : Proper(one[i])
    BY <1>1 DEF Proper
  <1>3. AllProper(one)
    BY <1>1, <1>2 DEF AllProper
  <1> QED
    BY <1>3 DEF one

LEMMA ProperNode ==
  ASSUME NEW node, node.kind # "lexeme"
  PROVE  AllProper(<<node>>) <=> Proper(node) /\ AllProper(Members(node))
  <1> DEFINE one == <<node>>
  <1>1. Len(one) = 1 /\ one[1] = node
    OBVIOUS
  <1>2. Levels(one)[0] = one /\ \A d \in Nat : Levels(one)[d + 1] = Levels(Members(node))[d]
    BY LevelsOfOne DEF Opened
  <1> HIDE DEF one
  <1>3. ASSUME AllProper(one)
        PROVE  Proper(node) /\ AllProper(Members(node))
    <2>1. Proper(node)
      <3>1. 0 \in Nat /\ 1 \in 1..Len(Levels(one)[0])
        <4>1. Len(Levels(one)[0]) = 1
          BY <1>1, <1>2
        <4> QED
          BY <4>1
      <3>2. Proper(Levels(one)[0][1])
        BY <3>1, <1>3 DEF AllProper
      <3> QED
        BY <3>2, <1>1, <1>2
    <2>2. ASSUME NEW d \in Nat
          PROVE  \A i \in 1..Len(Levels(Members(node))[d]) : Proper(Levels(Members(node))[d][i])
      <3>1. d + 1 \in Nat /\ Levels(one)[d + 1] = Levels(Members(node))[d]
        BY <1>2
      <3> QED
        BY <3>1, <1>3 DEF AllProper
    <2> QED
      BY <2>1, <2>2 DEF AllProper
  <1>4. ASSUME Proper(node), AllProper(Members(node))
        PROVE  AllProper(one)
    <2> SUFFICES ASSUME NEW d \in Nat
                 PROVE  \A i \in 1..Len(Levels(one)[d]) : Proper(Levels(one)[d][i])
      BY DEF AllProper
    <2>1. CASE d = 0
      <3>1. Levels(one)[d] = one
        BY <2>1, <1>2
      <3>2. \A i \in 1..Len(one) : one[i] = node
        BY <1>1
      <3> QED
        BY <3>1, <3>2, <1>4
    <2>2. CASE d # 0
      <3>1. d - 1 \in Nat /\ (d - 1) + 1 = d
        BY <2>2
      <3>2. Levels(one)[d] = Levels(Members(node))[d - 1]
        BY <3>1, <1>2
      <3> QED
        BY <3>1, <3>2, <1>4 DEF AllProper
    <2> QED
      BY <2>1, <2>2
  <1> QED
    BY <1>3, <1>4 DEF one

LEMMA ProperFirst ==
  ASSUME NEW trees, AllProper(trees), NEW i \in 1..Len(trees)
  PROVE  Proper(trees[i])
  <1>1. Levels(trees)[0] = trees /\ 0 \in Nat
    BY LevelsUnfold
  <1>2. \A j \in 1..Len(Levels(trees)[0]) : Proper(Levels(trees)[0][j])
    BY <1>1 DEF AllProper
  <1> QED
    BY <1>1, <1>2

----------------------------------------------------------------------------
(* The last node of every level.                                              *)

Lasting(trees) == \A d \in Nat : Levels(trees)[d] # << >>

LEMMA LevelsSequence ==
  ASSUME NEW trees, AllSound(trees), NEW d \in Nat
  PROVE  /\ IsASequence(Levels(trees)[d]) /\ Len(Levels(trees)[d]) \in Nat
         /\ Levels(trees)[d] = << >> <=> Len(Levels(trees)[d]) = 0
  <1>1. IsASequence(Levels(trees)[d])
    BY DEF AllSound, SoundEach
  <1> QED
    BY <1>1, SequenceShape, EmptySequence

LEMMA NothingStays ==
  ASSUME NEW trees, NEW d \in Nat, Levels(trees)[d] = << >>
  PROVE  \A e \in Nat : e >= d => Levels(trees)[e] = << >>
  <1>1. IsASequence(Levels(trees)[d]) /\ AllLeaves(Levels(trees)[d])
    BY EmptySequence DEF AllLeaves
  <1> QED
    BY <1>1, LeavesStay

(* A lexeme among them is there to stay. *)
LEMMA LexemeLasts ==
  ASSUME NEW trees, AllFinished(trees), HasLexeme(trees)
  PROVE  Lasting(trees)
  <1>1. AllSound(trees)
    BY AllFinishedSound
  <1>2. PICK d \in Nat : d + 1 <= Len(Levels(trees)[d]) /\ AllLeaves(Levels(trees)[d])
    BY ShallowerBelow DEF Shallower
  <1>3. IsASequence(Levels(trees)[d]) /\ Levels(trees)[d] # << >>
    <2> DEFINE s == Levels(trees)[d]
    <2>1. IsASequence(s) /\ Len(s) \in Nat /\ (s = << >> <=> Len(s) = 0)
      BY <1>1, LevelsSequence
    <2>2. d + 1 <= Len(s)
      BY <1>2
    <2> HIDE DEF s
    <2>3. Len(s) # 0
      BY <2>1, <2>2
    <2> QED
      BY <2>1, <2>3 DEF s
  <1>4. ASSUME NEW e \in Nat, Levels(trees)[e] = << >>
        PROVE  FALSE
    <2>1. CASE e <= d
      BY <2>1, <1>3, <1>4, NothingStays
    <2>2. CASE e > d
      BY <2>2, <1>2, <1>3, <1>4, LeavesStay
    <2> QED
      BY <2>1, <2>2
  <1> QED
    BY <1>4 DEF Lasting

LEMMA LeafLasts ==
  ASSUME NEW tree, tree.kind = "lexeme"
  PROVE  Lasting(<<tree>>) /\ ~Opens(<<tree>>)
  <1> DEFINE one == <<tree>>
  <1>1. one # << >> /\ Last(one) = tree /\ \A d \in Nat : Levels(one)[d] = one
    BY FinishedLeaf DEF Last
  <1> HIDE DEF one
  <1>2. Lasting(one) /\ ~Opens(one)
    BY <1>1 DEF Lasting, Opens
  <1> QED
    BY <1>2 DEF one

LEMMA NodeLasts ==
  ASSUME NEW node, node.kind # "lexeme"
  PROVE  /\ Lasting(Members(node)) => Lasting(<<node>>)
         /\ Opens(<<node>>) => node.kind = "fn" \/ Opens(Members(node))
  <1> DEFINE one == <<node>>
  <1>1. one # << >> /\ Last(one) = node
    BY DEF Last
  <1>2. Levels(one)[0] = one /\ \A d \in Nat : Levels(one)[d + 1] = Levels(Members(node))[d]
    BY LevelsOfOne DEF Opened
  <1> HIDE DEF one
  <1>3. ASSUME NEW d \in Nat, d # 0
        PROVE  d - 1 \in Nat /\ Levels(one)[d] = Levels(Members(node))[d - 1]
    <2>1. d - 1 \in Nat /\ (d - 1) + 1 = d
      BY <1>3
    <2> QED
      BY <2>1, <1>2
  <1>4. ASSUME Lasting(Members(node)), NEW d \in Nat
        PROVE  Levels(one)[d] # << >>
    BY <1>1, <1>2, <1>3, <1>4 DEF Lasting
  <1>5. ASSUME Opens(one)
        PROVE  node.kind = "fn" \/ Opens(Members(node))
    <2>1. PICK d \in Nat : Levels(one)[d] # << >> /\ Last(Levels(one)[d]).kind = "fn"
      BY <1>5 DEF Opens
    <2>2. CASE d = 0
      <3>1. Last(Levels(one)[d]) = node
        BY <2>2, <1>1, <1>2
      <3> QED
        BY <2>1, <3>1
    <2>3. CASE d # 0
      <3>1. d - 1 \in Nat /\ Levels(one)[d] = Levels(Members(node))[d - 1]
        BY <2>3, <1>3
      <3>2. /\ Levels(Members(node))[d - 1] # << >>
            /\ Last(Levels(Members(node))[d - 1]).kind = "fn"
        BY <2>1, <3>1
      <3> QED
        BY <3>1, <3>2 DEF Opens
    <2> QED
      BY <2>2, <2>3
  <1>6. /\ Lasting(Members(node)) => Lasting(one)
        /\ Opens(one) => node.kind = "fn" \/ Opens(Members(node))
    BY <1>4, <1>5 DEF Lasting
  <1> QED
    BY <1>6 DEF one

LEMMA OpensAtTheEnd ==
  ASSUME NEW s, AllSound(s), NEW t, AllSound(t), Lasting(t), Opens(Join(s, t))
  PROVE  Opens(t)
  <1>1. PICK d \in Nat : /\ Levels(Join(s, t))[d] # << >>
                         /\ Last(Levels(Join(s, t))[d]).kind = "fn"
    BY DEF Opens
  <1> DEFINE a == Levels(s)[d]  b == Levels(t)[d]  c == Levels(Join(s, t))[d]
  <1>2. IsASequence(a) /\ IsASequence(b) /\ c = Join(a, b) /\ b # << >>
    BY LevelsJoined DEF AllSound, SoundEach, Lasting
  <1>3. Last(c).kind = "fn"
    BY <1>1
  <1> HIDE DEF a, b, c
  <1>4. /\ Len(a) \in Nat /\ Len(b) \in Nat /\ Len(c) = Len(a) + Len(b)
        /\ \A i \in 1..Len(b) : c[Len(a) + i] = b[i]
    BY <1>2, JoinPartsIs
  <1>5. Len(b) \in 1..Len(b)
    BY <1>2, JoinPartsIs
  <1>6. Last(c) = Last(b)
    BY <1>4, <1>5 DEF Last
  <1>7. b # << >> /\ Last(b).kind = "fn"
    BY <1>2, <1>3, <1>6
  <1> QED
    BY <1>7 DEF Opens, b

LEMMA NothingOpens == ~Opens(<< >>)
  BY NoTrees DEF Opens

LEMMA ShutTree ==
  ASSUME NEW tree, Lasting(<<tree>>), ~Opens(<<tree>>), NEW row, Row(tree) <= row
  PROVE  Shut(tree, row)
  BY DEF Lasting, Opens, Shut

----------------------------------------------------------------------------
(* Steps in place of the first.                                               *)

InPlace(new, steps, todo) ==
  /\ IsASequence(new) /\ Len(steps) \in Nat /\ Len(todo) \in Nat /\ Len(todo) >= 1
  /\ Len(new) = Len(steps) + Len(todo) - 1
  /\ \A i \in 1..Len(steps) : i \in 1..Len(new) /\ new[i] = steps[i]
  /\ \A j \in 2..Len(todo) : /\ Len(steps) + j - 1 \in 1..Len(new)
                             /\ new[Len(steps) + j - 1] = todo[j]
  /\ \A i \in 1..Len(new) : i \notin 1..Len(steps) =>
       /\ i - Len(steps) + 1 \in 2..Len(todo)
       /\ new[i] = todo[i - Len(steps) + 1]

LEMMA StepsInPlace ==
  ASSUME NEW todo, IsASequence(todo), todo # << >>, NEW steps, IsASequence(steps)
  PROVE  InPlace(Join(steps, Tail(todo)), steps, todo)
  <1> DEFINE rest == Tail(todo)  new == Join(steps, rest)
  <1>1. /\ IsASequence(rest) /\ Len(todo) \in Nat /\ Len(todo) >= 1 /\ Len(rest) = Len(todo) - 1
        /\ \A i \in 1..Len(rest) : i + 1 \in 1..Len(todo) /\ rest[i] = todo[i + 1]
    BY TailSteps
  <1> HIDE DEF rest
  <1>2. IsASequence(new)
    BY <1>1, JoinSequence
  <1>3. /\ Len(steps) \in Nat /\ Len(rest) \in Nat /\ Len(new) = Len(steps) + Len(rest)
        /\ \A i \in 1..Len(steps) : new[i] = steps[i]
        /\ \A i \in 1..Len(rest) : new[Len(steps) + i] = rest[i]
    BY <1>1, JoinParts
  <1> HIDE DEF new
  <1>4. \A i \in 1..Len(steps) : i \in 1..Len(new) /\ new[i] = steps[i]
    BY <1>1, <1>3
  <1>5. ASSUME NEW j \in 2..Len(todo)
        PROVE  Len(steps) + j - 1 \in 1..Len(new) /\ new[Len(steps) + j - 1] = todo[j]
    <2>1. j - 1 \in 1..Len(rest) /\ (j - 1) + 1 = j /\ Len(steps) + (j - 1) = Len(steps) + j - 1
      BY <1>1, <1>3
    <2>2. new[Len(steps) + (j - 1)] = rest[j - 1] /\ rest[j - 1] = todo[(j - 1) + 1]
      BY <2>1, <1>1, <1>3
    <2>3. Len(steps) + j - 1 \in 1..Len(new)
      BY <2>1, <1>1, <1>3
    <2> QED
      BY <2>1, <2>2, <2>3
  <1>6. ASSUME NEW i \in 1..Len(new), i \notin 1..Len(steps)
        PROVE  i - Len(steps) + 1 \in 2..Len(todo) /\ new[i] = todo[i - Len(steps) + 1]
    <2>1. i - Len(steps) \in 1..Len(rest) /\ Len(steps) + (i - Len(steps)) = i
      BY <1>3, <1>6
    <2>2. new[Len(steps) + (i - Len(steps))] = rest[i - Len(steps)]
          /\ rest[i - Len(steps)] = todo[(i - Len(steps)) + 1]
      BY <2>1, <1>1, <1>3
    <2>3. i - Len(steps) + 1 \in 2..Len(todo)
      BY <2>1, <1>1
    <2> QED
      BY <2>1, <2>2, <2>3
  <1>7. Len(new) = Len(steps) + Len(todo) - 1
    BY <1>1, <1>3
  <1>8. InPlace(new, steps, todo)
    BY <1>1, <1>2, <1>3, <1>4, <1>5, <1>6, <1>7 DEF InPlace
  <1> QED
    BY <1>8 DEF new, rest

LEMMA FittingSame ==
  ASSUME NEW node, NEW next, next.kind = node.kind, node.kind = "binary" => next.op = node.op,
         NEW m, NEW v, Fitting(node, m, v)
  PROVE  Fitting(next, m, v)
  BY DEF Fitting

LEMMA RightCallSame ==
  ASSUME NEW node, NEW next, next.kind = node.kind, node.kind = "binary" => next.op = node.op,
         NEW step, RightCall(node, step)
  PROVE  RightCall(next, step)
  <1>1. \A m, v : Fitting(node, m, v) => Fitting(next, m, v)
    BY FittingSame
  <1> QED
    BY <1>1 DEF RightCall

LEMMA RowSame ==
  ASSUME NEW node, NEW next, next.kind = node.kind, node.kind = "binary" => next.op = node.op
  PROVE  Row(next) = Row(node)
  BY DEF Row

(* Other steps, and perhaps more members. *)
LEMMA ShapeChanges ==
  ASSUME NEW node, NEW todo, NEW level, IsASequence(todo), Shape(node, todo, level), todo # << >>,
         NEW next, next.kind = node.kind,
         node.kind = "binary" => "op" \in DOMAIN next /\ next.op = node.op,
         AllFitting(next), AllProper(Members(next)),
         \A m \in Required[node.kind] : m \in DOMAIN node => m \in DOMAIN next,
         NEW steps, IsASequence(steps), RightCalls(node, steps), NoOperators(steps),
         steps = << >> \/ ~BeforeInfix(todo[1]),
         \A m \in Required[node.kind] :
           Brings(todo[1], m) => m \in DOMAIN next \/ \E i \in 1..Len(steps) : Brings(steps[i], m)
  PROVE  Shape(next, Join(steps, Tail(todo)), level)
  <1> DEFINE new == Join(steps, Tail(todo))  n == Len(steps)
  <1>0. InPlace(new, steps, todo)
    BY StepsInPlace
  <1> HIDE DEF new
  <1>1. /\ IsASequence(new) /\ n \in Nat /\ Len(todo) \in Nat /\ Len(todo) >= 1
        /\ Len(new) = n + Len(todo) - 1
        /\ \A i \in 1..n : i \in 1..Len(new) /\ new[i] = steps[i]
        /\ \A j \in 2..Len(todo) : n + j - 1 \in 1..Len(new) /\ new[n + j - 1] = todo[j]
        /\ \A i \in 1..Len(new) : i \notin 1..n =>
             i - n + 1 \in 2..Len(todo) /\ new[i] = todo[i - n + 1]
    BY <1>0 DEF InPlace
  <1>2. level >= 1 /\ Row(next) <= level
    BY RowSame DEF Shape
  <1>3. Complete(next, new)
    <2> SUFFICES ASSUME NEW m \in Required[node.kind], m \notin DOMAIN next
                 PROVE  \E i \in 1..Len(new) : Brings(new[i], m)
      BY DEF Complete
    <2>1. PICK i \in 1..Len(todo) : Brings(todo[i], m)
      BY DEF Shape, Complete
    <2>2. CASE i = 1
      <3>1. PICK j \in 1..n : Brings(steps[j], m)
        BY <2>1, <2>2
      <3> QED
        BY <3>1, <1>1
    <2>3. CASE i # 1
      <3>1. i \in 2..Len(todo)
        BY <2>3, <1>1
      <3> QED
        BY <3>1, <2>1, <1>1
    <2> QED
      BY <2>2, <2>3
  <1>4. RightCalls(next, new)
    <2> SUFFICES ASSUME NEW i \in 1..Len(new), new[i].do # "decide"
                 PROVE  RightCall(next, new[i])
      BY DEF RightCalls
    <2>1. CASE i \in 1..n
      BY <2>1, <1>1, RightCallSame DEF RightCalls
    <2>2. CASE i \notin 1..n
      <3>1. i - n + 1 \in 2..Len(todo) /\ new[i] = todo[i - n + 1]
        BY <2>2, <1>1
      <3>2. RightCall(node, new[i])
        BY <3>1 DEF Shape, RightCalls
      <3> QED
        BY <3>2, RightCallSame
    <2> QED
      BY <2>1, <2>2
  <1>5. InfixInTurn(new)
    <2> SUFFICES ASSUME NEW i \in 2..Len(new), new[i] = Decide("infix")
                 PROVE  BeforeInfix(new[i - 1])
      BY DEF InfixInTurn
    <2>1. i \in 1..Len(new) /\ i - 1 \in 1..Len(new)
      BY <1>1
    <2>2. i \notin 1..n
      BY <1>1 DEF NoOperators
    <2>3. i - n + 1 \in 2..Len(todo) /\ new[i] = todo[i - n + 1]
      BY <2>1, <2>2, <1>1
    <2>4. BeforeInfix(todo[i - n])
      <3>1. (i - n + 1) - 1 = i - n
        BY <1>1
      <3> QED
        BY <2>3, <3>1 DEF Shape, InfixInTurn
    <2>5. CASE i - n = 1
      <3>1. steps # << >>
        BY <2>5, EmptySequence
      <3> QED
        BY <3>1, <2>4, <2>5
    <2>6. CASE i - n # 1
      <3>1. i - 1 \notin 1..n /\ (i - 1) - n + 1 = i - n
        <4>1. i \in Int /\ n \in Nat /\ i >= 1
          BY <1>1
        <4>2. i > n /\ i - n # 1
          BY <2>2, <2>6, <4>1
        <4> QED
          BY <4>1, <4>2
      <3>2. new[i - 1] = todo[(i - 1) - n + 1]
        BY <3>1, <2>1, <1>1
      <3> QED
        BY <3>1, <3>2, <2>4
    <2> QED
      BY <2>5, <2>6
  <1>6. PostfixStage(next.kind, new)
    <2> SUFFICES ASSUME NEW i \in 1..Len(new), new[i] = Decide("postfix")
                 PROVE  node.kind \notin {"prefix", "prefix_bracket", "binary"}
      BY DEF PostfixStage
    <2>1. i \notin 1..n
      BY <1>1 DEF NoOperators
    <2>2. i - n + 1 \in 1..Len(todo) /\ todo[i - n + 1] = Decide("postfix")
      BY <2>1, <1>1
    <2> QED
      BY <2>2 DEF Shape, PostfixStage
  <1> QED
    BY <1>2, <1>3, <1>4, <1>5, <1>6 DEF Shape, new

(* The role of an activation stays while it neither begins nor ends. *)
LEMMA RoleGoesOn ==
  ASSUME NEW what, NEW kind, kind # "none", NEW todo, IsASequence(todo), todo # << >>,
         Role(what, kind, todo), todo[1] # Decide("infix"),
         NEW steps, IsASequence(steps), NoOperators(steps)
  PROVE  /\ Role(what, kind, Join(steps, Tail(todo)))
         /\ what = "expression" => Join(steps, Tail(todo)) # << >>
  <1> DEFINE new == Join(steps, Tail(todo))  n == Len(steps)
  <1>0. InPlace(new, steps, todo)
    BY StepsInPlace
  <1> HIDE DEF new
  <1>1. /\ IsASequence(new) /\ n \in Nat /\ Len(todo) \in Nat /\ Len(todo) >= 1
        /\ Len(new) = n + Len(todo) - 1
        /\ \A i \in 1..n : i \in 1..Len(new) /\ new[i] = steps[i]
        /\ \A j \in 2..Len(todo) : n + j - 1 \in 1..Len(new) /\ new[n + j - 1] = todo[j]
        /\ \A i \in 1..Len(new) : i \notin 1..n =>
             i - n + 1 \in 2..Len(todo) /\ new[i] = todo[i - n + 1]
    BY <1>0 DEF InPlace
  <1>2. /\ kind \in KindsOf[what]
        /\ what = "expression" => todo[Len(todo)] = Decide("infix")
        /\ what # "expression" => NoOperators(todo)
    BY DEF Role
  <1>3. CASE what = "expression"
    <2>1. Len(todo) \in 2..Len(todo)
      BY <1>1, <1>2, <1>3
    <2>2. n + Len(todo) - 1 \in 1..Len(new) /\ new[Len(new)] = Decide("infix")
      BY <2>1, <1>1, <1>2, <1>3
    <2>3. new # << >>
      BY <2>1, <1>1, EmptySequence
    <2> QED
      BY <2>2, <2>3, <1>2, <1>3 DEF Role, new
  <1>4. CASE what # "expression"
    <2>1. ASSUME NEW i \in 1..Len(new)
          PROVE  new[i] \notin {Decide("postfix"), Decide("infix")}
      <3>1. CASE i \in 1..n
        BY <3>1, <1>1 DEF NoOperators
      <3>2. CASE i \notin 1..n
        <4>1. i - n + 1 \in 1..Len(todo) /\ new[i] = todo[i - n + 1]
          BY <3>2, <1>1
        <4> QED
          BY <4>1, <1>2, <1>4 DEF NoOperators
      <3> QED
        BY <3>1, <3>2
    <2> QED
      BY <2>1, <1>2, <1>4 DEF Role, NoOperators, new
  <1> QED
    BY <1>3, <1>4

(* What comes first in the steps that are left. *)
LEMMA NotInfixFirst ==
  ASSUME NEW todo, IsASequence(todo), todo # << >>, InfixInTurn(todo),
         NEW steps, IsASequence(steps), NoOperators(steps), ~BeforeInfix(todo[1]),
         Join(steps, Tail(todo)) # << >>
  PROVE  Join(steps, Tail(todo))[1] # Decide("infix")
  <1> DEFINE new == Join(steps, Tail(todo))  n == Len(steps)
  <1>0. InPlace(new, steps, todo)
    BY StepsInPlace
  <1> HIDE DEF new
  <1>1. /\ IsASequence(new) /\ n \in Nat /\ Len(todo) \in Nat /\ Len(todo) >= 1
        /\ Len(new) = n + Len(todo) - 1
        /\ \A i \in 1..n : i \in 1..Len(new) /\ new[i] = steps[i]
        /\ \A i \in 1..Len(new) : i \notin 1..n =>
             i - n + 1 \in 2..Len(todo) /\ new[i] = todo[i - n + 1]
    BY <1>0 DEF InPlace
  <1>2. Len(new) # 0
    BY <1>1, EmptySequence DEF new
  <1>3. 1 \in 1..Len(new)
    BY <1>1, <1>2
  <1>4. CASE 1 \in 1..n
    BY <1>4, <1>1 DEF NoOperators, new
  <1>5. CASE 1 \notin 1..n
    <2>1. n = 0
      BY <1>1, <1>5
    <2>2. 2 \in 2..Len(todo) /\ new[1] = todo[2]
      BY <2>1, <1>1, <1>3, <1>5
    <2>3. todo[2] = Decide("infix") => BeforeInfix(todo[2 - 1])
      BY <2>2 DEF InfixInTurn
    <2>4. 2 - 1 = 1
      OBVIOUS
    <2> QED
      BY <2>2, <2>3, <2>4 DEF new
  <1> QED
    BY <1>4, <1>5

(* Once a function has its body, only operators may follow. *)
LEMMA BodyLast ==
  ASSUME NEW node, NEW todo, Form(node, todo), node.kind = "fn", "body" \in DOMAIN node, todo # << >>
  PROVE  todo[1].do = "decide" /\ todo[1].what \in {"postfix", "infix"}
  <1>1. Fits("fn", todo[1]) /\ "fn" \in DOMAIN Written
    BY FirstFits
  <1>2. Len(Written["fn"]) = 8 /\ Position("fn", "body") = 8 /\ Belongs("fn", "body")
    BY FnPlaces
  <1>3. Written["fn"][8] = "body"
    BY <1>1, <1>2, PositionOf DEF ItemsOf
  <1>4. Member(node, "body") # << >>
    <2>1. Member(node, "body") = <<node["body"]>>
      BY MemberIs DEF Lists
    <2> QED
      BY <2>1
  <1> DEFINE f == FirstPlace("fn", todo[1])
  <1>5. ~(8 >= f)
    <2>1. Blank(node, f)
      BY DEF Form, NextIsBlank
    <2>2. 8 \in 1..Len(Written[node.kind])
      BY <1>2
    <2> HIDE DEF f
    <2> QED
      BY <2>1, <2>2, <1>3, <1>4 DEF Blank
  <1>6. CASE todo[1].do \in {"expect", "accept"}
    <2>1. Belongs("fn", todo[1].member) /\ todo[1].member \notin Lists
      BY <1>1, <1>6 DEF Fits
    <2>2. Position("fn", todo[1].member) \in 1..8 /\ todo[1].member # "whole"
      BY <2>1, <1>1, <1>2, PositionOf
    <2>3. f = Position("fn", todo[1].member)
      BY <2>1, <2>2, <1>6 DEF FirstPlace
    <2> QED
      BY <2>2, <2>3, <1>5
  <1>7. CASE todo[1].do = "parse"
    <2>1. Belongs("fn", todo[1].member)
      BY <1>1, <1>7 DEF Fits
    <2>2. /\ Position("fn", todo[1].member) \in 1..8 /\ todo[1].member # "whole"
          /\ Written["fn"][Position("fn", todo[1].member)] = ItemsOf(todo[1].member)
      BY <2>1, <1>1, <1>2, PositionOf
    <2>3. todo[1].member \in Lists => Position("fn", todo[1].member) # 8
      BY <2>2, <1>3 DEF Lists, ItemsOf
    <2>4. f \in {Position("fn", todo[1].member), Position("fn", todo[1].member) + 1}
          /\ (todo[1].member \notin Lists => f = Position("fn", todo[1].member))
      BY <2>2, <1>7 DEF FirstPlace
    <2> QED
      BY <2>2, <2>3, <2>4, <1>5
  <1>8. CASE todo[1].do = "decide"
    <2>1. \/ todo[1].what \in DOMAIN Choice /\ Choice[todo[1].what].of = "fn"
          \/ todo[1].what \in {"postfix", "infix"}
      BY <1>1, <1>8 DEF Fits
    <2>2. CASE todo[1].what \in DOMAIN Choice
      <3>1. f = Choice[todo[1].what].first
        BY <2>2, <1>8 DEF FirstPlace
      <3>2. Choice[todo[1].what].first <= 8
        BY <2>2, ChoicesOf DEF Choice
      <3> QED
        BY <3>1, <3>2, <1>5
    <2>3. CASE todo[1].what \in {"postfix", "infix"}
      BY <2>3, <1>8
    <2> QED
      BY <2>1, <2>2, <2>3
  <1> QED
    BY <1>1, <1>6, <1>7, <1>8 DEF Fits

----------------------------------------------------------------------------
(* A member is put into the node at hand.                                     *)

LEMMA FirstMember ==
  ASSUME NEW node, NEW todo, Form(node, todo), todo # << >>,
         todo[1].do \in {"expect", "accept", "parse"}, todo[1].member # "whole"
  PROVE  /\ Belongs(node.kind, todo[1].member) /\ todo[1].member # "kind"
         /\ todo[1].member \in Lists => todo[1].member \in DOMAIN node
         /\ todo[1].do # "parse" => todo[1].member \notin Lists
         /\ node.kind # "none"
  <1>1. Fits(node.kind, todo[1]) /\ node.kind \in DOMAIN Written
    BY FirstFits
  <1>2. /\ Belongs(node.kind, todo[1].member)
        /\ todo[1].do # "parse" => todo[1].member \notin Lists
    BY <1>1 DEF Fits
  <1>3. todo[1].member # "kind"
    BY <1>1, <1>2, PositionOf
  <1>4. todo[1].member \in Lists => todo[1].member \in DOMAIN node
    BY <1>2 DEF Form, NodeFormed
  <1>5. node.kind # "none"
    <2>1. Position(node.kind, todo[1].member) \in 1..Len(Written[node.kind])
      BY <1>1, <1>2, PositionOf
    <2>2. Len(Written["none"]) = 0
      BY WrittenOf, EmptySequence
    <2> QED
      BY <2>1, <2>2
  <1> QED
    BY <1>2, <1>3, <1>4, <1>5

LEMMA FittingMore ==
  ASSUME NEW node, AllFitting(node), NEW m, m # "kind", NEW v, NEW next,
         Replaced(next, node, m, Added(node, m, v)), next.kind = node.kind,
         node.kind = "binary" => next.op = node.op,
         m \notin Lists => Fitting(node, m, v),
         m = "elses" => m \in DOMAIN node /\ IsASequence(node.elses) /\ v.kind = "else"
  PROVE  AllFitting(next)
  <1>1. ASSUME NEW x \in DOMAIN next, x \notin Lists, x # "kind"
        PROVE  Fitting(next, x, next[x])
    <2>1. CASE x = m
      <3>1. next[x] = v
        BY <1>1, <2>1 DEF Replaced, Added
      <3> QED
        BY <3>1, <1>1, <2>1, FittingSame
    <2>2. CASE x # m
      <3>1. x \in DOMAIN node /\ next[x] = node[x]
        BY <1>1, <2>2 DEF Replaced
      <3> QED
        BY <3>1, <1>1, FittingSame DEF AllFitting
    <2> QED
      BY <2>1, <2>2
  <1>2. ASSUME "elses" \in DOMAIN next
        PROVE  \A i \in 1..Len(next.elses) : next.elses[i].kind = "else"
    <2>1. CASE m = "elses"
      <3>1. next.elses = Append(node.elses, v)
        BY <2>1 DEF Replaced, Added, Lists
      <3>2. \A i \in 1..Len(node.elses) : node.elses[i].kind = "else"
        BY <2>1 DEF AllFitting
      <3> DEFINE e == node.elses  f == next.elses
      <3>3. /\ Len(e) \in Nat /\ Len(f) = Len(e) + 1 /\ f[Len(e) + 1] = v
            /\ \A i \in 1..Len(e) : f[i] = e[i]
        BY <2>1, <3>1, AppendedSequence, SequenceShape
      <3> HIDE DEF e, f
      <3>4. ASSUME NEW i \in 1..Len(f)
            PROVE  f[i].kind = "else"
        <4>1. CASE i = Len(e) + 1
          BY <4>1, <3>3, <2>1
        <4>2. CASE i # Len(e) + 1
          <5>1. i \in 1..Len(e)
            BY <4>2, <3>3
          <5> QED
            BY <5>1, <3>2, <3>3 DEF e
        <4> QED
          BY <4>1, <4>2
      <3> QED
        BY <3>4 DEF f
    <2>2. CASE m # "elses"
      <3>1. "elses" \in DOMAIN node /\ next.elses = node.elses
        BY <1>2, <2>2 DEF Replaced
      <3> QED
        BY <3>1 DEF AllFitting
    <2> QED
      BY <2>1, <2>2
  <1>3. node.kind = "if" => "elses" \in DOMAIN next
    BY DEF AllFitting, Replaced
  <1> QED
    BY <1>1, <1>2, <1>3 DEF AllFitting

(* The member that was asked for. *)
LEMMA ShapeAdds ==
  ASSUME NEW node, NEW todo, NEW level, Form(node, todo), Shape(node, todo, level), todo # << >>,
         todo[1].do \in {"expect", "accept", "parse"}, todo[1].member # "whole",
         NEW v, Finished(v), todo[1].do \in {"expect", "accept"} <=> v.kind = "lexeme",
         AllProper(<<v>>), Fitting(node, todo[1].member, v), todo[1].member = "elses" => v.kind = "else",
         todo[1].member # "op"
  PROVE  Shape(Put(node, todo[1].member, v), Tail(todo), level)
  <1> DEFINE m == todo[1].member  next == Put(node, m, v)
  <1>1. /\ m # "kind" /\ (m \in Lists => m \in DOMAIN node) /\ Belongs(node.kind, m)
    BY FirstMember
  <1>2. /\ next.kind = node.kind /\ Members(next) = Join(Members(node), <<v>>)
    BY FormReads
  <1>3. Replaced(next, node, m, Added(node, m, v))
    BY <1>1, PutChanges
  <1>4. /\ IsASequence(todo) /\ AllFinished(Members(node)) /\ ListsFormed(node)
    BY DEF Form, StepsInTurn, NodeFormed
  <1> HIDE DEF next
  <1>5. node.kind = "binary" => "op" \in DOMAIN next /\ next.op = node.op
    BY <1>3 DEF Shape, Replaced
  <1>6. m = "elses" => m \in DOMAIN node /\ IsASequence(node.elses) /\ v.kind = "else"
    BY <1>1, <1>4 DEF ListsFormed, Lists
  <1>7. AllFitting(next)
    BY <1>1, <1>2, <1>3, <1>5, <1>6, FittingMore DEF Shape
  <1>8. AllProper(Members(next))
    <2>1. AllSound(Members(node)) /\ AllSound(<<v>>)
      BY <1>4, AllFinishedSound DEF Finished
    <2>2. AllProper(Members(node))
      BY DEF Shape
    <2> QED
      BY <2>1, <2>2, <1>2, ProperJoined
  <1>9. \A x \in Required[node.kind] : x \in DOMAIN node => x \in DOMAIN next
    BY <1>3 DEF Replaced
  <1>10. ASSUME NEW x, Brings(todo[1], x)
         PROVE  x \in DOMAIN next
    <2>1. \A what : todo[1] # Decide(what)
      BY StepsAre
    <2>2. x = m
      BY <2>1, <1>10 DEF Brings
    <2> QED
      BY <2>2, <1>3 DEF Replaced
  <1>11. IsASequence(<< >>) /\ RightCalls(node, << >>) /\ NoOperators(<< >>)
    BY EmptySequence DEF RightCalls, NoOperators
  <1>12. Shape(next, Join(<< >>, Tail(todo)), level)
    BY <1>2, <1>4, <1>5, <1>7, <1>8, <1>9, <1>10, <1>11, ShapeChanges
  <1>13. Join(<< >>, Tail(todo)) = Tail(todo)
    BY <1>4, NothingToJoin
  <1> QED
    BY <1>12, <1>13 DEF next

----------------------------------------------------------------------------
(* An activation that reads a lexeme, or goes on.                             *)

LEMMA UnseenNeverStops ==
  ASSUME NEW level
  PROVE  ~Halt(Unseen) /\ ~Stopped(Unseen, level)
  BY DEF Halt, Stopped

LEMMA ReadingMember ==
  ASSUME NEW node, NEW todo, Form(node, todo), todo # << >>, todo[1].do \in {"expect", "accept"}
  PROVE  todo[1].member # "whole" /\ node.kind # "none"
  <1>1. Fits(node.kind, todo[1]) /\ node.kind \in DOMAIN Written
    BY FirstFits
  <1>2. Belongs(node.kind, todo[1].member)
    BY <1>1 DEF Fits
  <1>3. todo[1].member # "whole"
    BY <1>1, <1>2, PositionOf
  <1> QED
    BY <1>3, FirstMember

LEMMA ReadingSteps ==
  ASSUME NEW step, step.do \in {"expect", "accept"}
  PROVE  ~BeforeInfix(step) /\ step # Decide("infix") /\ step # Decide("postfix")
  BY StepsAre DEF BeforeInfix

(* The lexeme expected or accepted becomes a member. *)
LEMMA ReadsRight ==
  ASSUME NEW what, NEW node, NEW todo, NEW level, Form(node, todo), Runs(what, node, todo, level),
         todo # << >>, todo[1].do \in {"expect", "accept"}, NEW v, v.kind = "lexeme"
  PROVE  /\ Runs(what, Put(node, todo[1].member, v), Tail(todo), level)
         /\ Rests(what, Put(node, todo[1].member, v), Tail(todo), level, Unseen)
  <1> DEFINE m == todo[1].member  next == Put(node, m, v)  rest == Tail(todo)
  <1>1. m # "whole" /\ node.kind # "none"
    BY ReadingMember
  <1>2. /\ IsASequence(todo) /\ AllFinished(Members(node)) /\ ListsFormed(node) /\ 1 \in 1..Len(todo)
    BY FirstFits DEF Form, StepsInTurn, NodeFormed
  <1>3. RightCall(node, todo[1])
    BY <1>2 DEF Runs, Shape, RightCalls
  <1>4. Finished(v) /\ AllProper(<<v>>) /\ Lasting(<<v>>) /\ ~Opens(<<v>>)
    BY FinishedLeaf, ProperLeaf, LeafLasts
  <1>5. Fitting(node, m, v) /\ m # "op" /\ m # "body"
    BY <1>3 DEF RightCall
  <1>6. m \notin Lists /\ m # "elses"
    BY <1>1, FirstMember DEF Lists
  <1>7. Shape(node, todo, level) /\ Role(what, node.kind, todo)
    BY DEF Runs
  <1>8. Shape(next, rest, level)
    BY <1>1, <1>4, <1>5, <1>6, <1>7, ShapeAdds
  <1>9. next.kind = node.kind /\ Members(next) = Join(Members(node), <<v>>)
    BY <1>1, <1>4, FormReads
  <1>10. Replaced(next, node, m, Added(node, m, v))
    BY <1>1, <1>6, PutChanges
  <1>11. ~BeforeInfix(todo[1]) /\ todo[1] # Decide("infix")
    BY ReadingSteps
  <1>12. IsASequence(<< >>) /\ NoOperators(<< >>) /\ Join(<< >>, rest) = rest
    BY <1>2, EmptySequence, NothingToJoin DEF NoOperators
  <1>13. Role(what, node.kind, rest) /\ (what = "expression" => rest # << >>)
    <2>1. /\ Role(what, node.kind, Join(<< >>, Tail(todo)))
          /\ what = "expression" => Join(<< >>, Tail(todo)) # << >>
      BY <1>1, <1>2, <1>7, <1>11, <1>12, RoleGoesOn
    <2> QED
      BY <2>1, <1>12
  <1>14. rest # << >> => rest[1] # Decide("infix")
    <2>1. Join(<< >>, Tail(todo)) # << >> => Join(<< >>, Tail(todo))[1] # Decide("infix")
      BY <1>2, <1>7, <1>11, <1>12, NotInfixFirst DEF Shape
    <2> QED
      BY <2>1, <1>12
  <1> HIDE DEF next, rest
  <1>15. ~Opens(Members(next))
    <2>1. AllSound(Members(node)) /\ AllSound(<<v>>)
      BY <1>2, <1>4, AllFinishedSound DEF Finished
    <2> QED
      BY <2>1, <1>4, <1>9, OpensAtTheEnd
  <1>16. ~(node.kind = "fn" /\ "body" \in DOMAIN next)
    <2> SUFFICES ASSUME node.kind = "fn", "body" \in DOMAIN next
                 PROVE  FALSE
      OBVIOUS
    <2>1. "body" \in DOMAIN node
      BY <1>5, <1>10 DEF Replaced
    <2>2. todo[1].do = "decide"
      BY <2>1, BodyLast
    <2> QED
      BY <2>2
  <1>17. Runs(what, next, rest, level)
    BY <1>8, <1>9, <1>13 DEF Runs
  <1>18. Rests(what, next, rest, level, Unseen)
    BY <1>9, <1>13, <1>14, <1>15, <1>16 DEF Rests, Stops
  <1> QED
    BY <1>17, <1>18 DEF next, rest

(* A decision taken without reading. *)
LEMMA GoesRight ==
  ASSUME NEW what, NEW node, NEW todo, NEW level, NEW token, Form(node, todo),
         Runs(what, node, todo, level), Rests(what, node, todo, level, token),
         todo # << >>, node.kind # "none", ~BeforeInfix(todo[1]), todo[1] # Decide("infix"),
         NEW steps, IsASequence(steps), RightCalls(node, steps), NoOperators(steps),
         \A m \in Required[node.kind] :
           Brings(todo[1], m) => m \in DOMAIN node \/ \E i \in 1..Len(steps) : Brings(steps[i], m)
  PROVE  /\ Runs(what, node, Join(steps, Tail(todo)), level)
         /\ Rests(what, node, Join(steps, Tail(todo)), level, token)
  <1> DEFINE new == Join(steps, Tail(todo))
  <1>1. IsASequence(todo)
    BY FirstFits
  <1>2. Shape(node, todo, level) /\ Role(what, node.kind, todo)
    BY DEF Runs
  <1>3. Shape(node, new, level)
    BY <1>1, <1>2, ShapeChanges DEF Shape
  <1>4. Role(what, node.kind, new) /\ (what = "expression" => new # << >>)
    BY <1>1, <1>2, RoleGoesOn
  <1>5. new # << >> => new[1] # Decide("infix")
    BY <1>1, <1>2, NotInfixFirst DEF Shape
  <1>6. Stops(node, todo, token)
    BY DEF Rests
  <1> HIDE DEF new
  <1>7. Stops(node, new, token)
    BY <1>5, <1>6 DEF Stops
  <1>8. Runs(what, node, new, level) /\ Rests(what, node, new, level, token)
    BY <1>3, <1>4, <1>7 DEF Runs, Rests
  <1> QED
    BY <1>8 DEF new

----------------------------------------------------------------------------
(* A function that returns.                                                   *)

LEMMA ProperCallee ==
  ASSUME NEW what, NEW c, NEW level, NEW token, Form(c, << >>),
         Runs(what, c, << >>, level), Rests(what, c, << >>, level, token)
  PROVE  /\ Finished(c) /\ c.kind \notin {"none", "unit", "lexeme"}
         /\ c.kind \in KindsOf[what] /\ Row(c) <= level /\ Proper(c)
         /\ AllProper(<<c>>) /\ Lasting(<<c>>) /\ (Opens(<<c>>) => Halt(token))
         /\ what = "expression" => Stopped(token, level)
         /\ Required[c.kind] \subseteq DOMAIN c
         /\ Opens(Members(c)) => Halt(token)
         /\ c.kind = "fn" => Halt(token)
  <1>1. Finished(c) /\ c.kind \notin {"none", "unit", "lexeme"}
    BY CalleeFinished
  <1>2. Shape(c, << >>, level) /\ Role(what, c.kind, << >>) /\ Stops(c, << >>, token)
    BY DEF Runs, Rests
  <1>3. c.kind \in KindsOf[what]
    BY <1>1, <1>2 DEF Role
  <1>4. Len(<< >>) = 0 /\ \A i \in 1..Len(<< >>) : FALSE
    BY EmptySequence
  <1>5. Required[c.kind] \subseteq DOMAIN c
    BY <1>2, <1>4 DEF Shape, Complete
  <1>6. c.kind \in DOMAIN Written /\ AllFinished(Members(c))
    BY DEF Form, NodeFormed
  <1>7. Proper(c)
    BY <1>1, <1>2, <1>5, <1>6 DEF Proper, Shape
  <1>8. AllProper(<<c>>)
    BY <1>1, <1>2, <1>7, ProperNode DEF Shape
  <1>9. Lasting(Members(c))
    <2>1. HasLexeme(Members(c))
      BY <1>1, <1>4 DEF Form, Worded
    <2> QED
      BY <2>1, <1>6, LexemeLasts
  <1>10. Lasting(<<c>>) /\ (Opens(<<c>>) => c.kind = "fn" \/ Opens(Members(c)))
    BY <1>1, <1>9, NodeLasts
  <1>11. c.kind = "fn" => "body" \in DOMAIN c
    <2>1. Required["fn"] = {"kw_fn", "body"}
      BY DEF Required
    <2> QED
      BY <1>5, <2>1
  <1>12. Opens(<<c>>) => Halt(token)
    BY <1>2, <1>10, <1>11 DEF Stops
  <1>13. what = "expression" => Stopped(token, level)
    BY DEF Rests
  <1>14. Row(c) <= level
    BY <1>2 DEF Shape
  <1>15. (Opens(Members(c)) => Halt(token)) /\ (c.kind = "fn" => Halt(token))
    BY <1>2, <1>11 DEF Stops
  <1> QED
    BY <1>1, <1>3, <1>5, <1>7, <1>8, <1>10, <1>12, <1>13, <1>14, <1>15

LEMMA ParsingIsNoDecision ==
  ASSUME NEW step, step.do = "parse"
  PROVE  \A what : step # Decide(what)
  BY StepsAre

LEMMA KindsOfEach ==
  ASSUME NEW what \in DOMAIN KindsOf
  PROVE  "none" \notin KindsOf[what]
  BY DEF KindsOf, StatementKinds, ExpressionKinds, PrimaryKinds

LEMMA LevelsOfOperators ==
  ASSUME NEW op \in BinaryOperators
  PROVE  BinaryLevel(op) \in 2..6 /\ RightLevel(op) \in 1..6
  <1>1. BinaryLevel(op) \in 2..6
    BY DEF BinaryLevel, BinaryOperators
  <1> QED
    BY <1>1 DEF RightLevel

LEMMA RowsOfLevels ==
  ASSUME NEW v, v.token \in BinaryOperators
  PROVE  RowOf(v) = BinaryLevel(v.token)
  <1> DEFINE r == BinaryLevel(v.token) - 1
  <1>1. r \in 1..5 /\ v.token \in Rows[r]
    BY DEF BinaryOperators, BinaryLevel, Rows
  <1>2. DOMAIN Rows = 1..5
    BY DEF Rows
  <1>3. \A q \in 1..5 : v.token \in Rows[q] => q = r
    BY DEF BinaryOperators, BinaryLevel, Rows
  <1>4. (CHOOSE q \in DOMAIN Rows : v.token \in Rows[q]) = r
    BY <1>1, <1>2, <1>3
  <1>5. BinaryLevel(v.token) \in 2..6
    BY LevelsOfOperators
  <1> HIDE DEF r
  <1>6. RowOf(v) = 1 + r
    BY <1>4 DEF RowOf
  <1> QED
    BY <1>5, <1>6 DEF r

LEMMA StoppedForGood ==
  ASSUME NEW token, NEW level \in 0..AnyLevel, Stopped(token, level)
  PROVE  /\ level = AnyLevel => Halt(token)
         /\ Stopped(token, 0)
  <1>1. token \in BinaryOperators => BinaryLevel(token) \in 2..6
    BY LevelsOfOperators
  <1>2. AnyLevel \in Nat /\ AnyLevel > 6
    BY AnyLevelIs
  <1>3. level = AnyLevel => Halt(token)
    BY <1>1, <1>2, SMT DEF Stopped, Halt, Binds
  <1>4. Stopped(token, 0)
    BY <1>1, SMT DEF Stopped, Binds
  <1> QED
    BY <1>3, <1>4

LEMMA RowIsANumber ==
  ASSUME NEW node, AllFitting(node), node.kind = "binary" => "op" \in DOMAIN node
  PROVE  Row(node) \in Nat
  <1>1. CASE node.kind = "binary"
    <2>1. Fitting(node, "op", node.op)
      BY <1>1 DEF AllFitting, Lists
    <2>2. node.op.token \in BinaryOperators
      BY <2>1, <1>1 DEF Fitting
    <2>3. RowOf(node.op) \in Nat
      BY <2>2, RowsOfLevels, LevelsOfOperators
    <2> QED
      BY <1>1, <2>3 DEF Row
  <1>2. CASE node.kind # "binary"
    BY <1>2 DEF Row
  <1> QED
    BY <1>1, <1>2

(* What has returned becomes a member. *)
LEMMA MemberReturnsRight ==
  ASSUME NEW what, NEW node, NEW todo, NEW level, Form(node, todo), Runs(what, node, todo, level),
         todo # << >>, todo[1].do = "parse", todo[1].member # "whole", todo[1].level \in 0..AnyLevel,
         NEW c, Form(c, << >>), NEW token, Runs(todo[1].what, c, << >>, todo[1].level),
         Rests(todo[1].what, c, << >>, todo[1].level, token)
  PROVE  /\ Runs(what, Put(node, todo[1].member, c), Tail(todo), level)
         /\ Rests(what, Put(node, todo[1].member, c), Tail(todo), level, token)
  <1> DEFINE m == todo[1].member  next == Put(node, m, c)  rest == Tail(todo)
  <1>1. node.kind # "none"
    BY FirstMember
  <1>2. /\ IsASequence(todo) /\ AllFinished(Members(node)) /\ ListsFormed(node) /\ 1 \in 1..Len(todo)
    BY FirstFits DEF Form, StepsInTurn, NodeFormed
  <1>3. RightCall(node, todo[1])
    BY <1>2 DEF Runs, Shape, RightCalls
  <1>4. /\ Finished(c) /\ c.kind \notin {"none", "unit", "lexeme"}
        /\ c.kind \in KindsOf[todo[1].what] /\ Row(c) <= todo[1].level
        /\ AllProper(<<c>>) /\ Lasting(<<c>>) /\ (Opens(<<c>>) => Halt(token))
        /\ todo[1].what = "expression" => Stopped(token, todo[1].level)
    BY ProperCallee
  <1>5. Fitting(node, m, c) /\ m # "op"
    <2>1. Row(c) \in Nat
      BY RowIsANumber DEF Runs, Shape
    <2> QED
      BY <2>1, <1>3, <1>4 DEF RightCall
  <1>6. m = "elses" => c.kind = "else"
    <2>1. KindsOf["else"] = {"else"}
      BY DEF KindsOf
    <2> QED
      BY <2>1, <1>3, <1>4 DEF RightCall
  <1>7. Shape(node, todo, level) /\ Role(what, node.kind, todo)
    BY DEF Runs
  <1>8. todo[1].do \in {"expect", "accept", "parse"} /\ ~(todo[1].do \in {"expect", "accept"})
    OBVIOUS
  <1>9. Shape(next, rest, level)
    BY <1>4, <1>5, <1>6, <1>7, <1>8, ShapeAdds
  <1>10. next.kind = node.kind /\ Members(next) = Join(Members(node), <<c>>)
    BY ReturnedMember
  <1>11. Replaced(next, node, m, Added(node, m, c))
    BY <1>8, FirstMember, PutChanges
  <1>12. todo[1] # Decide("infix") /\ todo[1] # Decide("postfix") /\ todo[1] # Decide("operand")
    BY ParsingIsNoDecision
  <1>13. IsASequence(<< >>) /\ NoOperators(<< >>) /\ Join(<< >>, rest) = rest
    BY <1>2, EmptySequence, NothingToJoin DEF NoOperators
  <1>14. Role(what, node.kind, rest) /\ (what = "expression" => rest # << >>)
    <2>1. /\ Role(what, node.kind, Join(<< >>, Tail(todo)))
          /\ what = "expression" => Join(<< >>, Tail(todo)) # << >>
      BY <1>1, <1>2, <1>7, <1>12, <1>13, RoleGoesOn
    <2> QED
      BY <2>1, <1>13
  <1>15. ASSUME rest # << >>, rest[1] = Decide("infix")
         PROVE  Stopped(token, IF next.kind = "binary" THEN RightLevel(next.op.token) ELSE 0)
    <2>1. BeforeInfix(todo[1])
      <3>1. CASE BeforeInfix(todo[1])
        BY <3>1
      <3>2. CASE ~BeforeInfix(todo[1])
        <4>1. Join(<< >>, Tail(todo)) # << >> => Join(<< >>, Tail(todo))[1] # Decide("infix")
          BY <3>2, <1>2, <1>7, <1>13, NotInfixFirst DEF Shape
        <4> QED
          BY <4>1, <1>13, <1>15
      <3> QED
        BY <3>1, <3>2
    <2>2. todo[1].what = "expression" /\ m \in {"operand", "right"}
      BY <2>1, <1>12 DEF BeforeInfix
    <2>3. Stopped(token, todo[1].level) /\ Stopped(token, 0)
      BY <2>2, <1>4, StoppedForGood
    <2>4. CASE node.kind = "binary"
      <3>1. m = "right"
        <4>1. Belongs("binary", m)
          BY <1>8, <2>4, FirstMember
        <4>2. Len(Written["binary"]) = 3 /\ Written["binary"] = <<"left", "op", "right">>
          BY WrittenOf
        <4>3. ItemsOf("operand") = "operand"
          BY DEF ItemsOf
        <4>4. ~Belongs("binary", "operand")
          BY <4>2, <4>3 DEF Belongs
        <4> QED
          BY <4>1, <4>4, <2>2
      <3>2. todo[1].level = RightLevel(node.op.token)
        BY <3>1, <2>4, <1>3 DEF RightCall
      <3>3. next.op = node.op
        BY <2>4, <3>1, <1>7, <1>11 DEF Shape, Replaced
      <3> HIDE DEF next
      <3> QED
        BY <3>2, <3>3, <2>3, <2>4, <1>10
    <2>5. CASE node.kind # "binary"
      <3> HIDE DEF next
      <3> QED
        BY <2>3, <2>5, <1>10
    <2> QED
      BY <2>4, <2>5
  <1> HIDE DEF next, rest
  <1>16. Opens(Members(next)) => Halt(token)
    <2>1. AllSound(Members(node)) /\ AllSound(<<c>>)
      BY <1>2, <1>4, AllFinishedSound DEF Finished
    <2> QED
      BY <2>1, <1>4, <1>10, OpensAtTheEnd
  <1>17. node.kind = "fn" /\ "body" \in DOMAIN next => Halt(token)
    <2> SUFFICES ASSUME node.kind = "fn", "body" \in DOMAIN next
                 PROVE  Halt(token)
      OBVIOUS
    <2>1. "body" \notin DOMAIN node
      BY BodyLast
    <2>2. m = "body"
      BY <2>1, <1>11 DEF Replaced
    <2>3. todo[1].what = "expression" /\ todo[1].level = AnyLevel
      BY <2>2, <1>3 DEF RightCall
    <2> QED
      BY <2>3, <1>4, StoppedForGood
  <1>18. Runs(what, next, rest, level)
    BY <1>9, <1>10, <1>14 DEF Runs
  <1>19. Rests(what, next, rest, level, token)
    BY <1>10, <1>14, <1>15, <1>16, <1>17 DEF Rests, Stops
  <1> QED
    BY <1>18, <1>19 DEF next, rest

(* What has returned is the operand that operators may follow. *)
LEMMA WholeReturnsRight ==
  ASSUME NEW what \in DOMAIN KindsOf, NEW node, NEW todo, NEW level \in 0..AnyLevel, Form(node, todo), Runs(what, node, todo, level),
         todo # << >>, todo[1].do = "parse", todo[1].member = "whole",
         NEW c, Form(c, << >>), NEW token, Runs(todo[1].what, c, << >>, todo[1].level),
         Rests(todo[1].what, c, << >>, todo[1].level, token)
  PROVE  /\ Runs(what, c, Tail(todo), level)
         /\ Rests(what, c, Tail(todo), level, token)
  <1> DEFINE rest == Tail(todo)
  <1>1. todo = <<Parse("primary", "whole"), Decide("postfix"), Decide("infix")>>
    BY AtPrimaryCall
  <1>2. rest = <<Decide("postfix"), Decide("infix")>> /\ todo[1] = Parse("primary", "whole")
    BY <1>1
  <1>3. todo[1].what = "primary"
    BY <1>2, StepsAre
  <1>4. node.kind = "none"
    BY AtWhole
  <1>5. what = "expression" /\ level >= 1
    <2>1. todo[1] # Decide("statement") /\ todo[1] # Decide("primary")
      BY ParsingIsNoDecision
    <2>2. "none" \notin KindsOf[what] /\ Role(what, "none", todo) /\ level >= 1
      BY <1>4, KindsOfEach DEF Runs, Shape
    <2> QED
      BY <2>1, <2>2 DEF Role
  <1>6. /\ c.kind \in PrimaryKinds
        /\ Opens(Members(c)) => Halt(token)
        /\ c.kind = "fn" => Halt(token)
        /\ Required[c.kind] \subseteq DOMAIN c
    <2>1. KindsOf["primary"] = PrimaryKinds
      BY DEF KindsOf
    <2> QED
      BY <2>1, <1>3, ProperCallee
  <1>7. /\ c.kind \notin {"prefix", "prefix_bracket", "binary"}
        /\ c.kind \in KindsOf["expression"]
    BY <1>6 DEF PrimaryKinds, ExpressionKinds, KindsOf
  <1>8. Row(c) = 0
    BY <1>7 DEF Row
  <1>9. AllFitting(c) /\ AllProper(Members(c))
    BY DEF Runs, Shape
  <1>10. /\ Len(rest) = 2 /\ rest[1] = Decide("postfix") /\ rest[2] = Decide("infix") /\ rest # << >>
    <2> DEFINE two == <<Decide("postfix"), Decide("infix")>>
    <2>1. /\ Len(two) = 2 /\ two[1] = Decide("postfix") /\ two[2] = Decide("infix") /\ two # << >>
      BY TwoSteps
    <2>2. rest = two
      BY <1>2
    <2> HIDE DEF two, rest
    <2> QED
      BY <2>1, <2>2
  <1> HIDE DEF rest
  <1>11. Complete(c, rest)
    BY <1>6 DEF Complete
  <1>12. RightCalls(c, rest)
    <2>1. rest[1].do = "decide" /\ rest[2].do = "decide"
      BY <1>10, StepsAre
    <2>2. \A i \in 1..Len(rest) : rest[i].do = "decide"
      BY <2>1, <1>10
    <2> QED
      BY <2>2 DEF RightCalls
  <1>13. InfixInTurn(rest)
    <2>1. BeforeInfix(rest[1])
      BY <1>10 DEF BeforeInfix
    <2>2. \A i \in 2..Len(rest) : i - 1 = 1
      BY <1>10
    <2> QED
      BY <2>1, <2>2 DEF InfixInTurn
  <1>14. PostfixStage(c.kind, rest)
    BY <1>7 DEF PostfixStage
  <1>15. Shape(c, rest, level)
    <2>1. Row(c) <= level
      BY <1>5, <1>8, AnyLevelIs
    <2> QED
      BY <2>1, <1>5, <1>7, <1>8, <1>9, <1>11, <1>12, <1>13, <1>14 DEF Shape
  <1>16. Role(what, c.kind, rest)
    BY <1>5, <1>7, <1>10 DEF Role
  <1>17. rest[1] # Decide("infix")
    BY <1>10, StepsDiffer
  <1>18. Runs(what, c, rest, level) /\ Rests(what, c, rest, level, token)
    BY <1>6, <1>10, <1>15, <1>16, <1>17 DEF Runs, Rests, Stops
  <1> QED
    BY <1>18 DEF rest

----------------------------------------------------------------------------
(* The functions begin with calls that bring what belongs there.              *)

Blanked(node) == \A m \in DOMAIN node : m = "kind" \/ (m \in Lists /\ node[m] = << >>)
StepRight(node, step) ==
  /\ step.do # "decide" => RightCall(node, step)
  /\ step \notin {Decide("postfix"), Decide("infix")}
WellBegun(node, todo) ==
  /\ "body" \notin DOMAIN node /\ Members(node) = << >>
  /\ todo # << >> /\ todo[1] # Decide("infix")
  /\ \A level \in 1..AnyLevel : Shape(node, todo, level)

LEMMA LexemeFits ==
  ASSUME NEW node, NEW m, m \notin {"then_block", "body", "op", "left", "right", "operand", "callee"},
         NEW v, v.kind = "lexeme"
  PROVE  Fitting(node, m, v)
  BY DEF Fitting, Bracketed

LEMMA ReadingRight ==
  ASSUME NEW node, NEW a, NEW m,
         m \notin {"then_block", "body", "op", "left", "right", "operand", "callee"}
  PROVE  StepRight(node, Expect(a, m)) /\ StepRight(node, Accept(a, m))
  <1>1. \A v : v.kind = "lexeme" => Fitting(node, m, v)
    BY LexemeFits
  <1>2. ASSUME NEW step \in {Expect(a, m), Accept(a, m)}
        PROVE  StepRight(node, step)
    <2>1. step.do \in {"expect", "accept"} /\ step.member = m
      BY StepsAre
    <2>2. step # Decide("postfix") /\ step # Decide("infix")
      BY <2>1, ReadingSteps
    <2> QED
      BY <2>1, <2>2, <1>1 DEF StepRight, RightCall
  <1> QED
    BY <1>2

LEMMA DecisionRight ==
  ASSUME NEW node, NEW what, what \notin {"postfix", "infix"}
  PROVE  StepRight(node, Decide(what))
  <1>1. Decide(what).do = "decide" /\ Decide(what) # Decide("postfix") /\ Decide(what) # Decide("infix")
    BY StepsAre, StepsDiffer
  <1> QED
    BY <1>1 DEF StepRight

LEMMA ParseSteps ==
  ASSUME NEW what, NEW m
  PROVE  /\ Parse(what, m).do = "parse" /\ Parse(what, m).what = what /\ Parse(what, m).member = m
         /\ Parse(what, m).level = AnyLevel /\ AnyLevel >= 1
         /\ Parse(what, m) # Decide("postfix") /\ Parse(what, m) # Decide("infix")
  BY StepsAre, ParsingIsNoDecision, AnyLevelIs

LEMMA ExpressionRight ==
  ASSUME NEW node, NEW m, m \notin {"whole", "elses", "then_block", "op", "left", "right", "operand", "callee"},
         m = "body" => node.kind = "fn"
  PROVE  StepRight(node, Parse("expression", m))
  <1>1. \A v : v.kind \in KindsOf["expression"] => Fitting(node, m, v)
    BY DEF Fitting, Bracketed, KindsOf
  <1> DEFINE step == Parse("expression", m)
  <1>2. /\ step.do = "parse" /\ step.what = "expression" /\ step.member = m
        /\ step.level = AnyLevel /\ AnyLevel >= 1
        /\ step # Decide("postfix") /\ step # Decide("infix")
    BY ParseSteps
  <1> HIDE DEF step
  <1>3. StepRight(node, step)
    BY <1>1, <1>2 DEF StepRight, RightCall
  <1> QED
    BY <1>3 DEF step

LEMMA BlockCallRight ==
  ASSUME NEW node, NEW m \in {"then_block", "body"}, node.kind \notin {"fn", "binary"}
  PROVE  StepRight(node, Parse("block", m))
  <1>1. \A v : v.kind \in KindsOf["block"] => Fitting(node, m, v)
    BY DEF Fitting, Bracketed, KindsOf, ExpressionKinds, PrimaryKinds
  <1> DEFINE step == Parse("block", m)
  <1>2. /\ step.do = "parse" /\ step.what = "block" /\ step.member = m
        /\ step.level = AnyLevel /\ AnyLevel >= 1
        /\ step # Decide("postfix") /\ step # Decide("infix")
    BY ParseSteps
  <1> HIDE DEF step
  <1>3. StepRight(node, step)
    BY <1>1, <1>2 DEF StepRight, RightCall
  <1> QED
    BY <1>3 DEF step

LEMMA RequiredKinds ==
  ASSUME NEW kind \in DOMAIN Written, NEW m \in Lists \cup {"return_type", "tail"}
  PROVE  m \notin Required[kind]
  BY WrittenKinds DEF Required, Lists

LEMMA ListRight ==
  ASSUME NEW node, node.kind \in DOMAIN Written, NEW m \in Lists \cup {"return_type"}, NEW what,
         m = "elses" => what = "else"
  PROVE  StepRight(node, Parse(what, m))
  <1>1. \A v : Fitting(node, m, v)
    BY RequiredKinds DEF Fitting, Bracketed, Lists
  <1> DEFINE step == Parse(what, m)
  <1>2. /\ step.do = "parse" /\ step.what = what /\ step.member = m
        /\ step.level = AnyLevel /\ AnyLevel >= 1
        /\ step # Decide("postfix") /\ step # Decide("infix")
    BY ParseSteps
  <1>3. m \notin {"op", "whole", "body", "right"}
    BY DEF Lists
  <1> HIDE DEF step
  <1>4. StepRight(node, step)
    BY <1>1, <1>2, <1>3 DEF StepRight, RightCall
  <1> QED
    BY <1>4 DEF step

LEMMA OperandRight ==
  ASSUME NEW node, node.kind \in {"prefix", "prefix_bracket"}
  PROVE  StepRight(node, Operand(1, "operand"))
  <1>1. \A v : v.kind \in KindsOf["expression"] /\ Row(v) <= 1 => Fitting(node, "operand", v)
    BY DEF Fitting, Bracketed, KindsOf
  <1> DEFINE step == Operand(1, "operand")
  <1>2. /\ step.do = "parse" /\ step.what = "expression" /\ step.member = "operand" /\ step.level = 1
        /\ step # Decide("postfix") /\ step # Decide("infix")
    BY StepsAre, ParsingIsNoDecision
  <1> HIDE DEF step
  <1>3. StepRight(node, step)
    BY <1>1, <1>2 DEF StepRight, RightCall
  <1> QED
    BY <1>3 DEF step

LEMMA RightSteps ==
  ASSUME NEW node, NEW todo, \A i \in 1..Len(todo) : StepRight(node, todo[i])
  PROVE  RightCalls(node, todo) /\ NoOperators(todo)
  BY DEF StepRight, RightCalls, NoOperators

LEMMA FreshRight ==
  ASSUME NEW node, Members(node) = << >>, Blanked(node),
         node.kind \notin {"prefix", "prefix_bracket", "binary"},
         node.kind = "if" => "elses" \in DOMAIN node,
         NEW todo, IsASequence(todo), todo # << >>, Complete(node, todo),
         \A i \in 1..Len(todo) : StepRight(node, todo[i])
  PROVE  WellBegun(node, todo) /\ NoOperators(todo)
  <1>1. RightCalls(node, todo) /\ NoOperators(todo)
    BY RightSteps
  <1>2. 1 \in 1..Len(todo) /\ Len(todo) \in Nat
    <2>1. Len(todo) \in Nat /\ Len(todo) # 0
      BY SequenceShape, EmptySequence
    <2> QED
      BY <2>1
  <1>3. "body" \notin DOMAIN node /\ todo[1] # Decide("infix")
    BY <1>1, <1>2 DEF Blanked, Lists, NoOperators
  <1>4. Row(node) = 0
    BY DEF Row
  <1>5. AllFitting(node)
    BY EmptySequence DEF AllFitting, Blanked
  <1>6. AllProper(Members(node))
    BY ProperNothing
  <1>7. InfixInTurn(todo) /\ PostfixStage(node.kind, todo)
    BY <1>1, <1>2 DEF InfixInTurn, PostfixStage, NoOperators
  <1>8. ASSUME NEW level \in 1..AnyLevel
        PROVE  Shape(node, todo, level)
    <2>1. level >= 1 /\ Row(node) <= level
      BY <1>4, AnyLevelIs
    <2> QED
      BY <2>1, <1>1, <1>5, <1>6, <1>7 DEF Shape
  <1> QED
    BY <1>1, <1>3, <1>8 DEF WellBegun

LEMMA LetRight ==
  ASSUME NEW a, NEW todo,
         todo = <<Expect("kw_let", "kw_let"), Accept("kw_mut", "kw_mut"),
                  Expect("identifier", "name"), Expect("=", "eq"),
                  Parse("expression", "initializer"), Expect(a, "semicolon")>>
  PROVE  WellBegun([kind |-> "let"], todo) /\ NoOperators(todo)
  <1> DEFINE node == [kind |-> "let"]
  <1>1. IsASequence(todo) /\ Len(todo) = 6 /\ todo # << >>
    BY DEF IsASequence
  <1>2. Members(node) = << >>
    BY LetBegins
  <1>3. node.kind = "let" /\ Blanked(node)
    BY DEF Blanked, Lists
  <1>4. "let" \in DOMAIN Written
    BY WrittenKinds
  <1> HIDE DEF node
  <1>5. /\ StepRight(node, Expect("kw_let", "kw_let"))
        /\ StepRight(node, Accept("kw_mut", "kw_mut"))
        /\ StepRight(node, Expect("identifier", "name"))
        /\ StepRight(node, Expect("=", "eq"))
        /\ StepRight(node, Parse("expression", "initializer"))
        /\ StepRight(node, Expect(a, "semicolon"))
    BY <1>3, <1>4, ExpressionRight, ReadingRight
  <1>6. \A i \in 1..Len(todo) : StepRight(node, todo[i])
    BY <1>1, <1>5
  <1>7. Complete(node, todo)
    <2>1. /\ 1 \in 1..Len(todo) /\ Brings(todo[1], "kw_let")
          /\ 6 \in 1..Len(todo) /\ Brings(todo[6], "semicolon")
      BY <1>1, StepsAre DEF Brings
    <2>2. Required["let"] = {"kw_let", "semicolon"}
      BY DEF Required
    <2> QED
      BY <1>3, <2>1, <2>2 DEF Complete
  <1>8. WellBegun(node, todo) /\ NoOperators(todo)
    BY <1>1, <1>2, <1>3, <1>6, <1>7, FreshRight
  <1> QED
    BY <1>8 DEF node

LEMMA ReturnRight ==
  ASSUME NEW a, NEW todo,
         todo = <<Expect("kw_return", "kw_return"), Parse("expression", "value"),
                  Expect(a, "semicolon")>>
  PROVE  WellBegun([kind |-> "return"], todo) /\ NoOperators(todo)
  <1> DEFINE node == [kind |-> "return"]
  <1>1. IsASequence(todo) /\ Len(todo) = 3 /\ todo # << >>
    BY DEF IsASequence
  <1>2. Members(node) = << >>
    BY ReturnBegins
  <1>3. node.kind = "return" /\ Blanked(node)
    BY DEF Blanked, Lists
  <1>4. "return" \in DOMAIN Written
    BY WrittenKinds
  <1> HIDE DEF node
  <1>5. /\ StepRight(node, Expect("kw_return", "kw_return"))
        /\ StepRight(node, Parse("expression", "value"))
        /\ StepRight(node, Expect(a, "semicolon"))
    BY <1>3, <1>4, ExpressionRight, ReadingRight
  <1>6. \A i \in 1..Len(todo) : StepRight(node, todo[i])
    BY <1>1, <1>5
  <1>7. Complete(node, todo)
    <2>1. /\ 1 \in 1..Len(todo) /\ Brings(todo[1], "kw_return")
          /\ 3 \in 1..Len(todo) /\ Brings(todo[3], "semicolon")
      BY <1>1, StepsAre DEF Brings
    <2>2. Required["return"] = {"kw_return", "semicolon"}
      BY DEF Required
    <2> QED
      BY <1>3, <2>1, <2>2 DEF Complete
  <1>8. WellBegun(node, todo) /\ NoOperators(todo)
    BY <1>1, <1>2, <1>3, <1>6, <1>7, FreshRight
  <1> QED
    BY <1>8 DEF node

LEMMA WhileRight ==
  ASSUME NEW todo,
         todo = <<Expect("kw_while", "kw_while"), Parse("expression", "condition"),
                  Parse("block", "body")>>
  PROVE  WellBegun([kind |-> "while"], todo) /\ NoOperators(todo)
  <1> DEFINE node == [kind |-> "while"]
  <1>1. IsASequence(todo) /\ Len(todo) = 3 /\ todo # << >>
    BY DEF IsASequence
  <1>2. Members(node) = << >>
    BY WhileBegins
  <1>3. node.kind = "while" /\ Blanked(node)
    BY DEF Blanked, Lists
  <1>4. "while" \in DOMAIN Written
    BY WrittenKinds
  <1> HIDE DEF node
  <1>5. /\ StepRight(node, Expect("kw_while", "kw_while"))
        /\ StepRight(node, Parse("expression", "condition"))
        /\ StepRight(node, Parse("block", "body"))
    BY <1>3, <1>4, BlockCallRight, ExpressionRight, ReadingRight
  <1>6. \A i \in 1..Len(todo) : StepRight(node, todo[i])
    BY <1>1, <1>5
  <1>7. Complete(node, todo)
    <2>1. /\ 1 \in 1..Len(todo) /\ Brings(todo[1], "kw_while")
          /\ 3 \in 1..Len(todo) /\ Brings(todo[3], "body")
      BY <1>1, StepsAre DEF Brings
    <2>2. Required["while"] = {"kw_while", "body"}
      BY DEF Required
    <2> QED
      BY <1>3, <2>1, <2>2 DEF Complete
  <1>8. WellBegun(node, todo) /\ NoOperators(todo)
    BY <1>1, <1>2, <1>3, <1>6, <1>7, FreshRight
  <1> QED
    BY <1>8 DEF node

LEMMA ExpressionStatementRight ==
  ASSUME NEW a, NEW todo,
         todo = <<Parse("expression", "expression"), Expect(a, "semicolon")>>
  PROVE  WellBegun([kind |-> "expression_statement"], todo) /\ NoOperators(todo)
  <1> DEFINE node == [kind |-> "expression_statement"]
  <1>1. IsASequence(todo) /\ Len(todo) = 2 /\ todo # << >>
    BY DEF IsASequence
  <1>2. Members(node) = << >>
    BY ExpressionStatementBegins
  <1>3. node.kind = "expression_statement" /\ Blanked(node)
    BY DEF Blanked, Lists
  <1>4. "expression_statement" \in DOMAIN Written
    BY WrittenKinds
  <1> HIDE DEF node
  <1>5. /\ StepRight(node, Parse("expression", "expression"))
        /\ StepRight(node, Expect(a, "semicolon"))
    BY <1>3, <1>4, ExpressionRight, ReadingRight
  <1>6. \A i \in 1..Len(todo) : StepRight(node, todo[i])
    BY <1>1, <1>5
  <1>7. Complete(node, todo)
    <2>1. /\ 1 \in 1..Len(todo) /\ Brings(todo[1], "expression")
          /\ 2 \in 1..Len(todo) /\ Brings(todo[2], "semicolon")
      BY <1>1, StepsAre DEF Brings
    <2>2. Required["expression_statement"] = {"expression", "semicolon"}
      BY DEF Required
    <2> QED
      BY <1>3, <2>1, <2>2 DEF Complete
  <1>8. WellBegun(node, todo) /\ NoOperators(todo)
    BY <1>1, <1>2, <1>3, <1>6, <1>7, FreshRight
  <1> QED
    BY <1>8 DEF node

LEMMA ParenRight ==
  ASSUME NEW todo,
         todo = <<Expect("(", "lparen"), Parse("expression", "inner"), Expect(")", "rparen")>>
  PROVE  WellBegun([kind |-> "paren"], todo) /\ NoOperators(todo)
  <1> DEFINE node == [kind |-> "paren"]
  <1>1. IsASequence(todo) /\ Len(todo) = 3 /\ todo # << >>
    BY DEF IsASequence
  <1>2. Members(node) = << >>
    BY ParenBegins
  <1>3. node.kind = "paren" /\ Blanked(node)
    BY DEF Blanked, Lists
  <1>4. "paren" \in DOMAIN Written
    BY WrittenKinds
  <1> HIDE DEF node
  <1>5. /\ StepRight(node, Expect("(", "lparen"))
        /\ StepRight(node, Parse("expression", "inner"))
        /\ StepRight(node, Expect(")", "rparen"))
    BY <1>3, <1>4, ExpressionRight, ReadingRight
  <1>6. \A i \in 1..Len(todo) : StepRight(node, todo[i])
    BY <1>1, <1>5
  <1>7. Complete(node, todo)
    <2>1. /\ 1 \in 1..Len(todo) /\ Brings(todo[1], "lparen")
          /\ 3 \in 1..Len(todo) /\ Brings(todo[3], "rparen")
      BY <1>1, StepsAre DEF Brings
    <2>2. Required["paren"] = {"lparen", "rparen"}
      BY DEF Required
    <2> QED
      BY <1>3, <2>1, <2>2 DEF Complete
  <1>8. WellBegun(node, todo) /\ NoOperators(todo)
    BY <1>1, <1>2, <1>3, <1>6, <1>7, FreshRight
  <1> QED
    BY <1>8 DEF node

LEMMA BlockRight ==
  ASSUME NEW a, NEW todo,
         todo = <<Expect(a, "lbrace"), Decide("item")>>
  PROVE  WellBegun([kind |-> "block", statements |-> << >>], todo) /\ NoOperators(todo)
  <1> DEFINE node == [kind |-> "block", statements |-> << >>]
  <1>1. IsASequence(todo) /\ Len(todo) = 2 /\ todo # << >>
    BY DEF IsASequence
  <1>2. Members(node) = << >>
    BY BlockBegins
  <1>3. node.kind = "block" /\ Blanked(node)
    BY DEF Blanked, Lists
  <1>4. "block" \in DOMAIN Written
    BY WrittenKinds
  <1> HIDE DEF node
  <1>5. /\ StepRight(node, Expect(a, "lbrace"))
        /\ StepRight(node, Decide("item"))
    BY <1>3, <1>4, DecisionRight, ReadingRight
  <1>6. \A i \in 1..Len(todo) : StepRight(node, todo[i])
    BY <1>1, <1>5
  <1>7. Complete(node, todo)
    <2>1. /\ 1 \in 1..Len(todo) /\ Brings(todo[1], "lbrace")
          /\ 2 \in 1..Len(todo) /\ Brings(todo[2], "rbrace")
      BY <1>1, StepsAre DEF Brings
    <2>2. Required["block"] = {"lbrace", "rbrace"}
      BY DEF Required
    <2> QED
      BY <1>3, <2>1, <2>2 DEF Complete
  <1>8. WellBegun(node, todo) /\ NoOperators(todo)
    BY <1>1, <1>2, <1>3, <1>6, <1>7, FreshRight
  <1> QED
    BY <1>8 DEF node

LEMMA IfRight ==
  ASSUME NEW todo,
         todo = <<Expect("kw_if", "kw_if"), Parse("expression", "condition"),
                  Parse("block", "then_block"), Decide("else")>>
  PROVE  WellBegun([kind |-> "if", elses |-> << >>], todo) /\ NoOperators(todo)
  <1> DEFINE node == [kind |-> "if", elses |-> << >>]
  <1>1. IsASequence(todo) /\ Len(todo) = 4 /\ todo # << >>
    BY DEF IsASequence
  <1>2. Members(node) = << >>
    BY IfBegins
  <1>3. node.kind = "if" /\ "elses" \in DOMAIN node /\ Blanked(node)
    BY DEF Blanked, Lists
  <1>4. "if" \in DOMAIN Written
    BY WrittenKinds
  <1> HIDE DEF node
  <1>5. /\ StepRight(node, Expect("kw_if", "kw_if"))
        /\ StepRight(node, Parse("expression", "condition"))
        /\ StepRight(node, Parse("block", "then_block"))
        /\ StepRight(node, Decide("else"))
    BY <1>3, <1>4, BlockCallRight, DecisionRight, ExpressionRight, ReadingRight
  <1>6. \A i \in 1..Len(todo) : StepRight(node, todo[i])
    BY <1>1, <1>5
  <1>7. Complete(node, todo)
    <2>1. /\ 1 \in 1..Len(todo) /\ Brings(todo[1], "kw_if")
          /\ 3 \in 1..Len(todo) /\ Brings(todo[3], "then_block")
      BY <1>1, StepsAre DEF Brings
    <2>2. Required["if"] = {"kw_if", "then_block"}
      BY DEF Required
    <2> QED
      BY <1>3, <2>1, <2>2 DEF Complete
  <1>8. WellBegun(node, todo) /\ NoOperators(todo)
    BY <1>1, <1>2, <1>3, <1>6, <1>7, FreshRight
  <1> QED
    BY <1>8 DEF node

LEMMA ElseRight ==
  ASSUME NEW todo,
         todo = <<Expect("kw_else", "kw_else"), Decide("else_if")>>
  PROVE  WellBegun([kind |-> "else"], todo) /\ NoOperators(todo)
  <1> DEFINE node == [kind |-> "else"]
  <1>1. IsASequence(todo) /\ Len(todo) = 2 /\ todo # << >>
    BY DEF IsASequence
  <1>2. Members(node) = << >>
    BY ElseBegins
  <1>3. node.kind = "else" /\ Blanked(node)
    BY DEF Blanked, Lists
  <1>4. "else" \in DOMAIN Written
    BY WrittenKinds
  <1> HIDE DEF node
  <1>5. /\ StepRight(node, Expect("kw_else", "kw_else"))
        /\ StepRight(node, Decide("else_if"))
    BY <1>3, <1>4, DecisionRight, ReadingRight
  <1>6. \A i \in 1..Len(todo) : StepRight(node, todo[i])
    BY <1>1, <1>5
  <1>7. Complete(node, todo)
    <2>1. /\ 2 \in 1..Len(todo) /\ Brings(todo[2], "body")
      BY <1>1, StepsAre DEF Brings
    <2>2. Required["else"] = {"body"}
      BY DEF Required
    <2> QED
      BY <1>3, <2>1, <2>2 DEF Complete
  <1>8. WellBegun(node, todo) /\ NoOperators(todo)
    BY <1>1, <1>2, <1>3, <1>6, <1>7, FreshRight
  <1> QED
    BY <1>8 DEF node

LEMMA FnRight ==
  ASSUME NEW todo,
         todo = <<Expect("kw_fn", "kw_fn"), Accept("identifier", "name"), Expect("(", "lparen"),
                  Decide("parameter"), Expect(")", "rparen"), Parse("return_type", "return_type"),
                  Expect("=>", "arrow"), Parse("expression", "body")>>
  PROVE  WellBegun([kind |-> "fn", parameters |-> << >>, parameter_commas |-> << >>], todo) /\ NoOperators(todo)
  <1> DEFINE node == [kind |-> "fn", parameters |-> << >>, parameter_commas |-> << >>]
  <1>1. IsASequence(todo) /\ Len(todo) = 8 /\ todo # << >>
    BY DEF IsASequence
  <1>2. Members(node) = << >>
    BY FnBegins
  <1>3. node.kind = "fn" /\ Blanked(node)
    BY DEF Blanked, Lists
  <1>4. "fn" \in DOMAIN Written
    BY WrittenKinds
  <1> HIDE DEF node
  <1>5. /\ StepRight(node, Expect("kw_fn", "kw_fn"))
        /\ StepRight(node, Accept("identifier", "name"))
        /\ StepRight(node, Expect("(", "lparen"))
        /\ StepRight(node, Decide("parameter"))
        /\ StepRight(node, Expect(")", "rparen"))
        /\ StepRight(node, Parse("return_type", "return_type"))
        /\ StepRight(node, Expect("=>", "arrow"))
        /\ StepRight(node, Parse("expression", "body"))
    BY <1>3, <1>4, DecisionRight, ExpressionRight, ListRight, ReadingRight
  <1>6. \A i \in 1..Len(todo) : StepRight(node, todo[i])
    BY <1>1, <1>5
  <1>7. Complete(node, todo)
    <2>1. /\ 1 \in 1..Len(todo) /\ Brings(todo[1], "kw_fn")
          /\ 8 \in 1..Len(todo) /\ Brings(todo[8], "body")
      BY <1>1, StepsAre DEF Brings
    <2>2. Required["fn"] = {"kw_fn", "body"}
      BY DEF Required
    <2> QED
      BY <1>3, <2>1, <2>2 DEF Complete
  <1>8. WellBegun(node, todo) /\ NoOperators(todo)
    BY <1>1, <1>2, <1>3, <1>6, <1>7, FreshRight
  <1> QED
    BY <1>8 DEF node

LEMMA ParameterRight ==
  ASSUME NEW todo,
         todo = <<Accept("kw_mut", "kw_mut"), Expect("identifier", "name"), Expect(":", "colon"),
                  Parse("expression", "type")>>
  PROVE  WellBegun([kind |-> "parameter"], todo) /\ NoOperators(todo)
  <1> DEFINE node == [kind |-> "parameter"]
  <1>1. IsASequence(todo) /\ Len(todo) = 4 /\ todo # << >>
    BY DEF IsASequence
  <1>2. Members(node) = << >>
    BY ParameterBegins
  <1>3. node.kind = "parameter" /\ Blanked(node)
    BY DEF Blanked, Lists
  <1>4. "parameter" \in DOMAIN Written
    BY WrittenKinds
  <1> HIDE DEF node
  <1>5. /\ StepRight(node, Accept("kw_mut", "kw_mut"))
        /\ StepRight(node, Expect("identifier", "name"))
        /\ StepRight(node, Expect(":", "colon"))
        /\ StepRight(node, Parse("expression", "type"))
    BY <1>3, <1>4, ExpressionRight, ReadingRight
  <1>6. \A i \in 1..Len(todo) : StepRight(node, todo[i])
    BY <1>1, <1>5
  <1>7. Complete(node, todo)
    BY <1>3 DEF Complete, Required
  <1>8. WellBegun(node, todo) /\ NoOperators(todo)
    BY <1>1, <1>2, <1>3, <1>6, <1>7, FreshRight
  <1> QED
    BY <1>8 DEF node

LEMMA ReturnTypeRight ==
  ASSUME NEW todo,
         todo = <<Expect(":", "colon"), Parse("expression", "type")>>
  PROVE  WellBegun([kind |-> "return_type"], todo) /\ NoOperators(todo)
  <1> DEFINE node == [kind |-> "return_type"]
  <1>1. IsASequence(todo) /\ Len(todo) = 2 /\ todo # << >>
    BY DEF IsASequence
  <1>2. Members(node) = << >>
    BY ReturnTypeBegins
  <1>3. node.kind = "return_type" /\ Blanked(node)
    BY DEF Blanked, Lists
  <1>4. "return_type" \in DOMAIN Written
    BY WrittenKinds
  <1> HIDE DEF node
  <1>5. /\ StepRight(node, Expect(":", "colon"))
        /\ StepRight(node, Parse("expression", "type"))
    BY <1>3, <1>4, ExpressionRight, ReadingRight
  <1>6. \A i \in 1..Len(todo) : StepRight(node, todo[i])
    BY <1>1, <1>5
  <1>7. Complete(node, todo)
    BY <1>3 DEF Complete, Required
  <1>8. WellBegun(node, todo) /\ NoOperators(todo)
    BY <1>1, <1>2, <1>3, <1>6, <1>7, FreshRight
  <1> QED
    BY <1>8 DEF node

LEMMA StatementRight ==
  ASSUME NEW what \in {"statement", "primary"}, NEW node, node = [kind |-> "none"], NEW todo,
         todo = <<Decide(what)>>
  PROVE  WellBegun(node, todo) /\ Role(what, node.kind, todo)
  <1>1. IsASequence(todo) /\ Len(todo) = 1 /\ todo[1] = Decide(what) /\ todo # << >>
    BY OneStep
  <1>2. node.kind = "none" /\ Blanked(node)
    BY DEF Blanked
  <1>3. Members(node) = << >>
    BY NothingYet, NoMembers DEF NodeFormed
  <1>4. \A i \in 1..Len(todo) : StepRight(node, todo[i])
    BY <1>1, DecisionRight
  <1>5. Complete(node, todo)
    BY <1>2 DEF Complete, Required
  <1>6. WellBegun(node, todo)
    BY <1>1, <1>2, <1>3, <1>4, <1>5, FreshRight
  <1> QED
    BY <1>1, <1>2, <1>6 DEF Role

LEMMA ExpressionBegunRight ==
  ASSUME NEW node, node = [kind |-> "none"], NEW todo, todo = <<Decide("operand"), Decide("infix")>>
  PROVE  WellBegun(node, todo) /\ Role("expression", node.kind, todo)
  <1>1. /\ IsASequence(todo) /\ Len(todo) = 2 /\ todo # << >>
        /\ todo[1] = Decide("operand") /\ todo[2] = Decide("infix")
    BY TwoSteps
  <1>2. node.kind = "none" /\ "body" \notin DOMAIN node
    OBVIOUS
  <1>3. Members(node) = << >>
    BY NothingYet, NoMembers DEF NodeFormed
  <1>4. todo[1] # Decide("infix") /\ todo[1] # Decide("postfix") /\ todo[2] # Decide("postfix")
    BY <1>1, StepsDiffer
  <1>5. \A i \in 1..Len(todo) : todo[i].do = "decide"
    BY <1>1, StepsAre
  <1>6. RightCalls(node, todo)
    BY <1>5 DEF RightCalls
  <1>7. InfixInTurn(todo)
    <2>1. \A i \in 2..Len(todo) : i - 1 = 1
      BY <1>1
    <2> QED
      BY <2>1, <1>1 DEF InfixInTurn, BeforeInfix
  <1>8. PostfixStage(node.kind, todo)
    BY <1>2 DEF PostfixStage
  <1>9. Complete(node, todo)
    BY <1>2 DEF Complete, Required
  <1>10. AllFitting(node) /\ AllProper(Members(node)) /\ Row(node) = 0
    <2>1. AllFitting(node)
      BY DEF AllFitting
    <2> QED
      BY <2>1, <1>2, <1>3, ProperNothing DEF Row
  <1>11. ASSUME NEW level \in 1..AnyLevel
         PROVE  Shape(node, todo, level)
    <2>1. level >= 1 /\ Row(node) <= level
      BY <1>10, AnyLevelIs
    <2> QED
      BY <2>1, <1>2, <1>6, <1>7, <1>8, <1>9, <1>10 DEF Shape
  <1>12. WellBegun(node, todo)
    BY <1>1, <1>2, <1>3, <1>4, <1>11 DEF WellBegun
  <1> QED
    BY <1>1, <1>2, <1>12 DEF Role

RightFunction(what, f) == WellBegun(f.node, f.todo) /\ Role(what, f.node.kind, f.todo)

LEMMA RightByKind ==
  ASSUME NEW what, what # "expression", NEW node, NEW todo, WellBegun(node, todo), NoOperators(todo),
         node.kind \in KindsOf[what]
  PROVE  RightFunction(what, [node |-> node, todo |-> todo])
  BY DEF RightFunction, Role

LEMMA KindsAre ==
  /\ StatementKinds = KindsOf["statement"] /\ PrimaryKinds = KindsOf["primary"]
  /\ "let" \in KindsOf["let"] /\ "let" \in KindsOf["statement"]
  /\ "return" \in KindsOf["return"] /\ "return" \in KindsOf["statement"]
  /\ "while" \in KindsOf["while"] /\ "while" \in KindsOf["statement"]
  /\ "expression_statement" \in KindsOf["statement"]
  /\ "block" \in KindsOf["block"] /\ "block" \in KindsOf["primary"]
  /\ "if" \in KindsOf["primary"] /\ "paren" \in KindsOf["primary"] /\ "fn" \in KindsOf["primary"]
  /\ "atom" \in KindsOf["primary"]
  /\ "else" \in KindsOf["else"] /\ "parameter" \in KindsOf["parameter"]
  /\ "return_type" \in KindsOf["return_type"]
  BY DEF KindsOf, StatementKinds, PrimaryKinds

LEMMA StatementIsRight == RightFunction("statement", Statement)
  <1>1. /\ WellBegun([kind |-> "none"], <<Decide("statement")>>)
        /\ Role("statement", [kind |-> "none"].kind, <<Decide("statement")>>)
    BY StatementRight
  <1> QED
    BY <1>1 DEF RightFunction, Statement

LEMMA PrimaryIsRight == RightFunction("primary", PrimaryExpression)
  <1>1. /\ WellBegun([kind |-> "none"], <<Decide("primary")>>)
        /\ Role("primary", [kind |-> "none"].kind, <<Decide("primary")>>)
    BY StatementRight
  <1> QED
    BY <1>1 DEF RightFunction, PrimaryExpression

LEMMA ExpressionIsRight == RightFunction("expression", Expression)
  <1>1. /\ WellBegun([kind |-> "none"], <<Decide("operand"), Decide("infix")>>)
        /\ Role("expression", [kind |-> "none"].kind, <<Decide("operand"), Decide("infix")>>)
    BY ExpressionBegunRight
  <1> QED
    BY <1>1 DEF RightFunction, Expression

LEMMA LetIsRight == \A what \in {"let", "statement"} : RightFunction(what, LetStatement)
  <1> DEFINE node == [kind |-> "let"]
             todo(a) == <<Expect("kw_let", "kw_let"), Accept("kw_mut", "kw_mut"), Expect("identifier", "name"),
                          Expect("=", "eq"), Parse("expression", "initializer"), Expect(a, "semicolon")>>
  <1>1. ASSUME NEW a, NEW what \in {"let", "statement"}
        PROVE  RightFunction(what, [node |-> node, todo |-> todo(a)])
    <2>1. WellBegun(node, todo(a)) /\ NoOperators(todo(a))
      BY LetRight
    <2>2. node.kind \in KindsOf[what]
      BY KindsAre
    <2> HIDE DEF node, todo
    <2> QED
      BY <2>1, <2>2, RightByKind
  <1> QED
    BY <1>1, Zenon DEF LetStatement

LEMMA ReturnIsRight == \A what \in {"return", "statement"} : RightFunction(what, ReturnStatement)
  <1> DEFINE node == [kind |-> "return"]
             todo(a) == <<Expect("kw_return", "kw_return"), Parse("expression", "value"),
                          Expect(a, "semicolon")>>
  <1>1. ASSUME NEW a, NEW what \in {"return", "statement"}
        PROVE  RightFunction(what, [node |-> node, todo |-> todo(a)])
    <2>1. WellBegun(node, todo(a)) /\ NoOperators(todo(a))
      BY ReturnRight
    <2>2. node.kind \in KindsOf[what]
      BY KindsAre
    <2> HIDE DEF node, todo
    <2> QED
      BY <2>1, <2>2, RightByKind
  <1> QED
    BY <1>1, Zenon DEF ReturnStatement

LEMMA ExpressionStatementIsRight == RightFunction("statement", ExpressionStatement)
  <1> DEFINE node == [kind |-> "expression_statement"]
             todo(a) == <<Parse("expression", "expression"), Expect(a, "semicolon")>>
  <1>1. ASSUME NEW a
        PROVE  RightFunction("statement", [node |-> node, todo |-> todo(a)])
    <2>1. WellBegun(node, todo(a)) /\ NoOperators(todo(a))
      BY ExpressionStatementRight
    <2>2. node.kind \in KindsOf["statement"]
      BY KindsAre
    <2> HIDE DEF node, todo
    <2> QED
      BY <2>1, <2>2, RightByKind
  <1> QED
    BY <1>1, Zenon DEF ExpressionStatement

LEMMA BlockIsRight == \A what \in {"block", "primary"} : RightFunction(what, BlockExpression)
  <1> DEFINE node == [kind |-> "block", statements |-> << >>]
             todo(a) == <<Expect(a, "lbrace"), Decide("item")>>
  <1>1. ASSUME NEW a, NEW what \in {"block", "primary"}
        PROVE  RightFunction(what, [node |-> node, todo |-> todo(a)])
    <2>1. WellBegun(node, todo(a)) /\ NoOperators(todo(a))
      BY BlockRight
    <2>2. node.kind \in KindsOf[what]
      BY KindsAre
    <2> HIDE DEF node, todo
    <2> QED
      BY <2>1, <2>2, RightByKind
  <1> QED
    BY <1>1, Zenon DEF BlockExpression

LEMMA WhileIsRight == \A what \in {"while", "statement"} : RightFunction(what, WhileStatement)
  <1> DEFINE node == WhileStatement.node  todo == WhileStatement.todo
  <1>1. WellBegun(node, todo) /\ NoOperators(todo)
    BY WhileRight DEF WhileStatement
  <1>2. \A what \in {"while", "statement"} : node.kind \in KindsOf[what]
    BY KindsAre DEF WhileStatement
  <1> QED
    BY <1>1, <1>2 DEF RightFunction, Role

LEMMA ParenIsRight == RightFunction("primary", ParenExpression)
  <1> DEFINE node == ParenExpression.node  todo == ParenExpression.todo
  <1>1. WellBegun(node, todo) /\ NoOperators(todo)
    BY ParenRight DEF ParenExpression
  <1>2. node.kind \in KindsOf["primary"]
    BY KindsAre DEF ParenExpression
  <1> QED
    BY <1>1, <1>2 DEF RightFunction, Role

LEMMA IfIsRight == RightFunction("primary", IfExpression)
  <1> DEFINE node == IfExpression.node  todo == IfExpression.todo
  <1>1. WellBegun(node, todo) /\ NoOperators(todo)
    BY IfRight DEF IfExpression
  <1>2. node.kind \in KindsOf["primary"]
    BY KindsAre DEF IfExpression
  <1> QED
    BY <1>1, <1>2 DEF RightFunction, Role

LEMMA FnIsRight == RightFunction("primary", FnExpression)
  <1> DEFINE node == FnExpression.node  todo == FnExpression.todo
  <1>1. WellBegun(node, todo) /\ NoOperators(todo)
    BY FnRight DEF FnExpression
  <1>2. node.kind \in KindsOf["primary"]
    BY KindsAre DEF FnExpression
  <1> QED
    BY <1>1, <1>2 DEF RightFunction, Role

LEMMA ElseIsRight == RightFunction("else", ElsePart)
  <1> DEFINE node == ElsePart.node  todo == ElsePart.todo
  <1>1. WellBegun(node, todo) /\ NoOperators(todo)
    BY ElseRight DEF ElsePart
  <1>2. node.kind \in KindsOf["else"]
    BY KindsAre DEF ElsePart
  <1> QED
    BY <1>1, <1>2 DEF RightFunction, Role

LEMMA ParameterIsRight == RightFunction("parameter", Parameter)
  <1> DEFINE node == Parameter.node  todo == Parameter.todo
  <1>1. WellBegun(node, todo) /\ NoOperators(todo)
    BY ParameterRight DEF Parameter
  <1>2. node.kind \in KindsOf["parameter"]
    BY KindsAre DEF Parameter
  <1> QED
    BY <1>1, <1>2 DEF RightFunction, Role

LEMMA ReturnTypeIsRight == RightFunction("return_type", ReturnTypeSpecifier)
  <1> DEFINE node == ReturnTypeSpecifier.node  todo == ReturnTypeSpecifier.todo
  <1>1. WellBegun(node, todo) /\ NoOperators(todo)
    BY ReturnTypeRight DEF ReturnTypeSpecifier
  <1>2. node.kind \in KindsOf["return_type"]
    BY KindsAre DEF ReturnTypeSpecifier
  <1> QED
    BY <1>1, <1>2 DEF RightFunction, Role

LEMMA FunctionsAreRight ==
  ASSUME NEW what \in DOMAIN Functions
  PROVE  RightFunction(what, Functions[what])
  <1>1. what \in {"statement", "expression", "primary", "let", "return", "while", "block", "else",
                  "parameter", "return_type"}
    BY FunctionsAre
  <1>2. /\ Functions["statement"] = Statement /\ Functions["expression"] = Expression
        /\ Functions["primary"] = PrimaryExpression /\ Functions["let"] = LetStatement
        /\ Functions["return"] = ReturnStatement /\ Functions["while"] = WhileStatement
        /\ Functions["block"] = BlockExpression /\ Functions["else"] = ElsePart
        /\ Functions["parameter"] = Parameter /\ Functions["return_type"] = ReturnTypeSpecifier
    BY DEF Functions
  <1> QED
    BY <1>1, <1>2, StatementIsRight, ExpressionIsRight, PrimaryIsRight, LetIsRight, ReturnIsRight,
       WhileIsRight, BlockIsRight, ElseIsRight, ParameterIsRight, ReturnTypeIsRight

----------------------------------------------------------------------------
(* What becomes of an operand.                                                *)

LEMMA BegunRests ==
  ASSUME NEW what, NEW node, NEW todo, WellBegun(node, todo), NEW level, NEW token
  PROVE  Rests(what, node, todo, level, token)
  BY NothingOpens DEF WellBegun, Rests, Stops

LEMMA OperandReady ==
  ASSUME NEW what, NEW node, NEW todo, NEW level, NEW token, Form(node, todo),
         Runs(what, node, todo, level), Rests(what, node, todo, level, token),
         todo # << >>, todo[1] \in {Decide("postfix"), Decide("infix")}
  PROVE  /\ what = "expression" /\ level >= 1 /\ Row(node) <= level
         /\ node.kind \in ExpressionKinds /\ Finished(node)
         /\ node.kind \notin {"none", "unit", "lexeme"}
         /\ AllProper(<<node>>) /\ Lasting(<<node>>) /\ AllSound(<<node>>)
         /\ Opens(<<node>>) => Halt(token)
         /\ \A row : Row(node) <= row /\ ~Halt(token) => Shut(node, row)
         /\ todo[1] = Decide("postfix") => Row(node) = 0
         /\ Required[node.kind] \subseteq DOMAIN node
         /\ node.kind = "binary" => "op" \in DOMAIN node
  <1>1. Finished(node) /\ node.kind \notin {"none", "unit", "lexeme"}
    BY FinishedAtOperators
  <1>2. Shape(node, todo, level) /\ Role(what, node.kind, todo) /\ Stops(node, todo, token)
    BY DEF Runs, Rests
  <1>3. IsASequence(todo) /\ 1 \in 1..Len(todo)
    BY FirstFits
  <1>4. what = "expression" /\ node.kind \in ExpressionKinds
    <2>1. ~NoOperators(todo)
      BY <1>3 DEF NoOperators
    <2>2. node.kind \in KindsOf[what] /\ what = "expression"
      BY <1>1, <1>2, <2>1 DEF Role
    <2>3. KindsOf["expression"] = ExpressionKinds
      BY DEF KindsOf
    <2> QED
      BY <2>2, <2>3
  <1>5. \A i \in 1..Len(todo) : todo[i] \in {Decide("postfix"), Decide("infix")}
    <2>1. CASE todo[1] = Decide("postfix")
      <3>1. todo = <<Decide("postfix"), Decide("infix")>>
        BY <2>1, AtPostfix
      <3> QED
        BY <3>1, TwoSteps
    <2>2. CASE todo[1] = Decide("infix")
      <3>1. todo = <<Decide("infix")>>
        BY <2>2, AtInfix
      <3> QED
        BY <3>1, OneStep
    <2> QED
      BY <2>1, <2>2
  <1>6. \A i \in 1..Len(todo) : todo[i].do = "decide"
    BY <1>5, StepsAre
  <1>7. Required[node.kind] \subseteq DOMAIN node
    <2>1. ASSUME NEW i \in 1..Len(todo), NEW m
          PROVE  ~Brings(todo[i], m)
      <3>1. todo[i] # Decide("item") /\ todo[i] # Decide("tail") /\ todo[i] # Decide("else_if")
        BY <1>5, StepsDiffer
      <3> QED
        BY <3>1, <1>6 DEF Brings
    <2> QED
      BY <2>1, <1>2 DEF Shape, Complete
  <1>8. node.kind \in DOMAIN Written /\ AllFinished(Members(node))
    BY DEF Form, NodeFormed
  <1>9. Proper(node)
    BY <1>1, <1>2, <1>7, <1>8 DEF Proper, Shape
  <1>10. AllProper(<<node>>)
    BY <1>1, <1>2, <1>9, ProperNode DEF Shape
  <1>11. Lasting(<<node>>) /\ (Opens(<<node>>) => node.kind = "fn" \/ Opens(Members(node)))
    <2>1. HasLexeme(Members(node))
      BY <1>1, <1>6 DEF Form, Worded
    <2>2. Lasting(Members(node))
      BY <2>1, <1>8, LexemeLasts
    <2> QED
      BY <2>2, <1>1, NodeLasts
  <1>12. Opens(<<node>>) => Halt(token)
    <2>1. Required["fn"] = {"kw_fn", "body"}
      BY DEF Required
    <2>2. node.kind = "fn" => "body" \in DOMAIN node
      BY <2>1, <1>7
    <2> QED
      BY <2>2, <1>2, <1>11 DEF Stops
  <1>13. \A row : Row(node) <= row /\ ~Halt(token) => Shut(node, row)
    BY <1>11, <1>12, ShutTree
  <1>14. todo[1] = Decide("postfix") => Row(node) = 0
    <2>1. ASSUME todo[1] = Decide("postfix")
          PROVE  node.kind \notin {"prefix", "prefix_bracket", "binary"}
      BY <2>1, <1>2, <1>3 DEF Shape, PostfixStage
    <2> QED
      BY <2>1 DEF Row
  <1>15. level >= 1 /\ Row(node) <= level /\ (node.kind = "binary" => "op" \in DOMAIN node)
    BY <1>2 DEF Shape
  <1>16. AllSound(<<node>>)
    BY <1>1, FinishedOne, AllFinishedSound
  <1> QED
    BY <1>1, <1>4, <1>7, <1>10, <1>11, <1>12, <1>13, <1>14, <1>15, <1>16

(* A node around an operand: its shape and its role.                          *)
LEMMA WrappedRight ==
  ASSUME NEW next, NEW todo, NEW level, level >= 1, Row(next) <= level,
         AllFitting(next), AllProper(Members(next)), next.kind = "binary" => "op" \in DOMAIN next,
         Complete(next, todo), RightCalls(next, todo), InfixInTurn(todo),
         PostfixStage(next.kind, todo), next.kind \in ExpressionKinds,
         todo # << >>, todo[Len(todo)] = Decide("infix"), todo[1] # Decide("infix"),
         next.kind # "fn", NEW token, Opens(Members(next)) => Halt(token)
  PROVE  Runs("expression", next, todo, level) /\ Rests("expression", next, todo, level, token)
  <1>1. next.kind \in KindsOf["expression"]
    BY DEF KindsOf
  <1>2. Role("expression", next.kind, todo)
    BY <1>1 DEF Role
  <1> QED
    BY <1>2 DEF Runs, Rests, Shape, Stops

----------------------------------------------------------------------------
(* The operators after an operand.                                            *)

LEMMA PostfixIsNoHalt ==
  ASSUME NEW token \in PostfixOperators
  PROVE  token # Unseen => ~Halt(token)
  BY DEF Halt

LEMMA CallRight ==
  ASSUME NEW what, NEW node, NEW todo, NEW level \in 0..AnyLevel, NEW token, Form(node, todo),
         Runs(what, node, todo, level), Rests(what, node, todo, level, token),
         todo # << >>, todo[1] = Decide("postfix"), ~Halt(token),
         NEW next, next = [kind |-> "call", callee |-> node, arguments |-> << >>, argument_commas |-> << >>],
         Members(next) = <<node>>, NEW rest,
         rest = <<Expect("(", "lparen"), Decide("argument"), Expect(")", "rparen"),
                  Decide("postfix"), Decide("infix")>>
  PROVE  Runs(what, next, rest, level) /\ Rests(what, next, rest, level, token)
  <1>1. /\ what = "expression" /\ level >= 1 /\ node.kind \in ExpressionKinds
        /\ AllProper(<<node>>) /\ ~Opens(<<node>>) /\ Row(node) = 0
        /\ \A row : Row(node) <= row => Shut(node, row)
    BY OperandReady
  <1>2. Shut(node, 0)
    BY <1>1
  <1>3. /\ next.kind = "call" /\ next.callee = node
        /\ DOMAIN next = {"kind", "callee", "arguments", "argument_commas"}
    OBVIOUS
  <1>4. /\ Len(rest) = 5 /\ rest # << >> /\ rest[1] = Expect("(", "lparen")
        /\ rest[2] = Decide("argument") /\ rest[3] = Expect(")", "rparen")
        /\ rest[4] = Decide("postfix") /\ rest[5] = Decide("infix")
    OBVIOUS
  <1>5. /\ StepRight(next, rest[1]) /\ StepRight(next, rest[2]) /\ StepRight(next, rest[3])
        /\ rest[4].do = "decide" /\ rest[5].do = "decide"
    BY <1>4, ReadingRight, DecisionRight, StepsAre
  <1>6. RightCalls(next, rest)
    <2>1. \A i \in 1..Len(rest) : i \in {1, 2, 3, 4, 5}
      BY <1>4
    <2> QED
      BY <2>1, <1>5 DEF RightCalls, StepRight
  <1>7. InfixInTurn(rest)
    <2>1. \A i \in 2..Len(rest) : i \in {2, 3, 4} \/ (i = 5 /\ i - 1 = 4)
      BY <1>4
    <2>2. rest[2] # Decide("infix") /\ rest[3] # Decide("infix") /\ rest[4] # Decide("infix")
      BY <1>4, StepsDiffer
    <2> QED
      BY <2>1, <2>2, <1>4 DEF InfixInTurn, BeforeInfix
  <1>8. PostfixStage(next.kind, rest)
    BY <1>3 DEF PostfixStage
  <1>9. Complete(next, rest)
    <2>1. Required["call"] = {"callee", "rparen"}
      BY DEF Required
    <2>2. Brings(rest[3], "rparen") /\ 3 \in 1..Len(rest)
      BY <1>4, StepsAre DEF Brings
    <2> QED
      BY <2>1, <2>2, <1>3 DEF Complete
  <1>10. AllFitting(next)
    <2>1. Fitting(next, "callee", node)
      BY <1>1, <1>2, <1>3 DEF Fitting, Bracketed
    <2> QED
      BY <2>1, <1>3 DEF AllFitting, Lists
  <1>11. Row(next) <= level
    <2>1. Row(next) = 0
      BY <1>3 DEF Row
    <2> QED
      BY <2>1
  <1>12. rest[1] # Decide("infix") /\ next.kind \in ExpressionKinds
    BY <1>3, <1>4, StepsDiffer DEF ExpressionKinds
  <1>13. AllProper(Members(next)) /\ ~Opens(Members(next))
    BY <1>1
  <1>14. rest[Len(rest)] = Decide("infix")
    BY <1>4
  <1> QED
    BY <1>1, <1>3, <1>4, <1>6, <1>7, <1>8, <1>9, <1>10, <1>11, <1>12, <1>13, <1>14, WrappedRight

LEMMA IndexRight ==
  ASSUME NEW what, NEW node, NEW todo, NEW level \in 0..AnyLevel, NEW token, Form(node, todo),
         Runs(what, node, todo, level), Rests(what, node, todo, level, token),
         todo # << >>, todo[1] = Decide("postfix"), ~Halt(token),
         NEW next, next = [kind |-> "index", operand |-> node],
         Members(next) = <<node>>, NEW rest,
         rest = <<Expect("[", "lbracket"), Parse("expression", "index"), Expect("]", "rbracket"),
                  Decide("postfix"), Decide("infix")>>
  PROVE  Runs(what, next, rest, level) /\ Rests(what, next, rest, level, token)
  <1>1. /\ what = "expression" /\ level >= 1 /\ node.kind \in ExpressionKinds
        /\ AllProper(<<node>>) /\ ~Opens(<<node>>) /\ Row(node) = 0
        /\ \A row : Row(node) <= row => Shut(node, row)
    BY OperandReady
  <1>2. Shut(node, 0)
    BY <1>1
  <1>3. next.kind = "index" /\ next.operand = node /\ DOMAIN next = {"kind", "operand"}
    OBVIOUS
  <1>4. /\ Len(rest) = 5 /\ rest # << >> /\ rest[1] = Expect("[", "lbracket")
        /\ rest[2] = Parse("expression", "index") /\ rest[3] = Expect("]", "rbracket")
        /\ rest[4] = Decide("postfix") /\ rest[5] = Decide("infix")
    OBVIOUS
  <1>5. /\ StepRight(next, rest[1]) /\ StepRight(next, rest[2]) /\ StepRight(next, rest[3])
        /\ rest[4].do = "decide" /\ rest[5].do = "decide"
    BY <1>4, ReadingRight, ExpressionRight, StepsAre
  <1>6. RightCalls(next, rest)
    <2>1. \A i \in 1..Len(rest) : i \in {1, 2, 3, 4, 5}
      BY <1>4
    <2> QED
      BY <2>1, <1>5 DEF RightCalls, StepRight
  <1>7. InfixInTurn(rest)
    <2>1. \A i \in 2..Len(rest) : i \in {2, 3, 4} \/ (i = 5 /\ i - 1 = 4)
      BY <1>4
    <2>2. rest[2] # Decide("infix") /\ rest[3] # Decide("infix") /\ rest[4] # Decide("infix")
      <3>0. rest[2].do = "parse" /\ rest[3].do = "expect" /\ Decide("infix").do = "decide"
        BY <1>4, StepsAre
      <3>1. rest[2] # Decide("infix") /\ rest[3] # Decide("infix")
        BY <3>0
      <3>2. Decide("postfix") # Decide("infix")
        BY StepsDiffer
      <3> QED
        BY <3>1, <3>2, <1>4
    <2> QED
      BY <2>1, <2>2, <1>4 DEF InfixInTurn, BeforeInfix
  <1>8. PostfixStage(next.kind, rest)
    BY <1>3 DEF PostfixStage
  <1>9. Complete(next, rest)
    <2>1. Required["index"] = {"operand", "rbracket"}
      BY DEF Required
    <2>2. Brings(rest[3], "rbracket") /\ 3 \in 1..Len(rest)
      BY <1>4, StepsAre DEF Brings
    <2> QED
      BY <2>1, <2>2, <1>3 DEF Complete
  <1>10. AllFitting(next)
    <2>1. Fitting(next, "operand", node)
      BY <1>1, <1>2, <1>3 DEF Fitting, Bracketed
    <2> QED
      BY <2>1, <1>3 DEF AllFitting, Lists
  <1>11. Row(next) <= level
    <2>1. Row(next) = 0
      BY <1>3 DEF Row
    <2> QED
      BY <2>1
  <1>12. rest[1] # Decide("infix") /\ next.kind \in ExpressionKinds
    BY <1>3, <1>4, StepsDiffer DEF ExpressionKinds
  <1>13. AllProper(Members(next)) /\ ~Opens(Members(next))
    BY <1>1
  <1>14. rest[Len(rest)] = Decide("infix")
    BY <1>4
  <1> QED
    BY <1>1, <1>3, <1>4, <1>6, <1>7, <1>8, <1>9, <1>10, <1>11, <1>12, <1>13, <1>14, WrappedRight

(* A node, and a lexeme after it.                                             *)
LEMMA ReadAfter ==
  ASSUME NEW node, AllProper(<<node>>), AllSound(<<node>>), NEW v, v.kind = "lexeme"
  PROVE  AllProper(Join(<<node>>, <<v>>)) /\ ~Opens(Join(<<node>>, <<v>>))
  <1>1. AllSound(<<v>>) /\ AllProper(<<v>>) /\ Lasting(<<v>>) /\ ~Opens(<<v>>)
    BY FinishedLeaf, FinishedOne, AllFinishedSound, ProperLeaf, LeafLasts
  <1> QED
    BY <1>1, ProperJoined, OpensAtTheEnd

LEMMA DereferenceRight ==
  ASSUME NEW what, NEW node, NEW todo, NEW level \in 0..AnyLevel, NEW token, Form(node, todo),
         Runs(what, node, todo, level), Rests(what, node, todo, level, token),
         todo # << >>, todo[1] = Decide("postfix"), ~Halt(token), NEW v, v.kind = "lexeme",
         NEW next, next = [kind |-> "postfix", operand |-> node, op |-> v],
         Members(next) = Join(<<node>>, <<v>>), NEW rest, rest = <<Decide("postfix"), Decide("infix")>>
  PROVE  Runs(what, next, rest, level) /\ Rests(what, next, rest, level, Unseen)
  <1>1. /\ what = "expression" /\ level >= 1 /\ node.kind \in ExpressionKinds
        /\ AllProper(<<node>>) /\ AllSound(<<node>>) /\ ~Opens(<<node>>) /\ Row(node) = 0
        /\ \A row : Row(node) <= row => Shut(node, row)
    BY OperandReady
  <1>2. Shut(node, 0)
    BY <1>1
  <1>3. /\ next.kind = "postfix" /\ next.operand = node /\ next.op = v
        /\ DOMAIN next = {"kind", "operand", "op"}
    OBVIOUS
  <1>4. /\ Len(rest) = 2 /\ rest # << >>
        /\ rest[1] = Decide("postfix") /\ rest[2] = Decide("infix")
    BY TwoSteps
  <1>5. RightCalls(next, rest)
    <2>1. \A i \in 1..Len(rest) : rest[i].do = "decide"
      BY <1>4, StepsAre
    <2> QED
      BY <2>1 DEF RightCalls
  <1>6. InfixInTurn(rest)
    <2>1. \A i \in 2..Len(rest) : i - 1 = 1
      BY <1>4
    <2> QED
      BY <2>1, <1>4 DEF InfixInTurn, BeforeInfix
  <1>7. PostfixStage(next.kind, rest)
    BY <1>3 DEF PostfixStage
  <1>8. Complete(next, rest)
    <2>1. Required["postfix"] = {"operand", "op"}
      BY DEF Required
    <2> QED
      BY <2>1, <1>3 DEF Complete
  <1>9. AllFitting(next)
    <2>1. Fitting(next, "operand", node)
      BY <1>1, <1>2, <1>3 DEF Fitting, Bracketed
    <2>2. Fitting(next, "op", v)
      BY <1>3 DEF Fitting, Bracketed
    <2> QED
      BY <2>1, <2>2, <1>3 DEF AllFitting, Lists
  <1>10. Row(next) <= level
    <2>1. Row(next) = 0
      BY <1>3 DEF Row
    <2> QED
      BY <2>1
  <1>11. rest[1] # Decide("infix") /\ next.kind \in ExpressionKinds
    BY <1>3, <1>4, StepsDiffer DEF ExpressionKinds
  <1>12. AllProper(Members(next)) /\ ~Opens(Members(next))
    BY <1>1, ReadAfter
  <1>13. rest[Len(rest)] = Decide("infix")
    BY <1>4
  <1> QED
    BY <1>1, <1>3, <1>4, <1>5, <1>6, <1>7, <1>8, <1>9, <1>10, <1>11, <1>12, <1>13, WrappedRight

(* A node that was to be followed by an operator of this level fits as its    *)
(* left operand.                                                              *)
LEMMA LeftFits ==
  ASSUME NEW node, AllFitting(node), node.kind = "binary" => "op" \in DOMAIN node,
         NEW v, v.token \in BinaryOperators,
         Stopped(v.token, IF node.kind = "binary" THEN RightLevel(node.op.token) ELSE 0)
  PROVE  Row(node) <= LeftRow(v)
  <1>1. BinaryLevel(v.token) \in 2..6 /\ (LeftRow(v) = 5 \/ LeftRow(v) = BinaryLevel(v.token))
        /\ (BinaryLevel(v.token) = 6 => LeftRow(v) = 5)
        /\ (BinaryLevel(v.token) # 6 => LeftRow(v) = BinaryLevel(v.token))
    BY LevelsOfOperators DEF LeftRow
  <1>2. CASE node.kind = "binary"
    <2>1. node.op.token \in BinaryOperators
      <3>1. Fitting(node, "op", node.op)
        BY <1>2 DEF AllFitting, Lists
      <3> QED
        BY <3>1, <1>2 DEF Fitting
    <2>2. Row(node) = RowOf(node.op)
      BY <1>2 DEF Row
    <2>3. Row(node) = BinaryLevel(node.op.token)
      BY <2>1, <2>2, RowsOfLevels
    <2>4. /\ BinaryLevel(node.op.token) \in 2..6
          /\ BinaryLevel(node.op.token) = 6 => RightLevel(node.op.token) = 6
          /\ BinaryLevel(node.op.token) # 6 => RightLevel(node.op.token) = BinaryLevel(node.op.token) - 1
      BY <2>1, LevelsOfOperators DEF RightLevel
    <2>5. ~(BinaryLevel(v.token) <= RightLevel(node.op.token))
      BY <1>2 DEF Stopped, Binds
    <2> QED
      BY <1>1, <2>3, <2>4, <2>5
  <1>3. CASE node.kind # "binary"
    <2>1. Row(node) \in 0..1
      BY <1>3 DEF Row
    <2> QED
      BY <1>1, <2>1
  <1> QED
    BY <1>2, <1>3

LEMMA InfixRight ==
  ASSUME NEW what, NEW node, NEW todo, NEW level \in 0..AnyLevel, NEW token, Form(node, todo),
         Runs(what, node, todo, level), Rests(what, node, todo, level, token),
         todo # << >>, todo[1] = Decide("infix"), token \in BinaryOperators, BinaryLevel(token) <= level,
         NEW v, v.kind = "lexeme", v.token = token,
         NEW next, next = [kind |-> "binary", left |-> node, op |-> v],
         Members(next) = Join(<<node>>, <<v>>),
         NEW rest, rest = <<Operand(RightLevel(token), "right"), Decide("infix")>>
  PROVE  Runs(what, next, rest, level) /\ Rests(what, next, rest, level, Unseen)
  <1>1. /\ what = "expression" /\ level >= 1 /\ node.kind \in ExpressionKinds
        /\ AllProper(<<node>>) /\ AllSound(<<node>>)
        /\ \A row : Row(node) <= row => Shut(node, row)
        /\ node.kind = "binary" => "op" \in DOMAIN node
    <2>1. ~Halt(token)
      BY DEF Halt
    <2> QED
      BY <2>1, OperandReady
  <1>2. Shut(node, LeftRow(v))
    <2>1. Stopped(v.token, IF node.kind = "binary" THEN RightLevel(node.op.token) ELSE 0)
      BY DEF Rests, Stops
    <2>2. AllFitting(node)
      BY DEF Runs, Shape
    <2>3. Row(node) <= LeftRow(v)
      BY <1>1, <2>1, <2>2, LeftFits
    <2> QED
      BY <2>3, <1>1
  <1>3. /\ next.kind = "binary" /\ next.left = node /\ next.op = v
        /\ DOMAIN next = {"kind", "left", "op"}
    OBVIOUS
  <1>4. /\ Len(rest) = 2 /\ rest # << >>
        /\ rest[1] = Operand(RightLevel(token), "right") /\ rest[2] = Decide("infix")
    BY TwoSteps
  <1>5. /\ rest[1].do = "parse" /\ rest[1].what = "expression" /\ rest[1].member = "right"
        /\ rest[1].level = RightLevel(token) /\ rest[2].do = "decide"
    BY <1>4, StepsAre
  <1>6. \A i \in 1..Len(rest) : i = 1 \/ i = 2
    BY <1>4
  <1>7. RightCall(next, rest[1])
    <2>1. RightLevel(token) >= 1
      BY LevelsOfOperators
    <2>2. ASSUME NEW t, t.kind \in KindsOf["expression"], Row(t) \in Nat, Row(t) <= RightLevel(token)
          PROVE  Fitting(next, "right", t)
      <3>1. t.kind \in ExpressionKinds
        BY <2>2 DEF KindsOf
      <3> QED
        BY <3>1, <2>2, <1>3 DEF Fitting, Bracketed
    <2> QED
      BY <1>3, <1>5, <2>1, <2>2 DEF RightCall
  <1>8. RightCalls(next, rest)
    BY <1>5, <1>6, <1>7 DEF RightCalls
  <1>9. InfixInTurn(rest)
    <2>1. \A i \in 2..Len(rest) : i - 1 = 1
      BY <1>4
    <2> QED
      BY <2>1, <1>5 DEF InfixInTurn, BeforeInfix
  <1>10. PostfixStage(next.kind, rest)
    <2>1. rest[1] # Decide("postfix") /\ rest[2] # Decide("postfix")
      BY <1>4, StepsDiffer
    <2> QED
      BY <2>1, <1>6 DEF PostfixStage
  <1>11. Complete(next, rest)
    <2>1. Required["binary"] = {"left", "op", "right"}
      BY DEF Required
    <2>2. Brings(rest[1], "right") /\ 1 \in 1..Len(rest)
      BY <1>4, <1>5 DEF Brings
    <2> QED
      BY <2>1, <2>2, <1>3 DEF Complete
  <1>12. AllFitting(next)
    <2>1. Fitting(next, "left", node)
      BY <1>1, <1>2, <1>3 DEF Fitting, Bracketed
    <2>2. Fitting(next, "op", v)
      BY <1>3 DEF Fitting, Bracketed
    <2> QED
      BY <2>1, <2>2, <1>3 DEF AllFitting, Lists
  <1>13. Row(next) <= level
    <2>1. Row(next) = RowOf(v)
      BY <1>3 DEF Row
    <2> QED
      BY <2>1, RowsOfLevels
  <1>14. rest[1] # Decide("infix") /\ next.kind \in ExpressionKinds
    BY <1>3, <1>5, ParsingIsNoDecision DEF ExpressionKinds
  <1>15. AllProper(Members(next)) /\ ~Opens(Members(next))
    BY <1>1, ReadAfter
  <1>16. rest[Len(rest)] = Decide("infix")
    BY <1>4
  <1> QED
    BY <1>1, <1>3, <1>4, <1>8, <1>9, <1>10, <1>11, <1>12, <1>13, <1>14, <1>15, <1>16, WrappedRight

----------------------------------------------------------------------------
(* The beginnings of an expression.                                           *)

LEMMA ChoosingRole ==
  ASSUME NEW what \in DOMAIN KindsOf, NEW kind, kind = "none", NEW todo, Role(what, kind, todo)
  PROVE  /\ todo # << >>
         /\ todo[1] = Decide("operand") => what = "expression"
         /\ todo[1] = Decide("primary") => what = "primary"
         /\ todo[1] = Decide("statement") => what = "statement"
  <1>1. "none" \notin KindsOf[what]
    BY KindsOfEach
  <1>2. /\ todo # << >>
        /\ \/ what = "statement" /\ todo[1] = Decide("statement")
           \/ what = "primary" /\ todo[1] = Decide("primary")
           \/ what = "expression" /\ todo[1] \in {Decide("operand"), Parse("primary", "whole")}
    BY <1>1 DEF Role
  <1>3. /\ Decide("operand") # Decide("statement") /\ Decide("operand") # Decide("primary")
        /\ Decide("primary") # Decide("statement")
    BY StepsDiffer
  <1>4. /\ Parse("primary", "whole") # Decide("operand") /\ Parse("primary", "whole") # Decide("primary")
        /\ Parse("primary", "whole") # Decide("statement")
    BY StepsDiffer
  <1> QED
    BY <1>2, <1>3, <1>4

LEMMA FirstRead ==
  ASSUME NEW v, v.kind = "lexeme"
  PROVE  AllProper(<<v>>) /\ ~Opens(<<v>>)
  BY ProperLeaf, LeafLasts

LEMMA PrefixOperatorRight ==
  ASSUME NEW what \in DOMAIN KindsOf, NEW node, NEW todo, NEW level \in 0..AnyLevel, Form(node, todo),
         Runs(what, node, todo, level), todo # << >>, todo[1] = Decide("operand"),
         NEW v, v.kind = "lexeme", NEW next, next = [kind |-> "prefix", op |-> v],
         Members(next) = <<v>>,
         NEW rest, rest = <<Operand(1, "operand"), Decide("infix")>>
  PROVE  Runs(what, next, rest, level) /\ Rests(what, next, rest, level, Unseen)
  <1>1. what = "expression" /\ level >= 1
    BY AtOperand, ChoosingRole DEF Runs, Shape
  <1>2. next.kind = "prefix" /\ next.op = v /\ DOMAIN next = {"kind", "op"}
    OBVIOUS
  <1>3. /\ Len(rest) = 2 /\ rest # << >>
        /\ rest[1] = Operand(1, "operand") /\ rest[2] = Decide("infix")
    BY TwoSteps
  <1>4. /\ rest[1].do = "parse" /\ rest[1].what = "expression" /\ rest[1].member = "operand"
        /\ rest[2].do = "decide"
    BY <1>3, StepsAre
  <1>5. \A i \in 1..Len(rest) : i = 1 \/ i = 2
    BY <1>3
  <1>6. RightCalls(next, rest)
    <2>1. StepRight(next, rest[1])
      BY <1>2, <1>3, OperandRight
    <2> QED
      BY <2>1, <1>4, <1>5 DEF RightCalls, StepRight
  <1>7. InfixInTurn(rest)
    <2>1. \A i \in 2..Len(rest) : i - 1 = 1
      BY <1>3
    <2> QED
      BY <2>1, <1>4 DEF InfixInTurn, BeforeInfix
  <1>8. PostfixStage(next.kind, rest)
    <2>1. rest[1] # Decide("postfix") /\ rest[2] # Decide("postfix")
      BY <1>3, StepsDiffer
    <2> QED
      BY <2>1, <1>5 DEF PostfixStage
  <1>9. Complete(next, rest)
    <2>1. Required["prefix"] = {"op", "operand"}
      BY DEF Required
    <2>2. Brings(rest[1], "operand") /\ 1 \in 1..Len(rest)
      BY <1>3, <1>4 DEF Brings
    <2> QED
      BY <2>1, <2>2, <1>2 DEF Complete
  <1>10. AllFitting(next)
    <2>1. Fitting(next, "op", v)
      BY <1>2 DEF Fitting, Bracketed
    <2> QED
      BY <2>1, <1>2 DEF AllFitting, Lists
  <1>11. Row(next) <= level
    <2>1. Row(next) = 1
      BY <1>2 DEF Row
    <2> QED
      BY <2>1, <1>1
  <1>12. rest[1] # Decide("infix") /\ next.kind \in ExpressionKinds
    BY <1>2, <1>4, ParsingIsNoDecision DEF ExpressionKinds
  <1>13. AllProper(Members(next)) /\ ~Opens(Members(next))
    BY FirstRead
  <1>14. rest[Len(rest)] = Decide("infix")
    BY <1>3
  <1> QED
    BY <1>1, <1>2, <1>3, <1>6, <1>7, <1>8, <1>9, <1>10, <1>11, <1>12, <1>13, <1>14, WrappedRight

LEMMA PrefixBracketRight ==
  ASSUME NEW what \in DOMAIN KindsOf, NEW node, NEW todo, NEW level \in 0..AnyLevel, Form(node, todo),
         Runs(what, node, todo, level), todo # << >>, todo[1] = Decide("operand"),
         NEW token, NEW next, next = [kind |-> "prefix_bracket"], Members(next) = << >>,
         NEW rest, rest = <<Expect("[", "lbracket"), Decide("size"), Expect("]", "rbracket"),
                            Operand(1, "operand"), Decide("infix")>>
  PROVE  Runs(what, next, rest, level) /\ Rests(what, next, rest, level, token)
  <1>1. what = "expression" /\ level >= 1
    BY AtOperand, ChoosingRole DEF Runs, Shape
  <1>2. next.kind = "prefix_bracket" /\ DOMAIN next = {"kind"}
    OBVIOUS
  <1>3. /\ Len(rest) = 5 /\ rest # << >> /\ rest[1] = Expect("[", "lbracket")
        /\ rest[2] = Decide("size") /\ rest[3] = Expect("]", "rbracket")
        /\ rest[4] = Operand(1, "operand") /\ rest[5] = Decide("infix")
    OBVIOUS
  <1>4. /\ rest[1].do = "expect" /\ rest[3].do = "expect" /\ rest[1].member = "lbracket"
        /\ rest[4].do = "parse" /\ rest[4].what = "expression" /\ rest[4].member = "operand"
        /\ rest[5].do = "decide" /\ Decide("infix").do = "decide" /\ Decide("postfix").do = "decide"
    <2>1. rest[1].do = "expect" /\ rest[3].do = "expect" /\ rest[1].member = "lbracket"
      BY <1>3, StepsAre
    <2>2. rest[4].do = "parse" /\ rest[4].what = "expression" /\ rest[4].member = "operand"
      BY <1>3, StepsAre
    <2> QED
      BY <2>1, <2>2, <1>3, DecisionIs
  <1>5. \A i \in 1..Len(rest) : i \in {1, 2, 3, 4, 5}
    BY <1>3
  <1>6. RightCalls(next, rest)
    <2>1. StepRight(next, rest[1]) /\ StepRight(next, rest[3])
      BY <1>3, ReadingRight
    <2>2. StepRight(next, rest[2])
      BY <1>3, DecisionRight
    <2>3. StepRight(next, rest[4])
      BY <1>2, <1>3, OperandRight
    <2> QED
      BY <2>1, <2>2, <2>3, <1>4, <1>5 DEF RightCalls, StepRight
  <1>7. rest[2] # Decide("infix") /\ rest[2] # Decide("postfix") /\ rest[5] # Decide("postfix")
    BY <1>3, StepsDiffer
  <1>8. InfixInTurn(rest)
    <2>1. \A i \in 2..Len(rest) : i \in {2, 3, 4} \/ (i = 5 /\ i - 1 = 4)
      BY <1>3
    <2>2. rest[3] # Decide("infix") /\ rest[4] # Decide("infix")
      BY <1>4
    <2>3. BeforeInfix(rest[4])
      BY <1>4 DEF BeforeInfix
    <2> QED
      BY <2>1, <2>2, <2>3, <1>7 DEF InfixInTurn
  <1>9. PostfixStage(next.kind, rest)
    <2>1. /\ rest[1] # Decide("postfix") /\ rest[3] # Decide("postfix") /\ rest[4] # Decide("postfix")
      BY <1>4
    <2> QED
      BY <2>1, <1>5, <1>7 DEF PostfixStage
  <1>10. Complete(next, rest)
    <2>1. Required["prefix_bracket"] = {"lbracket", "operand"}
      BY DEF Required
    <2>2. Brings(rest[1], "lbracket") /\ Brings(rest[4], "operand") /\ 1 \in 1..Len(rest) /\ 4 \in 1..Len(rest)
      BY <1>3, <1>4 DEF Brings
    <2> QED
      BY <2>1, <2>2, <1>2 DEF Complete
  <1>11. AllFitting(next)
    BY <1>2 DEF AllFitting
  <1>12. Row(next) <= level
    <2>1. Row(next) = 1
      BY <1>2 DEF Row
    <2> QED
      BY <2>1, <1>1
  <1>13. rest[1] # Decide("infix") /\ next.kind \in ExpressionKinds
    BY <1>2, <1>4 DEF ExpressionKinds
  <1>14. AllProper(Members(next)) /\ ~Opens(Members(next))
    BY ProperNothing, NothingOpens
  <1>15. rest[Len(rest)] = Decide("infix")
    BY <1>3
  <1> QED
    BY <1>1, <1>2, <1>3, <1>6, <1>8, <1>9, <1>10, <1>11, <1>12, <1>13, <1>14, <1>15, WrappedRight

LEMMA PrimaryOperandRight ==
  ASSUME NEW what \in DOMAIN KindsOf, NEW node, NEW todo, NEW level \in 0..AnyLevel, Form(node, todo),
         Runs(what, node, todo, level), todo # << >>, todo[1] = Decide("operand"), NEW token,
         NEW rest, rest = <<Parse("primary", "whole"), Decide("postfix"), Decide("infix")>>
  PROVE  Runs(what, node, rest, level) /\ Rests(what, node, rest, level, token)
  <1>1. /\ what = "expression" /\ node.kind = "none" /\ Members(node) = << >>
        /\ Shape(node, todo, level)
    BY AtOperand, ChoosingRole DEF Runs
  <1>2. /\ Len(rest) = 3 /\ rest # << >> /\ rest[1] = Parse("primary", "whole")
        /\ rest[2] = Decide("postfix") /\ rest[3] = Decide("infix")
    OBVIOUS
  <1>3. /\ rest[1].do = "parse" /\ rest[1].what = "primary" /\ rest[1].member = "whole"
        /\ rest[1].level = AnyLevel /\ AnyLevel >= 1
        /\ rest[2].do = "decide" /\ rest[3].do = "decide" /\ Decide("infix").do = "decide"
    BY <1>2, ParseSteps, DecisionIs
  <1>4. \A i \in 1..Len(rest) : i \in {1, 2, 3}
    BY <1>2
  <1>5. RightCalls(node, rest)
    <2>1. Required["none"] = {}
      BY DEF Required
    <2>2. \A v : Fitting(node, "whole", v)
      BY <2>1, <1>1 DEF Fitting, Bracketed
    <2>3. RightCall(node, rest[1])
      BY <2>2, <1>1, <1>3 DEF RightCall
    <2> QED
      BY <2>3, <1>3, <1>4 DEF RightCalls
  <1>6. InfixInTurn(rest)
    <2>1. \A i \in 2..Len(rest) : i = 2 \/ (i = 3 /\ i - 1 = 2)
      BY <1>2
    <2>2. rest[2] # Decide("infix")
      BY <1>2, StepsDiffer
    <2>3. BeforeInfix(rest[2])
      BY <1>2 DEF BeforeInfix
    <2> QED
      BY <2>1, <2>2, <2>3 DEF InfixInTurn
  <1>7. PostfixStage(node.kind, rest)
    BY <1>1 DEF PostfixStage
  <1>8. Complete(node, rest)
    BY <1>1 DEF Complete, Required
  <1>9. Role(what, node.kind, rest)
    BY <1>1, <1>2 DEF Role
  <1>10. rest[1] # Decide("infix")
    BY <1>3
  <1>11. Runs(what, node, rest, level)
    BY <1>1, <1>5, <1>6, <1>7, <1>8, <1>9 DEF Runs, Shape
  <1>12. Rests(what, node, rest, level, token)
    BY <1>1, <1>2, <1>10, NothingOpens DEF Rests, Stops
  <1> QED
    BY <1>11, <1>12

LEMMA AtomRight ==
  ASSUME NEW what \in DOMAIN KindsOf, NEW node, NEW todo, NEW level \in 0..AnyLevel, Form(node, todo),
         Runs(what, node, todo, level), todo # << >>, todo[1] = Decide("primary"),
         NEW v, v.kind = "lexeme", NEW next, next = [kind |-> "atom", lexeme |-> v],
         Members(next) = <<v>>
  PROVE  Runs(what, next, << >>, level) /\ Rests(what, next, << >>, level, Unseen)
  <1>1. what = "primary" /\ level >= 1
    BY AtPrimary, ChoosingRole DEF Runs, Shape
  <1>2. next.kind = "atom" /\ next.lexeme = v /\ DOMAIN next = {"kind", "lexeme"}
    OBVIOUS
  <1>3. Len(<< >>) = 0
    BY EmptySequence
  <1>4. RightCalls(next, << >>) /\ InfixInTurn(<< >>) /\ PostfixStage(next.kind, << >>) /\ NoOperators(<< >>)
    BY <1>3 DEF RightCalls, InfixInTurn, PostfixStage, NoOperators
  <1>5. Complete(next, << >>)
    <2>1. Required["atom"] = {"lexeme"}
      BY DEF Required
    <2> QED
      BY <2>1, <1>2 DEF Complete
  <1>6. AllFitting(next)
    <2>1. Fitting(next, "lexeme", v)
      BY <1>2 DEF Fitting, Bracketed
    <2> QED
      BY <2>1, <1>2 DEF AllFitting, Lists
  <1>7. Row(next) <= level
    <2>1. Row(next) = 0
      BY <1>2 DEF Row
    <2> QED
      BY <2>1, <1>1
  <1>8. AllProper(Members(next)) /\ ~Opens(Members(next))
    BY FirstRead
  <1>9. Role(what, next.kind, << >>)
    BY <1>1, <1>2, <1>4, KindsAre DEF Role
  <1>10. Runs(what, next, << >>, level)
    BY <1>1, <1>2, <1>4, <1>5, <1>6, <1>7, <1>8, <1>9 DEF Runs, Shape
  <1>11. Rests(what, next, << >>, level, Unseen)
    BY <1>1, <1>2, <1>8 DEF Rests, Stops
  <1> QED
    BY <1>10, <1>11

(* The ends of the operators.                                                 *)
LEMMA EndOfPostfixRight ==
  ASSUME NEW what, NEW node, NEW todo, NEW level, NEW token, Form(node, todo),
         Runs(what, node, todo, level), Rests(what, node, todo, level, token),
         todo # << >>, todo[1] = Decide("postfix"), token # Unseen, token \notin PostfixOperators,
         NEW rest, rest = <<Decide("infix")>>
  PROVE  Runs(what, node, rest, level) /\ Rests(what, node, rest, level, token)
  <1>1. /\ what = "expression" /\ node.kind \in ExpressionKinds
        /\ Required[node.kind] \subseteq DOMAIN node
    BY OperandReady
  <1>2. Shape(node, todo, level) /\ Stops(node, todo, token)
    BY DEF Runs, Rests
  <1>3. Len(rest) = 1 /\ rest # << >> /\ rest[1] = Decide("infix") /\ rest[1].do = "decide"
    BY OneStep, StepsAre
  <1>4. RightCalls(node, rest) /\ InfixInTurn(rest)
    <2>1. \A i \in 1..Len(rest) : i = 1
      BY <1>3
    <2>2. \A i \in 2..Len(rest) : FALSE
      BY <1>3
    <2> QED
      BY <2>1, <2>2, <1>3 DEF RightCalls, InfixInTurn
  <1>5. PostfixStage(node.kind, rest)
    <2>1. \A i \in 1..Len(rest) : rest[i] # Decide("postfix")
      BY <1>3, StepsDiffer
    <2> QED
      BY <2>1 DEF PostfixStage
  <1>6. Complete(node, rest)
    BY <1>1 DEF Complete
  <1>7. Role(what, node.kind, rest)
    <2>1. node.kind \in KindsOf["expression"]
      BY <1>1 DEF KindsOf
    <2> QED
      BY <2>1, <1>1, <1>3 DEF Role
  <1>8. node.kind # "binary"
    <2>1. 1 \in 1..Len(todo)
      BY FirstFits
    <2> QED
      BY <2>1, <1>2 DEF Shape, PostfixStage
  <1>9. Stopped(token, 0)
    <2>1. token \in BinaryOperators => ~(BinaryLevel(token) <= 0)
      BY LevelsOfOperators
    <2> QED
      BY <2>1 DEF Stopped, Binds
  <1>10. Runs(what, node, rest, level)
    BY <1>2, <1>4, <1>5, <1>6, <1>7 DEF Runs, Shape
  <1>11. Rests(what, node, rest, level, token)
    BY <1>2, <1>3, <1>8, <1>9 DEF Rests, Stops
  <1> QED
    BY <1>10, <1>11

LEMMA EndOfInfixRight ==
  ASSUME NEW what, NEW node, NEW todo, NEW level, NEW token, Form(node, todo),
         Runs(what, node, todo, level), Rests(what, node, todo, level, token),
         todo # << >>, todo[1] = Decide("infix"), token # Unseen, ~Binds(token, level)
  PROVE  Runs(what, node, << >>, level) /\ Rests(what, node, << >>, level, token)
  <1>1. /\ what = "expression" /\ node.kind \in ExpressionKinds
        /\ Required[node.kind] \subseteq DOMAIN node
    BY OperandReady
  <1>2. Shape(node, todo, level) /\ Stops(node, todo, token)
    BY DEF Runs, Rests
  <1>3. Len(<< >>) = 0
    BY EmptySequence
  <1>4. RightCalls(node, << >>) /\ InfixInTurn(<< >>) /\ PostfixStage(node.kind, << >>)
    BY <1>3 DEF RightCalls, InfixInTurn, PostfixStage
  <1>5. Complete(node, << >>)
    BY <1>1 DEF Complete
  <1>6. Role(what, node.kind, << >>)
    <2>1. node.kind \in KindsOf["expression"]
      BY <1>1 DEF KindsOf
    <2> QED
      BY <2>1, <1>1 DEF Role
  <1>7. Stopped(token, level)
    BY <1>2 DEF Stops, Stopped
  <1>8. Runs(what, node, << >>, level)
    BY <1>2, <1>4, <1>5, <1>6 DEF Runs, Shape
  <1>9. Rests(what, node, << >>, level, token)
    BY <1>2, <1>7 DEF Rests, Stops
  <1> QED
    BY <1>8, <1>9

----------------------------------------------------------------------------
(* A comma, and a block's semicolon.                                          *)

LEMMA ReadAtTheEnd ==
  ASSUME NEW trees, AllSound(trees), NEW v, v.kind = "lexeme"
  PROVE  /\ ~Opens(Join(trees, <<v>>))
         /\ AllProper(trees) => AllProper(Join(trees, <<v>>))
  <1>1. AllSound(<<v>>) /\ AllProper(<<v>>) /\ Lasting(<<v>>) /\ ~Opens(<<v>>)
    BY FinishedLeaf, FinishedOne, AllFinishedSound, ProperLeaf, LeafLasts
  <1> QED
    BY <1>1, ProperJoined, OpensAtTheEnd

(* A decision that gives way to another one.                                  *)
LEMMA AnotherDecision ==
  ASSUME NEW todo, NEW a, todo[1] = Decide(a), NEW b,
         a \notin {"operand", "postfix", "infix"}, b \notin {"postfix", "infix"},
         NEW node
  PROVE  /\ ~BeforeInfix(todo[1]) /\ todo[1] # Decide("infix") /\ todo[1].do = "decide"
         /\ RightCalls(node, <<Decide(b)>>) /\ NoOperators(<<Decide(b)>>) /\ IsASequence(<<Decide(b)>>)
         /\ Len(<<Decide(b)>>) = 1 /\ <<Decide(b)>>[1] = Decide(b)
  <1>1. todo[1].do = "decide" /\ todo[1] # Decide("operand") /\ todo[1] # Decide("postfix")
        /\ todo[1] # Decide("infix")
    BY StepsDiffer, DecisionIs
  <1>2. /\ Len(<<Decide(b)>>) = 1 /\ <<Decide(b)>>[1] = Decide(b) /\ IsASequence(<<Decide(b)>>)
        /\ Decide(b).do = "decide" /\ Decide(b) # Decide("postfix") /\ Decide(b) # Decide("infix")
    BY OneStep, StepsDiffer, DecisionIs
  <1>3. \A i \in 1..Len(<<Decide(b)>>) : <<Decide(b)>>[i] = Decide(b)
    BY <1>2
  <1>4. RightCalls(node, <<Decide(b)>>) /\ NoOperators(<<Decide(b)>>)
    BY <1>2, <1>3 DEF RightCalls, NoOperators
  <1>5. ~BeforeInfix(todo[1])
    BY <1>1 DEF BeforeInfix
  <1> QED
    BY <1>1, <1>2, <1>4, <1>5

LEMMA CommaRight ==
  ASSUME NEW what, NEW node, NEW todo, NEW level, Form(node, todo), Runs(what, node, todo, level),
         todo # << >>, NEW list \in CommaLists, todo[1] = Decide(list.comma), NEW v, v.kind = "lexeme",
         NEW next, next.kind = node.kind, Members(next) = Join(Members(node), <<v>>),
         Replaced(next, node, list.commas, Added(node, list.commas, v))
  PROVE  /\ Runs(what, next, Join(<<Decide(list.item)>>, Tail(todo)), level)
         /\ Rests(what, next, Join(<<Decide(list.item)>>, Tail(todo)), level, Unseen)
  <1> DEFINE steps == <<Decide(list.item)>>
             new == Join(steps, Tail(todo))
  <1>1. /\ list.comma \in {"argument_comma", "parameter_comma"} /\ list.item \in {"argument", "parameter"}
        /\ list.commas \in Lists /\ list.commas \notin {"kind", "elses", "body"}
    BY DEF CommaLists, Lists
  <1>2. node.kind \in {"call", "fn"}
    <2>1. /\ "argument_comma" \in DOMAIN Choice /\ "parameter_comma" \in DOMAIN Choice
          /\ Choice["argument_comma"].of = "call" /\ Choice["parameter_comma"].of = "fn"
      BY DEF Choice
    <2> QED
      BY <2>1, <1>1, AtChoice
  <1>3. /\ IsASequence(todo) /\ AllSound(Members(node))
    BY FormText, FirstFits, AllFinishedSound
  <1>4. Shape(node, todo, level) /\ Role(what, node.kind, todo)
    BY DEF Runs
  <1>5. /\ ~BeforeInfix(todo[1]) /\ todo[1] # Decide("infix") /\ todo[1].do = "decide"
        /\ RightCalls(node, steps) /\ NoOperators(steps) /\ IsASequence(steps)
    BY <1>1, AnotherDecision
  <1>6. new # << >> /\ new[1] = Decide(list.item) /\ new[1] # Decide("infix")
    BY <1>1, <1>3, OneBefore, StepsDiffer
  <1>7. AllFitting(next)
    BY <1>1, <1>2, <1>4, FittingMore DEF Shape
  <1>8. AllProper(Members(next)) /\ ~Opens(Members(next))
    BY <1>3, <1>4, ReadAtTheEnd DEF Shape
  <1>9. \A m \in Required[node.kind] : m \in DOMAIN node => m \in DOMAIN next
    BY DEF Replaced
  <1>10. ASSUME NEW m
         PROVE  ~Brings(todo[1], m)
    <2>1. todo[1] # Decide("item") /\ todo[1] # Decide("tail") /\ todo[1] # Decide("else_if")
      BY <1>1, StepsDiffer
    <2> QED
      BY <2>1, <1>5 DEF Brings
  <1> HIDE DEF steps
  <1>11. Shape(next, new, level)
    BY <1>2, <1>3, <1>4, <1>5, <1>7, <1>8, <1>9, <1>10, ShapeChanges
  <1>12. Role(what, node.kind, new)
    BY <1>2, <1>3, <1>4, <1>5, RoleGoesOn
  <1>13. ~(next.kind = "fn" /\ "body" \in DOMAIN next)
    <2> SUFFICES ASSUME node.kind = "fn", "body" \in DOMAIN next
                 PROVE  FALSE
      OBVIOUS
    <2>1. "body" \in DOMAIN node
      BY <1>1 DEF Replaced
    <2>2. todo[1].what \in {"postfix", "infix"}
      BY <2>1, BodyLast
    <2> QED
      BY <2>2, <1>1, DecisionIs
  <1>14. Runs(what, next, new, level)
    BY <1>11, <1>12 DEF Runs
  <1>15. Rests(what, next, new, level, Unseen)
    BY <1>6, <1>8, <1>13 DEF Rests, Stops
  <1> QED
    BY <1>14, <1>15 DEF steps

LEMMA StatementProper ==
  ASSUME NEW tree, Finished(tree), tree.kind # "lexeme", AllProper(<<tree>>),
         tree.kind \in ExpressionKinds \cup StatementKinds \cup {"lexeme"}, NEW v, v.kind = "lexeme",
         NEW made, made = [kind |-> "expression_statement", expression |-> tree, semicolon |-> v]
  PROVE  /\ AllProper(<<made>>) /\ AllSound(<<made>>)
         /\ Lasting(<<made>>) /\ ~Opens(<<made>>)
  <1>1. Finished(made) /\ made.kind = "expression_statement" /\ Members(made) = Join(<<tree>>, <<v>>)
    BY StatementOf
  <1>2. made.expression = tree /\ made.semicolon = v /\ DOMAIN made = {"kind", "expression", "semicolon"}
    OBVIOUS
  <1>3. AllSound(<<tree>>) /\ AllSound(<<made>>) /\ IsASequence(<<tree>>) /\ AllFinished(<<tree>>)
        /\ AllFinished(<<v>>)
    BY <1>1, FinishedOne, FinishedLeaf, AllFinishedSound, OneStep
  <1>4. AllProper(Members(made)) /\ ~Opens(Members(made))
    BY <1>1, <1>3, ReadAtTheEnd
  <1>5. Proper(made)
    <2>1. "expression_statement" \in DOMAIN Written \ {"none", "unit"}
      BY DEF Written
    <2>2. Required["expression_statement"] = {"expression", "semicolon"}
      BY DEF Required
    <2>3. Fitting(made, "expression", tree) /\ Fitting(made, "semicolon", v)
      BY <1>1 DEF Fitting, Bracketed
    <2>4. AllFitting(made)
      BY <2>3, <1>1, <1>2 DEF AllFitting, Lists
    <2> QED
      BY <2>1, <2>2, <2>4, <1>1, <1>2 DEF Proper
  <1>6. AllProper(<<made>>)
    BY <1>1, <1>4, <1>5, ProperNode
  <1>7. Lasting(Members(made))
    <2>1. HasLexeme(Members(made)) /\ AllFinished(Members(made))
      BY <1>1, <1>3, SomeLexeme, AllFinishedJoined
    <2> QED
      BY <2>1, LexemeLasts
  <1>8. Lasting(<<made>>) /\ ~Opens(<<made>>)
    BY <1>1, <1>4, <1>7, NodeLasts
  <1> QED
    BY <1>3, <1>6, <1>8

LEMMA SemicolonRight ==
  ASSUME NEW what, NEW node, NEW todo, NEW level, Form(node, todo), Runs(what, node, todo, level),
         todo # << >>, todo[1] = Decide("tail"), NEW v, v.kind = "lexeme", NEW made,
         made = [kind |-> "expression_statement", expression |-> node.tail, semicolon |-> v],
         NEW rest, NEW next, SemicolonRead(node, rest, next, made)
  PROVE  /\ Runs(what, next, Join(<<Decide("item")>>, Tail(todo)), level)
         /\ Rests(what, next, Join(<<Decide("item")>>, Tail(todo)), level, Unseen)
  <1> DEFINE steps == <<Decide("item")>>
             new == Join(steps, Tail(todo))
  <1>1. /\ node.kind = "block" /\ "tail" \in DOMAIN node /\ node.tail.kind # "lexeme"
        /\ DOMAIN rest = DOMAIN node \ {"tail"} /\ \A m \in DOMAIN node : m # "tail" => rest[m] = node[m]
        /\ NodeFormed(rest) /\ Finished(made) /\ Finished(node.tail)
        /\ Members(node) = Join(Members(rest), <<node.tail>>)
        /\ Members(next) = Join(Members(rest), <<made>>)
        /\ next.kind = "block" /\ Replaced(next, rest, "statements", Added(rest, "statements", made))
    BY DEF SemicolonRead
  <1>2. IsASequence(todo) /\ AllSound(Members(rest)) /\ AllSound(<<node.tail>>)
    BY <1>1, FirstFits, FinishedOne, AllFinishedSound DEF NodeFormed
  <1>3. Shape(node, todo, level) /\ Role(what, node.kind, todo)
    BY DEF Runs
  <1>4. /\ ~BeforeInfix(todo[1]) /\ todo[1] # Decide("infix") /\ todo[1].do = "decide"
        /\ RightCalls(node, steps) /\ NoOperators(steps) /\ IsASequence(steps)
        /\ Len(steps) = 1 /\ steps[1] = Decide("item")
    <2> DEFINE a == "tail"
               b == "item"
    <2>1. a \notin {"operand", "postfix", "infix"} /\ b \notin {"postfix", "infix"} /\ todo[1] = Decide(a)
      OBVIOUS
    <2> HIDE DEF a, b
    <2>2. /\ ~BeforeInfix(todo[1]) /\ todo[1] # Decide("infix") /\ todo[1].do = "decide"
          /\ RightCalls(node, <<Decide(b)>>) /\ NoOperators(<<Decide(b)>>) /\ IsASequence(<<Decide(b)>>)
          /\ Len(<<Decide(b)>>) = 1 /\ <<Decide(b)>>[1] = Decide(b)
      BY <2>1, AnotherDecision
    <2> QED
      BY <2>2 DEF b
  <1>5. new # << >> /\ new[1] = Decide("item") /\ new[1] # Decide("infix")
    BY <1>2, OneBefore, StepsDiffer
  <1>6. AllProper(Members(rest)) /\ AllProper(<<node.tail>>)
    BY <1>1, <1>2, <1>3, ProperJoined DEF Shape
  <1>7. node.tail.kind \in ExpressionKinds \cup StatementKinds \cup {"lexeme"}
    <2>1. Fitting(node, "tail", node.tail)
      BY <1>1, <1>3 DEF Shape, AllFitting, Lists
    <2> QED
      BY <2>1 DEF Fitting
  <1>8. AllProper(<<made>>) /\ AllSound(<<made>>) /\ Lasting(<<made>>) /\ ~Opens(<<made>>)
    BY <1>1, <1>6, <1>7, StatementProper
  <1>9. AllProper(Members(next)) /\ ~Opens(Members(next))
    BY <1>1, <1>2, <1>6, <1>8, ProperJoined, OpensAtTheEnd
  <1>10. AllFitting(next)
    <2>1. ASSUME NEW m \in DOMAIN next, m \notin Lists, m # "kind"
          PROVE  Fitting(next, m, next[m])
      <3>1. m # "statements"
        BY <2>1 DEF Lists
      <3>2. m \in DOMAIN node /\ next[m] = node[m]
        BY <2>1, <3>1, <1>1 DEF Replaced
      <3>3. Fitting(node, m, node[m])
        BY <2>1, <3>2, <1>3 DEF Shape, AllFitting
      <3>4. Fitting(next, m, node[m])
        BY <3>3, <1>1, FittingSame
      <3> QED
        BY <3>2, <3>4
    <2>2. "elses" \in DOMAIN next => "elses" \in DOMAIN node /\ next.elses = node.elses
      BY <1>1 DEF Replaced
    <2>3. next.kind # "if"
      BY <1>1
    <2> QED
      BY <2>1, <2>2, <2>3, <1>3 DEF Shape, AllFitting
  <1>11. Required["block"] = {"lbrace", "rbrace"}
    BY DEF Required
  <1>12. \A m \in Required[node.kind] : m \in DOMAIN node => m \in DOMAIN next
    BY <1>1, <1>11 DEF Replaced
  <1>13. ASSUME NEW m \in Required[node.kind], Brings(todo[1], m)
         PROVE  \E i \in 1..Len(steps) : Brings(steps[i], m)
    <2>1. todo[1] # Decide("item") /\ todo[1] # Decide("else_if")
      BY StepsDiffer
    <2>2. m = "rbrace"
      BY <2>1, <1>4, <1>13 DEF Brings
    <2> QED
      BY <2>2, <1>4 DEF Brings
  <1> HIDE DEF steps
  <1>14. Shape(next, new, level)
    BY <1>1, <1>2, <1>3, <1>4, <1>9, <1>10, <1>12, <1>13, ShapeChanges
  <1>15. Role(what, node.kind, new)
    BY <1>1, <1>2, <1>3, <1>4, RoleGoesOn
  <1>16. Runs(what, next, new, level)
    BY <1>1, <1>14, <1>15 DEF Runs
  <1>17. Rests(what, next, new, level, Unseen)
    BY <1>1, <1>5, <1>9 DEF Rests, Stops
  <1> QED
    BY <1>16, <1>17 DEF steps

----------------------------------------------------------------------------
(* The whole stack.                                                           *)

LEMMA FunctionKinds == DOMAIN Functions \subseteq DOMAIN KindsOf /\ "unit" \in DOMAIN KindsOf
  BY FunctionsAre DEF KindsOf

LEMMA CalledKinds ==
  ASSUME NEW st, Activations(st), NEW n \in 1..Len(st)
  PROVE  Called(st, n) \in DOMAIN KindsOf
  <1>1. Len(st) \in Nat
    BY SequenceShape DEF Activations
  <1>2. CASE n = 1
    BY <1>2, FunctionKinds DEF Called
  <1>3. CASE n # 1
    <2> DEFINE m == n - 1
    <2>1. m \in 1..Len(st) /\ m < Len(st)
      BY <1>1, <1>3
    <2>2. /\ st[m].todo # << >> /\ st[m].todo[1].do = "parse" /\ Form(st[m].node, st[m].todo)
      BY <2>1 DEF Activations, Waits, ActivationFormed
    <2>3. Fits(st[m].node.kind, st[m].todo[1])
      BY <2>2, FirstFits
    <2>4. st[m].todo[1].what \in DOMAIN Functions
      BY <2>2, <2>3 DEF Fits
    <2> QED
      BY <2>4, <1>3, FunctionKinds DEF Called
  <1> QED
    BY <1>2, <1>3

LEMMA TopRuns ==
  ASSUME NEW st, Activations(st), AllRun(st), NEW node, NEW todo, NEW new, Changed(new, st, node, todo),
         Runs(Called(st, Len(st)), node, todo, st[Len(st)].level), NEW token,
         Rests(Called(st, Len(st)), node, todo, st[Len(st)].level, token)
  PROVE  AllRun(new) /\ TopRests(new, token)
  <1> DEFINE top == Len(st)
  <1>1. top \in Nat /\ top >= 1 /\ top \in 1..Len(st)
    BY PartsBelow DEF Activations
  <1>2. /\ Len(new) = top
        /\ \A n \in 1..top : n < top => new[n] = st[n]
        /\ new[top].node = node /\ new[top].todo = todo /\ new[top].level = st[top].level
    BY DEF Changed
  <1> HIDE DEF top
  <1>3. ASSUME NEW n \in 1..top
        PROVE  Called(new, n) = Called(st, n)
    <2>1. CASE n = 1
      BY <2>1 DEF Called
    <2>2. CASE n # 1
      <3>1. n - 1 \in 1..top /\ n - 1 < top
        BY <2>2, <1>1
      <3> QED
        BY <3>1, <1>2 DEF Called
    <2> QED
      BY <2>1, <2>2
  <1>4. ASSUME NEW n \in 1..top
        PROVE  Runs(Called(new, n), new[n].node, new[n].todo, new[n].level)
    <2>1. CASE n = top
      BY <2>1, <1>2, <1>3 DEF top
    <2>2. CASE n # top
      <3>1. new[n] = st[n]
        BY <2>2, <1>1, <1>2
      <3>2. Runs(Called(st, n), st[n].node, st[n].todo, st[n].level)
        BY DEF AllRun, top
      <3> QED
        BY <3>1, <3>2, <1>3
    <2> QED
      BY <2>1, <2>2
  <1>5. Rests(Called(new, top), new[top].node, new[top].todo, new[top].level, token)
    BY <1>1, <1>2, <1>3 DEF top
  <1> QED
    BY <1>2, <1>4, <1>5 DEF AllRun, TopRests

TopCalled == Called(stack, Len(stack))

LEMMA TopRight ==
  ASSUME IInv, PInv, outcome = "parsing"
  PROVE  /\ Activations(stack) /\ AllRun(stack)
         /\ Form(Top.node, Top.todo) /\ IsASequence(Top.todo) /\ Top.level \in 0..AnyLevel
         /\ TopCalled \in DOMAIN KindsOf
         /\ Runs(TopCalled, Top.node, Top.todo, Top.level)
         /\ Rests(TopCalled, Top.node, Top.todo, Top.level, ahead)
  <1>1. Activations(stack) /\ AllRun(stack) /\ TopRests(stack, ahead)
    BY DEF IInv, PInv
  <1>2. Len(stack) \in 1..Len(stack)
    BY <1>1, PartsBelow DEF Activations
  <1>3. TopCalled \in DOMAIN KindsOf
    BY <1>1, <1>2, CalledKinds DEF TopCalled
  <1>4. /\ Runs(TopCalled, Top.node, Top.todo, Top.level)
        /\ Rests(TopCalled, Top.node, Top.todo, Top.level, ahead)
    BY <1>1, <1>2 DEF AllRun, TopRests, TopCalled, Top
  <1> QED
    BY <1>1, <1>3, <1>4, TopForm

LEMMA DoneRight ==
  ASSUME IInv, PInv, outcome = "parsing", NEW node, NEW steps, Do(node, steps),
         Runs(TopCalled, node, Join(steps, Tail(Top.todo)), Top.level),
         Rests(TopCalled, node, Join(steps, Tail(Top.todo)), Top.level, ahead')
  PROVE  PInv'
  <1>1. /\ stack' = [stack EXCEPT ![Len(stack)].node = node,
                                  ![Len(stack)].todo = Join(steps, Tail(Top.todo))]
    BY DEF Do, Continue, Join
  <1>2. Activations(stack) /\ AllRun(stack)
    BY TopRight
  <1>3. Changed(stack', stack, node, Join(steps, Tail(Top.todo)))
    BY <1>1, <1>2, TopChanges
  <1>4. AllRun(stack') /\ TopRests(stack', ahead')
    BY <1>2, <1>3, TopRuns DEF TopCalled, Top
  <1> QED
    BY <1>4 DEF PInv

(* Decisions that only add steps.                                             *)
LEMMA DecidedRight ==
  ASSUME IInv, PInv, outcome = "parsing", NEW what, Top.todo # << >>, Top.todo[1] = Decide(what),
         what \notin {"operand", "postfix", "infix"}, Top.node.kind # "none",
         NEW steps, IsASequence(steps), \A i \in 1..Len(steps) : StepRight(Top.node, steps[i]),
         \A m \in Required[Top.node.kind] :
           Brings(Top.todo[1], m) => \E i \in 1..Len(steps) : Brings(steps[i], m),
         Go(steps)
  PROVE  PInv'
  <1>1. Do(Top.node, steps) /\ ahead' = ahead
    BY DEF Go, Peeking
  <1>2. RightCalls(Top.node, steps) /\ NoOperators(steps)
    BY RightSteps
  <1>3. ~BeforeInfix(Top.todo[1]) /\ Top.todo[1] # Decide("infix")
    BY AnotherDecision
  <1>4. /\ Runs(TopCalled, Top.node, Join(steps, Tail(Top.todo)), Top.level)
        /\ Rests(TopCalled, Top.node, Join(steps, Tail(Top.todo)), Top.level, ahead)
    BY <1>2, <1>3, TopRight, GoesRight
  <1> QED
    BY <1>1, <1>4, DoneRight

----------------------------------------------------------------------------
(* The first activation, and the steps that are no decisions.                 *)

LEMMA UnitRight ==
  ASSUME NEW node, node = [kind |-> "unit", statements |-> << >>], NEW todo, todo = <<Decide("unit")>>
  PROVE  WellBegun(node, todo) /\ Role("unit", node.kind, todo)
  <1> DEFINE d == "unit"
  <1>1. d \notin {"postfix", "infix"}
    OBVIOUS
  <1>2. node.kind = "unit" /\ Blanked(node) /\ Members(node) = << >>
    BY UnitBegins DEF Blanked, Lists
  <1>3. IsASequence(todo) /\ todo # << >> /\ Len(todo) = 1 /\ todo[1] = Decide(d)
    BY OneStep
  <1>4. Required["unit"] = {} /\ KindsOf["unit"] = {"unit"}
    BY DEF Required, KindsOf
  <1>5. Complete(node, todo)
    BY <1>2, <1>4 DEF Complete
  <1> HIDE DEF d
  <1>6. StepRight(node, Decide(d))
    BY <1>1, DecisionRight
  <1>7. \A i \in 1..Len(todo) : StepRight(node, todo[i])
    BY <1>3, <1>6
  <1>8. WellBegun(node, todo) /\ NoOperators(todo)
    BY <1>2, <1>3, <1>5, <1>7, FreshRight
  <1> QED
    BY <1>2, <1>4, <1>8 DEF Role

LEMMA InitRight ==
  ASSUME Init
  PROVE  PInv
  <1> DEFINE node == [kind |-> "unit", statements |-> << >>]
             todo == <<Decide("unit")>>
             a == Activation(Unit, AnyLevel)
  <1>1. WellBegun(node, todo) /\ Role("unit", node.kind, todo)
    BY UnitRight
  <1>2. a.node = node /\ a.todo = todo /\ a.level = AnyLevel
    BY DEF Activation, Unit
  <1> HIDE DEF a, node, todo
  <1>3. stack = <<a>> /\ Len(stack) = 1 /\ stack[1] = a
    BY OneStep DEF Init, a
  <1>4. Called(stack, 1) = "unit"
    BY DEF Called
  <1>5. AnyLevel \in 1..AnyLevel
    BY AnyLevelIs
  <1>6. Runs("unit", node, todo, AnyLevel)
    BY <1>1, <1>5 DEF Runs, WellBegun
  <1>7. Rests("unit", node, todo, AnyLevel, ahead)
    BY <1>1, BegunRests
  <1>8. AllRun(stack)
    BY <1>2, <1>3, <1>4, <1>6 DEF AllRun
  <1>9. TopRests(stack, ahead)
    BY <1>2, <1>3, <1>4, <1>7 DEF TopRests
  <1> QED
    BY <1>8, <1>9 DEF PInv

(* What is known before the next token is seen needs no token. *)
LEMMA UnseenRests ==
  ASSUME NEW what, NEW node, NEW todo, NEW level, Rests(what, node, todo, level, Unseen), NEW token
  PROVE  Rests(what, node, todo, level, token)
  BY UnseenNeverStops DEF Rests, Stops

LEMMA StackRests ==
  ASSUME PInv, UNCHANGED <<stack, outcome>>, ahead' = ahead \/ ahead = Unseen
  PROVE  PInv'
  BY UnseenRests DEF PInv, TopRests

LEMMA NotParsing ==
  ASSUME outcome' # "parsing"
  PROVE  PInv'
  BY DEF PInv

LEMMA PeeksRight ==
  ASSUME IInv, PInv, Peeks
  PROVE  PInv'
  BY StackRests, NotParsing DEF Peeks, Throw

LEMMA ReadOnRight ==
  ASSUME IInv, PInv, outcome = "parsing", Top.todo # << >>, Top.todo[1].do \in {"expect", "accept"},
         Reading, Do(Put(Top.node, Top.todo[1].member, Lexeme), << >>)
  PROVE  PInv'
  <1> DEFINE node == Put(Top.node, Top.todo[1].member, Lexeme)
  <1>1. /\ Form(Top.node, Top.todo) /\ IsASequence(Top.todo)
        /\ Runs(TopCalled, Top.node, Top.todo, Top.level)
    BY TopRight
  <1>2. /\ Runs(TopCalled, node, Tail(Top.todo), Top.level)
        /\ Rests(TopCalled, node, Tail(Top.todo), Top.level, Unseen)
    BY <1>1, LexemeIs, ReadsRight
  <1>3. Join(<< >>, Tail(Top.todo)) = Tail(Top.todo) /\ ahead' = Unseen
    BY <1>1, NothingToJoin DEF Reading
  <1> HIDE DEF node
  <1>4. Do(node, << >>)
    BY DEF node
  <1> QED
    BY <1>2, <1>3, <1>4, DoneRight

LEMMA ExpectsRight ==
  ASSUME IInv, PInv, Expects
  PROVE  PInv'
  <1>1. /\ outcome = "parsing" /\ Top.todo # << >>
        /\ Step = Top.todo[1] /\ Step.do = "expect" /\ Reading
    BY RunningForm DEF Expects
  <1>2. CASE ahead = Step.token
    BY <1>1, <1>2, ReadOnRight DEF Expects
  <1>3. CASE ahead # Step.token
    BY <1>3, NotParsing DEF Expects, Throw
  <1> QED
    BY <1>2, <1>3

LEMMA AcceptsRight ==
  ASSUME IInv, PInv, Accepts
  PROVE  PInv'
  <1>1. /\ outcome = "parsing" /\ Top.todo # << >>
        /\ Step = Top.todo[1] /\ Step.do = "accept"
    BY RunningForm DEF Accepts
  <1>2. CASE ahead = Step.token
    BY <1>1, <1>2, ReadOnRight DEF Accepts
  <1>3. CASE ahead # Step.token
    <2>1. Peeking /\ Do(Top.node, << >>)
      BY <1>3 DEF Accepts, Go
    <2>2. /\ Form(Top.node, Top.todo)
          /\ Runs(TopCalled, Top.node, Top.todo, Top.level)
          /\ Rests(TopCalled, Top.node, Top.todo, Top.level, ahead)
      BY <1>1, TopRight
    <2>3. ~BeforeInfix(Top.todo[1]) /\ Top.todo[1] # Decide("infix") /\ Top.node.kind # "none"
      BY <1>1, <2>2, ReadingMember, ReadingSteps
    <2>4. IsASequence(<< >>) /\ RightCalls(Top.node, << >>) /\ NoOperators(<< >>)
      BY EmptySequence DEF RightCalls, NoOperators
    <2>5. \A m \in Required[Top.node.kind] : Brings(Top.todo[1], m) => FALSE
      BY <1>1, DecisionIs DEF Brings
    <2>6. /\ Runs(TopCalled, Top.node, Join(<< >>, Tail(Top.todo)), Top.level)
          /\ Rests(TopCalled, Top.node, Join(<< >>, Tail(Top.todo)), Top.level, ahead)
      BY <1>1, <2>2, <2>3, <2>4, <2>5, GoesRight
    <2>7. ahead' = ahead
      BY <2>1 DEF Peeking
    <2> QED
      BY <1>1, <2>1, <2>6, <2>7, DoneRight
  <1> QED
    BY <1>2, <1>3

LEMMA CallsRight ==
  ASSUME IInv, PInv, Calls
  PROVE  PInv'
  <1> DEFINE f == Functions[Step.what]  top == Len(stack)  a == Activation(f, Step.level)
  <1>1. /\ outcome = "parsing" /\ Top.todo # << >> /\ Form(Top.node, Top.todo)
        /\ Step = Top.todo[1] /\ Step.do = "parse"
        /\ stack' = Append(stack, a)
        /\ UNCHANGED <<input, tokens, ahead, outcome>> /\ Activations(stack)
    BY RunningForm DEF Calls
  <1>2. Step.what \in DOMAIN Functions /\ Step.level \in 0..AnyLevel
    BY <1>1, FirstFits DEF Fits
  <1>3. RightFunction(Step.what, f)
    BY <1>2, FunctionsAreRight
  <1>4. Step.level \in 1..AnyLevel
    <2>1. Runs(TopCalled, Top.node, Top.todo, Top.level) /\ 1 \in 1..Len(Top.todo)
      BY <1>1, TopRight, FirstFits
    <2>2. RightCall(Top.node, Top.todo[1])
      BY <1>1, <2>1 DEF Runs, Shape, RightCalls
    <2>3. Step.level >= 1
      BY <1>1, <2>2 DEF RightCall
    <2> QED
      BY <1>2, <2>3, AnyLevelIs
  <1>5. a.node = f.node /\ a.todo = f.todo /\ a.level = Step.level
    BY DEF Activation
  <1>6. top \in Nat /\ top >= 1 /\ IsASequence(stack)
    BY <1>1, PartsBelow DEF Activations
  <1>7. /\ Len(stack') = top + 1 /\ stack'[top + 1] = a
        /\ \A i \in 1..top : stack'[i] = stack[i]
    BY <1>1, <1>6, AppendedSequence
  <1> HIDE DEF a
  <1>8. Runs(Step.what, a.node, a.todo, a.level)
    BY <1>3, <1>4, <1>5 DEF RightFunction, WellBegun, Runs
  <1>9. Rests(Step.what, a.node, a.todo, a.level, ahead)
    BY <1>3, <1>5, BegunRests DEF RightFunction
  <1>10. Step = stack[top].todo[1]
    BY <1>1 DEF Top
  <1> HIDE DEF f, top
  <1>11. Called(stack', top + 1) = Step.what
    <2>1. top + 1 # 1 /\ (top + 1) - 1 = top /\ top \in 1..top
      BY <1>6
    <2> QED
      BY <2>1, <1>7, <1>10 DEF Called
  <1>12. ASSUME NEW n \in 1..top
         PROVE  Called(stack', n) = Called(stack, n)
    <2>1. CASE n = 1
      BY <2>1 DEF Called
    <2>2. CASE n # 1
      <3>1. n - 1 \in 1..top
        BY <2>2, <1>6
      <3> QED
        BY <3>1, <1>7 DEF Called
    <2> QED
      BY <2>1, <2>2
  <1>13. AllRun(stack)
    BY <1>1 DEF PInv
  <1>14. ASSUME NEW n \in 1..Len(stack')
         PROVE  Runs(Called(stack', n), stack'[n].node, stack'[n].todo, stack'[n].level)
    <2>1. CASE n = top + 1
      BY <2>1, <1>7, <1>8, <1>11
    <2>2. CASE n # top + 1
      <3>1. n \in 1..top
        BY <2>2, <1>6, <1>7
      <3>2. Runs(Called(stack, n), stack[n].node, stack[n].todo, stack[n].level)
        BY <3>1, <1>13 DEF AllRun, top
      <3> QED
        BY <3>1, <3>2, <1>7, <1>12
    <2> QED
      BY <2>1, <2>2
  <1>15. TopRests(stack', ahead')
    BY <1>1, <1>7, <1>9, <1>11 DEF TopRests
  <1> QED
    BY <1>14, <1>15 DEF AllRun, PInv

LEMMA ReturnsRight ==
  ASSUME IInv, PInv, Returns
  PROVE  PInv'
  <1> DEFINE n == Len(stack) - 1  front == Front(stack)  caller == stack[n]
             step == Head(caller.todo)  callee == Top.node
             next == Put(caller.node, step.member, callee)
  <1>1. /\ outcome = "parsing" /\ Top.todo = << >>
        /\ UNCHANGED <<input, tokens, ahead, outcome>> /\ Activations(stack)
    BY DEF Returns, IInv
  <1>2. /\ Len(stack) >= 2 /\ Len(stack) \in Nat /\ Activations(front) /\ Len(front) = n
        /\ front[n] = caller /\ Form(callee, << >>) /\ IsASequence(stack) /\ stack # << >>
    BY <1>1, FrontStack DEF Top, Activations
  <1>3. \A i \in 1..n : front[i] = stack[i]
    BY <1>2, FrontOfSequence
  <1>4. n \in 1..Len(stack) /\ n < Len(stack) /\ n + 1 = Len(stack) /\ Len(stack) \in 1..Len(stack)
        /\ n \in Nat /\ n >= 1
    BY <1>2
  <1>5. /\ Form(caller.node, caller.todo) /\ caller.todo # << >> /\ caller.todo[1].do = "parse"
        /\ caller.todo[1].level = Top.level /\ caller.level \in 0..AnyLevel
    BY <1>1, <1>4 DEF Activations, ActivationFormed, Waits, Top
  <1>6. step = caller.todo[1]
    BY <1>5, FirstFits, TailSteps
  <1>7. n \in DOMAIN front
    <2>1. DOMAIN front = 1..Len(front)
      BY <1>2, SequenceShape DEF Activations
    <2> QED
      BY <2>1, <1>2, <1>4
  <1>8. stack' = [front EXCEPT ![Len(front)].node = next, ![Len(front)].todo = Tail(caller.todo)]
    <2>1. stack' = [front EXCEPT ![n].node = Put(@, step.member, callee), ![n].todo = Tail(@)]
      BY DEF Returns
    <2> QED
      BY <2>1, <1>2, <1>7
  <1> HIDE DEF front, caller, step, next, n
  <1>9. Changed(stack', front, next, Tail(caller.todo))
    BY <1>2, <1>8, TopChanges
  <1>10. ASSUME NEW i \in 1..n
         PROVE  Called(front, i) = Called(stack, i)
    <2>1. CASE i = 1
      BY <2>1 DEF Called
    <2>2. CASE i # 1
      <3>1. i - 1 \in 1..n
        BY <2>2, <1>4
      <3> QED
        BY <3>1, <1>3 DEF Called
    <2> QED
      BY <2>1, <2>2
  <1>11. AllRun(stack) /\ TopRests(stack, ahead)
    BY <1>1 DEF PInv
  <1>12. AllRun(front)
    <2>1. ASSUME NEW i \in 1..n
          PROVE  Runs(Called(front, i), front[i].node, front[i].todo, front[i].level)
      <3>1. i \in 1..Len(stack)
        BY <1>4
      <3>2. Runs(Called(stack, i), stack[i].node, stack[i].todo, stack[i].level)
        BY <3>1, <1>11 DEF AllRun
      <3> QED
        BY <3>2, <1>3, <1>10
    <2> QED
      BY <2>1, <1>2 DEF AllRun
  <1> DEFINE what == Called(stack, n)
  <1>13. what = Called(front, n) /\ what \in DOMAIN KindsOf
    BY <1>1, <1>4, <1>10, CalledKinds
  <1>14. Runs(what, caller.node, caller.todo, caller.level)
    BY <1>4, <1>11 DEF AllRun, caller
  <1>15. Called(stack, Len(stack)) = caller.todo[1].what
    <2>1. Len(stack) # 1 /\ Len(stack) - 1 = n
      BY <1>4
    <2> QED
      BY <2>1 DEF Called, caller
  <1>16. /\ Runs(caller.todo[1].what, callee, << >>, caller.todo[1].level)
         /\ Rests(caller.todo[1].what, callee, << >>, caller.todo[1].level, ahead)
    <2>1. /\ Runs(Called(stack, Len(stack)), callee, << >>, Top.level)
          /\ Rests(Called(stack, Len(stack)), callee, << >>, Top.level, ahead)
      BY <1>1, <1>4, <1>11 DEF AllRun, TopRests, Top
    <2> QED
      BY <2>1, <1>5, <1>15
  <1> HIDE DEF what, callee
  <1>17. /\ Runs(what, next, Tail(caller.todo), caller.level)
         /\ Rests(what, next, Tail(caller.todo), caller.level, ahead)
    <2>1. CASE caller.todo[1].member # "whole"
      <3>1. caller.todo[1].level \in 0..AnyLevel
        BY <1>4, <1>5, FirstFits DEF Fits
      <3>2. /\ Runs(what, Put(caller.node, caller.todo[1].member, callee), Tail(caller.todo), caller.level)
            /\ Rests(what, Put(caller.node, caller.todo[1].member, callee), Tail(caller.todo),
                     caller.level, ahead)
        BY <2>1, <3>1, <1>2, <1>5, <1>14, <1>16, MemberReturnsRight
      <3> QED
        BY <3>2, <1>6 DEF next
    <2>2. CASE caller.todo[1].member = "whole"
      <3>1. /\ Runs(what, callee, Tail(caller.todo), caller.level)
            /\ Rests(what, callee, Tail(caller.todo), caller.level, ahead)
        BY <2>2, <1>2, <1>5, <1>13, <1>14, <1>16, WholeReturnsRight
      <3>2. next = callee
        BY <2>2, <1>2, <1>5, <1>6, ReturnedWhole DEF next
      <3> QED
        BY <3>1, <3>2
    <2> QED
      BY <2>1, <2>2
  <1>18. AllRun(stack') /\ TopRests(stack', ahead)
    <2>1. Called(front, Len(front)) = what /\ front[Len(front)].level = caller.level
      BY <1>2, <1>13
    <2>2. /\ Runs(Called(front, Len(front)), next, Tail(caller.todo), front[Len(front)].level)
          /\ Rests(Called(front, Len(front)), next, Tail(caller.todo), front[Len(front)].level, ahead)
      BY <2>1, <1>17
    <2> QED
      BY <2>2, <1>2, <1>9, <1>12, TopRuns
  <1> QED
    BY <1>1, <1>18 DEF PInv

(* A statement and a primary expression are what the token begins.            *)
LEMMA BecomesRight ==
  ASSUME IInv, PInv, outcome = "parsing", Top.todo # << >>,
         Top.todo[1] \in {Decide("statement"), Decide("primary")},
         NEW f, Begins(f), RightFunction(TopCalled, f), Become(f)
  PROVE  PInv'
  <1>1. /\ Form(Top.node, Top.todo) /\ Top.level \in 0..AnyLevel
        /\ Runs(TopCalled, Top.node, Top.todo, Top.level)
    BY TopRight
  <1>2. Tail(Top.todo) = << >>
    BY <1>1, AtStatement, AtPrimary
  <1>3. Do(f.node, f.todo) /\ ahead' = ahead
    BY DEF Become, Peeking
  <1>4. IsASequence(f.todo)
    BY DEF Begins, Form, StepsInTurn
  <1>5. Join(f.todo, Tail(Top.todo)) = f.todo
    BY <1>2, <1>4, JoinEmpty
  <1>6. Top.level \in 1..AnyLevel
    <2>1. Top.level >= 1
      BY <1>1 DEF Runs, Shape
    <2> QED
      BY <1>1, <2>1, AnyLevelIs
  <1>7. Runs(TopCalled, f.node, f.todo, Top.level)
    BY <1>6 DEF RightFunction, WellBegun, Runs
  <1>8. Rests(TopCalled, f.node, f.todo, Top.level, ahead)
    BY BegunRests DEF RightFunction
  <1> QED
    BY <1>3, <1>5, <1>7, <1>8, DoneRight

LEMMA ChooseStatementRight ==
  ASSUME IInv, PInv, ChooseStatement
  PROVE  PInv'
  <1>1. /\ outcome = "parsing" /\ Top.todo # << >> /\ Form(Top.node, Top.todo)
        /\ Top.todo[1] = Decide("statement")
    BY AtForm DEF ChooseStatement
  <1>2. PICK f \in {Functions[KeywordStatement], ExpressionStatement} :
          /\ Become(f)
          /\ ahead \notin StatementKeywords => f = ExpressionStatement
    BY DEF ChooseStatement
  <1>3. TopCalled = "statement"
    <2>1. Top.node.kind = "none"
      BY <1>1, AtStatement
    <2>2. TopCalled \in DOMAIN KindsOf /\ Role(TopCalled, Top.node.kind, Top.todo)
      BY <1>1, TopRight DEF Runs
    <2> QED
      BY <1>1, <2>1, <2>2, ChoosingRole
  <1>4. Functions["let"] = LetStatement /\ Functions["return"] = ReturnStatement
        /\ Functions["while"] = WhileStatement
    BY DEF Functions
  <1>5. Begins(f) /\ RightFunction("statement", f)
    <2>1. CASE f = ExpressionStatement
      BY <2>1, ExpressionStatementIs, ExpressionStatementIsRight
    <2>2. CASE f # ExpressionStatement
      <3>1. KeywordStatement \in {"let", "return", "while"}
        BY <2>2, <1>2, KeywordStatementIs
      <3>2. f \in {LetStatement, ReturnStatement, WhileStatement}
        BY <2>2, <3>1, <1>2, <1>4
      <3> QED
        BY <3>2, LetIs, ReturnIs, WhileIs, LetIsRight, ReturnIsRight, WhileIsRight
    <2> QED
      BY <2>1, <2>2
  <1> QED
    BY <1>1, <1>2, <1>3, <1>5, BecomesRight

LEMMA CompositeRight ==
  ASSUME IInv, PInv, Composite
  PROVE  PInv'
  <1> DEFINE f == CASE ahead = "kw_if" -> IfExpression [] ahead = "{" -> BlockExpression
                    [] ahead = "(" -> ParenExpression [] ahead = "kw_fn" -> FnExpression
  <1>1. At("primary") /\ Become(f)
    BY Zenon DEF Composite
  <1>2. ahead \in {"kw_if", "{", "(", "kw_fn"}
    BY Zenon DEF Composite
  <1>3. f \in {IfExpression, BlockExpression, ParenExpression, FnExpression}
    BY <1>2, OneOfFour, Zenon
  <1> HIDE DEF f
  <1>4. Begins(f) /\ RightFunction("primary", f)
    BY <1>3, IfIs, BlockIs, ParenIs, FnIs, IfIsRight, BlockIsRight, ParenIsRight, FnIsRight
  <1>5. /\ outcome = "parsing" /\ Top.todo # << >> /\ Form(Top.node, Top.todo)
        /\ Top.todo[1] = Decide("primary")
    BY <1>1, AtForm
  <1>6. TopCalled = "primary"
    <2>1. Top.node.kind = "none"
      BY <1>5, AtPrimary
    <2>2. TopCalled \in DOMAIN KindsOf /\ Role(TopCalled, Top.node.kind, Top.todo)
      BY <1>5, TopRight DEF Runs
    <2> QED
      BY <1>5, <2>1, <2>2, ChoosingRole
  <1> QED
    BY <1>1, <1>4, <1>5, <1>6, BecomesRight

----------------------------------------------------------------------------
(* The decisions that only add steps.                                         *)

LEMMA BringsNothing ==
  ASSUME NEW what, what \notin {"item", "tail", "else_if"}, NEW m
  PROVE  ~Brings(Decide(what), m)
  BY DEF Brings, Decide

LEMMA BringsLater ==
  ASSUME NEW what \in {"item", "tail", "else_if"}, NEW m
  PROVE  Brings(Decide(what), m) <=> m = IF what = "else_if" THEN "body" ELSE "rbrace"
  BY DEF Brings, Decide

LEMMA BringsNow ==
  ASSUME NEW a, NEW m
  PROVE  Brings(Expect(a, m), m) /\ Brings(Parse(a, m), m)
  BY DEF Brings, Expect, Parse

LEMMA SkippedRight ==
  ASSUME IInv, PInv, outcome = "parsing", NEW what, Top.todo # << >>, Top.todo[1] = Decide(what),
         what \notin {"operand", "postfix", "infix", "item", "tail", "else_if"}, Top.node.kind # "none",
         Go(<< >>)
  PROVE  PInv'
  <1>1. IsASequence(<< >>) /\ Len(<< >>) = 0
    BY EmptySequence
  <1>2. \A m \in Required[Top.node.kind] : ~Brings(Top.todo[1], m)
    BY BringsNothing
  <1> QED
    BY <1>1, <1>2, DecidedRight

LEMMA PairRight ==
  ASSUME IInv, PInv, outcome = "parsing", NEW what, Top.todo # << >>, Top.todo[1] = Decide(what),
         what \notin {"operand", "postfix", "infix"}, Top.node.kind # "none",
         NEW a, NEW b, StepRight(Top.node, a), StepRight(Top.node, b), Go(<<a, b>>),
         \A m : Brings(Decide(what), m) => Brings(b, m)
  PROVE  PInv'
  <1> DEFINE s == <<a, b>>
  <1>1. IsASequence(s) /\ Len(s) = 2 /\ s[1] = a /\ s[2] = b
    BY TwoSteps
  <1> HIDE DEF s
  <1>2. \A i \in 1..Len(s) : StepRight(Top.node, s[i])
    BY <1>1
  <1>3. \A m \in Required[Top.node.kind] :
          Brings(Top.todo[1], m) => \E i \in 1..Len(s) : Brings(s[i], m)
    BY <1>1
  <1>4. Go(s)
    BY DEF s
  <1> QED
    BY <1>1, <1>2, <1>3, <1>4, DecidedRight

LEMMA OnlyRight ==
  ASSUME IInv, PInv, outcome = "parsing", NEW what, Top.todo # << >>, Top.todo[1] = Decide(what),
         what \notin {"operand", "postfix", "infix"}, Top.node.kind # "none",
         NEW a, StepRight(Top.node, a), Go(<<a>>),
         \A m : Brings(Decide(what), m) => Brings(a, m)
  PROVE  PInv'
  <1> DEFINE s == <<a>>
  <1>1. IsASequence(s) /\ Len(s) = 1 /\ s[1] = a
    BY OneStep
  <1> HIDE DEF s
  <1>2. \A i \in 1..Len(s) : StepRight(Top.node, s[i])
    BY <1>1
  <1>3. \A m \in Required[Top.node.kind] :
          Brings(Top.todo[1], m) => \E i \in 1..Len(s) : Brings(s[i], m)
    BY <1>1
  <1>4. Go(s)
    BY DEF s
  <1> QED
    BY <1>1, <1>2, <1>3, <1>4, DecidedRight

LEMMA AtDecision ==
  ASSUME IInv, NEW what \in DOMAIN Choice, At(what)
  PROVE  /\ outcome = "parsing" /\ Top.todo # << >> /\ Top.todo[1] = Decide(what)
         /\ what \notin {"operand", "postfix", "infix"}
         /\ Top.node.kind = Choice[what].of /\ Top.node.kind \in DOMAIN Written
         /\ Top.node.kind # "none"
  <1>1. /\ outcome = "parsing" /\ Top.todo # << >> /\ Form(Top.node, Top.todo)
        /\ Top.todo[1] = Decide(what)
    BY AtForm
  <1>2. Top.node.kind = Choice[what].of /\ Top.node.kind \in DOMAIN Written
    BY <1>1, AtChoice, FirstFits
  <1>3. Choice[what].of # "none" /\ what \notin {"operand", "postfix", "infix"}
    BY DEF Choice
  <1> QED
    BY <1>1, <1>2, <1>3

(* One more item of a list, and the question after it.                        *)
LEMMA ItemRight ==
  ASSUME IInv, PInv, NEW what \in DOMAIN Choice, At(what), NEW f, NEW m \in Lists, m = "elses" => f = "else",
         NEW b \in DOMAIN Choice, Go(<<Parse(f, m), Decide(b)>>),
         what \in {"item", "tail", "else_if"} => b = what
  PROVE  PInv'
  <1>1. /\ outcome = "parsing" /\ Top.todo # << >> /\ Top.todo[1] = Decide(what)
        /\ what \notin {"operand", "postfix", "infix"}
        /\ Top.node.kind \in DOMAIN Written /\ Top.node.kind # "none"
    BY AtDecision
  <1>2. StepRight(Top.node, Parse(f, m))
    BY <1>1, ListRight
  <1>3. b \notin {"postfix", "infix"}
    BY ChoicesOf
  <1>4. StepRight(Top.node, Decide(b))
    BY <1>3, DecisionRight
  <1>5. \A k : Brings(Decide(what), k) => Brings(Decide(b), k)
    BY BringsNothing
  <1> QED
    BY <1>1, <1>2, <1>4, <1>5, PairRight

LEMMA NextStatementRight ==
  ASSUME IInv, PInv, NextStatement
  PROVE  PInv'
  <1>1. At("unit") /\ Go(<<Parse("statement", "statements"), Decide("unit")>>)
    BY DEF NextStatement
  <1>2. "unit" \in DOMAIN Choice /\ "statements" \in Lists
    BY ChoicesOf DEF Lists
  <1> QED
    BY <1>1, <1>2, ItemRight

LEMMA BlockStatementRight ==
  ASSUME IInv, PInv, BlockStatement
  PROVE  PInv'
  <1>1. At("item") /\ Go(<<Parse(KeywordStatement, "statements"), Decide("item")>>)
    BY DEF BlockStatement
  <1>2. "item" \in DOMAIN Choice /\ "statements" \in Lists
    BY ChoicesOf DEF Lists
  <1> QED
    BY <1>1, <1>2, ItemRight

LEMMA NextElseRight ==
  ASSUME IInv, PInv, NextElse
  PROVE  PInv'
  <1>1. At("else") /\ (Go(<< >>) \/ Go(<<Parse("else", "elses"), Decide("else")>>))
    BY DEF NextElse
  <1>2. "else" \in DOMAIN Choice /\ "elses" \in Lists
    BY ChoicesOf DEF Lists
  <1>3. CASE Go(<< >>)
    BY <1>1, <1>2, <1>3, AtDecision, SkippedRight
  <1>4. CASE Go(<<Parse("else", "elses"), Decide("else")>>)
    BY <1>1, <1>2, <1>4, ItemRight
  <1> QED
    BY <1>1, <1>3, <1>4

LEMMA NextOfRight ==
  ASSUME IInv, PInv, NEW list \in CommaLists, NEW what, At(list.item),
         Go(<< >>) \/ Go(<<Parse(what, list.items), Decide(list.comma)>>)
  PROVE  PInv'
  <1>1. /\ list.item \in DOMAIN Choice /\ list.comma \in DOMAIN Choice /\ list.items \in Lists
        /\ list.items # "elses" /\ list.item \notin {"item", "tail", "else_if"}
    BY CommaListNames, ChoicesOf DEF Lists
  <1>2. CASE Go(<< >>)
    BY <1>1, <1>2, AtDecision, SkippedRight
  <1>3. CASE Go(<<Parse(what, list.items), Decide(list.comma)>>)
    BY <1>1, <1>3, ItemRight
  <1> QED
    BY <1>2, <1>3

LEMMA BlockExpressionItemRight ==
  ASSUME IInv, PInv, BlockExpressionItem
  PROVE  PInv'
  <1> DEFINE w == "item"  t == "tail"
  <1>1. At(w) /\ Go(<<Parse("expression", t), Decide(t)>>)
    BY Zenon DEF BlockExpressionItem
  <1>2. /\ w \in DOMAIN Choice /\ w \in {"item", "tail", "else_if"} /\ t \in {"item", "tail", "else_if"}
        /\ w # "else_if" /\ t # "else_if" /\ t \notin {"postfix", "infix"}
        /\ t \notin {"whole", "elses", "then_block", "op", "left", "right", "operand", "callee"} /\ t # "body"
    BY ChoicesOf
  <1> HIDE DEF w, t
  <1>3. /\ outcome = "parsing" /\ Top.todo # << >> /\ Top.todo[1] = Decide(w)
        /\ w \notin {"operand", "postfix", "infix"} /\ Top.node.kind # "none"
    BY <1>1, <1>2, AtDecision
  <1>4. StepRight(Top.node, Parse("expression", t)) /\ StepRight(Top.node, Decide(t))
    BY <1>2, ExpressionRight, DecisionRight
  <1>5. \A m : Brings(Decide(w), m) => Brings(Decide(t), m)
    BY <1>2, BringsLater
  <1> QED
    BY <1>1, <1>3, <1>4, <1>5, PairRight

LEMMA EndOfBlockRight ==
  ASSUME IInv, PInv, EndOfBlock \/ BlockTail
  PROVE  PInv'
  <1>1. ASSUME NEW a, NEW what \in {"item", "tail"}, At(what), Go(<<Expect(a, "rbrace")>>)
        PROVE  PInv'
    <2>1. what \in DOMAIN Choice
      BY ChoicesOf
    <2>2. /\ outcome = "parsing" /\ Top.todo # << >> /\ Top.todo[1] = Decide(what)
          /\ what \notin {"operand", "postfix", "infix"} /\ Top.node.kind # "none"
      BY <1>1, <2>1, AtDecision
    <2>3. StepRight(Top.node, Expect(a, "rbrace"))
      BY ReadingRight
    <2>4. \A m : Brings(Decide(what), m) => Brings(Expect(a, "rbrace"), m)
      BY BringsLater, BringsNow
    <2> QED
      BY <1>1, <2>2, <2>3, <2>4, OnlyRight
  <1>2. \E what \in {"item", "tail"} : \E a : At(what) /\ Go(<<Expect(a, "rbrace")>>)
    BY Zenon DEF EndOfBlock, BlockTail
  <1> QED
    BY <1>1, <1>2

LEMMA SizeRight ==
  ASSUME IInv, PInv, Size
  PROVE  PInv'
  <1> DEFINE w == "size"
  <1>1. At(w) /\ (Go(<< >>) \/ Go(<<Parse("expression", w)>>))
    BY DEF Size
  <1>2. /\ w \in DOMAIN Choice /\ w \notin {"item", "tail", "else_if"} /\ w # "body"
        /\ w \notin {"whole", "elses", "then_block", "op", "left", "right", "operand", "callee"}
    BY ChoicesOf
  <1> HIDE DEF w
  <1>3. /\ outcome = "parsing" /\ Top.todo # << >> /\ Top.todo[1] = Decide(w)
        /\ w \notin {"operand", "postfix", "infix"} /\ Top.node.kind # "none"
    BY <1>1, <1>2, AtDecision
  <1>4. CASE Go(<< >>)
    BY <1>2, <1>3, <1>4, SkippedRight
  <1>5. CASE Go(<<Parse("expression", w)>>)
    <2>1. StepRight(Top.node, Parse("expression", w))
      BY <1>2, ExpressionRight
    <2>2. \A m : ~Brings(Decide(w), m)
      BY <1>2, BringsNothing
    <2> QED
      BY <1>3, <1>5, <2>1, <2>2, OnlyRight
  <1> QED
    BY <1>1, <1>4, <1>5

LEMMA ElseIfRight ==
  ASSUME IInv, PInv, ElseIf
  PROVE  PInv'
  <1> DEFINE s == <<Expect("kw_if", "kw_if"), Parse("expression", "condition"), Parse("block", "body")>>
             w == "else_if"  b == Parse("block", "body")
  <1>1. At(w) /\ (Go(s) \/ Go(<<b>>))
    BY DEF ElseIf
  <1>2. /\ w \in DOMAIN Choice /\ Choice[w].of = "else" /\ w = "else_if"
    BY ChoicesOf DEF Choice
  <1>3. IsASequence(s) /\ Len(s) = 3 /\ s[3] = b
        /\ s[1] = Expect("kw_if", "kw_if") /\ s[2] = Parse("expression", "condition")
    BY ThreeSteps
  <1>4. \A m : Brings(Decide(w), m) => Brings(b, m)
    BY BringsLater, BringsNow
  <1> HIDE DEF w, s
  <1>5. /\ outcome = "parsing" /\ Top.todo # << >> /\ Top.todo[1] = Decide(w)
        /\ w \notin {"operand", "postfix", "infix"} /\ Top.node.kind = "else"
    BY <1>1, <1>2, AtDecision
  <1>6. StepRight(Top.node, b)
    BY <1>5, BlockCallRight
  <1>7. StepRight(Top.node, Expect("kw_if", "kw_if")) /\ StepRight(Top.node, Parse("expression", "condition"))
    BY ReadingRight, ExpressionRight
  <1> HIDE DEF b
  <1>8. CASE Go(<<b>>)
    BY <1>4, <1>5, <1>6, <1>8, OnlyRight
  <1>9. CASE Go(s)
    <2>1. \A i \in 1..Len(s) : StepRight(Top.node, s[i])
      BY <1>3, <1>6, <1>7
    <2>2. \A m \in Required[Top.node.kind] :
            Brings(Top.todo[1], m) => \E i \in 1..Len(s) : Brings(s[i], m)
      BY <1>3, <1>4, <1>5
    <2> QED
      BY <1>3, <1>5, <1>9, <2>1, <2>2, DecidedRight
  <1> QED
    BY <1>1, <1>8, <1>9

----------------------------------------------------------------------------
(* The operators, and what is read.                                           *)

(* The activation goes on with a node and steps in place of all there were.   *)
LEMMA MadeRight ==
  ASSUME IInv, PInv, outcome = "parsing", NEW node, NEW steps, Do(node, steps), NEW rest,
         Join(steps, Tail(Top.todo)) = rest,
         Runs(TopCalled, node, rest, Top.level), Rests(TopCalled, node, rest, Top.level, ahead')
  PROVE  PInv'
  BY DoneRight

LEMMA AtRight ==
  ASSUME IInv, PInv, NEW what, At(what)
  PROVE  /\ outcome = "parsing" /\ ahead # Unseen /\ Top.todo # << >> /\ Top.todo[1] = Decide(what)
         /\ Form(Top.node, Top.todo) /\ IsASequence(Top.todo) /\ Top.level \in 0..AnyLevel
         /\ TopCalled \in DOMAIN KindsOf
         /\ Runs(TopCalled, Top.node, Top.todo, Top.level)
         /\ Rests(TopCalled, Top.node, Top.todo, Top.level, ahead)
  BY AtForm, TopRight

LEMMA PrefixOperatorStepRight ==
  ASSUME IInv, PInv, PrefixOperator
  PROVE  PInv'
  <1> DEFINE next == [kind |-> "prefix", op |-> Lexeme]  rest == <<Operand(1, "operand"), Decide("infix")>>
  <1>1. At("operand") /\ Reading /\ Do(next, <<Operand(1, "operand")>>) /\ ahead' = Unseen
    BY DEF PrefixOperator, PrefixLevel, Reading
  <1>2. Tail(Top.todo) = <<Decide("infix")>>
    BY <1>1, AtRight, AtOperand
  <1>3. Join(<<Operand(1, "operand")>>, Tail(Top.todo)) = rest
    BY <1>2, JoinedPair
  <1>4. Members(next) = <<Lexeme>>
    <2>1. 1 \in 0..AnyLevel
      BY AnyLevelIs
    <2> QED
      BY <2>1, <1>1, AtRight, LexemeIs, PrefixBeginning
  <1>5. Runs(TopCalled, next, rest, Top.level) /\ Rests(TopCalled, next, rest, Top.level, Unseen)
    BY <1>1, <1>4, AtRight, LexemeIs, PrefixOperatorRight
  <1> HIDE DEF next, rest
  <1> QED
    BY <1>1, <1>3, <1>5, AtRight, MadeRight

LEMMA PrefixBracketStepRight ==
  ASSUME IInv, PInv, PrefixBracket
  PROVE  PInv'
  <1> DEFINE next == [kind |-> "prefix_bracket"]
             steps == <<Expect("[", "lbracket"), Decide("size"), Expect("]", "rbracket"),
                        Operand(1, "operand")>>
             rest == <<Expect("[", "lbracket"), Decide("size"), Expect("]", "rbracket"),
                       Operand(1, "operand"), Decide("infix")>>
  <1>1. At("operand") /\ Do(next, steps) /\ ahead' = ahead
    BY DEF PrefixBracket, Peeking
  <1>2. Tail(Top.todo) = <<Decide("infix")>>
    BY <1>1, AtRight, AtOperand
  <1>3. Join(steps, Tail(Top.todo)) = rest
    BY <1>2, JoinedQuintuple
  <1>4. Members(next) = << >>
    BY <1>1, AtRight, BracketBeginning
  <1>5. Runs(TopCalled, next, rest, Top.level) /\ Rests(TopCalled, next, rest, Top.level, ahead)
    BY <1>1, <1>4, AtRight, PrefixBracketRight
  <1> HIDE DEF next, rest, steps
  <1> QED
    BY <1>1, <1>3, <1>5, AtRight, MadeRight

LEMMA PrimaryOperandStepRight ==
  ASSUME IInv, PInv, PrimaryOperand
  PROVE  PInv'
  <1> DEFINE steps == <<Parse("primary", "whole"), Decide("postfix")>>
             rest == <<Parse("primary", "whole"), Decide("postfix"), Decide("infix")>>
  <1>1. At("operand") /\ Do(Top.node, steps) /\ ahead' = ahead
    BY DEF PrimaryOperand, Go, Peeking
  <1>2. Tail(Top.todo) = <<Decide("infix")>>
    BY <1>1, AtRight, AtOperand
  <1>3. Join(steps, Tail(Top.todo)) = rest
    BY <1>2, JoinedTriple
  <1>5. Runs(TopCalled, Top.node, rest, Top.level) /\ Rests(TopCalled, Top.node, rest, Top.level, ahead)
    BY <1>1, AtRight, PrimaryOperandRight
  <1> HIDE DEF rest, steps
  <1> QED
    BY <1>1, <1>3, <1>5, AtRight, MadeRight

LEMMA AtomStepRight ==
  ASSUME IInv, PInv, Atom
  PROVE  PInv'
  <1> DEFINE next == [kind |-> "atom", lexeme |-> Lexeme]
  <1>1. At("primary") /\ Do(next, << >>) /\ ahead' = Unseen
    BY DEF Atom, Reading
  <1>2. Tail(Top.todo) = << >>
    BY <1>1, AtRight, AtPrimary
  <1>3. Join(<< >>, Tail(Top.todo)) = << >>
    BY <1>2, EmptySequence, JoinEmpty
  <1>4. Members(next) = <<Lexeme>>
    BY <1>1, AtRight, LexemeIs, AtomBeginning
  <1>5. Runs(TopCalled, next, << >>, Top.level) /\ Rests(TopCalled, next, << >>, Top.level, Unseen)
    BY <1>1, <1>4, AtRight, LexemeIs, AtomRight
  <1> HIDE DEF next
  <1> QED
    BY <1>1, <1>3, <1>5, AtRight, MadeRight

LEMMA PostfixOperatorIs ==
  ASSUME IInv, At("postfix")
  PROVE  IsPostfixOperator <=> ahead \in PostfixOperators
  BY TopRight, AtForm, TopForm, AnyLevelIs DEF IsPostfixOperator, PostfixLevel, IInv

LEMMA CallStepRight ==
  ASSUME IInv, PInv, Call
  PROVE  PInv'
  <1> DEFINE next == [kind |-> "call", callee |-> Top.node, arguments |-> << >>, argument_commas |-> << >>]
             steps == <<Expect("(", "lparen"), Decide("argument"), Expect(")", "rparen"), Decide("postfix")>>
             rest == <<Expect("(", "lparen"), Decide("argument"), Expect(")", "rparen"),
                       Decide("postfix"), Decide("infix")>>
  <1>1. At("postfix") /\ Do(next, steps) /\ ahead' = ahead /\ ahead \in PostfixOperators
    BY DEF Call, Peeking, IsPostfixOperator
  <1>2. Tail(Top.todo) = <<Decide("infix")>>
    BY <1>1, AtRight, AtPostfix
  <1>3. Join(steps, Tail(Top.todo)) = rest
    BY <1>2, JoinedQuintuple
  <1>4. Members(next) = <<Top.node>>
    BY <1>1, AtRight, CallWraps
  <1>5. ~Halt(ahead)
    BY <1>1, AtRight, PostfixIsNoHalt
  <1>6. Runs(TopCalled, next, rest, Top.level) /\ Rests(TopCalled, next, rest, Top.level, ahead)
    BY <1>1, <1>4, <1>5, AtRight, CallRight
  <1> HIDE DEF next, rest, steps
  <1> QED
    BY <1>1, <1>3, <1>6, AtRight, MadeRight

LEMMA IndexStepRight ==
  ASSUME IInv, PInv, Index
  PROVE  PInv'
  <1> DEFINE next == [kind |-> "index", operand |-> Top.node]
             steps == <<Expect("[", "lbracket"), Parse("expression", "index"), Expect("]", "rbracket"),
                        Decide("postfix")>>
             rest == <<Expect("[", "lbracket"), Parse("expression", "index"), Expect("]", "rbracket"),
                       Decide("postfix"), Decide("infix")>>
  <1>1. At("postfix") /\ Do(next, steps) /\ ahead' = ahead /\ ahead \in PostfixOperators
    BY DEF Index, Peeking, IsPostfixOperator
  <1>2. Tail(Top.todo) = <<Decide("infix")>>
    BY <1>1, AtRight, AtPostfix
  <1>3. Join(steps, Tail(Top.todo)) = rest
    BY <1>2, JoinedQuintuple
  <1>4. Members(next) = <<Top.node>>
    BY <1>1, AtRight, IndexWraps
  <1>5. ~Halt(ahead)
    BY <1>1, AtRight, PostfixIsNoHalt
  <1>6. Runs(TopCalled, next, rest, Top.level) /\ Rests(TopCalled, next, rest, Top.level, ahead)
    BY <1>1, <1>4, <1>5, AtRight, IndexRight
  <1> HIDE DEF next, rest, steps
  <1> QED
    BY <1>1, <1>3, <1>6, AtRight, MadeRight

LEMMA DereferenceStepRight ==
  ASSUME IInv, PInv, Dereference
  PROVE  PInv'
  <1> DEFINE next == [kind |-> "postfix", operand |-> Top.node, op |-> Lexeme]
             rest == <<Decide("postfix"), Decide("infix")>>
  <1>1. At("postfix") /\ Do(next, <<Decide("postfix")>>) /\ ahead' = Unseen /\ ahead \in PostfixOperators
    BY DEF Dereference, Reading, IsPostfixOperator
  <1>2. Tail(Top.todo) = <<Decide("infix")>>
    BY <1>1, AtRight, AtPostfix
  <1>3. Join(<<Decide("postfix")>>, Tail(Top.todo)) = rest
    BY <1>2, JoinedPair
  <1>4. Members(next) = Join(<<Top.node>>, <<Lexeme>>)
    BY <1>1, AtRight, LexemeIs, PostfixWraps
  <1>5. ~Halt(ahead)
    BY <1>1, AtRight, PostfixIsNoHalt
  <1>6. Runs(TopCalled, next, rest, Top.level) /\ Rests(TopCalled, next, rest, Top.level, Unseen)
    BY <1>1, <1>4, <1>5, AtRight, LexemeIs, DereferenceRight
  <1> HIDE DEF next, rest
  <1> QED
    BY <1>1, <1>3, <1>6, AtRight, MadeRight

LEMMA EndOfPostfixStepRight ==
  ASSUME IInv, PInv, EndOfPostfix
  PROVE  PInv'
  <1> DEFINE rest == <<Decide("infix")>>
  <1>1. At("postfix") /\ Do(Top.node, << >>) /\ ahead' = ahead /\ ahead \notin PostfixOperators
    BY PostfixOperatorIs DEF EndOfPostfix, Go, Peeking
  <1>2. Tail(Top.todo) = rest
    BY <1>1, AtRight, AtPostfix
  <1>3. Join(<< >>, Tail(Top.todo)) = rest
    BY <1>1, <1>2, AtRight, NothingToJoin
  <1>4. Runs(TopCalled, Top.node, rest, Top.level) /\ Rests(TopCalled, Top.node, rest, Top.level, ahead)
    BY <1>1, AtRight, EndOfPostfixRight
  <1> HIDE DEF rest
  <1> QED
    BY <1>1, <1>3, <1>4, AtRight, MadeRight

LEMMA InfixStepRight ==
  ASSUME IInv, PInv, Infix
  PROVE  PInv'
  <1> DEFINE next == [kind |-> "binary", left |-> Top.node, op |-> Lexeme]
             rest == <<Operand(RightLevel(ahead), "right"), Decide("infix")>>
  <1>1. /\ At("infix") /\ Do(next, rest) /\ ahead' = Unseen
        /\ ahead \in BinaryOperators /\ BinaryLevel(ahead) <= Top.level
    BY DEF Infix, Reading, IsInfixOperator
  <1>2. Tail(Top.todo) = << >>
    BY <1>1, AtRight, AtInfix
  <1>3. Join(rest, Tail(Top.todo)) = rest
    BY <1>2, TwoSteps, JoinEmpty
  <1>4. Members(next) = Join(<<Top.node>>, <<Lexeme>>)
    <2>1. RightLevel(ahead) \in 0..AnyLevel
      BY <1>1, RightLevelIs
    <2> QED
      BY <2>1, <1>1, AtRight, LexemeIs, BinaryWraps
  <1>5. Lexeme.token = ahead
    BY DEF Lexeme
  <1>6. Runs(TopCalled, next, rest, Top.level) /\ Rests(TopCalled, next, rest, Top.level, Unseen)
    BY <1>1, <1>4, <1>5, AtRight, LexemeIs, InfixRight
  <1> HIDE DEF next, rest
  <1> QED
    BY <1>1, <1>3, <1>6, AtRight, MadeRight

LEMMA EndOfInfixStepRight ==
  ASSUME IInv, PInv, EndOfInfix
  PROVE  PInv'
  <1>1. At("infix") /\ Do(Top.node, << >>) /\ ahead' = ahead /\ ~Binds(ahead, Top.level)
    BY DEF EndOfInfix, Go, Peeking, IsInfixOperator, Binds
  <1>2. Tail(Top.todo) = << >>
    BY <1>1, AtRight, AtInfix
  <1>3. Join(<< >>, Tail(Top.todo)) = << >>
    BY <1>1, <1>2, AtRight, NothingToJoin
  <1>4. Runs(TopCalled, Top.node, << >>, Top.level) /\ Rests(TopCalled, Top.node, << >>, Top.level, ahead)
    BY <1>1, AtRight, EndOfInfixRight
  <1> QED
    BY <1>1, <1>3, <1>4, AtRight, MadeRight

LEMMA CommaOfRight ==
  ASSUME IInv, PInv, NEW list \in CommaLists, At(list.comma),
         \/ Go(<< >>)
         \/ Reading /\ Do(Put(Top.node, list.commas, Lexeme), <<Decide(list.item)>>)
  PROVE  PInv'
  <1>1. /\ list.comma \in DOMAIN Choice /\ list.comma \notin {"item", "tail", "else_if"}
    BY CommaListNames, ChoicesOf
  <1>2. CASE Go(<< >>)
    BY <1>1, <1>2, AtDecision, SkippedRight
  <1>3. CASE Reading /\ Do(Put(Top.node, list.commas, Lexeme), <<Decide(list.item)>>)
    <2> DEFINE next == Put(Top.node, list.commas, Lexeme)
               rest == Join(<<Decide(list.item)>>, Tail(Top.todo))
    <2>1. /\ next.kind = Top.node.kind /\ Members(next) = Join(Members(Top.node), <<Lexeme>>)
          /\ Replaced(next, Top.node, list.commas, Added(Top.node, list.commas, Lexeme))
      BY AtRight, LexemeIs, GainsComma
    <2>2. Runs(TopCalled, next, rest, Top.level) /\ Rests(TopCalled, next, rest, Top.level, Unseen)
      BY <2>1, AtRight, LexemeIs, CommaRight
    <2>3. Do(next, <<Decide(list.item)>>) /\ ahead' = Unseen
      BY <1>3 DEF Reading
    <2> HIDE DEF next
    <2> QED
      BY <2>2, <2>3, AtRight, DoneRight
  <1> QED
    BY <1>2, <1>3

LEMMA BlockSemicolonRight ==
  ASSUME IInv, PInv, BlockSemicolon
  PROVE  PInv'
  <1> DEFINE made == [kind |-> "expression_statement", expression |-> Top.node.tail, semicolon |-> Lexeme]
             next == Put(WithoutTail(Top.node), "statements", made)
             rest == Join(<<Decide("item")>>, Tail(Top.todo))
  <1>1. At("tail") /\ Reading /\ Do(next, <<Decide("item")>>)
    BY Zenon DEF BlockSemicolon
  <1>2. SemicolonRead(Top.node, WithoutTail(Top.node), next, made)
    BY <1>1, AtRight, LexemeIs, GainsSemicolon
  <1>3. Runs(TopCalled, next, rest, Top.level) /\ Rests(TopCalled, next, rest, Top.level, Unseen)
    BY <1>1, <1>2, AtRight, LexemeIs, SemicolonRight
  <1>4. ahead' = Unseen
    BY <1>1 DEF Reading
  <1> HIDE DEF next
  <1> QED
    BY <1>1, <1>3, <1>4, AtRight, DoneRight

LEMMA ListsRight ==
  ASSUME IInv, PInv, NextArgument \/ ArgumentComma \/ NextParameter \/ ParameterComma
  PROVE  PInv'
  <1>1. /\ ArgumentList.items = "arguments" /\ ArgumentList.commas = "argument_commas"
        /\ ArgumentList.item = "argument" /\ ArgumentList.comma = "argument_comma"
        /\ ParameterList.items = "parameters" /\ ParameterList.commas = "parameter_commas"
        /\ ParameterList.item = "parameter" /\ ParameterList.comma = "parameter_comma"
    BY DEF ArgumentList, ParameterList
  <1>2. CASE NextArgument
    <2>1. NextOf("argument", <<"expression", "arguments", "argument_comma">>)
      BY <1>2 DEF NextArgument
    <2>2. /\ At("argument")
          /\ Go(<< >>) \/ Go(<<Parse("expression", "arguments"), Decide("argument_comma")>>)
      BY <2>1, NextOfEither
    <2> QED
      BY <2>2, <1>1, TheCommaLists, NextOfRight
  <1>3. CASE NextParameter
    <2>1. NextOf("parameter", <<"parameter", "parameters", "parameter_comma">>)
      BY <1>3 DEF NextParameter
    <2>2. /\ At("parameter")
          /\ Go(<< >>) \/ Go(<<Parse("parameter", "parameters"), Decide("parameter_comma")>>)
      BY <2>1, NextOfEither
    <2> QED
      BY <2>2, <1>1, TheCommaLists, NextOfRight
  <1>4. CASE ArgumentComma
    <2>1. /\ At("argument_comma")
          /\ \/ Go(<< >>)
             \/ Reading /\ Do(Put(Top.node, "argument_commas", Lexeme), <<Decide("argument")>>)
      BY <1>4, CommaOfEither DEF ArgumentComma
    <2> QED
      BY <2>1, <1>1, TheCommaLists, CommaOfRight
  <1>5. CASE ParameterComma
    <2>1. /\ At("parameter_comma")
          /\ \/ Go(<< >>)
             \/ Reading /\ Do(Put(Top.node, "parameter_commas", Lexeme), <<Decide("parameter")>>)
      BY <1>5, CommaOfEither DEF ParameterComma
    <2> QED
      BY <2>1, <1>1, TheCommaLists, CommaOfRight
  <1> QED
    BY <1>2, <1>3, <1>4, <1>5

LEMMA NextRight ==
  ASSUME IInv, PInv, [Next]_vars
  PROVE  PInv'
  <1>1. ASSUME UNCHANGED vars
        PROVE  PInv'
    BY <1>1, StackRests DEF vars
  <1>2. ASSUME Done
        PROVE  PInv'
    BY <1>2, <1>1 DEF Done
  <1>3. ASSUME EndOfUnit
        PROVE  PInv'
    BY <1>3, NotParsing DEF EndOfUnit
  <1>4. ASSUME NotAnExpression
        PROVE  PInv'
    <2>1. Throw("unexpected_token")
      BY <1>4, Zenon DEF NotAnExpression
    <2> QED
      BY <2>1, NotParsing DEF Throw
  <1> QED
    BY <1>1, <1>2, <1>3, <1>4, Zenon, PeeksRight, ExpectsRight, AcceptsRight, CallsRight, ReturnsRight,
       NextStatementRight, ChooseStatementRight, BlockStatementRight, BlockExpressionItemRight,
       EndOfBlockRight, BlockSemicolonRight, PrefixOperatorStepRight, PrefixBracketStepRight, SizeRight,
       PrimaryOperandStepRight, CallStepRight, IndexStepRight, DereferenceStepRight,
       EndOfPostfixStepRight, InfixStepRight, EndOfInfixStepRight, ListsRight, AtomStepRight,
       CompositeRight, NextElseRight, ElseIfRight
       DEF Next

----------------------------------------------------------------------------
(* What the invariant says of a finished statement.                           *)

LEMMA ShutCloses ==
  ASSUME NEW tree, NEW row, Shut(tree, row), Len(tokens) \in Nat
  PROVE  Closed(tree, row)
  <1>1. \A d \in 0..Deepest : d \in Nat
    BY DEF Deepest
  <1> QED
    BY <1>1 DEF Shut, Closed, EndsInFunction

LEMMA MembersFit ==
  ASSUME NEW tree, Proper(tree), tree.kind # "lexeme", NEW m \in Required[tree.kind], m \notin Lists,
         m # "kind"
  PROVE  Fitting(tree, m, tree[m])
  BY DEF Proper, AllFitting

LEMMA ProperBinds ==
  ASSUME NEW tree, Proper(tree), Len(tokens) \in Nat
  PROVE  BindsByTheTable(tree)
  <1>1. CASE tree.kind \notin {"binary", "prefix", "prefix_bracket", "call", "index", "postfix"}
    BY <1>1 DEF BindsByTheTable
  <1>2. CASE tree.kind = "binary"
    <2> DEFINE op == tree.op
    <2>1. {"left", "op", "right"} = Required["binary"]
      BY DEF Required
    <2>2. "left" \notin Lists /\ "op" \notin Lists /\ "right" \notin Lists
      BY DEF Lists
    <2>3. /\ Fitting(tree, "left", tree.left) /\ Fitting(tree, "op", tree.op)
          /\ Fitting(tree, "right", tree.right)
      BY <1>2, <2>1, <2>2, MembersFit
    <2>4. op.token \in BinaryOperators
      BY <1>2, <2>3 DEF Fitting
    <2>5. Shut(tree.left, LeftRow(op)) /\ Row(tree.right) <= RightLevel(op.token)
          /\ Row(tree.right) \in Nat
      BY <1>2, <2>3 DEF Fitting
    <2>6. Closed(tree.left, LeftRow(op)) /\ RowOf(op) = BinaryLevel(op.token) /\ BinaryLevel(op.token) \in 2..6
      BY <2>4, <2>5, ShutCloses, RowsOfLevels, LevelsOfOperators
    <2> HIDE DEF op
    <2>7. CASE BinaryLevel(op.token) = 6
      <3>1. RowOf(op) = 6 /\ ~(RowOf(op) < 6) /\ Closed(tree.left, 5)
        BY <2>6, <2>7 DEF LeftRow
      <3> QED
        BY <3>1, <1>2 DEF BindsByTheTable, op
    <2>8. CASE BinaryLevel(op.token) # 6
      <3>1. RowOf(op) < 6 /\ RowOf(op) # 6 /\ Closed(tree.left, RowOf(op))
        BY <2>6, <2>8 DEF LeftRow
      <3>2. Row(tree.right) < RowOf(op)
        <4>1. RightLevel(op.token) = RowOf(op) - 1
          BY <2>6, <2>8 DEF RightLevel
        <4> QED
          BY <4>1, <2>5, <2>6
      <3> QED
        BY <3>1, <3>2, <1>2 DEF BindsByTheTable, op
    <2> QED
      BY <2>7, <2>8
  <1>3. CASE tree.kind \in {"prefix", "prefix_bracket"}
    <2>1. "operand" \in Required[tree.kind] /\ "operand" \notin Lists
      BY <1>3 DEF Required, Lists
    <2>2. Row(tree.operand) <= 1
      BY <1>3, <2>1, MembersFit DEF Fitting
    <2> QED
      BY <1>3, <2>2 DEF BindsByTheTable
  <1>4. CASE tree.kind = "call"
    <2>1. "callee" \in Required[tree.kind] /\ "callee" \notin Lists
      BY <1>4 DEF Required, Lists
    <2>2. Closed(tree.callee, 0)
      BY <1>4, <2>1, MembersFit, ShutCloses DEF Fitting
    <2> QED
      BY <1>4, <2>2 DEF BindsByTheTable
  <1>5. CASE tree.kind \in {"index", "postfix"}
    <2>1. "operand" \in Required[tree.kind] /\ "operand" \notin Lists
      BY <1>5 DEF Required, Lists
    <2>2. Closed(tree.operand, 0)
      BY <1>5, <2>1, MembersFit, ShutCloses DEF Fitting
    <2> QED
      BY <1>5, <2>2 DEF BindsByTheTable
  <1> QED
    BY <1>1, <1>2, <1>3, <1>4, <1>5

(* At the end of a statement the unit is all there is. *)
LEMMA UnitAlone ==
  ASSUME IInv, PInv, At("unit")
  PROVE  /\ outcome = "parsing" /\ Len(stack) = 1 /\ Translation = Top.node /\ Translation.kind = "unit"
         /\ Form(Translation, Top.todo) /\ Top.todo # << >> /\ Len(tokens) \in Nat
         /\ AllProper(Members(Translation))
  <1>1. /\ outcome = "parsing" /\ Top.todo # << >> /\ Form(Top.node, Top.todo)
        /\ Top.todo[1] = Decide("unit")
    BY AtForm
  <1>2. Top.node.kind = "unit"
    BY <1>1, AtUnit
  <1>3. Activations(stack) /\ Len(stack) \in 1..Len(stack)
    BY PartsBelow DEF IInv
  <1>4. Len(stack) = 1
    BY <1>2, <1>3 DEF Activations, Top
  <1>5. AllProper(Members(Top.node))
    BY <1>1, TopRight DEF Runs, Shape
  <1> QED
    BY <1>1, <1>2, <1>4, <1>5 DEF Translation, Top, IInv, Types

LEMMA NodesOfUnit ==
  ASSUME IInv, PInv, At("unit"), NEW tree \in NodesOf(Translation)
  PROVE  tree = Translation \/ Proper(tree)
  <1> DEFINE trees == Members(Translation)
  <1>1. /\ Translation.kind = "unit" /\ Form(Translation, Top.todo) /\ Len(tokens) \in Nat
        /\ AllProper(trees)
    BY UnitAlone
  <1>2. Opened(Translation) = trees
    BY <1>1 DEF Opened
  <1>3. /\ Levels(<<Translation>>)[0] = <<Translation>>
        /\ \A d \in Nat : Levels(<<Translation>>)[d + 1] = Levels(trees)[d]
    BY <1>2, LevelsOfOne
  <1>4. AllSound(trees)
    BY <1>1, AllFinishedSound DEF Form, NodeFormed
  <1>5. PICK d \in 0..Deepest : tree \in Range(Levels(<<Translation>>)[d])
    BY DEF NodesOf
  <1> HIDE DEF trees
  <1>6. CASE d = 0
    <2>1. tree \in Range(<<Translation>>)
      BY <1>3, <1>5, <1>6
    <2> QED
      BY <2>1 DEF Range
  <1>7. CASE d # 0
    <2>1. d - 1 \in Nat /\ (d - 1) + 1 = d
      BY <1>1, <1>5, <1>7 DEF Deepest
    <2> DEFINE level == Levels(trees)[d - 1]
    <2>2. tree \in Range(level)
      BY <1>3, <1>5, <2>1
    <2>3. IsASequence(level)
      BY <1>4, <2>1, LevelsSequence
    <2>4. DOMAIN level = 1..Len(level)
      BY <2>3, SequenceShape
    <2>5. \A i \in 1..Len(level) : Proper(level[i])
      BY <1>1, <2>1 DEF AllProper
    <2> HIDE DEF level
    <2> QED
      BY <2>2, <2>4, <2>5 DEF Range
  <1> QED
    BY <1>6, <1>7

LEMMA PrecedenceFollows ==
  ASSUME IInv, PInv
  PROVE  PrecedenceHolds
  <1> SUFFICES ASSUME At("unit"), NEW tree \in NodesOf(Translation)
               PROVE  BindsByTheTable(tree)
    BY DEF PrecedenceHolds
  <1>1. Translation.kind = "unit" /\ Len(tokens) \in Nat
    BY UnitAlone
  <1>2. CASE tree = Translation
    BY <1>1, <1>2 DEF BindsByTheTable
  <1>3. CASE Proper(tree)
    BY <1>1, <1>3, ProperBinds
  <1> QED
    BY <1>2, <1>3, NodesOfUnit

(* parse_expression(current_precedence), for every text: each operator of a   *)
(* statement has the operands that the precedence table and the               *)
(* associativities prescribe, and none is applied to what ends in a function, *)
(* whose body takes all that follows it (parser.cpp:374-492).                 *)
THEOREM TableIsFollowed == Spec => []PrecedenceHolds
  <1>1. Init => IInv /\ PInv
    BY InitKeeps, InitRight
  <1>2. IInv /\ PInv /\ [Next]_vars => IInv' /\ PInv'
    BY NextKeeps, NextRight
  <1>3. IInv /\ PInv => PrecedenceHolds
    BY PrecedenceFollows
  <1> QED
    BY <1>1, <1>2, <1>3, PTL DEF Spec

----------------------------------------------------------------------------
(* Each activation runs the function that the one below has called.  PInv     *)
(* says so while parsing; what ends it, or an exception, leaves the stack.    *)

Callees(st) == \A n \in 1..Len(st) - 1 : Builds(st[n].todo[1].what, st[n + 1].node.kind)

LEMMA RunningCallees ==
  ASSUME IInv, PInv, outcome = "parsing"
  PROVE  Callees(stack)
  <1>1. AllRun(stack) /\ Len(stack) \in Nat
    BY PartsBelow DEF PInv, IInv, Activations
  <1>2. ASSUME NEW n \in 1..Len(stack) - 1
        PROVE  Builds(stack[n].todo[1].what, stack[n + 1].node.kind)
    <2>1. n + 1 \in 1..Len(stack) /\ n + 1 # 1 /\ (n + 1) - 1 = n
      BY <1>1
    <2>2. Called(stack, n + 1) = stack[n].todo[1].what
      BY <2>1 DEF Called
    <2>3. Role(stack[n].todo[1].what, stack[n + 1].node.kind, stack[n + 1].todo)
      BY <1>1, <2>1, <2>2 DEF AllRun, Runs
    <2> QED
      BY <2>3 DEF Role, Builds
  <1> QED
    BY <1>2 DEF Callees

LEMMA InitCallees ==
  ASSUME Init
  PROVE  Callees(stack)
  <1>1. IInv /\ PInv /\ outcome = "parsing"
    BY InitKeeps, InitRight DEF Init
  <1> QED
    BY <1>1, RunningCallees

Parsing == outcome = "parsing"

LEMMA AtParsing ==
  ASSUME NEW what, At(what)
  PROVE  Parsing
  BY DEF At, Running, Parsing

LEMMA ContinueGoesOn ==
  ASSUME NEW node, NEW todo, Continue(node, todo)
  PROVE  Parsing => Parsing'
  BY DEF Continue, Parsing

LEMMA DoGoesOn ==
  ASSUME NEW node, NEW steps, Do(node, steps)
  PROVE  Parsing => Parsing'
  BY Zenon, ContinueGoesOn DEF Do

LEMMA GoGoesOn ==
  ASSUME NEW steps, Go(steps)
  PROVE  Parsing => Parsing'
  BY Zenon, DoGoesOn DEF Go

LEMMA RunningParses ==
  ASSUME Running
  PROVE  Parsing
  BY DEF Running, Parsing

LEMMA ThrowKeepsStack ==
  ASSUME NEW exception, Throw(exception)
  PROVE  UNCHANGED stack
  BY DEF Throw

LEMMA ReadersEnd ==
  ASSUME Peeks \/ Expects \/ Accepts \/ Calls \/ Returns
  PROVE  Parsing' \/ UNCHANGED stack
  <1>1. CASE Peeks
    BY <1>1, ThrowKeepsStack DEF Peeks
  <1>2. CASE Expects
    BY <1>2, Zenon, RunningParses, DoGoesOn, ThrowKeepsStack DEF Expects
  <1>3. CASE Accepts
    BY <1>3, Zenon, RunningParses, DoGoesOn, GoGoesOn DEF Accepts
  <1>4. CASE Calls
    <2>1. Running /\ UNCHANGED <<input, tokens, ahead, outcome>>
      BY <1>4, Zenon DEF Calls
    <2> QED
      BY <2>1, RunningParses DEF Parsing
  <1>5. CASE Returns
    <2>1. outcome = "parsing" /\ UNCHANGED <<input, tokens, ahead, outcome>>
      BY <1>5, Zenon DEF Returns
    <2> QED
      BY <2>1 DEF Parsing
  <1> QED
    BY <1>1, <1>2, <1>3, <1>4, <1>5

LEMMA StatementsEnd ==
  ASSUME NextStatement \/ ChooseStatement \/ BlockStatement \/ BlockExpressionItem
         \/ EndOfBlock \/ BlockSemicolon \/ BlockTail
  PROVE  Parsing'
  BY Zenon, AtParsing, DoGoesOn, GoGoesOn
     DEF NextStatement, ChooseStatement, Become, BlockStatement, BlockExpressionItem, EndOfBlock,
         BlockSemicolon, BlockTail

LEMMA OperatorsEnd ==
  ASSUME PrefixOperator \/ PrefixBracket \/ Size \/ PrimaryOperand \/ Call \/ Index
         \/ Dereference \/ EndOfPostfix \/ Infix \/ EndOfInfix
  PROVE  Parsing'
  BY Zenon, AtParsing, DoGoesOn, GoGoesOn
     DEF PrefixOperator, PrefixBracket, Size, PrimaryOperand, Call, Index, Dereference,
         EndOfPostfix, Infix, EndOfInfix

LEMMA ListsEnd ==
  ASSUME NextArgument \/ ArgumentComma \/ NextParameter \/ ParameterComma
  PROVE  Parsing'
  BY Zenon, AtParsing, DoGoesOn, GoGoesOn, NextOfEither, CommaOfEither
     DEF NextArgument, ArgumentComma, NextParameter, ParameterComma

LEMMA PrimariesEnd ==
  ASSUME Atom \/ Composite \/ NotAnExpression \/ NextElse \/ ElseIf
  PROVE  Parsing' \/ UNCHANGED stack
  BY Zenon, AtParsing, DoGoesOn, GoGoesOn, ThrowKeepsStack
     DEF Atom, Composite, NotAnExpression, NextElse, ElseIf, Become

(* An action that changes the stack goes on parsing. *)
LEMMA EndsAsItIs ==
  ASSUME [Next]_vars, ~Parsing'
  PROVE  UNCHANGED stack
  <1>1. CASE UNCHANGED vars
    BY <1>1 DEF vars
  <1>2. CASE EndOfUnit \/ Done
    BY <1>2 DEF EndOfUnit, Done, vars
  <1> QED
    BY <1>1, <1>2, Zenon, ReadersEnd, StatementsEnd, OperatorsEnd, ListsEnd, PrimariesEnd DEF Next

LEMMA TypesFollow ==
  ASSUME IInv, Callees(stack)
  PROVE  TypeOK
  <1>1. Types /\ Activations(stack) /\ Len(stack) \in Nat /\ Len(stack) >= 1
        /\ DOMAIN stack = 1..Len(stack)
    BY PartsBelow, SequenceShape DEF IInv, Activations
  <1>2. stack # << >> /\ Translation.kind = "unit"
    BY <1>1 DEF Activations, Translation
  <1>3. ASSUME NEW n \in DOMAIN stack
        PROVE  /\ stack[n].node.kind \in DOMAIN Written
               /\ stack[n].level \in 0..AnyLevel
               /\ n < Len(stack) => LET call == Head(stack[n].todo)
                                   IN  /\ call.do = "parse" /\ call.level = stack[n + 1].level
                                       /\ Builds(call.what, stack[n + 1].node.kind)
    <2>1. ActivationFormed(stack[n]) /\ Waits(stack, n)
      BY <1>1 DEF Activations
    <2>2. IsASequence(stack[n].todo) /\ stack[n].node.kind \in DOMAIN Written
      BY <2>1 DEF ActivationFormed, Form, StepsInTurn, NodeFormed
    <2>3. stack[n].todo # << >> => Head(stack[n].todo) = stack[n].todo[1]
      BY <2>2, TailSteps
    <2>4. n < Len(stack) => n \in 1..Len(stack) - 1
      BY <1>1
    <2>5. n < Len(stack) => Builds(stack[n].todo[1].what, stack[n + 1].node.kind)
      BY <2>4 DEF Callees
    <2> QED
      BY <2>1, <2>2, <2>3, <2>5 DEF ActivationFormed, Waits
  <1> QED
    BY <1>1, <1>2, <1>3 DEF TypeOK, Types, Tokens

(* parse_translation_unit() and everything it calls, whatever the tokens are: *)
(* every activation but the innermost waits in a call; the one above it is at *)
(* the precedence level passed (parser.h:23) and builds a node that the       *)
(* function called may return, whatever the tokens have made of it so far.    *)
THEOREM TypesHold == Spec => []TypeOK
  <1>1. Init => IInv /\ PInv /\ Callees(stack)
    BY InitKeeps, InitRight, InitCallees
  <1>2. IInv /\ PInv /\ [Next]_vars => IInv' /\ PInv'
    BY NextKeeps, NextRight
  <1>3. IInv /\ PInv /\ Parsing => Callees(stack)
    BY RunningCallees DEF Parsing
  <1>4. Callees(stack) /\ [Next]_vars /\ ~Parsing' => Callees(stack)'
    BY EndsAsItIs
  <1>5. IInv /\ Callees(stack) => TypeOK
    BY TypesFollow
  <1> QED
    BY <1>1, <1>2, <1>3, <1>4, <1>5, PTL DEF Spec

----------------------------------------------------------------------------
(* The parts of a row of trees are taken apart as the row is.                 *)

LEMMA SoundParts ==
  ASSUME NEW s, IsASequence(s), NEW t, IsASequence(t), SoundEach(Join(s, t))
  PROVE  SoundEach(s) /\ SoundEach(t)
  <1> DEFINE c == Join(s, t)
  <1>1. /\ Len(s) \in Nat /\ Len(t) \in Nat /\ Len(c) = Len(s) + Len(t)
        /\ \A i \in 1..Len(s) : c[i] = s[i]
        /\ \A i \in 1..Len(t) : c[Len(s) + i] = t[i]
    BY JoinParts
  <1>2. \A i \in 1..Len(c) : Sound(c[i])
    BY DEF SoundEach
  <1> HIDE DEF c
  <1>3. \A i \in 1..Len(s) : i \in 1..Len(c)
    BY <1>1
  <1>4. \A i \in 1..Len(t) : Len(s) + i \in 1..Len(c)
    BY <1>1
  <1>5. /\ \A i \in 1..Len(s) : Sound(s[i])
        /\ \A i \in 1..Len(t) : Sound(t[i])
    BY <1>1, <1>2, <1>3, <1>4
  <1> QED
    BY <1>5 DEF SoundEach

LEMMA LeavesParts ==
  ASSUME NEW s, IsASequence(s), NEW t, IsASequence(t), AllLeaves(Join(s, t))
  PROVE  AllLeaves(s) /\ AllLeaves(t)
  <1> DEFINE c == Join(s, t)
  <1>1. /\ Len(s) \in Nat /\ Len(t) \in Nat /\ Len(c) = Len(s) + Len(t)
        /\ \A i \in 1..Len(s) : c[i] = s[i]
        /\ \A i \in 1..Len(t) : c[Len(s) + i] = t[i]
    BY JoinParts
  <1>2. \A i \in 1..Len(c) : c[i].kind = "lexeme"
    BY DEF AllLeaves
  <1> HIDE DEF c
  <1>3. \A i \in 1..Len(s) : i \in 1..Len(c)
    BY <1>1
  <1>4. \A i \in 1..Len(t) : Len(s) + i \in 1..Len(c)
    BY <1>1
  <1>5. /\ \A i \in 1..Len(s) : s[i].kind = "lexeme"
        /\ \A i \in 1..Len(t) : t[i].kind = "lexeme"
    BY <1>1, <1>2, <1>3, <1>4
  <1> QED
    BY <1>5 DEF AllLeaves

LEMMA AllSoundParts ==
  ASSUME NEW s, IsASequence(s), NEW t, IsASequence(t), AllSound(Join(s, t))
  PROVE  AllSound(s) /\ AllSound(t)
  <1> DEFINE c == Join(s, t)
             T == {d \in Nat : /\ SoundEach(Levels(s)[d]) /\ SoundEach(Levels(t)[d])
                               /\ Levels(c)[d] = Join(Levels(s)[d], Levels(t)[d])}
  <1>1. 0 \in T
    <2>1. Levels(c)[0] = c /\ Levels(s)[0] = s /\ Levels(t)[0] = t
      BY LevelsUnfold
    <2>2. SoundEach(Levels(c)[0])
      BY DEF AllSound
    <2>3. SoundEach(s) /\ SoundEach(t)
      BY <2>1, <2>2, SoundParts
    <2> QED
      BY <2>1, <2>3
  <1>2. ASSUME NEW d \in Nat, d \in T
        PROVE  d + 1 \in T
    <2> DEFINE u == Levels(s)[d]  v == Levels(t)[d]
    <2>1. SoundEach(u) /\ SoundEach(v) /\ Levels(c)[d] = Join(u, v)
      BY <1>2
    <2>2. /\ Levels(s)[d + 1] = Expanded(u) /\ Levels(t)[d + 1] = Expanded(v)
          /\ Levels(c)[d + 1] = Expanded(Join(u, v))
      BY <2>1, LevelsUnfold
    <2>3. SoundEach(Levels(c)[d + 1])
      BY DEF AllSound
    <2> HIDE DEF u, v, c, T
    <2>4. Expanded(Join(u, v)) = Join(Expanded(u), Expanded(v))
      BY <2>1, ExpandedJoined
    <2>5. IsASequence(Expanded(u)) /\ IsASequence(Expanded(v))
      BY <2>1, OpeningsFormed
    <2>6. SoundEach(Join(Expanded(u), Expanded(v)))
      BY <2>2, <2>3, <2>4
    <2>7. SoundEach(Expanded(u)) /\ SoundEach(Expanded(v))
      BY <2>5, <2>6, SoundParts
    <2> QED
      BY <2>2, <2>4, <2>7 DEF T
  <1> HIDE DEF T
  <1>3. Nat \subseteq T
    BY <1>1, <1>2, SetInduction
  <1> QED
    BY <1>3 DEF T, AllSound

(* The leaves of a tree: there is one at least.                               *)
LEMMA LeavesOfTree ==
  ASSUME NEW tree, Finished(tree), NEW n \in Nat, AllLeaves(Levels(<<tree>>)[n])
  PROVE  /\ IsASequence(Levels(<<tree>>)[n])
         /\ Len(Levels(<<tree>>)[n]) \in Nat \ {0}
         /\ \A e \in Nat : e >= n => Levels(<<tree>>)[e] = Levels(<<tree>>)[n]
  <1> DEFINE row == <<tree>>
  <1>1. AllSound(row) /\ Len(row) = 1 /\ Shallow(row) /\ Levels(row)[0] = row
    BY SoundOfFinished, LevelsUnfold DEF Finished, Sound
  <1> HIDE DEF row
  <1>2. PICK d \in Nat : d <= Len(Levels(row)[d]) /\ AllLeaves(Levels(row)[d])
    BY <1>1 DEF Shallow
  <1>3. /\ IsASequence(Levels(row)[n]) /\ IsASequence(Levels(row)[d])
        /\ Len(Levels(row)[n]) \in Nat /\ Len(Levels(row)[d]) \in Nat
    BY <1>1, LevelsSequence
  <1>4. AllLeaves(Levels(row)[n])
    BY DEF row
  <1>5. \A e \in Nat : e >= n => Levels(row)[e] = Levels(row)[n]
    BY <1>3, <1>4, LeavesStay
  <1>6. \A e \in Nat : e >= d => Levels(row)[e] = Levels(row)[d]
    BY <1>2, <1>3, LeavesStay
  <1>7. Levels(row)[n] = Levels(row)[d]
    <2>1. n >= d \/ d >= n
      OBVIOUS
    <2> QED
      BY <2>1, <1>5, <1>6
  <1>8. Len(Levels(row)[d]) # 0
    BY <1>1, <1>2, <1>3
  <1>9. Len(Levels(row)[n]) \in Nat \ {0}
    BY <1>3, <1>7, <1>8
  <1> QED
    BY <1>3, <1>5, <1>9 DEF row

(* The first or the last of a row. *)
Extreme(row, side) == IF side = 1 THEN row[1] ELSE row[Len(row)]

LEMMA ExtremesOfJoin ==
  ASSUME NEW s, IsASequence(s), NEW t, IsASequence(t)
  PROVE  /\ Len(s) # 0 => Extreme(Join(s, t), 1) = Extreme(s, 1)
         /\ Len(t) # 0 => Extreme(Join(s, t), 2) = Extreme(t, 2) /\ Len(Join(s, t)) # 0
  <1> DEFINE c == Join(s, t)
  <1>1. /\ Len(s) \in Nat /\ Len(t) \in Nat /\ Len(c) = Len(s) + Len(t)
        /\ \A i \in 1..Len(s) : c[i] = s[i]
        /\ \A i \in 1..Len(t) : c[Len(s) + i] = t[i]
    BY JoinParts
  <1> HIDE DEF c
  <1>2. Len(s) # 0 => 1 \in 1..Len(s)
    BY <1>1
  <1>3. Len(t) # 0 => Len(t) \in 1..Len(t) /\ Len(c) # 0
    BY <1>1
  <1>4. /\ Len(s) # 0 => Extreme(c, 1) = Extreme(s, 1)
        /\ Len(t) # 0 => Extreme(c, 2) = Extreme(t, 2) /\ Len(c) # 0
    BY <1>1, <1>2, <1>3 DEF Extreme
  <1> QED
    BY <1>4 DEF c

LEMMA ExtremesOfParts ==
  ASSUME NEW a, IsASequence(a), NEW v, IsASequence(v), Len(v) # 0, NEW b, IsASequence(b)
  PROVE  /\ a = << >> => Extreme(Join(a, Join(v, b)), 1) = Extreme(v, 1)
         /\ b = << >> => Extreme(Join(a, Join(v, b)), 2) = Extreme(v, 2)
  <1>1. IsASequence(Join(v, b))
    BY JoinSequence
  <1>2. ASSUME a = << >>
        PROVE  Extreme(Join(a, Join(v, b)), 1) = Extreme(v, 1)
    <2>1. Join(a, Join(v, b)) = Join(v, b)
      BY <1>1, <1>2, JoinEmpty
    <2> QED
      BY <2>1, ExtremesOfJoin
  <1>3. ASSUME b = << >>
        PROVE  Extreme(Join(a, Join(v, b)), 2) = Extreme(v, 2)
    <2>1. Join(v, b) = v
      BY <1>3, JoinEmpty
    <2> QED
      BY <2>1, ExtremesOfJoin
  <1> QED
    BY <1>2, <1>3

LEMMA RowParts ==
  ASSUME NEW a, IsASequence(a), NEW x, NEW b, IsASequence(b),
         NEW row, row = Join(a, Join(<<x>>, b)), AllSound(row), NEW n \in Nat, AllLeaves(Levels(row)[n])
  PROVE  /\ Finished(x) /\ AllLeaves(Levels(<<x>>)[n])
         /\ AllProper(row) => AllProper(<<x>>)
         /\ a = << >> => Extreme(Levels(row)[n], 1) = Extreme(Levels(<<x>>)[n], 1)
         /\ b = << >> => Extreme(Levels(row)[n], 2) = Extreme(Levels(<<x>>)[n], 2)
  <1> DEFINE one == <<x>>
             w == Join(one, b)
  <1>1. IsASequence(one)
    BY OneSequence
  <1>2. IsASequence(w) /\ row = Join(a, w)
    BY <1>1, JoinSequence
  <1> HIDE DEF one
  <1>3. AllSound(a) /\ AllSound(w)
    BY <1>2, AllSoundParts
  <1>4. AllSound(one) /\ AllSound(b)
    BY <1>1, <1>3, AllSoundParts
  <1>5. AllProper(row) => AllProper(one)
    BY <1>2, <1>3, <1>4, ProperJoined
  <1> DEFINE ls == Levels(a)[n]  ms == Levels(one)[n]  rs == Levels(b)[n]
  <1>6. Levels(w)[n] = Join(ms, rs)
    BY <1>4, LevelsJoined
  <1> HIDE DEF w
  <1>7. Levels(row)[n] = Join(ls, Levels(w)[n])
    BY <1>2, <1>3, LevelsJoined
  <1>8. IsASequence(ls) /\ IsASequence(ms) /\ IsASequence(rs)
    BY <1>3, <1>4, LevelsSequence
  <1> HIDE DEF ls, ms, rs
  <1>9. Levels(row)[n] = Join(ls, Join(ms, rs)) /\ IsASequence(Join(ms, rs))
    BY <1>6, <1>7, <1>8, JoinSequence
  <1>10. AllLeaves(Join(ls, Join(ms, rs)))
    BY <1>9
  <1>11. AllLeaves(Join(ms, rs))
    BY <1>8, <1>9, <1>10, LeavesParts
  <1>12. AllLeaves(ms)
    BY <1>8, <1>11, LeavesParts
  <1>13. Finished(x) /\ AllLeaves(Levels(<<x>>)[n])
    BY <1>4, <1>12 DEF Finished, one, ms
  <1>14. Len(ms) # 0
    BY <1>13, LeavesOfTree DEF ms, one
  <1>15. a = << >> => ls = << >>
    BY NoTrees DEF ls
  <1>16. b = << >> => rs = << >>
    BY NoTrees DEF rs
  <1>17. /\ ls = << >> => Extreme(Levels(row)[n], 1) = Extreme(ms, 1)
         /\ rs = << >> => Extreme(Levels(row)[n], 2) = Extreme(ms, 2)
    BY <1>8, <1>9, <1>14, ExtremesOfParts
  <1> QED
    BY <1>5, <1>13, <1>15, <1>16, <1>17 DEF ms, one

----------------------------------------------------------------------------
(* A node of a finished statement, with leaves at this level at most.         *)
Heir(tree, n) == Finished(tree) /\ AllProper(<<tree>>) /\ AllLeaves(Levels(<<tree>>)[n])
Leaves(tree, n) == Levels(<<tree>>)[n]

LEMMA HeirLater ==
  ASSUME NEW tree, NEW n \in Nat, Heir(tree, n)
  PROVE  Heir(tree, n + 1) /\ Leaves(tree, n + 1) = Leaves(tree, n)
  <1>1. n + 1 \in Nat /\ n + 1 >= n
    OBVIOUS
  <1>2. Levels(<<tree>>)[n + 1] = Levels(<<tree>>)[n]
    BY <1>1, LeavesOfTree DEF Heir
  <1> QED
    BY <1>2 DEF Heir, Leaves

LEMMA HeirLeaf ==
  ASSUME NEW tree, tree.kind = "lexeme", NEW n \in Nat
  PROVE  Heir(tree, n) /\ Leaves(tree, n) = <<tree>>
  <1> DEFINE one == <<tree>>
  <1>1. Len(one) = 1 /\ one[1] = tree /\ Finished(tree) /\ Levels(one)[n] = one
    BY FinishedLeaf
  <1>2. AllProper(one)
    BY ProperLeaf
  <1> HIDE DEF one
  <1>3. AllLeaves(one)
    BY <1>1 DEF AllLeaves
  <1> QED
    BY <1>1, <1>2, <1>3 DEF Heir, Leaves, one

LEMMA HeirAtOnce ==
  ASSUME NEW tree, Heir(tree, 0)
  PROVE  tree.kind = "lexeme" /\ Leaves(tree, 0) = <<tree>>
  <1> DEFINE one == <<tree>>
  <1>1. Len(one) = 1 /\ one[1] = tree /\ Levels(one)[0] = one
    BY LevelsUnfold
  <1>2. AllLeaves(Levels(one)[0])
    BY DEF Heir
  <1> HIDE DEF one
  <1>3. 1 \in 1..Len(one)
    BY <1>1
  <1>4. tree.kind = "lexeme"
    BY <1>1, <1>2, <1>3 DEF AllLeaves
  <1> QED
    BY <1>1, <1>4 DEF Leaves, one

LEMMA HeirMember ==
  ASSUME NEW tree, NEW n \in Nat, Heir(tree, n), tree.kind # "lexeme",
         NEW a, IsASequence(a), NEW x, NEW b, IsASequence(b),
         Members(tree) = Join(a, Join(<<x>>, b))
  PROVE  /\ n - 1 \in Nat /\ Heir(x, n - 1)
         /\ a = << >> => Extreme(Leaves(tree, n), 1) = Extreme(Leaves(x, n - 1), 1)
         /\ b = << >> => Extreme(Leaves(tree, n), 2) = Extreme(Leaves(x, n - 1), 2)
  <1>1. n # 0
    BY HeirAtOnce
  <1>2. n - 1 \in Nat /\ (n - 1) + 1 = n
    BY <1>1
  <1> DEFINE row == Members(tree)  k == n - 1
  <1>3. /\ Levels(<<tree>>)[0] = <<tree>>
        /\ \A d \in Nat : Levels(<<tree>>)[d + 1] = Levels(row)[d]
    BY LevelsOfOne DEF Opened
  <1>4. AllSound(row)
    BY <1>3 DEF Heir, Finished, AllSound
  <1>5. AllProper(row)
    BY ProperNode DEF Heir
  <1>6. Leaves(tree, n) = Levels(row)[k]
    BY <1>2, <1>3 DEF Leaves
  <1>7. AllLeaves(Levels(row)[k])
    BY <1>6 DEF Heir, Leaves
  <1>8. row = Join(a, Join(<<x>>, b)) /\ k \in Nat
    BY <1>2
  <1> HIDE DEF row, k
  <1>9. /\ Finished(x) /\ AllLeaves(Levels(<<x>>)[k])
        /\ AllProper(row) => AllProper(<<x>>)
        /\ a = << >> => Extreme(Levels(row)[k], 1) = Extreme(Levels(<<x>>)[k], 1)
        /\ b = << >> => Extreme(Levels(row)[k], 2) = Extreme(Levels(<<x>>)[k], 2)
    BY <1>4, <1>7, <1>8, RowParts
  <1>10. /\ Heir(x, k)
         /\ a = << >> => Extreme(Leaves(tree, n), 1) = Extreme(Leaves(x, k), 1)
         /\ b = << >> => Extreme(Leaves(tree, n), 2) = Extreme(Leaves(x, k), 2)
    BY <1>5, <1>6, <1>9 DEF Heir, Leaves
  <1> QED
    BY <1>2, <1>10 DEF k

(* What is written first in a node, and what is written last.                 *)
LEMMA WrittenFirst ==
  ASSUME NEW node, node.kind \in DOMAIN Written, ListsFormed(node), NEW m, m \notin Lists,
         m \in DOMAIN node, Len(Written[node.kind]) # 0, Written[node.kind][1] = m
  PROVE  \E b : IsASequence(b) /\ Members(node) = Join(<< >>, Join(<<node[m]>>, b))
  <1> DEFINE w == Written[node.kind]  p == Places(node)
             f == <<Member(node, m)>>
             r == [i \in 1..Len(w) - 1 |-> p[i + 1]]
  <1>1. /\ AllSequences(p) /\ Len(p) = Len(w) /\ Len(w) \in Nat
        /\ \A i \in 1..Len(w) : p[i] = Member(node, w[i])
        /\ Members(node) = FlattenSeq(p)
    BY PlacesFormed, WrittenLength
  <1>2. Member(node, m) = <<node[m]>> /\ w[1] = m /\ Len(w) # 0
    BY MemberIs
  <1>3. Len(w) - 1 \in Nat
    BY <1>1, <1>2
  <1>4. IsASequence(r) /\ Len(r) = Len(w) - 1 /\ \A i \in 1..Len(r) : r[i] = p[i + 1]
    <2>1. r = [i \in 1..Len(w) - 1 |-> r[i]]
      OBVIOUS
    <2>2. \A i \in 1..Len(w) - 1 : r[i] = p[i + 1]
      OBVIOUS
    <2> HIDE DEF r, p, w
    <2> QED
      BY <1>3, <2>1, <2>2, MadeASequence
  <1>5. /\ IsASequence(f) /\ Len(f) = 1 /\ f[1] = Member(node, m) /\ FlattenSeq(f) = Member(node, m)
    BY OneSequence, FlattenedOne
  <1>6. IsASequence(Member(node, m))
    BY MemberSequence
  <1> HIDE DEF w, p, f, r
  <1>7. AllSequences(f)
    BY <1>5, <1>6 DEF AllSequences
  <1>8. AllSequences(r)
    <2>1. \A i \in 1..Len(r) : i + 1 \in 1..Len(p)
      BY <1>1, <1>4
    <2> QED
      BY <1>1, <1>4, <2>1 DEF AllSequences
  <1>9. p = Join(f, r)
    <2>4. IsASequence(f) /\ IsASequence(r)
      BY <1>4, <1>5
    <2>1. /\ IsASequence(Join(f, r)) /\ Len(Join(f, r)) = Len(f) + Len(r)
          /\ \A i \in 1..Len(f) : Join(f, r)[i] = f[i]
          /\ \A i \in 1..Len(r) : Join(f, r)[Len(f) + i] = r[i]
      BY <2>4, JoinSequence
    <2>2. IsASequence(p) /\ Len(p) = Len(Join(f, r))
      BY <1>1, <1>4, <1>5, <2>1 DEF AllSequences
    <2>3. ASSUME NEW i \in 1..Len(p)
          PROVE  p[i] = Join(f, r)[i]
      <3>1. CASE i = 1
        <4>1. 1 \in 1..Len(f) /\ 1 \in 1..Len(w)
          BY <1>1, <1>2, <1>5
        <4>2. p[1] = Member(node, m) /\ Join(f, r)[1] = f[1]
          BY <4>1, <1>1, <1>2, <2>1
        <4> QED
          BY <4>2, <3>1, <1>5
      <3>2. CASE i # 1
        <4>1. i - 1 \in 1..Len(r) /\ Len(f) + (i - 1) = i /\ (i - 1) + 1 = i
          BY <3>2, <1>1, <1>4, <1>5
        <4>2. Join(f, r)[Len(f) + (i - 1)] = r[i - 1] /\ r[i - 1] = p[(i - 1) + 1]
          BY <4>1, <2>1, <1>4
        <4> QED
          BY <4>1, <4>2
      <3> QED
        BY <3>1, <3>2
    <2> QED
      BY <2>1, <2>2, <2>3, SameSequence
  <1>10. Members(node) = Join(Member(node, m), FlattenSeq(r))
    BY <1>1, <1>5, <1>7, <1>8, <1>9, FlattenedJoin
  <1>11. IsASequence(FlattenSeq(r))
    BY <1>8, FlattenedSequence
  <1>12. Join(<< >>, Join(Member(node, m), FlattenSeq(r))) = Join(Member(node, m), FlattenSeq(r))
    BY <1>6, <1>11, JoinSequence, JoinEmpty
  <1> QED
    BY <1>2, <1>10, <1>11, <1>12

LEMMA WrittenLast ==
  ASSUME NEW node, node.kind \in DOMAIN Written, ListsFormed(node), Len(Written[node.kind]) # 0,
         NEW m, Written[node.kind][Len(Written[node.kind])] = m
  PROVE  \E a : IsASequence(a) /\ Members(node) = Join(a, Member(node, m)) /\ IsASequence(Member(node, m))
  <1> DEFINE p == Places(node)
  <1>1. /\ AllSequences(p) /\ Len(p) = Len(Written[node.kind]) /\ Len(p) \in Nat /\ Len(p) # 0
        /\ \A i \in 1..Len(p) : p[i] = Member(node, Written[node.kind][i])
        /\ Members(node) = FlattenSeq(p)
    BY PlacesFormed, WrittenLength
  <1>2. Len(p) \in 1..Len(p) /\ p # << >>
    BY <1>1, EmptySequence
  <1>3. p[Len(p)] = Member(node, m)
    BY <1>1, <1>2
  <1> HIDE DEF p
  <1>4. /\ AllSequences(Front(p)) /\ IsASequence(p[Len(p)])
        /\ FlattenSeq(p) = FlattenSeq(Front(p)) \o p[Len(p)]
    BY <1>1, <1>2, FrontOfAll
  <1>5. IsASequence(FlattenSeq(Front(p)))
    BY <1>4, FlattenedSequence
  <1>6. Members(node) = Join(FlattenSeq(Front(p)), Member(node, m))
    BY <1>1, <1>3, <1>4 DEF Join
  <1> QED
    BY <1>3, <1>4, <1>5, <1>6

LEMMA WrittenAtTheEnd ==
  ASSUME NEW node, node.kind \in DOMAIN Written, ListsFormed(node), Len(Written[node.kind]) # 0,
         NEW m, Written[node.kind][Len(Written[node.kind])] = m, m \notin Lists, m \in DOMAIN node
  PROVE  \E a : IsASequence(a) /\ Members(node) = Join(a, Join(<<node[m]>>, << >>))
  <1>1. PICK a : IsASequence(a) /\ Members(node) = Join(a, Member(node, m))
    BY WrittenLast
  <1>2. Member(node, m) = <<node[m]>>
    BY MemberIs
  <1>3. Join(<<node[m]>>, << >>) = <<node[m]>>
    BY OneSequence, JoinEmpty
  <1> QED
    BY <1>1, <1>2, <1>3

----------------------------------------------------------------------------
(* The hull of a node begins with what is written first in it and ends with   *)
(* what is written last.                                                      *)
SpannedKinds == ExpressionKinds \cup StatementKinds

LEMMA SpannedKindsAre ==
  SpannedKinds = {"let", "return", "while", "expression_statement", "atom", "paren", "block", "if", "fn", "prefix", "prefix_bracket", "call", "index", "postfix", "binary"}
  BY DEF SpannedKinds, ExpressionKinds, StatementKinds, PrimaryKinds

LEMMA FirstOfHull ==
  ASSUME NEW node, node.kind \in SpannedKinds
  PROVE  \E m \in Required[node.kind] :
           /\ m \notin Lists /\ m # "kind" /\ Hull(node)[1] = node[m]
           /\ Len(Written[node.kind]) # 0 /\ Written[node.kind][1] = m
  <1>1. CASE node.kind = "let"
    <2>1. Hull(node)[1] = node.kw_let
      BY <1>1 DEF Hull
    <2>2. "kw_let" \in Required["let"] /\ "kw_let" \notin Lists
      BY DEF Required, Lists
    <2>3. Len(Written["let"]) # 0 /\ Written["let"][1] = "kw_let"
      BY WrittenOf
    <2> QED
      BY <1>1, <2>1, <2>2, <2>3
  <1>2. CASE node.kind = "return"
    <2>1. Hull(node)[1] = node.kw_return
      BY <1>2 DEF Hull
    <2>2. "kw_return" \in Required["return"] /\ "kw_return" \notin Lists
      BY DEF Required, Lists
    <2>3. Len(Written["return"]) # 0 /\ Written["return"][1] = "kw_return"
      BY WrittenOf
    <2> QED
      BY <1>2, <2>1, <2>2, <2>3
  <1>3. CASE node.kind = "while"
    <2>1. Hull(node)[1] = node.kw_while
      BY <1>3 DEF Hull
    <2>2. "kw_while" \in Required["while"] /\ "kw_while" \notin Lists
      BY DEF Required, Lists
    <2>3. Len(Written["while"]) # 0 /\ Written["while"][1] = "kw_while"
      BY WrittenOf
    <2> QED
      BY <1>3, <2>1, <2>2, <2>3
  <1>4. CASE node.kind = "expression_statement"
    <2>1. Hull(node)[1] = node.expression
      BY <1>4 DEF Hull
    <2>2. "expression" \in Required["expression_statement"] /\ "expression" \notin Lists
      BY DEF Required, Lists
    <2>3. Len(Written["expression_statement"]) # 0 /\ Written["expression_statement"][1] = "expression"
      BY WrittenOf
    <2> QED
      BY <1>4, <2>1, <2>2, <2>3
  <1>5. CASE node.kind = "atom"
    <2>1. Hull(node)[1] = node.lexeme
      BY <1>5 DEF Hull
    <2>2. "lexeme" \in Required["atom"] /\ "lexeme" \notin Lists
      BY DEF Required, Lists
    <2>3. Len(Written["atom"]) # 0 /\ Written["atom"][1] = "lexeme"
      BY WrittenOf
    <2> QED
      BY <1>5, <2>1, <2>2, <2>3
  <1>6. CASE node.kind = "paren"
    <2>1. Hull(node)[1] = node.lparen
      BY <1>6 DEF Hull
    <2>2. "lparen" \in Required["paren"] /\ "lparen" \notin Lists
      BY DEF Required, Lists
    <2>3. Len(Written["paren"]) # 0 /\ Written["paren"][1] = "lparen"
      BY WrittenOf
    <2> QED
      BY <1>6, <2>1, <2>2, <2>3
  <1>7. CASE node.kind = "block"
    <2>1. Hull(node)[1] = node.lbrace
      BY <1>7 DEF Hull
    <2>2. "lbrace" \in Required["block"] /\ "lbrace" \notin Lists
      BY DEF Required, Lists
    <2>3. Len(Written["block"]) # 0 /\ Written["block"][1] = "lbrace"
      BY WrittenOf
    <2> QED
      BY <1>7, <2>1, <2>2, <2>3
  <1>8. CASE node.kind = "if"
    <2>1. Hull(node)[1] = node.kw_if
      BY <1>8 DEF Hull
    <2>2. "kw_if" \in Required["if"] /\ "kw_if" \notin Lists
      BY DEF Required, Lists
    <2>3. Len(Written["if"]) # 0 /\ Written["if"][1] = "kw_if"
      BY WrittenOf
    <2> QED
      BY <1>8, <2>1, <2>2, <2>3
  <1>9. CASE node.kind = "fn"
    <2>1. Hull(node)[1] = node.kw_fn
      BY <1>9 DEF Hull
    <2>2. "kw_fn" \in Required["fn"] /\ "kw_fn" \notin Lists
      BY DEF Required, Lists
    <2>3. Len(Written["fn"]) # 0 /\ Written["fn"][1] = "kw_fn"
      BY WrittenOf
    <2> QED
      BY <1>9, <2>1, <2>2, <2>3
  <1>10. CASE node.kind = "prefix"
    <2>1. Hull(node)[1] = node.op
      BY <1>10 DEF Hull
    <2>2. "op" \in Required["prefix"] /\ "op" \notin Lists
      BY DEF Required, Lists
    <2>3. Len(Written["prefix"]) # 0 /\ Written["prefix"][1] = "op"
      BY WrittenOf
    <2> QED
      BY <1>10, <2>1, <2>2, <2>3
  <1>11. CASE node.kind = "prefix_bracket"
    <2>1. Hull(node)[1] = node.lbracket
      BY <1>11 DEF Hull
    <2>2. "lbracket" \in Required["prefix_bracket"] /\ "lbracket" \notin Lists
      BY DEF Required, Lists
    <2>3. Len(Written["prefix_bracket"]) # 0 /\ Written["prefix_bracket"][1] = "lbracket"
      BY WrittenOf
    <2> QED
      BY <1>11, <2>1, <2>2, <2>3
  <1>12. CASE node.kind = "call"
    <2>1. Hull(node)[1] = node.callee
      BY <1>12 DEF Hull
    <2>2. "callee" \in Required["call"] /\ "callee" \notin Lists
      BY DEF Required, Lists
    <2>3. Len(Written["call"]) # 0 /\ Written["call"][1] = "callee"
      BY WrittenOf
    <2> QED
      BY <1>12, <2>1, <2>2, <2>3
  <1>13. CASE node.kind = "index"
    <2>1. Hull(node)[1] = node.operand
      BY <1>13 DEF Hull
    <2>2. "operand" \in Required["index"] /\ "operand" \notin Lists
      BY DEF Required, Lists
    <2>3. Len(Written["index"]) # 0 /\ Written["index"][1] = "operand"
      BY WrittenOf
    <2> QED
      BY <1>13, <2>1, <2>2, <2>3
  <1>14. CASE node.kind = "postfix"
    <2>1. Hull(node)[1] = node.operand
      BY <1>14 DEF Hull
    <2>2. "operand" \in Required["postfix"] /\ "operand" \notin Lists
      BY DEF Required, Lists
    <2>3. Len(Written["postfix"]) # 0 /\ Written["postfix"][1] = "operand"
      BY WrittenOf
    <2> QED
      BY <1>14, <2>1, <2>2, <2>3
  <1>15. CASE node.kind = "binary"
    <2>1. Hull(node)[1] = node.left
      BY <1>15 DEF Hull
    <2>2. "left" \in Required["binary"] /\ "left" \notin Lists
      BY DEF Required, Lists
    <2>3. Len(Written["binary"]) # 0 /\ Written["binary"][1] = "left"
      BY WrittenOf
    <2> QED
      BY <1>15, <2>1, <2>2, <2>3
  <1> QED
    BY <1>1, <1>2, <1>3, <1>4, <1>5, <1>6, <1>7, <1>8, <1>9, <1>10, <1>11, <1>12, <1>13, <1>14, <1>15, SpannedKindsAre

LEMMA LastOfHull ==
  ASSUME NEW node, node.kind \in SpannedKinds, node.kind \notin {"while", "if"}
  PROVE  \E m \in Required[node.kind] :
           /\ m \notin Lists /\ m # "kind" /\ Hull(node)[2] = node[m]
           /\ Len(Written[node.kind]) # 0 /\ Written[node.kind][Len(Written[node.kind])] = m
  <1>1. CASE node.kind = "let"
    <2>1. Hull(node)[2] = node.semicolon
      BY <1>1 DEF Hull
    <2>2. "semicolon" \in Required["let"] /\ "semicolon" \notin Lists
      BY DEF Required, Lists
    <2>3. Len(Written["let"]) = 6 /\ Written["let"][6] = "semicolon"
      BY WrittenOf
    <2> QED
      BY <1>1, <2>1, <2>2, <2>3
  <1>2. CASE node.kind = "return"
    <2>1. Hull(node)[2] = node.semicolon
      BY <1>2 DEF Hull
    <2>2. "semicolon" \in Required["return"] /\ "semicolon" \notin Lists
      BY DEF Required, Lists
    <2>3. Len(Written["return"]) = 3 /\ Written["return"][3] = "semicolon"
      BY WrittenOf
    <2> QED
      BY <1>2, <2>1, <2>2, <2>3
  <1>3. CASE node.kind = "expression_statement"
    <2>1. Hull(node)[2] = node.semicolon
      BY <1>3 DEF Hull
    <2>2. "semicolon" \in Required["expression_statement"] /\ "semicolon" \notin Lists
      BY DEF Required, Lists
    <2>3. Len(Written["expression_statement"]) = 2 /\ Written["expression_statement"][2] = "semicolon"
      BY WrittenOf
    <2> QED
      BY <1>3, <2>1, <2>2, <2>3
  <1>4. CASE node.kind = "atom"
    <2>1. Hull(node)[2] = node.lexeme
      BY <1>4 DEF Hull
    <2>2. "lexeme" \in Required["atom"] /\ "lexeme" \notin Lists
      BY DEF Required, Lists
    <2>3. Len(Written["atom"]) = 1 /\ Written["atom"][1] = "lexeme"
      BY WrittenOf
    <2> QED
      BY <1>4, <2>1, <2>2, <2>3
  <1>5. CASE node.kind = "paren"
    <2>1. Hull(node)[2] = node.rparen
      BY <1>5 DEF Hull
    <2>2. "rparen" \in Required["paren"] /\ "rparen" \notin Lists
      BY DEF Required, Lists
    <2>3. Len(Written["paren"]) = 3 /\ Written["paren"][3] = "rparen"
      BY WrittenOf
    <2> QED
      BY <1>5, <2>1, <2>2, <2>3
  <1>6. CASE node.kind = "block"
    <2>1. Hull(node)[2] = node.rbrace
      BY <1>6 DEF Hull
    <2>2. "rbrace" \in Required["block"] /\ "rbrace" \notin Lists
      BY DEF Required, Lists
    <2>3. Len(Written["block"]) = 4 /\ Written["block"][4] = "rbrace"
      BY WrittenOf
    <2> QED
      BY <1>6, <2>1, <2>2, <2>3
  <1>7. CASE node.kind = "fn"
    <2>1. Hull(node)[2] = node.body
      BY <1>7 DEF Hull
    <2>2. "body" \in Required["fn"] /\ "body" \notin Lists
      BY DEF Required, Lists
    <2>3. Len(Written["fn"]) = 8 /\ Written["fn"][8] = "body"
      BY WrittenOf
    <2> QED
      BY <1>7, <2>1, <2>2, <2>3
  <1>8. CASE node.kind = "prefix"
    <2>1. Hull(node)[2] = node.operand
      BY <1>8 DEF Hull
    <2>2. "operand" \in Required["prefix"] /\ "operand" \notin Lists
      BY DEF Required, Lists
    <2>3. Len(Written["prefix"]) = 2 /\ Written["prefix"][2] = "operand"
      BY WrittenOf
    <2> QED
      BY <1>8, <2>1, <2>2, <2>3
  <1>9. CASE node.kind = "prefix_bracket"
    <2>1. Hull(node)[2] = node.operand
      BY <1>9 DEF Hull
    <2>2. "operand" \in Required["prefix_bracket"] /\ "operand" \notin Lists
      BY DEF Required, Lists
    <2>3. Len(Written["prefix_bracket"]) = 4 /\ Written["prefix_bracket"][4] = "operand"
      BY WrittenOf
    <2> QED
      BY <1>9, <2>1, <2>2, <2>3
  <1>10. CASE node.kind = "call"
    <2>1. Hull(node)[2] = node.rparen
      BY <1>10 DEF Hull
    <2>2. "rparen" \in Required["call"] /\ "rparen" \notin Lists
      BY DEF Required, Lists
    <2>3. Len(Written["call"]) = 4 /\ Written["call"][4] = "rparen"
      BY WrittenOf
    <2> QED
      BY <1>10, <2>1, <2>2, <2>3
  <1>11. CASE node.kind = "index"
    <2>1. Hull(node)[2] = node.rbracket
      BY <1>11 DEF Hull
    <2>2. "rbracket" \in Required["index"] /\ "rbracket" \notin Lists
      BY DEF Required, Lists
    <2>3. Len(Written["index"]) = 4 /\ Written["index"][4] = "rbracket"
      BY WrittenOf
    <2> QED
      BY <1>11, <2>1, <2>2, <2>3
  <1>12. CASE node.kind = "postfix"
    <2>1. Hull(node)[2] = node.op
      BY <1>12 DEF Hull
    <2>2. "op" \in Required["postfix"] /\ "op" \notin Lists
      BY DEF Required, Lists
    <2>3. Len(Written["postfix"]) = 2 /\ Written["postfix"][2] = "op"
      BY WrittenOf
    <2> QED
      BY <1>12, <2>1, <2>2, <2>3
  <1>13. CASE node.kind = "binary"
    <2>1. Hull(node)[2] = node.right
      BY <1>13 DEF Hull
    <2>2. "right" \in Required["binary"] /\ "right" \notin Lists
      BY DEF Required, Lists
    <2>3. Len(Written["binary"]) = 3 /\ Written["binary"][3] = "right"
      BY WrittenOf
    <2> QED
      BY <1>13, <2>1, <2>2, <2>3
  <1> QED
    BY <1>1, <1>2, <1>3, <1>4, <1>5, <1>6, <1>7, <1>8, <1>9, <1>10, <1>11, <1>12, <1>13, SpannedKindsAre

LEMMA HeirFormed ==
  ASSUME NEW tree, NEW n, Heir(tree, n), tree.kind # "lexeme"
  PROVE  tree.kind \in DOMAIN Written /\ ListsFormed(tree) /\ Proper(tree) /\ AllFitting(tree)
  <1>1. Sound(tree)
    BY SoundOfFinished DEF Heir
  <1>2. Proper(tree)
    BY ProperNode DEF Heir
  <1> QED
    BY <1>1, <1>2 DEF Sound, Proper

LEMMA HeirFirst ==
  ASSUME NEW tree, NEW n \in Nat, Heir(tree, n), tree.kind # "lexeme",
         NEW m \in Required[tree.kind], m \notin Lists, m # "kind",
         Len(Written[tree.kind]) # 0, Written[tree.kind][1] = m
  PROVE  /\ n - 1 \in Nat /\ Heir(tree[m], n - 1) /\ Fitting(tree, m, tree[m])
         /\ Extreme(Leaves(tree, n), 1) = Extreme(Leaves(tree[m], n - 1), 1)
  <1>1. tree.kind \in DOMAIN Written /\ ListsFormed(tree) /\ Proper(tree)
    BY HeirFormed
  <1>2. m \in DOMAIN tree
    BY <1>1 DEF Proper
  <1>3. PICK b : IsASequence(b) /\ Members(tree) = Join(<< >>, Join(<<tree[m]>>, b))
    BY <1>1, <1>2, WrittenFirst
  <1> DEFINE x == tree[m]  e == << >>
  <1>4. IsASequence(e) /\ e = << >> /\ Members(tree) = Join(e, Join(<<x>>, b))
    BY <1>3, EmptySequence
  <1>5. Fitting(tree, m, x)
    BY <1>1, MembersFit
  <1> HIDE DEF x, e
  <1>6. /\ n - 1 \in Nat /\ Heir(x, n - 1)
        /\ e = << >> => Extreme(Leaves(tree, n), 1) = Extreme(Leaves(x, n - 1), 1)
        /\ b = << >> => Extreme(Leaves(tree, n), 2) = Extreme(Leaves(x, n - 1), 2)
    BY <1>3, <1>4, HeirMember
  <1> QED
    BY <1>4, <1>5, <1>6 DEF x

LEMMA HeirLast ==
  ASSUME NEW tree, NEW n \in Nat, Heir(tree, n), tree.kind # "lexeme",
         NEW m \in Required[tree.kind], m \notin Lists, m # "kind",
         Len(Written[tree.kind]) # 0, Written[tree.kind][Len(Written[tree.kind])] = m
  PROVE  /\ n - 1 \in Nat /\ Heir(tree[m], n - 1) /\ Fitting(tree, m, tree[m])
         /\ Extreme(Leaves(tree, n), 2) = Extreme(Leaves(tree[m], n - 1), 2)
  <1>1. tree.kind \in DOMAIN Written /\ ListsFormed(tree) /\ Proper(tree)
    BY HeirFormed
  <1>2. m \in DOMAIN tree
    BY <1>1 DEF Proper
  <1>3. PICK a : IsASequence(a) /\ Members(tree) = Join(a, Join(<<tree[m]>>, << >>))
    BY <1>1, <1>2, WrittenAtTheEnd
  <1> DEFINE x == tree[m]  e == << >>
  <1>4. IsASequence(e) /\ e = << >> /\ Members(tree) = Join(a, Join(<<x>>, e))
    BY <1>3, EmptySequence
  <1>5. Fitting(tree, m, x)
    BY <1>1, MembersFit
  <1> HIDE DEF x, e
  <1>6. /\ n - 1 \in Nat /\ Heir(x, n - 1)
        /\ a = << >> => Extreme(Leaves(tree, n), 1) = Extreme(Leaves(x, n - 1), 1)
        /\ e = << >> => Extreme(Leaves(tree, n), 2) = Extreme(Leaves(x, n - 1), 2)
    BY <1>3, <1>4, HeirMember
  <1> QED
    BY <1>4, <1>5, <1>6 DEF x

----------------------------------------------------------------------------
(* A while statement ends with its block's brace, and so does an if           *)
(* expression: its last else part's, or the first block's.                    *)

LEMMA HeirBlock ==
  ASSUME NEW tree, NEW n \in Nat, Heir(tree, n), tree.kind = "block"
  PROVE  /\ n - 1 \in Nat /\ Heir(tree.rbrace, n - 1) /\ tree.rbrace.kind \in SpannedKinds \cup {"lexeme"}
         /\ Extreme(Leaves(tree, n), 2) = Extreme(Leaves(tree.rbrace, n - 1), 2)
  <1> DEFINE m == "rbrace"
  <1>1. m \in Required[tree.kind] /\ m \notin Lists /\ m # "kind"
    BY DEF Required, Lists
  <1>2. Len(Written[tree.kind]) = 4 /\ Written[tree.kind][4] = m
    BY WrittenOf
  <1>3. tree.kind # "lexeme" /\ tree[m] = tree.rbrace
    OBVIOUS
  <1> HIDE DEF m
  <1>4. /\ n - 1 \in Nat /\ Heir(tree[m], n - 1) /\ Fitting(tree, m, tree[m])
        /\ Extreme(Leaves(tree, n), 2) = Extreme(Leaves(tree[m], n - 1), 2)
    BY <1>1, <1>2, <1>3, HeirLast
  <1>5. tree[m].kind \in SpannedKinds \cup {"lexeme"}
    BY <1>1, <1>4 DEF Fitting, SpannedKinds
  <1> QED
    BY <1>3, <1>4, <1>5

(* The same, at the level of a node around the block. *)
LEMMA HeirBlockLater ==
  ASSUME NEW tree, NEW n \in Nat, Heir(tree, n), tree.kind = "block"
  PROVE  /\ Heir(tree.rbrace, n) /\ tree.rbrace.kind \in SpannedKinds \cup {"lexeme"}
         /\ Extreme(Leaves(tree, n), 2) = Extreme(Leaves(tree.rbrace, n), 2)
  <1> DEFINE x == tree.rbrace  k == n - 1
  <1>1. /\ k \in Nat /\ Heir(x, k) /\ x.kind \in SpannedKinds \cup {"lexeme"}
        /\ Extreme(Leaves(tree, n), 2) = Extreme(Leaves(x, k), 2) /\ k + 1 = n
    BY HeirBlock
  <1> HIDE DEF x, k
  <1>2. Heir(x, k + 1) /\ Leaves(x, k + 1) = Leaves(x, k)
    BY <1>1, HeirLater
  <1> QED
    BY <1>1, <1>2 DEF x

LEMMA HeirWhile ==
  ASSUME NEW tree, NEW n \in Nat, Heir(tree, n), tree.kind \in {"while", "else"}
  PROVE  /\ n - 1 \in Nat /\ Heir(tree.body.rbrace, n - 1)
         /\ tree.body.rbrace.kind \in SpannedKinds \cup {"lexeme"}
         /\ Extreme(Leaves(tree, n), 2) = Extreme(Leaves(tree.body.rbrace, n - 1), 2)
  <1> DEFINE m == "body"
  <1>1. m \in Required[tree.kind] /\ m \notin Lists /\ m # "kind" /\ Bracketed(tree.kind, m)
    BY DEF Required, Lists, Bracketed
  <1>2. Len(Written[tree.kind]) # 0 /\ Written[tree.kind][Len(Written[tree.kind])] = m
    <2>1. CASE tree.kind = "while"
      BY <2>1, WrittenOf
    <2>2. CASE tree.kind = "else"
      BY <2>2, WrittenOf
    <2> QED
      BY <2>1, <2>2
  <1>3. tree.kind # "lexeme" /\ tree[m] = tree.body
    OBVIOUS
  <1> HIDE DEF m
  <1>4. /\ n - 1 \in Nat /\ Heir(tree[m], n - 1) /\ Fitting(tree, m, tree[m])
        /\ Extreme(Leaves(tree, n), 2) = Extreme(Leaves(tree[m], n - 1), 2)
    BY <1>1, <1>2, <1>3, HeirLast
  <1>5. tree[m].kind = "block"
    BY <1>1, <1>4 DEF Fitting
  <1>6. tree.body.kind = "block" /\ Heir(tree.body, n - 1)
    BY <1>3, <1>4, <1>5
  <1>7. /\ Heir(tree.body.rbrace, n - 1) /\ tree.body.rbrace.kind \in SpannedKinds \cup {"lexeme"}
        /\ Extreme(Leaves(tree.body, n - 1), 2) = Extreme(Leaves(tree.body.rbrace, n - 1), 2)
    BY <1>4, <1>6, HeirBlockLater
  <1> QED
    BY <1>3, <1>4, <1>7

LEMMA IfMembers ==
  ASSUME NEW node, node.kind = "if", ListsFormed(node), "then_block" \in DOMAIN node, "elses" \in DOMAIN node
  PROVE  /\ IsASequence(node.elses)
         /\ \E a : IsASequence(a) /\ Members(node) = Join(a, Join(<<node.then_block>>, node.elses))
  <1> DEFINE p == Places(node)
  <1>1. /\ node.kind \in DOMAIN Written /\ Len(Written[node.kind]) = 4
        /\ Written[node.kind][3] = "then_block" /\ Written[node.kind][4] = "elses"
    BY WrittenOf, WrittenKinds
  <1>2. /\ AllSequences(p) /\ Len(p) = 4
        /\ \A i \in 1..Len(Written[node.kind]) : p[i] = Member(node, Written[node.kind][i])
        /\ Members(node) = FlattenSeq(p)
    BY <1>1, PlacesFormed
  <1>3. p[3] = <<node.then_block>> /\ p[4] = node.elses
    BY <1>1, <1>2, MemberIs DEF Lists
  <1> HIDE DEF p
  <1>4. /\ AllSequences(Front(p)) /\ Len(Front(p)) = 3 /\ \A i \in 1..3 : Front(p)[i] = p[i]
        /\ IsASequence(p[3 + 1]) /\ FlattenSeq(p) = FlattenSeq(Front(p)) \o p[3 + 1]
    <2>1. AllSequences(p) /\ 3 \in Nat /\ Len(p) = 3 + 1
      BY <1>2
    <2>2. /\ AllSequences(Front(p)) /\ Len(Front(p)) = 3 /\ \A i \in 1..3 : Front(p)[i] = p[i]
          /\ IsASequence(p[3 + 1]) /\ FlattenSeq(p) = FlattenSeq(Front(p)) \o p[3 + 1]
      BY <2>1, FrontOfMore
    <2> QED
      BY <2>2
  <1> DEFINE q == Front(p)
  <1>5. AllSequences(q) /\ Len(q) = 2 + 1 /\ q[3] = p[3]
    BY <1>4
  <1> HIDE DEF q
  <1>6. /\ AllSequences(Front(q)) /\ Len(Front(q)) = 2 /\ \A i \in 1..2 : Front(q)[i] = q[i]
        /\ IsASequence(q[2 + 1]) /\ FlattenSeq(q) = FlattenSeq(Front(q)) \o q[2 + 1]
    BY <1>5, FrontOfMore
  <1> DEFINE a == FlattenSeq(Front(q))  x == <<node.then_block>>  e == node.elses
  <1>7. IsASequence(a) /\ IsASequence(x) /\ IsASequence(e)
    BY <1>3, <1>4, <1>6, FlattenedSequence, OneSequence
  <1>8. Members(node) = Join(Join(a, x), e)
    <2>1. p[3 + 1] = e /\ q[2 + 1] = x
      BY <1>3, <1>5
    <2>2. FlattenSeq(p) = FlattenSeq(q) \o e /\ FlattenSeq(q) = a \o x
      BY <1>4, <1>6, <2>1 DEF q
    <2> HIDE DEF a, x, e
    <2>3. FlattenSeq(p) = Join(FlattenSeq(q), e) /\ FlattenSeq(q) = Join(a, x)
      BY <2>2 DEF Join
    <2> QED
      BY <1>2, <2>3
  <1> HIDE DEF a, x, e
  <1>9. Members(node) = Join(a, Join(x, e))
    BY <1>7, <1>8, JoinInTurn
  <1> QED
    BY <1>7, <1>9 DEF x, e

LEMMA HeirIf ==
  ASSUME NEW tree, NEW n \in Nat, Heir(tree, n), tree.kind = "if"
  PROVE  /\ n - 1 \in Nat /\ Heir(IfEnd(tree), n - 1)
         /\ IfEnd(tree).kind \in SpannedKinds \cup {"lexeme"}
         /\ Extreme(Leaves(tree, n), 2) = Extreme(Leaves(IfEnd(tree), n - 1), 2)
  <1>1. tree.kind \in DOMAIN Written /\ ListsFormed(tree) /\ Proper(tree) /\ AllFitting(tree)
    BY HeirFormed
  <1>2. "then_block" \in Required[tree.kind] /\ "then_block" \notin Lists /\ Bracketed("if", "then_block")
    BY DEF Required, Lists, Bracketed
  <1>3. /\ "then_block" \in DOMAIN tree /\ "elses" \in DOMAIN tree
        /\ \A i \in 1..Len(tree.elses) : tree.elses[i].kind = "else"
    BY <1>1, <1>2 DEF Proper, AllFitting
  <1>4. tree.then_block.kind = "block"
    <2>1. Fitting(tree, "then_block", tree["then_block"])
      BY <1>1, <1>2, MembersFit
    <2> QED
      BY <1>2, <2>1 DEF Fitting
  <1> DEFINE x == tree.then_block  e == tree.elses
  <1>5. PICK a : IsASequence(a) /\ Members(tree) = Join(a, Join(<<x>>, e))
    BY <1>1, <1>3, IfMembers
  <1>6. IsASequence(e)
    BY <1>1, <1>3, IfMembers
  <1>7. CASE tree.elses = << >>
    <2>1. IfEnd(tree) = tree.then_block.rbrace
      BY <1>7 DEF IfEnd
    <2>2. x.kind = "block" /\ e = << >>
      BY <1>4, <1>7
    <2> HIDE DEF x, e
    <2>3. /\ n - 1 \in Nat /\ Heir(x, n - 1)
          /\ a = << >> => Extreme(Leaves(tree, n), 1) = Extreme(Leaves(x, n - 1), 1)
          /\ e = << >> => Extreme(Leaves(tree, n), 2) = Extreme(Leaves(x, n - 1), 2)
      BY <1>5, <1>6, HeirMember
    <2>4. /\ Heir(x.rbrace, n - 1) /\ x.rbrace.kind \in SpannedKinds \cup {"lexeme"}
          /\ Extreme(Leaves(x, n - 1), 2) = Extreme(Leaves(x.rbrace, n - 1), 2)
      BY <2>2, <2>3, HeirBlockLater
    <2> QED
      BY <2>1, <2>2, <2>3, <2>4 DEF x
  <1>8. CASE tree.elses # << >>
    <2> DEFINE f == Front(e)  l == Last(e)  y == <<x>>  c == Join(a, Join(y, f))  o == << >>
    <2>1. IfEnd(tree) = l.body.rbrace
      BY <1>8 DEF IfEnd
    <2>2. /\ IsASequence(f) /\ Len(e) \in Nat \ {0} /\ e = Join(f, <<l>>) /\ l = e[Len(e)]
      BY <1>6, <1>8, FrontJoin DEF Last
    <2>3. l.kind = "else"
      BY <1>3, <2>2
    <2>4. IsASequence(y) /\ o = << >> /\ IsASequence(o) /\ Members(tree) = Join(a, Join(y, e))
      BY <1>5, OneSequence, EmptySequence
    <2> HIDE DEF x, e, f, l, y, o
    <2>5. IsASequence(<<l>>) /\ Join(<<l>>, o) = <<l>>
      BY <2>4, OneSequence, JoinEmpty
    <2>6. Join(y, e) = Join(Join(y, f), <<l>>) /\ IsASequence(Join(y, f))
      BY <2>2, <2>4, <2>5, JoinInTurn, JoinSequence
    <2>7. Join(a, Join(Join(y, f), <<l>>)) = Join(c, <<l>>) /\ IsASequence(c)
      BY <1>5, <2>5, <2>6, JoinInTurn, JoinSequence
    <2>8. Members(tree) = Join(c, Join(<<l>>, o))
      BY <2>4, <2>5, <2>6, <2>7
    <2> HIDE DEF c
    <2>9. tree.kind # "lexeme"
      OBVIOUS
    <2>10. /\ n - 1 \in Nat /\ Heir(l, n - 1)
           /\ c = << >> => Extreme(Leaves(tree, n), 1) = Extreme(Leaves(l, n - 1), 1)
           /\ o = << >> => Extreme(Leaves(tree, n), 2) = Extreme(Leaves(l, n - 1), 2)
      BY <2>4, <2>7, <2>8, <2>9, HeirMember
    <2> DEFINE z == l.body.rbrace  k == n - 1  j == k - 1
    <2>11. /\ j \in Nat /\ Heir(z, j) /\ z.kind \in SpannedKinds \cup {"lexeme"}
           /\ Extreme(Leaves(l, k), 2) = Extreme(Leaves(z, j), 2) /\ j + 1 = k
      BY <2>3, <2>10, HeirWhile
    <2> HIDE DEF z, k, j
    <2>12. Heir(z, j + 1) /\ Leaves(z, j + 1) = Leaves(z, j)
      BY <2>11, HeirLater
    <2>13. IfEnd(tree) = z
      BY <2>1 DEF z
    <2>14. Heir(z, k) /\ Extreme(Leaves(l, k), 2) = Extreme(Leaves(z, k), 2)
      BY <2>11, <2>12
    <2> QED
      BY <2>4, <2>10, <2>11, <2>13, <2>14 DEF k
  <1> QED
    BY <1>7, <1>8

----------------------------------------------------------------------------
(* From a node down one of its edges, as source_span() goes.                  *)

IsDescent(f, tree, side, n) ==
  f = [d \in 0..n |-> IF d = 0 THEN tree ELSE Hull(f[d - 1])[side]]

LEMMA DescentExists ==
  ASSUME NEW tree, NEW side
  PROVE  \A n \in Nat : \E f : IsDescent(f, tree, side, n)
  <1> DEFINE T == {n \in Nat : \E f : IsDescent(f, tree, side, n)}
  <1>1. 0 \in T
    <2> DEFINE f == [d \in 0..0 |-> tree]
    <2>1. f = [d \in 0..0 |-> IF d = 0 THEN tree ELSE Hull(f[d - 1])[side]]
      OBVIOUS
    <2> QED
      BY <2>1 DEF IsDescent
  <1>2. ASSUME NEW n \in Nat, n \in T
        PROVE  n + 1 \in T
    <2>1. PICK f : IsDescent(f, tree, side, n)
      BY <1>2
    <2> HIDE DEF T
    <2> DEFINE g == [d \in 0..n + 1 |-> IF d <= n THEN f[d] ELSE Hull(f[d - 1])[side]]
    <2>2. ASSUME NEW d \in 0..n + 1
          PROVE  g[d] = IF d = 0 THEN tree ELSE Hull(g[d - 1])[side]
      <3>1. CASE d = n + 1
        <4>1. d - 1 \in 0..n + 1 /\ d - 1 <= n /\ ~(d <= n) /\ d # 0
          BY <3>1
        <4>2. g[d - 1] = f[d - 1] /\ g[d] = Hull(f[d - 1])[side]
          BY <4>1
        <4> QED
          BY <4>1, <4>2
      <3>2. CASE d # n + 1
        <4>1. d \in 0..n
          BY <3>2
        <4>2. g[d] = f[d]
          BY <4>1
        <4>3. f[d] = IF d = 0 THEN tree ELSE Hull(f[d - 1])[side]
          BY <2>1, <4>1 DEF IsDescent
        <4>4. d # 0 => g[d - 1] = f[d - 1]
          BY <4>1
        <4> HIDE DEF g
        <4> QED
          BY <4>2, <4>3, <4>4
      <3> QED
        BY <3>1, <3>2
    <2>3. g = [d \in 0..n + 1 |-> g[d]]
      OBVIOUS
    <2> HIDE DEF g
    <2>4. IsDescent(g, tree, side, n + 1)
      BY <2>2, <2>3 DEF IsDescent
    <2> QED
      BY <2>4 DEF T
  <1> HIDE DEF T
  <1>3. Nat \subseteq T
    BY <1>1, <1>2, SetInduction
  <1> QED
    BY <1>3 DEF T

LEMMA DescentUnique ==
  ASSUME NEW tree, NEW side, NEW n \in Nat, NEW m \in Nat, n <= m, NEW f, NEW g,
         IsDescent(f, tree, side, n), IsDescent(g, tree, side, m)
  PROVE  \A d \in 0..n : f[d] = g[d]
  <1> DEFINE T == {d \in Nat : d \in 0..n => f[d] = g[d]}
  <1>1. 0 \in T
    BY DEF IsDescent
  <1>2. ASSUME NEW d \in Nat, d \in T
        PROVE  d + 1 \in T
    <2>1. SUFFICES ASSUME d + 1 \in 0..n
                   PROVE  f[d + 1] = g[d + 1]
      OBVIOUS
    <2>2. d + 1 \in 0..m /\ (d + 1) - 1 = d /\ d + 1 # 0 /\ d \in 0..n
      BY <2>1
    <2>3. f[d + 1] = Hull(f[d])[side]
      BY <2>1, <2>2 DEF IsDescent
    <2>4. g[d + 1] = Hull(g[d])[side]
      BY <2>2 DEF IsDescent
    <2> QED
      BY <1>2, <2>2, <2>3, <2>4
  <1> HIDE DEF T
  <1>3. Nat \subseteq T
    BY <1>1, <1>2, SetInduction
  <1> QED
    BY <1>3 DEF T

LEMMA EdgeUnfolds ==
  ASSUME NEW tree, NEW side
  PROVE  /\ Edge(tree, side)[0] = tree
         /\ \A d \in Nat : Edge(tree, side)[d + 1] = Hull(Edge(tree, side)[d])[side]
  <1> DEFINE part[d \in Nat] == IF d = 0 THEN tree ELSE Hull(part[d - 1])[side]
             up(d) == CHOOSE f : IsDescent(f, tree, side, d)
             h == [d \in Nat |-> up(d)[d]]
  <1>1. ASSUME NEW d \in Nat
        PROVE  IsDescent(up(d), tree, side, d)
    BY DescentExists
  <1> HIDE DEF up
  <1>2. ASSUME NEW d \in Nat
        PROVE  h[d] = IF d = 0 THEN tree ELSE Hull(h[d - 1])[side]
    <2>1. up(d)[d] = IF d = 0 THEN tree ELSE Hull(up(d)[d - 1])[side]
      BY <1>1 DEF IsDescent
    <2>2. ASSUME d # 0
          PROVE  up(d)[d - 1] = up(d - 1)[d - 1]
      <3>1. d - 1 \in Nat /\ d - 1 <= d /\ d - 1 \in 0..d - 1
        BY <2>2
      <3>2. IsDescent(up(d - 1), tree, side, d - 1) /\ IsDescent(up(d), tree, side, d)
        BY <1>1, <3>1
      <3> QED
        BY <3>1, <3>2, DescentUnique
    <2>3. h[d] = up(d)[d]
      OBVIOUS
    <2>4. d # 0 => d - 1 \in Nat /\ h[d - 1] = up(d - 1)[d - 1]
      OBVIOUS
    <2> HIDE DEF h
    <2> QED
      BY <2>1, <2>2, <2>3, <2>4
  <1>3. h = [d \in Nat |-> h[d]]
    OBVIOUS
  <1> HIDE DEF h
  <1>4. h = [d \in Nat |-> IF d = 0 THEN tree ELSE Hull(h[d - 1])[side]]
    BY <1>2, <1>3
  <1>5. part = [d \in Nat |-> IF d = 0 THEN tree ELSE Hull(part[d - 1])[side]]
    BY <1>4
  <1>6. Edge(tree, side) = part
    BY DEF Edge
  <1> HIDE DEF part
  <1>7. part[0] = tree
    BY <1>5
  <1>8. ASSUME NEW d \in Nat
        PROVE  part[d + 1] = Hull(part[d])[side]
    <2>1. d + 1 \in Nat /\ d + 1 # 0 /\ (d + 1) - 1 = d
      OBVIOUS
    <2>2. part[d + 1] = IF d + 1 = 0 THEN tree ELSE Hull(part[(d + 1) - 1])[side]
      BY <1>5, <2>1
    <2> QED
      BY <2>1, <2>2
  <1> QED
    BY <1>6, <1>7, <1>8

LEMMA HullHeir ==
  ASSUME NEW tree, NEW n \in Nat, Heir(tree, n), tree.kind \in SpannedKinds, NEW side \in {1, 2}
  PROVE  /\ n - 1 \in Nat /\ Heir(Hull(tree)[side], n - 1)
         /\ Hull(tree)[side].kind \in SpannedKinds \cup {"lexeme"}
         /\ Extreme(Leaves(tree, n), side) = Extreme(Leaves(Hull(tree)[side], n - 1), side)
  <1>1. tree.kind # "lexeme"
    BY SpannedKindsAre
  <1>2. CASE side = 1
    <2>1. PICK m \in Required[tree.kind] :
            /\ m \notin Lists /\ m # "kind" /\ Hull(tree)[1] = tree[m]
            /\ Len(Written[tree.kind]) # 0 /\ Written[tree.kind][1] = m
      BY FirstOfHull
    <2>2. /\ n - 1 \in Nat /\ Heir(tree[m], n - 1) /\ Fitting(tree, m, tree[m])
          /\ Extreme(Leaves(tree, n), 1) = Extreme(Leaves(tree[m], n - 1), 1)
      BY <1>1, <2>1, HeirFirst
    <2>3. tree[m].kind \in SpannedKinds \cup {"lexeme"}
      BY <2>1, <2>2 DEF Fitting, SpannedKinds
    <2> QED
      BY <1>2, <2>1, <2>2, <2>3
  <1>3. CASE side = 2 /\ tree.kind \notin {"while", "if"}
    <2>1. PICK m \in Required[tree.kind] :
            /\ m \notin Lists /\ m # "kind" /\ Hull(tree)[2] = tree[m]
            /\ Len(Written[tree.kind]) # 0 /\ Written[tree.kind][Len(Written[tree.kind])] = m
      BY <1>3, LastOfHull
    <2>2. /\ n - 1 \in Nat /\ Heir(tree[m], n - 1) /\ Fitting(tree, m, tree[m])
          /\ Extreme(Leaves(tree, n), 2) = Extreme(Leaves(tree[m], n - 1), 2)
      BY <1>1, <2>1, HeirLast
    <2>3. tree[m].kind \in SpannedKinds \cup {"lexeme"}
      BY <2>1, <2>2 DEF Fitting, SpannedKinds
    <2> QED
      BY <1>3, <2>1, <2>2, <2>3
  <1>4. CASE side = 2 /\ tree.kind = "while"
    <2>1. Hull(tree)[2] = tree.body.rbrace
      BY <1>4 DEF Hull
    <2> QED
      BY <1>4, <2>1, HeirWhile
  <1>5. CASE side = 2 /\ tree.kind = "if"
    <2>1. Hull(tree)[2] = IfEnd(tree)
      BY <1>5 DEF Hull
    <2> QED
      BY <1>5, <2>1, HeirIf
  <1> QED
    BY <1>2, <1>3, <1>4, <1>5

LEMMA HullGoesOn ==
  ASSUME NEW tree, NEW n \in Nat, Heir(tree, n + 1), tree.kind \in SpannedKinds \cup {"lexeme"},
         NEW side \in {1, 2}
  PROVE  /\ Heir(Hull(tree)[side], n) /\ Hull(tree)[side].kind \in SpannedKinds \cup {"lexeme"}
         /\ Extreme(Leaves(tree, n + 1), side) = Extreme(Leaves(Hull(tree)[side], n), side)
  <1>1. n + 1 \in Nat /\ (n + 1) - 1 = n
    OBVIOUS
  <1>2. CASE tree.kind = "lexeme"
    <2>1. Hull(tree)[side] = tree
      BY <1>2 DEF Hull
    <2>2. Heir(tree, n) /\ Leaves(tree, n) = <<tree>> /\ Leaves(tree, n + 1) = <<tree>>
      BY <1>1, <1>2, HeirLeaf
    <2> QED
      BY <1>2, <2>1, <2>2
  <1>3. CASE tree.kind \in SpannedKinds
    <2>1. /\ Heir(Hull(tree)[side], (n + 1) - 1)
          /\ Hull(tree)[side].kind \in SpannedKinds \cup {"lexeme"}
          /\ Extreme(Leaves(tree, n + 1), side) = Extreme(Leaves(Hull(tree)[side], (n + 1) - 1), side)
      BY <1>1, <1>3, HullHeir
    <2> QED
      BY <1>1, <2>1
  <1> QED
    BY <1>2, <1>3

LEMMA EdgeIsExtreme ==
  ASSUME NEW tree, NEW n \in Nat, Heir(tree, n), tree.kind \in SpannedKinds \cup {"lexeme"},
         NEW side \in {1, 2}
  PROVE  Edge(tree, side)[n] = Extreme(Leaves(tree, n), side)
  <1> DEFINE part == Edge(tree, side)
             goal == Extreme(Leaves(tree, n), side)
             T == {d \in Nat : d <= n => /\ Heir(part[d], n - d)
                                         /\ part[d].kind \in SpannedKinds \cup {"lexeme"}
                                         /\ Extreme(Leaves(part[d], n - d), side) = goal}
  <1>1. part[0] = tree /\ \A d \in Nat : part[d + 1] = Hull(part[d])[side]
    BY EdgeUnfolds
  <1> HIDE DEF part
  <1>2. 0 \in T
    <2>1. n - 0 = n
      OBVIOUS
    <2> QED
      BY <1>1, <2>1
  <1> HIDE DEF goal
  <1>3. ASSUME NEW d \in Nat, d \in T
        PROVE  d + 1 \in T
    <2> SUFFICES ASSUME d + 1 <= n
                 PROVE  /\ Heir(part[d + 1], n - (d + 1))
                        /\ part[d + 1].kind \in SpannedKinds \cup {"lexeme"}
                        /\ Extreme(Leaves(part[d + 1], n - (d + 1)), side) = goal
      OBVIOUS
    <2> DEFINE k == n - (d + 1)  x == part[d]
    <2>1. k \in Nat /\ n - d = k + 1 /\ d <= n
      OBVIOUS
    <2>2. /\ Heir(x, k + 1) /\ x.kind \in SpannedKinds \cup {"lexeme"}
          /\ Extreme(Leaves(x, k + 1), side) = goal
      BY <1>3, <2>1
    <2>3. part[d + 1] = Hull(x)[side]
      BY <1>1
    <2> HIDE DEF k, x, T
    <2>4. /\ Heir(Hull(x)[side], k) /\ Hull(x)[side].kind \in SpannedKinds \cup {"lexeme"}
          /\ Extreme(Leaves(x, k + 1), side) = Extreme(Leaves(Hull(x)[side], k), side)
      BY <2>1, <2>2, HullGoesOn
    <2> QED
      BY <2>2, <2>3, <2>4 DEF k
  <1> HIDE DEF T
  <1>4. Nat \subseteq T
    BY <1>2, <1>3, SetInduction
  <1> DEFINE y == part[n]
  <1>5. Heir(y, 0) /\ Extreme(Leaves(y, 0), side) = goal
    <2>1. n \in T /\ n <= n /\ n - n = 0
      BY <1>4
    <2> QED
      BY <2>1 DEF T
  <1> HIDE DEF y
  <1>6. Leaves(y, 0) = <<y>>
    BY <1>5, HeirAtOnce
  <1>7. Extreme(<<y>>, side) = y
    BY DEF Extreme
  <1> QED
    BY <1>5, <1>6, <1>7 DEF y, part, goal

----------------------------------------------------------------------------
(* The nodes of finished statements.                                          *)

LEMMA LevelsAgain ==
  ASSUME NEW trees, NEW d \in Nat
  PROVE  \A e \in Nat : d + e \in Nat /\ Levels(Levels(trees)[d])[e] = Levels(trees)[d + e]
  <1> DEFINE row == Levels(trees)[d]
             T == {e \in Nat : Levels(row)[e] = Levels(trees)[d + e]}
  <1>1. 0 \in T
    <2>1. d + 0 = d
      OBVIOUS
    <2> QED
      BY <2>1, LevelsUnfold
  <1>2. ASSUME NEW e \in Nat, e \in T
        PROVE  e + 1 \in T
    <2>1. d + e \in Nat /\ d + (e + 1) = (d + e) + 1
      OBVIOUS
    <2>2. Levels(trees)[(d + e) + 1] = Expanded(Levels(trees)[d + e])
      BY <2>1, LevelsUnfold
    <2>3. Levels(row)[e + 1] = Expanded(Levels(row)[e])
      BY LevelsUnfold
    <2> QED
      BY <1>2, <2>1, <2>2, <2>3
  <1> HIDE DEF T
  <1>3. Nat \subseteq T
    BY <1>1, <1>2, SetInduction
  <1> QED
    BY <1>3 DEF T

LEMMA AroundMember ==
  ASSUME NEW row, IsASequence(row), NEW i \in 1..Len(row)
  PROVE  \E a, b : IsASequence(a) /\ IsASequence(b) /\ row = Join(a, Join(<<row[i]>>, b))
  <1>1. Len(row) \in Nat
    BY SequenceShape
  <1> DEFINE n == Len(row) - i
             a == [j \in 1..i - 1 |-> row[j]]
             b == [j \in 1..n |-> row[i + j]]
             x == <<row[i]>>
             w == Join(x, b)
  <1>2. i - 1 \in Nat /\ n \in Nat
    BY <1>1
  <1>3. IsASequence(a) /\ Len(a) = i - 1 /\ \A j \in 1..i - 1 : a[j] = row[j]
    <2>1. a = [j \in 1..i - 1 |-> a[j]] /\ \A j \in 1..i - 1 : a[j] = row[j]
      OBVIOUS
    <2> HIDE DEF a
    <2> QED
      BY <1>2, <2>1, MadeASequence
  <1>4. IsASequence(b) /\ Len(b) = n /\ \A j \in 1..n : b[j] = row[i + j]
    <2>1. b = [j \in 1..n |-> b[j]] /\ \A j \in 1..n : b[j] = row[i + j]
      OBVIOUS
    <2> HIDE DEF b, n
    <2> QED
      BY <1>2, <2>1, MadeASequence
  <1>5. IsASequence(x) /\ Len(x) = 1 /\ x[1] = row[i]
    BY OneSequence
  <1> HIDE DEF a, b, x
  <1>6. /\ IsASequence(w) /\ Len(w) = Len(x) + Len(b)
        /\ \A j \in 1..Len(x) : w[j] = x[j]
        /\ \A j \in 1..Len(b) : w[Len(x) + j] = b[j]
    <2>1. IsASequence(x) /\ IsASequence(b)
      BY <1>4, <1>5
    <2>2. /\ IsASequence(Join(x, b)) /\ Len(Join(x, b)) = Len(x) + Len(b)
          /\ \A j \in 1..Len(x) : Join(x, b)[j] = x[j]
          /\ \A j \in 1..Len(b) : Join(x, b)[Len(x) + j] = b[j]
      BY ONLY <2>1, JoinSequence
    <2> QED
      BY <2>2
  <1> HIDE DEF w
  <1> DEFINE c == Join(a, w)
  <1>7. /\ IsASequence(c) /\ Len(c) = Len(a) + Len(w)
        /\ \A j \in 1..Len(a) : c[j] = a[j]
        /\ \A j \in 1..Len(w) : c[Len(a) + j] = w[j]
    <2>1. IsASequence(a) /\ IsASequence(w)
      BY <1>3, <1>6
    <2>2. /\ IsASequence(Join(a, w)) /\ Len(Join(a, w)) = Len(a) + Len(w)
          /\ \A j \in 1..Len(a) : Join(a, w)[j] = a[j]
          /\ \A j \in 1..Len(w) : Join(a, w)[Len(a) + j] = w[j]
      BY ONLY <2>1, JoinSequence
    <2> QED
      BY <2>2
  <1> HIDE DEF c
  <1>8. Len(c) = Len(row)
    BY <1>1, <1>3, <1>4, <1>5, <1>6, <1>7
  <1>9. ASSUME NEW j \in 1..Len(row)
        PROVE  row[j] = c[j]
    <2>1. CASE j < i
      <3>1. j \in 1..i - 1 /\ j \in 1..Len(a)
        BY <1>1, <1>3, <2>1
      <3> QED
        BY <3>1, <1>3, <1>7
    <2>2. CASE j = i
      <3>1. 1 \in 1..Len(w) /\ Len(a) + 1 = j /\ 1 \in 1..Len(x)
        BY <1>2, <1>3, <1>4, <1>5, <1>6, <2>2
      <3> QED
        BY <3>1, <1>5, <1>6, <1>7, <2>2
    <2>3. CASE j > i
      <3> DEFINE k == j - i
      <3>1. k \in 1..n /\ i + k = j
        BY <1>1, <2>3
      <3>2. 1 + k \in 1..Len(w) /\ Len(a) + (1 + k) = j
        BY <1>2, <1>3, <1>4, <1>5, <1>6, <3>1
      <3>3. c[Len(a) + (1 + k)] = w[1 + k] /\ w[Len(x) + k] = b[k] /\ b[k] = row[i + k]
        BY <1>4, <1>6, <1>7, <3>1, <3>2
      <3> QED
        BY <3>1, <3>2, <3>3, <1>5
    <2> QED
      BY <1>1, <2>1, <2>2, <2>3
  <1>10. row = c
    BY <1>7, <1>8, <1>9, SameSequence
  <1> QED
    BY <1>3, <1>4, <1>10 DEF c, w, x

(* The leaves of the unit's statements are the lexemes read. *)
LEMMA UnitText ==
  ASSUME IInv, PInv, At("unit")
  PROVE  \A e \in Nat : e >= Len(tokens) => AllLeaves(Levels(Members(Translation))[e])
  <1>1. /\ outcome = "parsing" /\ Len(stack) = 1 /\ Len(tokens) \in Nat
        /\ Activations(stack) /\ ReadsAs(PartsOf(stack), Lexemes)
    BY UnitAlone DEF IInv, TextRead
  <1> DEFINE trees == Members(Translation)  parts == PartsEach(stack)
  <1>2. parts = <<trees>>
    BY <1>1 DEF PartsEach, Translation
  <1>3. PartsOf(stack) = trees
    BY <1>2, FlattenedOne DEF PartsOf
  <1>4. AllFinished(trees)
    BY <1>1, <1>3, PartsBelow
  <1>5. Len(Lexemes) = Len(tokens)
    <2>1. Lexemes = [n \in 1..Len(tokens) |-> Lexemes[n]]
      BY DEF Lexemes
    <2> QED
      BY <2>1, <1>1, MadeASequence
  <1> HIDE DEF trees, parts
  <1>6. AllLeaves(Lexemes) /\ \A e \in Nat : e >= Len(Lexemes) => Levels(trees)[e] = Lexemes
    BY <1>1, <1>3, <1>4, ReadsSoon
  <1> QED
    BY <1>5, <1>6 DEF trees

LEMMA HeirOfUnit ==
  ASSUME IInv, PInv, At("unit"), NEW tree \in NodesOf(Translation), tree.kind # "unit"
  PROVE  Deepest \in Nat /\ Heir(tree, Deepest)
  <1> DEFINE trees == Members(Translation)
  <1>1. /\ Translation.kind = "unit" /\ Form(Translation, Top.todo) /\ Len(tokens) \in Nat
        /\ AllProper(trees)
    BY UnitAlone
  <1>2. Opened(Translation) = trees
    BY <1>1 DEF Opened
  <1>3. /\ Levels(<<Translation>>)[0] = <<Translation>>
        /\ \A d \in Nat : Levels(<<Translation>>)[d + 1] = Levels(trees)[d]
    BY <1>2, LevelsOfOne
  <1>4. AllSound(trees)
    BY <1>1, AllFinishedSound DEF Form, NodeFormed
  <1>5. Deepest \in Nat /\ Deepest >= Len(tokens)
    BY <1>1 DEF Deepest
  <1>6. \A e \in Nat : e >= Len(tokens) => AllLeaves(Levels(trees)[e])
    BY UnitText
  <1>7. PICK d \in 0..Deepest : tree \in Range(Levels(<<Translation>>)[d])
    BY DEF NodesOf
  <1> HIDE DEF trees
  <1>8. d # 0
    <2>1. SUFFICES ASSUME d = 0
                   PROVE  FALSE
      OBVIOUS
    <2>2. tree \in Range(<<Translation>>)
      BY <1>3, <1>7, <2>1
    <2>3. tree = Translation
      BY <2>2 DEF Range
    <2> QED
      BY <1>1, <2>3
  <1> DEFINE k == d - 1  row == Levels(trees)[k]
  <1>9. k \in Nat /\ k + 1 = d
    BY <1>5, <1>7, <1>8
  <1>10. tree \in Range(row)
    BY <1>3, <1>7, <1>9
  <1> HIDE DEF k
  <1>11. \A e \in Nat : k + e \in Nat /\ Levels(row)[e] = Levels(trees)[k + e]
    BY <1>9, LevelsAgain
  <1>12. IsASequence(row)
    BY <1>4, <1>9, LevelsSequence
  <1> HIDE DEF row
  <1>13. AllSound(row)
    BY <1>4, <1>11 DEF AllSound
  <1>14. AllProper(row)
    BY <1>1, <1>11 DEF AllProper
  <1>15. AllLeaves(Levels(row)[Deepest])
    <2>1. k + Deepest \in Nat /\ k + Deepest >= Len(tokens)
      BY <1>1, <1>5, <1>9
    <2> QED
      BY <1>5, <1>6, <1>11, <2>1
  <1>16. PICK i \in 1..Len(row) : tree = row[i]
    BY <1>10, <1>12, SequenceShape DEF Range
  <1>17. PICK a, b : IsASequence(a) /\ IsASequence(b) /\ row = Join(a, Join(<<tree>>, b))
    BY <1>12, <1>16, AroundMember
  <1> DEFINE n == Deepest
  <1>18. n \in Nat /\ AllLeaves(Levels(row)[n])
    BY <1>5, <1>15
  <1> HIDE DEF n
  <1>19. /\ Finished(tree) /\ AllLeaves(Levels(<<tree>>)[n])
         /\ AllProper(row) => AllProper(<<tree>>)
         /\ a = << >> => Extreme(Levels(row)[n], 1) = Extreme(Levels(<<tree>>)[n], 1)
         /\ b = << >> => Extreme(Levels(row)[n], 2) = Extreme(Levels(<<tree>>)[n], 2)
    BY <1>13, <1>17, <1>18, RowParts
  <1>20. Heir(tree, n)
    BY <1>14, <1>19 DEF Heir
  <1> QED
    BY <1>5, <1>20 DEF n

LEMMA SpansFollow ==
  ASSUME IInv, PInv
  PROVE  SpansAreTheText
  <1> SUFFICES ASSUME At("unit"), NEW node \in Spanned
               PROVE  SpanOf(node) = <<Head(Yield(<<node>>)).at, Last(Yield(<<node>>)).at>>
    BY DEF SpansAreTheText
  <1>1. /\ node \in NodesOf(Translation)
        /\ node.kind \notin {"unit", "else", "parameter", "return_type"}
    BY DEF Spanned
  <1> DEFINE n == Deepest
  <1>2. n \in Nat /\ Heir(node, n)
    BY <1>1, HeirOfUnit
  <1>3. node.kind \in SpannedKinds \cup {"lexeme"}
    <2>1. CASE node.kind = "lexeme"
      BY <2>1
    <2>2. CASE node.kind # "lexeme"
      <3>1. node.kind \in DOMAIN Written \ {"none", "unit"}
        BY <1>2, <2>2, HeirFormed DEF Proper
      <3> QED
        BY <1>1, <3>1, WrittenKinds, SpannedKindsAre
    <2> QED
      BY <2>1, <2>2
  <1> DEFINE ls == Levels(<<node>>)[n]
  <1>4. Yield(<<node>>) = ls /\ Leaves(node, n) = ls
    BY DEF Yield, Leaves
  <1>5. SpanOf(node) = <<Edge(node, 1)[n].at, Edge(node, 2)[n].at>>
    BY DEF SpanOf
  <1> HIDE DEF n
  <1>6. IsASequence(ls) /\ Len(ls) \in Nat \ {0}
    BY <1>2, LeavesOfTree DEF Heir
  <1> HIDE DEF ls
  <1>7. /\ Edge(node, 1)[n] = Extreme(ls, 1)
        /\ Edge(node, 2)[n] = Extreme(ls, 2)
    BY <1>2, <1>3, <1>4, EdgeIsExtreme
  <1>8. Head(ls) = ls[1]
    BY <1>6, EmptySequence, TailOfSequence
  <1>9. Extreme(ls, 1) = Head(ls) /\ Extreme(ls, 2) = Last(ls)
    BY <1>8 DEF Extreme, Last
  <1> QED
    BY <1>4, <1>5, <1>7, <1>9

(* source_span() of every node (ast/src/source_span.cpp), for every text: it  *)
(* begins where the node's first lexeme does and ends where its last one      *)
(* does, an if's else parts and the operands of operators included.           *)
THEOREM SpansHold == Spec => []SpansAreTheText
  <1>1. Init => IInv /\ PInv
    BY InitKeeps, InitRight
  <1>2. IInv /\ PInv /\ [Next]_vars => IInv' /\ PInv'
    BY NextKeeps, NextRight
  <1>3. IInv /\ PInv => SpansAreTheText
    BY SpansFollow
  <1> QED
    BY <1>1, <1>2, <1>3, PTL DEF Spec

==============================================================================
