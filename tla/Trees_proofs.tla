---------------------------- MODULE Trees_proofs ----------------------------
(* Lemmas about the trees of Trees, of any size and depth: how the members of *)
(* a node are written, what putting one into it does, and when the leaves of  *)
(* a row of trees, taken apart level by level, are the text (ReadsAs).  Then  *)
(* about one activation of the parser: that what it has left to read is       *)
(* written after what it has read (Form), before and after each of its steps. *)
EXTENDS Integers, Sequences, SequencesExt, Trees, SequenceTheorems, WellFoundedInduction, TLAPS

----------------------------------------------------------------------------
(* Sequences of anything, and induction over the natural numbers stated of a  *)
(* set: what the proofs about recursive functions and about trees rest on.    *)

IsASequence(s) == s \in Seq({s[i] : i \in DOMAIN s})

LEMMA SequenceShape ==
  ASSUME NEW s, IsASequence(s)
  PROVE  /\ Len(s) \in Nat
         /\ DOMAIN s = 1..Len(s)
         /\ s = [i \in 1..Len(s) |-> s[i]]
  BY DEF IsASequence

LEMMA MadeASequence ==
  ASSUME NEW n \in Nat, NEW s, s = [i \in 1..n |-> s[i]]
  PROVE  /\ IsASequence(s)
         /\ Len(s) = n
         /\ DOMAIN s = 1..n
  <1> DEFINE S == {s[i] : i \in DOMAIN s}
  <1>1. DOMAIN s = 1..n
    OBVIOUS
  <1>2. \A i \in 1..n : s[i] \in S
    BY <1>1
  <1>3. s \in [1..n -> S]
    BY <1>2
  <1>4. s \in Seq(S)
    BY <1>3
  <1> QED
    BY <1>1, <1>3, <1>4 DEF IsASequence

LEMMA InWider ==
  ASSUME NEW s, IsASequence(s), NEW S, \A i \in DOMAIN s : s[i] \in S
  PROVE  s \in Seq(S)
  <1>1. s \in [1..Len(s) -> S] /\ Len(s) \in Nat
    BY SequenceShape
  <1> QED
    BY <1>1

LEMMA SequenceOfSome ==
  ASSUME NEW S, NEW s \in Seq(S)
  PROVE  IsASequence(s)
  <1>1. Len(s) \in Nat /\ s = [i \in 1..Len(s) |-> s[i]]
    OBVIOUS
  <1> QED
    BY <1>1, MadeASequence

LEMMA AppendedSequence ==
  ASSUME NEW s, IsASequence(s), NEW x
  PROVE  /\ IsASequence(Append(s, x))
         /\ Len(Append(s, x)) = Len(s) + 1
         /\ Append(s, x)[Len(s) + 1] = x
         /\ \A i \in 1..Len(s) : Append(s, x)[i] = s[i]
  <1> DEFINE S == {s[i] : i \in DOMAIN s} \cup {x}
             t == Append(s, x)
  <1>1. s \in Seq(S) /\ x \in S
    BY InWider
  <1>2. /\ t \in Seq(S)
        /\ Len(t) = Len(s) + 1
        /\ t[Len(s) + 1] = x
        /\ \A i \in 1..Len(s) : t[i] = s[i]
    BY <1>1
  <1> HIDE DEF t, S
  <1>3. Len(t) \in Nat /\ t = [i \in 1..Len(t) |-> t[i]]
    BY <1>2
  <1>4. IsASequence(t)
    BY <1>3, MadeASequence
  <1> QED
    BY <1>2, <1>4 DEF t

LEMMA JoinedSequence ==
  ASSUME NEW s, IsASequence(s), NEW t, IsASequence(t)
  PROVE  /\ IsASequence(s \o t)
         /\ Len(s \o t) = Len(s) + Len(t)
         /\ \A i \in 1..Len(s) : (s \o t)[i] = s[i]
         /\ \A i \in 1..Len(t) : (s \o t)[Len(s) + i] = t[i]
  <1> DEFINE S == {s[i] : i \in DOMAIN s} \cup {t[i] : i \in DOMAIN t}
             u == s \o t
  <1>1. s \in Seq(S) /\ t \in Seq(S)
    BY InWider
  <1>0. Len(s) \in Nat /\ Len(t) \in Nat
    BY SequenceShape
  <1>2. /\ u \in Seq(S)
        /\ Len(u) = Len(s) + Len(t)
        /\ \A i \in 1 .. Len(s) + Len(t) : u[i] = IF i <= Len(s) THEN s[i] ELSE t[i - Len(s)]
    BY <1>1, ConcatProperties
  <1> HIDE DEF u
  <1>3. Len(u) \in Nat /\ u = [i \in 1..Len(u) |-> u[i]]
    BY <1>2
  <1>4. IsASequence(u)
    BY <1>3, MadeASequence
  <1>5. \A i \in 1..Len(s) : u[i] = s[i]
    BY <1>0, <1>2
  <1>6. \A i \in 1..Len(t) : u[Len(s) + i] = t[i]
    <2> SUFFICES ASSUME NEW i \in 1..Len(t)
                 PROVE  u[Len(s) + i] = t[i]
      OBVIOUS
    <2>1. Len(s) + i \in 1..Len(s) + Len(t) /\ ~(Len(s) + i <= Len(s)) /\ Len(s) + i - Len(s) = i
      BY <1>0
    <2> QED
      BY <1>2, <2>1
  <1> QED
    BY <1>2, <1>4, <1>5, <1>6 DEF u

LEMMA TailOfSequence ==
  ASSUME NEW s, IsASequence(s), s # << >>
  PROVE  /\ IsASequence(Tail(s))
         /\ Len(s) \in Nat \ {0}
         /\ Len(Tail(s)) = Len(s) - 1
         /\ \A i \in 1..Len(s) - 1 : Tail(s)[i] = s[i + 1]
         /\ Head(s) = s[1]
  <1> DEFINE S == {s[i] : i \in DOMAIN s}
             t == Tail(s)
  <1>1. s \in Seq(S)
    BY DEF IsASequence
  <1>2. /\ t \in Seq(S) /\ Len(t) = Len(s) - 1
        /\ \A i \in 1..Len(t) : t[i] = s[i + 1]
    BY <1>1, HeadTailProperties
  <1>3. Len(s) \in Nat /\ Len(s) # 0
    BY <1>1
  <1>4. Head(s) = s[1]
    BY <1>1
  <1> HIDE DEF t, S
  <1>5. Len(t) \in Nat /\ t = [i \in 1..Len(t) |-> t[i]]
    BY <1>2
  <1>6. IsASequence(t)
    BY <1>5, MadeASequence
  <1> QED
    BY <1>2, <1>3, <1>4, <1>6 DEF t

LEMMA EmptySequence ==
  /\ IsASequence(<< >>)
  /\ Len(<< >>) = 0
  /\ \A s : IsASequence(s) => (s = << >> <=> Len(s) = 0)
  <1>1. IsASequence(<< >>)
    BY DEF IsASequence
  <1>2. ASSUME NEW s, IsASequence(s)
        PROVE  s = << >> <=> Len(s) = 0
    <2>1. s \in Seq({s[i] : i \in DOMAIN s})
      BY <1>2 DEF IsASequence
    <2> QED
      BY <2>1, EmptySeq
  <1> QED
    BY <1>1, <1>2

LEMMA OneSequence ==
  ASSUME NEW x
  PROVE  /\ IsASequence(<<x>>)
         /\ Len(<<x>>) = 1
         /\ <<x>>[1] = x
  BY DEF IsASequence

LEMMA SequenceWith ==
  ASSUME NEW s, IsASequence(s), NEW i \in DOMAIN s, NEW x
  PROVE  LET t == [s EXCEPT ![i] = x]
         IN  /\ IsASequence(t)
             /\ Len(t) = Len(s)
             /\ DOMAIN t = DOMAIN s
             /\ t[i] = x
             /\ \A j \in DOMAIN s : j # i => t[j] = s[j]
  <1> DEFINE t == [s EXCEPT ![i] = x]
  <1>1. Len(s) \in Nat /\ DOMAIN s = 1..Len(s)
    BY SequenceShape
  <1>2. DOMAIN t = DOMAIN s /\ t[i] = x /\ \A j \in DOMAIN s : j # i => t[j] = s[j]
    OBVIOUS
  <1>3. t = [j \in 1..Len(s) |-> t[j]]
    BY <1>1
  <1> HIDE DEF t
  <1> QED
    BY <1>1, <1>2, <1>3, MadeASequence DEF t


LEMMA SameSequence ==
  ASSUME NEW s, IsASequence(s), NEW t, IsASequence(t), Len(s) = Len(t),
         \A i \in 1..Len(s) : s[i] = t[i]
  PROVE  s = t
  <1>1. s = [i \in 1..Len(s) |-> s[i]] /\ t = [i \in 1..Len(t) |-> t[i]]
    BY SequenceShape
  <1>2. [i \in 1..Len(s) |-> s[i]] = [i \in 1..Len(t) |-> t[i]]
    OBVIOUS
  <1> QED
    BY <1>1, <1>2

LEMMA JoinedWithEmpty ==
  ASSUME NEW s, IsASequence(s)
  PROVE  s \o << >> = s /\ << >> \o s = s
  <1>1. s \in Seq({s[i] : i \in DOMAIN s})
    BY DEF IsASequence
  <1> QED
    BY <1>1

LEMMA JoinedInTurn ==
  ASSUME NEW s, IsASequence(s), NEW t, IsASequence(t), NEW u, IsASequence(u)
  PROVE  (s \o t) \o u = s \o (t \o u)
  <1> DEFINE S == {s[i] : i \in DOMAIN s} \cup {t[i] : i \in DOMAIN t} \cup {u[i] : i \in DOMAIN u}
  <1>1. s \in Seq(S) /\ t \in Seq(S) /\ u \in Seq(S)
    BY InWider
  <1> HIDE DEF S
  <1> QED
    BY <1>1, ConcatAssociative

LEMMA AppendedIsJoined ==
  ASSUME NEW s, IsASequence(s), NEW x
  PROVE  Append(s, x) = s \o <<x>>
  <1>1. /\ IsASequence(Append(s, x))
        /\ Len(Append(s, x)) = Len(s) + 1
        /\ Append(s, x)[Len(s) + 1] = x
        /\ \A i \in 1..Len(s) : Append(s, x)[i] = s[i]
    BY AppendedSequence
  <1>2. /\ IsASequence(s \o <<x>>)
        /\ Len(s \o <<x>>) = Len(s) + 1
        /\ (s \o <<x>>)[Len(s) + 1] = x
        /\ \A i \in 1..Len(s) : (s \o <<x>>)[i] = s[i]
    BY OneSequence, JoinedSequence
  <1>3. Len(s) \in Nat
    BY SequenceShape
  <1> DEFINE t == Append(s, x)  u == s \o <<x>>
  <1> HIDE DEF t, u
  <1>4. \A i \in 1..Len(t) : t[i] = u[i]
    BY <1>1, <1>2, <1>3 DEF t, u
  <1> QED
    BY <1>1, <1>2, <1>4, SameSequence DEF t, u

LEMMA FrontOfSequence ==
  ASSUME NEW s, IsASequence(s), s # << >>
  PROVE  /\ IsASequence(Front(s))
         /\ Len(s) \in Nat \ {0}
         /\ Len(Front(s)) = Len(s) - 1
         /\ \A i \in 1..Len(s) - 1 : Front(s)[i] = s[i]
         /\ s = Front(s) \o <<Last(s)>>
  <1> DEFINE t == Front(s)
  <1>1. Len(s) \in Nat \ {0}
    BY SequenceShape, EmptySequence
  <1>2. t = [i \in 1..Len(s) - 1 |-> s[i]]
    BY <1>1 DEF Front
  <1> HIDE DEF t
  <1>3. IsASequence(t) /\ Len(t) = Len(s) - 1
    <2>1. Len(s) - 1 \in Nat /\ t = [i \in 1..Len(s) - 1 |-> t[i]]
      BY <1>1, <1>2
    <2> QED
      BY <2>1, MadeASequence
  <1>4. \A i \in 1..Len(s) - 1 : t[i] = s[i]
    BY <1>2
  <1>5. s = t \o <<Last(s)>>
    <2> DEFINE u == t \o <<Last(s)>>
    <2>1. /\ IsASequence(u)
          /\ Len(u) = Len(t) + 1
          /\ u[Len(t) + 1] = Last(s)
          /\ \A i \in 1..Len(t) : u[i] = t[i]
      BY <1>3, OneSequence, JoinedSequence
    <2> HIDE DEF u
    <2>2. Len(u) = Len(s)
      BY <1>1, <1>3, <2>1
    <2>3. \A i \in 1..Len(s) : u[i] = s[i]
      BY <1>1, <1>3, <1>4, <2>1 DEF Last
    <2> QED
      BY <2>1, <2>2, <2>3, SameSequence DEF u
  <1> QED
    BY <1>1, <1>3, <1>4, <1>5 DEF t

----------------------------------------------------------------------------
(* Induction. *)

(* A set of natural numbers that is not empty has a least element.            *)
LEMMA LeastNatural ==
  ASSUME NEW T, T \subseteq Nat, T # {}
  PROVE  \E x \in T : \A y \in T : x <= y
  <1> DEFINE R == {ss \in Nat \X Nat : ss[1] < ss[2]}
  <1>1. IsWellFoundedOn(R, Nat)
    BY NatLessThanWellFounded DEF OpToRel
  <1>2. \A x \in T, y \in T : <<y, x>> \in R <=> y < x
    OBVIOUS
  <1> HIDE DEF R
  <1>3. PICK x \in T : \A y \in T : ~(<<y, x>> \in R)
    BY <1>1, WFMin
  <1>4. \A y \in T : x <= y
    <2> TAKE y \in T
    <2>1. ~(y < x)
      BY <1>3, <1>2
    <2>2. x \in Nat /\ y \in Nat
      OBVIOUS
    <2> QED
      BY <2>1, <2>2
  <1> QED
    BY <1>4

(* Induction, of the set of the numbers for which something holds.            *)
LEMMA SetInduction ==
  ASSUME NEW T, 0 \in T, \A n \in Nat : n \in T => n + 1 \in T
  PROVE  Nat \subseteq T
  <1> DEFINE U == Nat \ T
  <1>1. SUFFICES ASSUME U # {}
                 PROVE  FALSE
    OBVIOUS
  <1>2. U \subseteq Nat
    OBVIOUS
  <1> HIDE DEF U
  <1>3. PICK x \in U : \A y \in U : x <= y
    BY <1>1, <1>2, LeastNatural
  <1>4. x \in Nat /\ x # 0
    BY <1>3 DEF U
  <1>5. x - 1 \in Nat /\ x - 1 + 1 = x
    BY <1>4
  <1>6. x - 1 \notin U
    BY <1>3, <1>5
  <1>7. x - 1 \in T
    BY <1>6, <1>5 DEF U
  <1>8. x \in T
    BY <1>7, <1>5
  <1> QED
    BY <1>8 DEF U

----------------------------------------------------------------------------
(* A sequence of sequences, flattened. *)

AllSequences(ss) == IsASequence(ss) /\ \A i \in 1..Len(ss) : IsASequence(ss[i])

IsFlattening(f, ss, n) == f = [i \in 1..n |-> IF i = 1 THEN ss[i] ELSE f[i - 1] \o ss[i]]

LEMMA FlatteningExists ==
  ASSUME NEW ss
  PROVE  \A n \in Nat : \E f : IsFlattening(f, ss, n)
  <1> DEFINE T == {n \in Nat : \E f : IsFlattening(f, ss, n)}
  <1>1. 0 \in T
    <2>1. IsFlattening(<< >>, ss, 0)
      <3>1. 1..0 = {}
        OBVIOUS
      <3>2. << >> = [i \in {} |-> IF i = 1 THEN ss[i] ELSE << >>[i - 1] \o ss[i]]
        OBVIOUS
      <3> QED
        BY <3>1, <3>2 DEF IsFlattening
    <2> QED
      BY <2>1
  <1>2. ASSUME NEW n \in Nat, n \in T
        PROVE  n + 1 \in T
    <2>1. PICK f : IsFlattening(f, ss, n)
      BY <1>2
    <2> DEFINE g == [i \in 1..n + 1 |-> IF i <= n THEN f[i]
                                       ELSE IF i = 1 THEN ss[i] ELSE f[i - 1] \o ss[i]]
    <2>2. ASSUME NEW i \in 1..n + 1
          PROVE  g[i] = IF i = 1 THEN ss[i] ELSE g[i - 1] \o ss[i]
      <3>1. CASE i = n + 1
        <4>1. CASE i = 1
          BY <3>1, <4>1
        <4>2. CASE i # 1
          <5>1. i - 1 \in 1..n + 1 /\ i - 1 <= n /\ ~(i <= n)
            BY <3>1, <4>2
          <5>2. g[i - 1] = f[i - 1]
            BY <5>1
          <5>3. g[i] = f[i - 1] \o ss[i]
            BY <5>1, <4>2
          <5> QED
            BY <5>2, <5>3, <4>2
        <4> QED
          BY <4>1, <4>2
      <3>2. CASE i # n + 1
        <4>1. i \in 1..n
          BY <3>2
        <4>2. g[i] = f[i]
          BY <4>1
        <4>3. f[i] = IF i = 1 THEN ss[i] ELSE f[i - 1] \o ss[i]
          BY <2>1, <4>1 DEF IsFlattening
        <4>4. i # 1 => g[i - 1] = f[i - 1]
          BY <4>1
        <4> HIDE DEF g
        <4> QED
          BY <4>2, <4>3, <4>4
      <3> QED
        BY <3>1, <3>2
    <2>3. g = [i \in 1..n + 1 |-> g[i]]
      OBVIOUS
    <2> HIDE DEF g
    <2>4. IsFlattening(g, ss, n + 1)
      BY <2>2, <2>3 DEF IsFlattening
    <2> QED
      BY <2>4
  <1> HIDE DEF T
  <1>3. Nat \subseteq T
    BY <1>1, <1>2, SetInduction
  <1> QED
    BY <1>3 DEF T

LEMMA FlatteningUnique ==
  ASSUME NEW ss, NEW tt, NEW n \in Nat, NEW m \in Nat, n <= m, NEW f, NEW g,
         IsFlattening(f, ss, n), IsFlattening(g, tt, m), \A i \in 1..n : ss[i] = tt[i]
  PROVE  \A i \in 1..n : f[i] = g[i]
  <1> DEFINE T == {i \in Nat : i \in 1..n => f[i] = g[i]}
  <1>1. 0 \in T
    OBVIOUS
  <1>2. ASSUME NEW i \in Nat, i \in T
        PROVE  i + 1 \in T
    <2>1. SUFFICES ASSUME i + 1 \in 1..n
                   PROVE  f[i + 1] = g[i + 1]
      OBVIOUS
    <2>2. i + 1 \in 1..m
      BY <2>1
    <2>3. f[i + 1] = IF i + 1 = 1 THEN ss[i + 1] ELSE f[(i + 1) - 1] \o ss[i + 1]
      BY <2>1 DEF IsFlattening
    <2>4. g[i + 1] = IF i + 1 = 1 THEN tt[i + 1] ELSE g[(i + 1) - 1] \o tt[i + 1]
      BY <2>2 DEF IsFlattening
    <2>5. (i + 1) - 1 = i /\ (i + 1 # 1 => i \in 1..n) /\ ss[i + 1] = tt[i + 1]
      BY <2>1
    <2>6. i + 1 # 1 => f[i] = g[i]
      BY <1>2, <2>5
    <2> QED
      BY <2>3, <2>4, <2>5, <2>6
  <1> HIDE DEF T
  <1>3. Nat \subseteq T
    BY <1>1, <1>2, SetInduction
  <1> QED
    BY <1>3 DEF T

LEMMA FlattenedBy ==
  ASSUME NEW ss, IsASequence(ss), ss # << >>
  PROVE  \E f : IsFlattening(f, ss, Len(ss)) /\ FlattenSeq(ss) = f[Len(ss)]
  <1> DEFINE flatten[i \in 1..Len(ss)] == IF i = 1 THEN ss[i] ELSE flatten[i - 1] \o ss[i]
  <1>1. Len(ss) \in Nat /\ Len(ss) # 0
    BY SequenceShape, EmptySequence
  <1>2. FlattenSeq(ss) = flatten[Len(ss)]
    BY <1>1 DEF FlattenSeq
  <1>3. \E f : f = [i \in 1..Len(ss) |-> IF i = 1 THEN ss[i] ELSE f[i - 1] \o ss[i]]
    BY <1>1, FlatteningExists DEF IsFlattening
  <1>4. flatten = [i \in 1..Len(ss) |-> IF i = 1 THEN ss[i] ELSE flatten[i - 1] \o ss[i]]
    BY <1>3
  <1> HIDE DEF flatten
  <1> QED
    BY <1>2, <1>4 DEF IsFlattening

LEMMA FlattenedEmpty == FlattenSeq(<< >>) = << >>
  BY EmptySequence DEF FlattenSeq

LEMMA FlattenedOne ==
  ASSUME NEW s
  PROVE  FlattenSeq(<<s>>) = s
  <1>1. IsASequence(<<s>>) /\ Len(<<s>>) = 1 /\ <<s>>[1] = s /\ <<s>> # << >>
    BY OneSequence, EmptySequence
  <1>2. PICK f : IsFlattening(f, <<s>>, 1) /\ FlattenSeq(<<s>>) = f[1]
    BY <1>1, FlattenedBy
  <1>3. f[1] = <<s>>[1]
    BY <1>2 DEF IsFlattening
  <1> QED
    BY <1>1, <1>2, <1>3

LEMMA FlattenedMore ==
  ASSUME NEW ss, IsASequence(ss), ss # << >>, NEW s
  PROVE  FlattenSeq(ss \o <<s>>) = FlattenSeq(ss) \o s
  <1> DEFINE tt == ss \o <<s>>
  <1>0. Len(ss) \in Nat /\ Len(ss) # 0
    BY SequenceShape, EmptySequence
  <1>1. /\ IsASequence(tt)
        /\ Len(tt) = Len(ss) + 1
        /\ tt[Len(ss) + 1] = s
        /\ \A i \in 1..Len(ss) : tt[i] = ss[i]
    BY OneSequence, JoinedSequence
  <1> HIDE DEF tt
  <1>2. tt # << >>
    BY <1>0, <1>1, EmptySequence
  <1>3. PICK f : IsFlattening(f, ss, Len(ss)) /\ FlattenSeq(ss) = f[Len(ss)]
    BY FlattenedBy
  <1>4. PICK g : IsFlattening(g, tt, Len(tt)) /\ FlattenSeq(tt) = g[Len(tt)]
    BY <1>1, <1>2, FlattenedBy
  <1>5. f[Len(ss)] = g[Len(ss)]
    <2>1. Len(tt) \in Nat /\ Len(ss) <= Len(tt) /\ Len(ss) \in 1..Len(ss)
      BY <1>0, <1>1
    <2>2. \A i \in 1..Len(ss) : ss[i] = tt[i]
      BY <1>1
    <2>3. \A i \in 1..Len(ss) : f[i] = g[i]
      <3> DEFINE n == Len(ss)  m == Len(tt)
      <3>1. n \in Nat /\ m \in Nat /\ n <= m
        BY <1>0, <2>1
      <3>2. IsFlattening(f, ss, n) /\ IsFlattening(g, tt, m) /\ \A i \in 1..n : ss[i] = tt[i]
        BY <1>3, <1>4, <2>2
      <3> HIDE DEF n, m
      <3>3. \A i \in 1..n : f[i] = g[i]
        BY <3>1, <3>2, FlatteningUnique
      <3> QED
        BY <3>3 DEF n
    <2> QED
      BY <2>1, <2>3
  <1>6. g[Len(tt)] = g[Len(ss)] \o s
    <2>1. Len(tt) \in 1..Len(tt) /\ Len(tt) # 1 /\ Len(tt) - 1 = Len(ss)
      BY <1>0, <1>1
    <2>2. g[Len(tt)] = IF Len(tt) = 1 THEN tt[Len(tt)] ELSE g[Len(tt) - 1] \o tt[Len(tt)]
      BY <2>1, <1>4 DEF IsFlattening
    <2> QED
      BY <2>1, <2>2, <1>1
  <1> QED
    BY <1>3, <1>4, <1>5, <1>6 DEF tt

LEMMA FlattenedWithLast ==
  ASSUME NEW ss, IsASequence(ss), NEW s, IsASequence(s)
  PROVE  FlattenSeq(ss \o <<s>>) = FlattenSeq(ss) \o s
  <1>1. CASE ss = << >>
    <2>1. ss \o <<s>> = <<s>>
      BY <1>1, OneSequence, JoinedWithEmpty
    <2> QED
      BY <1>1, <2>1, FlattenedEmpty, FlattenedOne, JoinedWithEmpty
  <1>2. CASE ss # << >>
    BY <1>2, FlattenedMore
  <1> QED
    BY <1>1, <1>2

LEMMA FrontOfAll ==
  ASSUME NEW ss, AllSequences(ss), ss # << >>
  PROVE  /\ AllSequences(Front(ss))
         /\ Len(ss) \in Nat \ {0}
         /\ Len(Front(ss)) = Len(ss) - 1
         /\ \A i \in 1..Len(ss) - 1 : Front(ss)[i] = ss[i]
         /\ IsASequence(ss[Len(ss)])
         /\ FlattenSeq(ss) = FlattenSeq(Front(ss)) \o ss[Len(ss)]
  <1>1. IsASequence(ss) /\ \A i \in 1..Len(ss) : IsASequence(ss[i])
    BY DEF AllSequences
  <1>2. /\ IsASequence(Front(ss))
        /\ Len(ss) \in Nat \ {0}
        /\ Len(Front(ss)) = Len(ss) - 1
        /\ \A i \in 1..Len(ss) - 1 : Front(ss)[i] = ss[i]
        /\ ss = Front(ss) \o <<ss[Len(ss)]>>
    BY <1>1, FrontOfSequence DEF Last
  <1>3. AllSequences(Front(ss))
    BY <1>1, <1>2 DEF AllSequences
  <1>4. IsASequence(ss[Len(ss)])
    BY <1>1, <1>2
  <1>5. FlattenSeq(Front(ss) \o <<ss[Len(ss)]>>) = FlattenSeq(Front(ss)) \o ss[Len(ss)]
    BY <1>2, <1>4, FlattenedWithLast
  <1> QED
    BY <1>2, <1>3, <1>4, <1>5

LEMMA FrontOfMore ==
  ASSUME NEW ss, AllSequences(ss), NEW n \in Nat, Len(ss) = n + 1
  PROVE  /\ AllSequences(Front(ss)) /\ Len(Front(ss)) = n
         /\ \A i \in 1..n : Front(ss)[i] = ss[i]
         /\ IsASequence(ss[n + 1])
         /\ FlattenSeq(ss) = FlattenSeq(Front(ss)) \o ss[n + 1]
  <1>1. ss # << >> /\ n + 1 - 1 = n
    BY EmptySequence DEF AllSequences
  <1> DEFINE front == Front(ss)
  <1>2. /\ AllSequences(front)
        /\ Len(front) = Len(ss) - 1
        /\ \A i \in 1..Len(ss) - 1 : front[i] = ss[i]
        /\ IsASequence(ss[Len(ss)])
        /\ FlattenSeq(ss) = FlattenSeq(front) \o ss[Len(ss)]
    BY <1>1, FrontOfAll
  <1> HIDE DEF front
  <1>3. Len(ss) - 1 = n
    BY <1>1
  <1>4. /\ AllSequences(front) /\ Len(front) = n
        /\ \A i \in 1..n : front[i] = ss[i]
        /\ IsASequence(ss[n + 1])
        /\ FlattenSeq(ss) = FlattenSeq(front) \o ss[n + 1]
    BY <1>2, <1>3
  <1> QED
    BY <1>4 DEF front

LEMMA FlattenedSequence ==
  ASSUME NEW ss, AllSequences(ss)
  PROVE  IsASequence(FlattenSeq(ss))
  <1> DEFINE T == {n \in Nat : \A tt : AllSequences(tt) /\ Len(tt) = n => IsASequence(FlattenSeq(tt))}
  <1>1. 0 \in T
    <2> SUFFICES ASSUME NEW tt, AllSequences(tt), Len(tt) = 0
                 PROVE  IsASequence(FlattenSeq(tt))
      OBVIOUS
    <2>1. tt = << >>
      BY EmptySequence DEF AllSequences
    <2> QED
      BY <2>1, FlattenedEmpty, EmptySequence
  <1>2. ASSUME NEW n \in Nat, n \in T
        PROVE  n + 1 \in T
    <2> SUFFICES ASSUME NEW tt, AllSequences(tt), Len(tt) = n + 1
                 PROVE  IsASequence(FlattenSeq(tt))
      OBVIOUS
    <2>1. tt # << >>
      BY EmptySequence DEF AllSequences
    <2>2. /\ AllSequences(Front(tt))
          /\ Len(Front(tt)) = Len(tt) - 1
          /\ IsASequence(tt[Len(tt)])
          /\ FlattenSeq(tt) = FlattenSeq(Front(tt)) \o tt[Len(tt)]
      BY <2>1, FrontOfAll
    <2>3. Len(Front(tt)) = n
      BY <2>2
    <2>4. IsASequence(FlattenSeq(Front(tt)))
      BY <2>2, <2>3, <1>2
    <2> QED
      BY <2>2, <2>4, JoinedSequence
  <1> HIDE DEF T
  <1>3. Nat \subseteq T
    BY <1>1, <1>2, SetInduction
  <1>4. Len(ss) \in Nat
    BY SequenceShape DEF AllSequences
  <1> QED
    BY <1>3, <1>4 DEF T

LEMMA FlattenedJoined ==
  ASSUME NEW ss, AllSequences(ss), NEW tt, AllSequences(tt)
  PROVE  /\ AllSequences(ss \o tt)
         /\ FlattenSeq(ss \o tt) = FlattenSeq(ss) \o FlattenSeq(tt)
  <1>0. IsASequence(ss) /\ Len(ss) \in Nat /\ IsASequence(FlattenSeq(ss))
    BY SequenceShape, FlattenedSequence DEF AllSequences
  <1> DEFINE T == {n \in Nat : \A uu : AllSequences(uu) /\ Len(uu) = n =>
                                 /\ AllSequences(ss \o uu)
                                 /\ FlattenSeq(ss \o uu) = FlattenSeq(ss) \o FlattenSeq(uu)}
  <1>1. 0 \in T
    <2> SUFFICES ASSUME NEW uu, AllSequences(uu), Len(uu) = 0
                 PROVE  /\ AllSequences(ss \o uu)
                        /\ FlattenSeq(ss \o uu) = FlattenSeq(ss) \o FlattenSeq(uu)
      OBVIOUS
    <2>1. uu = << >>
      BY EmptySequence DEF AllSequences
    <2>2. ss \o uu = ss
      BY <1>0, <2>1, JoinedWithEmpty
    <2>3. FlattenSeq(ss) \o FlattenSeq(uu) = FlattenSeq(ss)
      BY <1>0, <2>1, FlattenedEmpty, JoinedWithEmpty
    <2> QED
      BY <2>2, <2>3
  <1>2. ASSUME NEW n \in Nat, n \in T
        PROVE  n + 1 \in T
    <2> SUFFICES ASSUME NEW uu, AllSequences(uu), Len(uu) = n + 1
                 PROVE  /\ AllSequences(ss \o uu)
                        /\ FlattenSeq(ss \o uu) = FlattenSeq(ss) \o FlattenSeq(uu)
      OBVIOUS
    <2>0. \A vv : AllSequences(vv) /\ Len(vv) = n =>
                    /\ AllSequences(ss \o vv)
                    /\ FlattenSeq(ss \o vv) = FlattenSeq(ss) \o FlattenSeq(vv)
      BY <1>2
    <2> HIDE DEF T
    <2>1. uu # << >> /\ IsASequence(uu)
      BY EmptySequence DEF AllSequences
    <2> DEFINE vv == Front(uu)  v == uu[Len(uu)]
    <2>2. /\ AllSequences(vv)
          /\ Len(vv) = n
          /\ IsASequence(v)
          /\ FlattenSeq(uu) = FlattenSeq(vv) \o v
          /\ uu = vv \o <<v>>
      <3>1. /\ AllSequences(vv)
            /\ Len(uu) \in Nat \ {0}
            /\ Len(vv) = Len(uu) - 1
            /\ IsASequence(v)
            /\ FlattenSeq(uu) = FlattenSeq(vv) \o v
        BY <2>1, FrontOfAll
      <3>2. uu = vv \o <<v>>
        BY <2>1, FrontOfSequence DEF Last
      <3> HIDE DEF vv, v
      <3> QED
        BY <3>1, <3>2
    <2> HIDE DEF vv, v
    <2>3. /\ AllSequences(ss \o vv)
          /\ FlattenSeq(ss \o vv) = FlattenSeq(ss) \o FlattenSeq(vv)
      BY <2>2, <2>0
    <2>4. IsASequence(vv) /\ IsASequence(ss \o vv) /\ IsASequence(FlattenSeq(vv)) /\ IsASequence(<<v>>)
      BY <2>2, <2>3, FlattenedSequence, OneSequence DEF AllSequences
    <2>5. ss \o uu = (ss \o vv) \o <<v>>
      BY <2>2, <2>4, <1>0, JoinedInTurn
    <2>6. FlattenSeq(ss \o uu) = (FlattenSeq(ss) \o FlattenSeq(vv)) \o v
      <3>1. IsASequence(v)
        BY <2>2
      <3>2. FlattenSeq((ss \o vv) \o <<v>>) = FlattenSeq(ss \o vv) \o v
        BY <2>4, <3>1, FlattenedWithLast, Zenon
      <3> QED
        BY <3>2, <2>3, <2>5, Zenon
    <2>7. FlattenSeq(ss \o uu) = FlattenSeq(ss) \o FlattenSeq(uu)
      <3>1. (FlattenSeq(ss) \o FlattenSeq(vv)) \o v = FlattenSeq(ss) \o (FlattenSeq(vv) \o v)
        <4> DEFINE a == FlattenSeq(ss)  b == FlattenSeq(vv)
        <4>1. IsASequence(a) /\ IsASequence(b) /\ IsASequence(v)
          BY <2>2, <2>4, <1>0
        <4> HIDE DEF a, b
        <4>2. (a \o b) \o v = a \o (b \o v)
          BY <4>1, JoinedInTurn
        <4> QED
          BY <4>2 DEF a, b
      <3> QED
        BY <3>1, <2>2, <2>6
    <2>8. AllSequences((ss \o vv) \o <<v>>)
      <3> DEFINE xx == ss \o vv
      <3>1. IsASequence(xx) /\ Len(xx) \in Nat /\ \A i \in 1..Len(xx) : IsASequence(xx[i])
        BY <2>3, SequenceShape DEF AllSequences
      <3> HIDE DEF xx
      <3>2. /\ IsASequence(xx \o <<v>>)
            /\ Len(xx \o <<v>>) = Len(xx) + 1
            /\ (xx \o <<v>>)[Len(xx) + 1] = v
            /\ \A i \in 1..Len(xx) : (xx \o <<v>>)[i] = xx[i]
        BY <3>1, OneSequence, JoinedSequence
      <3>3. \A i \in 1..Len(xx \o <<v>>) : IsASequence((xx \o <<v>>)[i])
        <4> TAKE i \in 1..Len(xx \o <<v>>)
        <4>1. i = Len(xx) + 1 \/ i \in 1..Len(xx)
          BY <3>1, <3>2
        <4> QED
          BY <4>1, <3>1, <3>2, <2>2
      <3> QED
        BY <3>2, <3>3 DEF AllSequences, xx
    <2> QED
      BY <2>5, <2>7, <2>8
  <1> HIDE DEF T
  <1>3. Nat \subseteq T
    BY <1>1, <1>2, SetInduction
  <1>4. Len(tt) \in Nat
    BY SequenceShape DEF AllSequences
  <1> QED
    BY <1>3, <1>4 DEF T

(* An element is added to a sequence that only empty ones follow. *)
Grown(xx, yy, j, v) ==
  /\ AllSequences(xx) /\ AllSequences(yy) /\ Len(yy) = Len(xx) /\ j \in 1..Len(xx)
  /\ yy[j] = xx[j] \o <<v>>
  /\ \A i \in 1..Len(xx) : i # j => yy[i] = xx[i]
  /\ \A i \in 1..Len(xx) : i > j => xx[i] = << >>

LEMMA FlattenedGrown ==
  ASSUME NEW ss, NEW tt, NEW j, NEW v, Grown(ss, tt, j, v)
  PROVE  FlattenSeq(tt) = FlattenSeq(ss) \o <<v>>
  <1> DEFINE T == {n \in Nat : \A xx, yy : Grown(xx, yy, j, v) /\ Len(xx) = n =>
                                 FlattenSeq(yy) = FlattenSeq(xx) \o <<v>>}
  <1>1. 0 \in T
    BY DEF Grown
  <1>2. ASSUME NEW n \in Nat, n \in T
        PROVE  n + 1 \in T
    <2> SUFFICES ASSUME NEW xx, NEW yy, Grown(xx, yy, j, v), Len(xx) = n + 1
                 PROVE  FlattenSeq(yy) = FlattenSeq(xx) \o <<v>>
      OBVIOUS
    <2>0. \A ww, zz : Grown(ww, zz, j, v) /\ Len(ww) = n =>
                        FlattenSeq(zz) = FlattenSeq(ww) \o <<v>>
      BY <1>2
    <2> HIDE DEF T
    <2>1. /\ AllSequences(xx) /\ AllSequences(yy)
          /\ Len(xx) = n + 1 /\ Len(yy) = n + 1
          /\ xx # << >> /\ yy # << >>
      BY EmptySequence DEF AllSequences, Grown
    <2>a. /\ j \in 1..n + 1
          /\ yy[j] = xx[j] \o <<v>>
          /\ \A i \in 1..n + 1 : i # j => yy[i] = xx[i]
          /\ \A i \in 1..n + 1 : i > j => xx[i] = << >>
      BY <2>1 DEF Grown
    <2>2. /\ AllSequences(Front(xx)) /\ Len(Front(xx)) = n
          /\ \A i \in 1..n : Front(xx)[i] = xx[i]
          /\ IsASequence(xx[n + 1])
          /\ FlattenSeq(xx) = FlattenSeq(Front(xx)) \o xx[n + 1]
      BY <2>1, FrontOfMore
    <2>3. /\ AllSequences(Front(yy)) /\ Len(Front(yy)) = n
          /\ \A i \in 1..n : Front(yy)[i] = yy[i]
          /\ IsASequence(yy[n + 1])
          /\ FlattenSeq(yy) = FlattenSeq(Front(yy)) \o yy[n + 1]
      BY <2>1, FrontOfMore
    <2>4. IsASequence(FlattenSeq(Front(xx))) /\ IsASequence(<<v>>)
      BY <2>2, FlattenedSequence, OneSequence
    <2>5. CASE j = n + 1
      <3>1. Front(yy) = Front(xx)
        <4>1. ASSUME NEW i \in 1..n
              PROVE  Front(yy)[i] = Front(xx)[i]
          <5>1. i \in 1..n + 1 /\ i # j
            BY <2>5
          <5>2. yy[i] = xx[i]
            BY <5>1, <2>a
          <5> QED
            BY <5>2, <2>2, <2>3
        <4> QED
          BY <4>1, <2>2, <2>3, SameSequence DEF AllSequences
      <3>2. yy[n + 1] = xx[n + 1] \o <<v>>
        BY <2>5, <2>a
      <3>3. (FlattenSeq(Front(xx)) \o xx[n + 1]) \o <<v>> = FlattenSeq(Front(xx)) \o (xx[n + 1] \o <<v>>)
        <4> DEFINE a == FlattenSeq(Front(xx))  b == xx[n + 1]  c == <<v>>
        <4>1. IsASequence(a) /\ IsASequence(b) /\ IsASequence(c)
          BY <2>2, <2>4
        <4> HIDE DEF a, b, c
        <4>2. (a \o b) \o c = a \o (b \o c)
          BY <4>1, JoinedInTurn
        <4> QED
          BY <4>2 DEF a, b, c
      <3> QED
        BY <3>1, <3>2, <3>3, <2>2, <2>3
    <2>6. CASE j # n + 1
      <3>1. j \in 1..n /\ xx[n + 1] = << >> /\ yy[n + 1] = << >>
        BY <2>6, <2>a
      <3>2. Grown(Front(xx), Front(yy), j, v)
        BY <3>1, <2>2, <2>3, <2>a DEF Grown
      <3>3. FlattenSeq(Front(yy)) = FlattenSeq(Front(xx)) \o <<v>>
        BY <3>2, <2>2, <2>0
      <3>4. IsASequence(FlattenSeq(Front(yy)))
        BY <2>3, FlattenedSequence
      <3> QED
        BY <3>1, <3>3, <3>4, <2>2, <2>3, <2>4, JoinedWithEmpty
    <2> QED
      BY <2>5, <2>6
  <1> HIDE DEF T
  <1>4. Nat \subseteq T
    BY <1>1, <1>2, SetInduction
  <1>5. Len(ss) \in Nat
    BY SequenceShape DEF AllSequences, Grown
  <1> QED
    BY <1>4, <1>5 DEF T

LEMMA FlattenedSingles ==
  ASSUME NEW s, IsASequence(s)
  PROVE  FlattenSeq([i \in DOMAIN s |-> <<s[i]>>]) = s
  <1> DEFINE Singles(t) == [i \in DOMAIN t |-> <<t[i]>>]
             T == {n \in Nat : \A t : IsASequence(t) /\ Len(t) = n => FlattenSeq(Singles(t)) = t}
  <1>0. ASSUME NEW t, IsASequence(t)
        PROVE  /\ IsASequence(Singles(t))
               /\ Len(Singles(t)) = Len(t)
               /\ \A i \in 1..Len(t) : Singles(t)[i] = <<t[i]>>
    <2>1. DOMAIN t = 1..Len(t) /\ Len(t) \in Nat
      BY <1>0, SequenceShape
    <2>2. Singles(t) = [i \in 1..Len(t) |-> Singles(t)[i]]
      BY <2>1
    <2>3. \A i \in 1..Len(t) : Singles(t)[i] = <<t[i]>>
      BY <2>1
    <2> HIDE DEF Singles
    <2> QED
      BY <2>1, <2>2, <2>3, MadeASequence
  <1> HIDE DEF Singles
  <1>1. 0 \in T
    <2> SUFFICES ASSUME NEW t, IsASequence(t), Len(t) = 0
                 PROVE  FlattenSeq(Singles(t)) = t
      OBVIOUS
    <2>1. t = << >> /\ Singles(t) = << >>
      BY <1>0, EmptySequence
    <2> QED
      BY <2>1, FlattenedEmpty
  <1>2. ASSUME NEW n \in Nat, n \in T
        PROVE  n + 1 \in T
    <2> SUFFICES ASSUME NEW t, IsASequence(t), Len(t) = n + 1
                 PROVE  FlattenSeq(Singles(t)) = t
      OBVIOUS
    <2>0. \A u : IsASequence(u) /\ Len(u) = n => FlattenSeq(Singles(u)) = u
      BY <1>2
    <2> HIDE DEF T
    <2>1. t # << >>
      BY EmptySequence
    <2> DEFINE f == Front(t)
    <2>2. /\ IsASequence(f)
          /\ Len(f) = n
          /\ \A i \in 1..n : f[i] = t[i]
          /\ t = f \o <<t[n + 1]>>
      <3>1. /\ IsASequence(f)
            /\ Len(f) = Len(t) - 1
            /\ \A i \in 1..Len(t) - 1 : f[i] = t[i]
            /\ t = f \o <<t[Len(t)]>>
        BY <2>1, FrontOfSequence DEF Last
      <3> HIDE DEF f
      <3>2. Len(t) - 1 = n
        OBVIOUS
      <3> QED
        BY <3>1, <3>2
    <2> HIDE DEF f
    <2>3. FlattenSeq(Singles(f)) = f
      BY <2>0, <2>2
    <2> DEFINE g == Singles(f)  v == <<<<t[n + 1]>>>>
    <2>4. /\ IsASequence(g) /\ Len(g) = n
          /\ \A i \in 1..n : g[i] = <<f[i]>>
      BY <1>0, <2>2
    <2>5. IsASequence(v) /\ Len(v) = 1 /\ v[1] = <<t[n + 1]>>
      BY OneSequence
    <2> HIDE DEF g, v
    <2>6. Singles(t) = g \o v
      <3>1. /\ IsASequence(g \o v)
            /\ Len(g \o v) = n + 1
            /\ \A i \in 1..n : (g \o v)[i] = g[i]
            /\ (g \o v)[n + 1] = v[1]
        <4>0. IsASequence(g) /\ IsASequence(v)
          BY <2>4, <2>5
        <4>1. /\ IsASequence(g \o v)
              /\ Len(g \o v) = Len(g) + Len(v)
              /\ \A i \in 1..Len(g) : (g \o v)[i] = g[i]
              /\ \A i \in 1..Len(v) : (g \o v)[Len(g) + i] = v[i]
          BY <4>0, JoinedSequence
        <4> QED
          BY <4>1, <2>4, <2>5
      <3> DEFINE h == g \o v  k == Singles(t)
      <3>2. /\ IsASequence(k)
            /\ Len(k) = n + 1
            /\ \A i \in 1..n + 1 : k[i] = <<t[i]>>
        BY <1>0
      <3> HIDE DEF k
      <3>3. IsASequence(h) /\ Len(h) = n + 1 /\ (\A i \in 1..n : h[i] = g[i]) /\ h[n + 1] = v[1]
        BY <3>1
      <3> HIDE DEF h
      <3>4. ASSUME NEW i \in 1..n + 1
            PROVE  k[i] = h[i]
        <4>1. CASE i = n + 1
          BY <4>1, <3>2, <3>3, <2>5
        <4>2. CASE i # n + 1
          <5>1. i \in 1..n
            BY <4>2
          <5>2. k[i] = <<t[i]>>
            BY <3>2
          <5>3. h[i] = g[i] /\ g[i] = <<f[i]>> /\ f[i] = t[i]
            BY <5>1, <3>3, <2>2, <2>4
          <5> QED
            BY <5>2, <5>3, Zenon
        <4> QED
          BY <4>1, <4>2
      <3>5. k = h
        BY <3>2, <3>3, <3>4, SameSequence
      <3> QED
        BY <3>5 DEF h, k
    <2>7. FlattenSeq(g \o v) = FlattenSeq(g) \o <<t[n + 1]>>
      BY <2>4, OneSequence, FlattenedWithLast DEF v
    <2> QED
      BY <2>2, <2>3, <2>6, <2>7 DEF g
  <1> HIDE DEF T
  <1>3. Nat \subseteq T
    BY <1>1, <1>2, SetInduction
  <1>4. Len(s) \in Nat
    BY SequenceShape
  <1>5. FlattenSeq(Singles(s)) = s
    BY <1>3, <1>4 DEF T
  <1> QED
    BY <1>5 DEF Singles

----------------------------------------------------------------------------
(* Trees. *)

(* Opaque, for the provers. *)
Join(s, t) == s \o t

LEMMA JoinSequence ==
  ASSUME NEW s, IsASequence(s), NEW t, IsASequence(t)
  PROVE  /\ IsASequence(Join(s, t))
         /\ Len(Join(s, t)) = Len(s) + Len(t)
         /\ \A i \in 1..Len(s) : Join(s, t)[i] = s[i]
         /\ \A i \in 1..Len(t) : Join(s, t)[Len(s) + i] = t[i]
  BY JoinedSequence DEF Join

LEMMA JoinEmpty ==
  ASSUME NEW s, IsASequence(s)
  PROVE  Join(s, << >>) = s /\ Join(<< >>, s) = s
  BY JoinedWithEmpty DEF Join

LEMMA JoinInTurn ==
  ASSUME NEW s, IsASequence(s), NEW t, IsASequence(t), NEW u, IsASequence(u)
  PROVE  Join(Join(s, t), u) = Join(s, Join(t, u))
  BY JoinedInTurn DEF Join

LEMMA FlattenedJoin ==
  ASSUME NEW ss, AllSequences(ss), NEW tt, AllSequences(tt)
  PROVE  /\ AllSequences(Join(ss, tt))
         /\ FlattenSeq(Join(ss, tt)) = Join(FlattenSeq(ss), FlattenSeq(tt))
  BY FlattenedJoined DEF Join

LEMMA FlattenedGrows ==
  ASSUME NEW ss, NEW tt, NEW j, NEW v, Grown(ss, tt, j, v)
  PROVE  FlattenSeq(tt) = Join(FlattenSeq(ss), <<v>>)
  BY FlattenedGrown DEF Join

LEMMA FrontJoin ==
  ASSUME NEW s, IsASequence(s), s # << >>
  PROVE  /\ IsASequence(Front(s))
         /\ Len(s) \in Nat \ {0}
         /\ Len(Front(s)) = Len(s) - 1
         /\ \A i \in 1..Len(s) - 1 : Front(s)[i] = s[i]
         /\ s = Join(Front(s), <<Last(s)>>)
  BY FrontOfSequence DEF Join

----------------------------------------------------------------------------
(* The levels of trees. *)

IsLevelling(f, trees, n) ==
  f = [d \in 0..n |-> IF d = 0 THEN trees ELSE Expanded(f[d - 1])]

LEMMA LevellingExists ==
  ASSUME NEW trees
  PROVE  \A n \in Nat : \E f : IsLevelling(f, trees, n)
  <1> DEFINE T == {n \in Nat : \E f : IsLevelling(f, trees, n)}
  <1>1. 0 \in T
    <2> DEFINE f == [d \in 0..0 |-> trees]
    <2>1. f = [d \in 0..0 |-> IF d = 0 THEN trees ELSE Expanded(f[d - 1])]
      OBVIOUS
    <2> QED
      BY <2>1 DEF IsLevelling
  <1>2. ASSUME NEW n \in Nat, n \in T
        PROVE  n + 1 \in T
    <2>1. PICK f : IsLevelling(f, trees, n)
      BY <1>2
    <2> HIDE DEF T
    <2> DEFINE g == [d \in 0..n + 1 |-> IF d <= n THEN f[d] ELSE Expanded(f[d - 1])]
    <2>2. ASSUME NEW d \in 0..n + 1
          PROVE  g[d] = IF d = 0 THEN trees ELSE Expanded(g[d - 1])
      <3>1. CASE d = n + 1
        <4>1. d - 1 \in 0..n + 1 /\ d - 1 <= n /\ ~(d <= n) /\ d # 0
          BY <3>1
        <4>2. g[d - 1] = f[d - 1] /\ g[d] = Expanded(f[d - 1])
          BY <4>1
        <4> QED
          BY <4>1, <4>2
      <3>2. CASE d # n + 1
        <4>1. d \in 0..n
          BY <3>2
        <4>2. g[d] = f[d]
          BY <4>1
        <4>3. f[d] = IF d = 0 THEN trees ELSE Expanded(f[d - 1])
          BY <2>1, <4>1 DEF IsLevelling
        <4>4. d # 0 => g[d - 1] = f[d - 1]
          BY <4>1
        <4> HIDE DEF g
        <4> QED
          BY <4>2, <4>3, <4>4
      <3> QED
        BY <3>1, <3>2
    <2>3. g = [d \in 0..n + 1 |-> g[d]]
      OBVIOUS
    <2> HIDE DEF g
    <2>4. IsLevelling(g, trees, n + 1)
      BY <2>2, <2>3 DEF IsLevelling
    <2> QED
      BY <2>4 DEF T
  <1> HIDE DEF T
  <1>3. Nat \subseteq T
    BY <1>1, <1>2, SetInduction
  <1> QED
    BY <1>3 DEF T

LEMMA LevellingUnique ==
  ASSUME NEW trees, NEW n \in Nat, NEW m \in Nat, n <= m, NEW f, NEW g,
         IsLevelling(f, trees, n), IsLevelling(g, trees, m)
  PROVE  \A d \in 0..n : f[d] = g[d]
  <1> DEFINE T == {d \in Nat : d \in 0..n => f[d] = g[d]}
  <1>1. 0 \in T
    BY DEF IsLevelling
  <1>2. ASSUME NEW d \in Nat, d \in T
        PROVE  d + 1 \in T
    <2>1. SUFFICES ASSUME d + 1 \in 0..n
                   PROVE  f[d + 1] = g[d + 1]
      OBVIOUS
    <2>2. d + 1 \in 0..m /\ (d + 1) - 1 = d /\ d + 1 # 0 /\ d \in 0..n
      BY <2>1
    <2>3. f[d + 1] = Expanded(f[d])
      BY <2>1, <2>2 DEF IsLevelling
    <2>4. g[d + 1] = Expanded(g[d])
      BY <2>2 DEF IsLevelling
    <2> QED
      BY <1>2, <2>2, <2>3, <2>4
  <1> HIDE DEF T
  <1>3. Nat \subseteq T
    BY <1>1, <1>2, SetInduction
  <1> QED
    BY <1>3 DEF T

LEMMA LevelsUnfold ==
  ASSUME NEW trees
  PROVE  /\ Levels(trees)[0] = trees
         /\ \A d \in Nat : Levels(trees)[d + 1] = Expanded(Levels(trees)[d])
  <1> DEFINE level[d \in Nat] == IF d = 0 THEN trees ELSE Expanded(level[d - 1])
             up(d) == CHOOSE f : IsLevelling(f, trees, d)
             h == [d \in Nat |-> up(d)[d]]
  <1>1. ASSUME NEW d \in Nat
        PROVE  IsLevelling(up(d), trees, d)
    BY LevellingExists
  <1> HIDE DEF up
  <1>2. ASSUME NEW d \in Nat
        PROVE  h[d] = IF d = 0 THEN trees ELSE Expanded(h[d - 1])
    <2>1. up(d)[d] = IF d = 0 THEN trees ELSE Expanded(up(d)[d - 1])
      BY <1>1 DEF IsLevelling
    <2>2. ASSUME d # 0
          PROVE  up(d)[d - 1] = up(d - 1)[d - 1]
      <3>1. d - 1 \in Nat /\ d - 1 <= d /\ d - 1 \in 0..d - 1
        BY <2>2
      <3>2. IsLevelling(up(d - 1), trees, d - 1) /\ IsLevelling(up(d), trees, d)
        BY <1>1, <3>1
      <3> QED
        BY <3>1, <3>2, LevellingUnique
    <2>3. h[d] = up(d)[d]
      OBVIOUS
    <2>4. d # 0 => d - 1 \in Nat /\ h[d - 1] = up(d - 1)[d - 1]
      OBVIOUS
    <2> HIDE DEF h
    <2> QED
      BY <2>1, <2>2, <2>3, <2>4
  <1>3. h = [d \in Nat |-> h[d]]
    OBVIOUS
  <1> HIDE DEF h
  <1>4. h = [d \in Nat |-> IF d = 0 THEN trees ELSE Expanded(h[d - 1])]
    BY <1>2, <1>3
  <1>5. level = [d \in Nat |-> IF d = 0 THEN trees ELSE Expanded(level[d - 1])]
    BY <1>4
  <1>6. Levels(trees) = level
    BY DEF Levels
  <1> HIDE DEF level
  <1>7. level[0] = trees
    BY <1>5
  <1>8. ASSUME NEW d \in Nat
        PROVE  level[d + 1] = Expanded(level[d])
    <2>1. d + 1 \in Nat /\ d + 1 # 0 /\ (d + 1) - 1 = d
      OBVIOUS
    <2>2. level[d + 1] = IF d + 1 = 0 THEN trees ELSE Expanded(level[(d + 1) - 1])
      BY <1>5, <2>1
    <2> QED
      BY <2>1, <2>2
  <1> QED
    BY <1>6, <1>7, <1>8

LEMMA LevelsOfExpanded ==
  ASSUME NEW trees
  PROVE  \A d \in Nat : Levels(trees)[d + 1] = Levels(Expanded(trees))[d]
  <1> DEFINE T == {d \in Nat : Levels(trees)[d + 1] = Levels(Expanded(trees))[d]}
  <1>1. 0 \in T
    <2>1. Levels(trees)[0 + 1] = Expanded(Levels(trees)[0])
      BY LevelsUnfold
    <2> QED
      BY <2>1, LevelsUnfold
  <1>2. ASSUME NEW d \in Nat, d \in T
        PROVE  d + 1 \in T
    <2>1. Levels(trees)[(d + 1) + 1] = Expanded(Levels(trees)[d + 1])
      BY LevelsUnfold
    <2>2. Levels(Expanded(trees))[d + 1] = Expanded(Levels(Expanded(trees))[d])
      BY LevelsUnfold
    <2> QED
      BY <1>2, <2>1, <2>2
  <1> HIDE DEF T
  <1>3. Nat \subseteq T
    BY <1>1, <1>2, SetInduction
  <1> QED
    BY <1>3 DEF T

----------------------------------------------------------------------------
(* Finished trees. *)

AllLeaves(trees) == \A i \in 1..Len(trees) : trees[i].kind = "lexeme"

(* It has no more levels than lexemes. *)
Shallow(trees) ==
  \E d \in Nat : d <= Len(Levels(trees)[d]) /\ AllLeaves(Levels(trees)[d])

ListsFormed(tree) ==
  /\ "kind" \in DOMAIN tree
  /\ \A m \in Lists : m \in DOMAIN tree => IsASequence(tree[m])
  /\ "arguments" \in DOMAIN tree => "argument_commas" \in DOMAIN tree
  /\ "parameters" \in DOMAIN tree => "parameter_commas" \in DOMAIN tree

Sound(tree) ==
  /\ tree.kind \in DOMAIN Written \cup {"lexeme"}
  /\ tree.kind # "lexeme" => ListsFormed(tree)
  /\ Shallow(<<tree>>)

SoundEach(trees) == IsASequence(trees) /\ \A i \in 1..Len(trees) : Sound(trees[i])
AllSound(trees) == \A d \in Nat : SoundEach(Levels(trees)[d])

(* Sound, and so is every node in it. *)
Finished(tree) == AllSound(<<tree>>)
AllFinished(trees) == IsASequence(trees) /\ \A i \in 1..Len(trees) : Finished(trees[i])

(* The members of a node, in a list for each place in the order they are written. *)
Places(node) == [i \in DOMAIN Written[node.kind] |-> Member(node, Written[node.kind][i])]

LEMMA WrittenOf ==
  /\ Written["let"] = <<"kw_let", "kw_mut", "name", "eq", "initializer", "semicolon">>
  /\ Written["return"] = <<"kw_return", "value", "semicolon">>
  /\ Written["while"] = <<"kw_while", "condition", "body">>
  /\ Written["expression_statement"] = <<"expression", "semicolon">>
  /\ Written["atom"] = <<"lexeme">>
  /\ Written["paren"] = <<"lparen", "inner", "rparen">>
  /\ Written["block"] = <<"lbrace", "statements", "tail", "rbrace">>
  /\ Written["if"] = <<"kw_if", "condition", "then_block", "elses">>
  /\ Written["else"] = <<"kw_else", "kw_if", "condition", "body">>
  /\ Written["fn"] = <<"kw_fn", "name", "lparen", "parameters", "rparen", "return_type", "arrow", "body">>
  /\ Written["parameter"] = <<"kw_mut", "name", "colon", "type">>
  /\ Written["return_type"] = <<"colon", "type">>
  /\ Written["prefix"] = <<"op", "operand">>
  /\ Written["prefix_bracket"] = <<"lbracket", "size", "rbracket", "operand">>
  /\ Written["call"] = <<"callee", "lparen", "arguments", "rparen">>
  /\ Written["index"] = <<"operand", "lbracket", "index", "rbracket">>
  /\ Written["postfix"] = <<"operand", "op">>
  /\ Written["binary"] = <<"left", "op", "right">>
  /\ Written["unit"] = <<"statements">>
  /\ Written["none"] = << >>
  BY DEF Written

LEMMA WrittenKinds ==
  DOMAIN Written = {"let", "return", "while", "expression_statement", "atom", "paren", "block",
                    "if", "else", "fn", "parameter", "return_type", "prefix", "prefix_bracket",
                    "call", "index", "postfix", "binary", "unit", "none"}
  BY DEF Written

LEMMA WrittenSequence ==
  ASSUME NEW kind \in DOMAIN Written
  PROVE  IsASequence(Written[kind])
  <1>1. CASE kind = "let"
    <2>1. <<"kw_let", "kw_mut", "name", "eq", "initializer", "semicolon">> \in Seq({"kw_let", "kw_mut", "name", "eq", "initializer", "semicolon"})
      OBVIOUS
    <2> QED
      BY <1>1, <2>1, WrittenOf, SequenceOfSome
  <1>2. CASE kind = "return"
    <2>1. <<"kw_return", "value", "semicolon">> \in Seq({"kw_return", "value", "semicolon"})
      OBVIOUS
    <2> QED
      BY <1>2, <2>1, WrittenOf, SequenceOfSome
  <1>3. CASE kind = "while"
    <2>1. <<"kw_while", "condition", "body">> \in Seq({"kw_while", "condition", "body"})
      OBVIOUS
    <2> QED
      BY <1>3, <2>1, WrittenOf, SequenceOfSome
  <1>4. CASE kind = "expression_statement"
    <2>1. <<"expression", "semicolon">> \in Seq({"expression", "semicolon"})
      OBVIOUS
    <2> QED
      BY <1>4, <2>1, WrittenOf, SequenceOfSome
  <1>5. CASE kind = "atom"
    <2>1. <<"lexeme">> \in Seq({"lexeme"})
      OBVIOUS
    <2> QED
      BY <1>5, <2>1, WrittenOf, SequenceOfSome
  <1>6. CASE kind = "paren"
    <2>1. <<"lparen", "inner", "rparen">> \in Seq({"lparen", "inner", "rparen"})
      OBVIOUS
    <2> QED
      BY <1>6, <2>1, WrittenOf, SequenceOfSome
  <1>7. CASE kind = "block"
    <2>1. <<"lbrace", "statements", "tail", "rbrace">> \in Seq({"lbrace", "statements", "tail", "rbrace"})
      OBVIOUS
    <2> QED
      BY <1>7, <2>1, WrittenOf, SequenceOfSome
  <1>8. CASE kind = "if"
    <2>1. <<"kw_if", "condition", "then_block", "elses">> \in Seq({"kw_if", "condition", "then_block", "elses"})
      OBVIOUS
    <2> QED
      BY <1>8, <2>1, WrittenOf, SequenceOfSome
  <1>9. CASE kind = "else"
    <2>1. <<"kw_else", "kw_if", "condition", "body">> \in Seq({"kw_else", "kw_if", "condition", "body"})
      OBVIOUS
    <2> QED
      BY <1>9, <2>1, WrittenOf, SequenceOfSome
  <1>10. CASE kind = "fn"
    <2>1. <<"kw_fn", "name", "lparen", "parameters", "rparen", "return_type", "arrow", "body">> \in Seq({"kw_fn", "name", "lparen", "parameters", "rparen", "return_type", "arrow", "body"})
      OBVIOUS
    <2> QED
      BY <1>10, <2>1, WrittenOf, SequenceOfSome
  <1>11. CASE kind = "parameter"
    <2>1. <<"kw_mut", "name", "colon", "type">> \in Seq({"kw_mut", "name", "colon", "type"})
      OBVIOUS
    <2> QED
      BY <1>11, <2>1, WrittenOf, SequenceOfSome
  <1>12. CASE kind = "return_type"
    <2>1. <<"colon", "type">> \in Seq({"colon", "type"})
      OBVIOUS
    <2> QED
      BY <1>12, <2>1, WrittenOf, SequenceOfSome
  <1>13. CASE kind = "prefix"
    <2>1. <<"op", "operand">> \in Seq({"op", "operand"})
      OBVIOUS
    <2> QED
      BY <1>13, <2>1, WrittenOf, SequenceOfSome
  <1>14. CASE kind = "prefix_bracket"
    <2>1. <<"lbracket", "size", "rbracket", "operand">> \in Seq({"lbracket", "size", "rbracket", "operand"})
      OBVIOUS
    <2> QED
      BY <1>14, <2>1, WrittenOf, SequenceOfSome
  <1>15. CASE kind = "call"
    <2>1. <<"callee", "lparen", "arguments", "rparen">> \in Seq({"callee", "lparen", "arguments", "rparen"})
      OBVIOUS
    <2> QED
      BY <1>15, <2>1, WrittenOf, SequenceOfSome
  <1>16. CASE kind = "index"
    <2>1. <<"operand", "lbracket", "index", "rbracket">> \in Seq({"operand", "lbracket", "index", "rbracket"})
      OBVIOUS
    <2> QED
      BY <1>16, <2>1, WrittenOf, SequenceOfSome
  <1>17. CASE kind = "postfix"
    <2>1. <<"operand", "op">> \in Seq({"operand", "op"})
      OBVIOUS
    <2> QED
      BY <1>17, <2>1, WrittenOf, SequenceOfSome
  <1>18. CASE kind = "binary"
    <2>1. <<"left", "op", "right">> \in Seq({"left", "op", "right"})
      OBVIOUS
    <2> QED
      BY <1>18, <2>1, WrittenOf, SequenceOfSome
  <1>19. CASE kind = "unit"
    <2>1. <<"statements">> \in Seq({"statements"})
      OBVIOUS
    <2> QED
      BY <1>19, <2>1, WrittenOf, SequenceOfSome
  <1>20. CASE kind = "none"
    <2>1. << >> \in Seq({})
      OBVIOUS
    <2> QED
      BY <1>20, <2>1, WrittenOf, SequenceOfSome
  <1> QED
    BY <1>1, <1>2, <1>3, <1>4, <1>5, <1>6, <1>7, <1>8, <1>9, <1>10, <1>11, <1>12, <1>13, <1>14, <1>15, <1>16, <1>17, <1>18, <1>19, <1>20, WrittenKinds

LEMMA AlternatingSequence ==
  ASSUME NEW items, IsASequence(items), NEW commas, IsASequence(commas)
  PROVE  /\ IsASequence(Alternating(items, commas))
         /\ Len(Alternating(items, commas)) = Len(items) + Len(commas)
  <1>1. Len(items) \in Nat /\ Len(commas) \in Nat
    BY SequenceShape
  <1> DEFINE t == Alternating(items, commas)  n == Len(items) + Len(commas)
  <1>2. t = [i \in 1..n |-> t[i]] /\ n \in Nat
    BY <1>1 DEF Alternating
  <1> HIDE DEF t, n
  <1>3. IsASequence(t) /\ Len(t) = n
    BY <1>2, MadeASequence
  <1> QED
    BY <1>3 DEF t, n

LEMMA MemberSequence ==
  ASSUME NEW node, ListsFormed(node), NEW m
  PROVE  IsASequence(Member(node, m))
  <1>1. CASE m \notin DOMAIN node
    BY <1>1, EmptySequence DEF Member
  <1>2. CASE m \in DOMAIN node /\ m = "arguments"
    <2>1. IsASequence(node.arguments) /\ IsASequence(node.argument_commas)
      BY <1>2 DEF ListsFormed, Lists
    <2>2. Member(node, m) = Alternating(node.arguments, node.argument_commas)
      BY <1>2 DEF Member, Lists
    <2> QED
      BY <2>1, <2>2, AlternatingSequence
  <1>3. CASE m \in DOMAIN node /\ m = "parameters"
    <2>1. IsASequence(node.parameters) /\ IsASequence(node.parameter_commas)
      BY <1>3 DEF ListsFormed, Lists
    <2>2. Member(node, m) = Alternating(node.parameters, node.parameter_commas)
      BY <1>3 DEF Member, Lists
    <2> QED
      BY <2>1, <2>2, AlternatingSequence
  <1>4. CASE m \in DOMAIN node /\ m \in Lists \ {"arguments", "parameters"}
    <2>1. Member(node, m) = node[m]
      BY <1>4 DEF Member
    <2> QED
      BY <1>4, <2>1 DEF ListsFormed
  <1>5. CASE m \in DOMAIN node /\ m \notin Lists
    <2>1. Member(node, m) = <<node[m]>>
      BY <1>5 DEF Member, Lists
    <2> QED
      BY <2>1, OneSequence
  <1> QED
    BY <1>1, <1>2, <1>3, <1>4, <1>5

LEMMA PlacesFormed ==
  ASSUME NEW node, node.kind \in DOMAIN Written, ListsFormed(node)
  PROVE  /\ AllSequences(Places(node))
         /\ Len(Places(node)) = Len(Written[node.kind])
         /\ \A i \in 1..Len(Written[node.kind]) : Places(node)[i] = Member(node, Written[node.kind][i])
         /\ Members(node) = FlattenSeq(Places(node))
         /\ IsASequence(Members(node))
  <1> DEFINE w == Written[node.kind]  p == Places(node)
  <1>1. IsASequence(w)
    BY WrittenSequence
  <1>2. DOMAIN w = 1..Len(w) /\ Len(w) \in Nat
    BY <1>1, SequenceShape
  <1>3. p = [i \in 1..Len(w) |-> Member(node, w[i])]
    BY <1>2 DEF Places
  <1> HIDE DEF w, p
  <1>4. p = [i \in 1..Len(w) |-> p[i]] /\ \A i \in 1..Len(w) : p[i] = Member(node, w[i])
    BY <1>3
  <1>5. IsASequence(p) /\ Len(p) = Len(w)
    BY <1>2, <1>4, MadeASequence
  <1>6. AllSequences(p)
    BY <1>4, <1>5, MemberSequence DEF AllSequences
  <1>7. Members(node) = FlattenSeq(p)
    BY DEF Members, Places, p
  <1> QED
    BY <1>4, <1>5, <1>6, <1>7, FlattenedSequence DEF w, p

LEMMA OpenedSequence ==
  ASSUME NEW tree, Sound(tree)
  PROVE  IsASequence(Opened(tree))
  <1>1. CASE tree.kind = "lexeme"
    BY <1>1, OneSequence DEF Opened
  <1>2. CASE tree.kind # "lexeme"
    BY <1>2, PlacesFormed DEF Opened, Sound
  <1> QED
    BY <1>1, <1>2

Openings(trees) == [n \in DOMAIN trees |-> Opened(trees[n])]

LEMMA OpeningsFormed ==
  ASSUME NEW trees, SoundEach(trees)
  PROVE  /\ AllSequences(Openings(trees))
         /\ Len(Openings(trees)) = Len(trees)
         /\ \A i \in 1..Len(trees) : Openings(trees)[i] = Opened(trees[i])
         /\ Expanded(trees) = FlattenSeq(Openings(trees))
         /\ IsASequence(Expanded(trees))
  <1> DEFINE p == Openings(trees)
  <1>0. IsASequence(trees) /\ \A i \in 1..Len(trees) : Sound(trees[i])
    BY DEF SoundEach
  <1>1. DOMAIN trees = 1..Len(trees) /\ Len(trees) \in Nat
    BY <1>0, SequenceShape
  <1>2. p = [i \in 1..Len(trees) |-> Opened(trees[i])]
    BY <1>1 DEF Openings
  <1> HIDE DEF p
  <1>3. p = [i \in 1..Len(trees) |-> p[i]] /\ \A i \in 1..Len(trees) : p[i] = Opened(trees[i])
    BY <1>2
  <1>4. IsASequence(p) /\ Len(p) = Len(trees)
    BY <1>1, <1>3, MadeASequence
  <1>5. AllSequences(p)
    BY <1>0, <1>3, <1>4, OpenedSequence DEF AllSequences
  <1>6. Expanded(trees) = FlattenSeq(p)
    BY DEF Expanded, Openings, p
  <1> QED
    BY <1>3, <1>4, <1>5, <1>6, FlattenedSequence DEF p

LEMMA SoundJoined ==
  ASSUME NEW s, SoundEach(s), NEW t, SoundEach(t)
  PROVE  SoundEach(Join(s, t))
  <1>1. /\ IsASequence(s) /\ Len(s) \in Nat /\ \A i \in 1..Len(s) : Sound(s[i])
        /\ IsASequence(t) /\ Len(t) \in Nat /\ \A i \in 1..Len(t) : Sound(t[i])
    BY SequenceShape DEF SoundEach
  <1> DEFINE u == Join(s, t)
  <1>2. /\ IsASequence(u)
        /\ Len(u) = Len(s) + Len(t)
        /\ \A i \in 1..Len(s) : u[i] = s[i]
        /\ \A i \in 1..Len(t) : u[Len(s) + i] = t[i]
    <2>1. IsASequence(s) /\ IsASequence(t)
      BY <1>1
    <2> QED
      BY <2>1, JoinSequence
  <1> HIDE DEF u
  <1>3. ASSUME NEW i \in 1..Len(u)
        PROVE  Sound(u[i])
    <2>1. CASE i \in 1..Len(s)
      BY <2>1, <1>1, <1>2
    <2>2. CASE i \notin 1..Len(s)
      <3>1. i - Len(s) \in 1..Len(t) /\ i = Len(s) + (i - Len(s))
        BY <2>2, <1>1, <1>2
      <3> QED
        BY <3>1, <1>1, <1>2
    <2> QED
      BY <2>1, <2>2
  <1> QED
    BY <1>2, <1>3 DEF SoundEach, u

LEMMA ExpandedJoined ==
  ASSUME NEW s, SoundEach(s), NEW t, SoundEach(t)
  PROVE  Expanded(Join(s, t)) = Join(Expanded(s), Expanded(t))
  <1>1. SoundEach(Join(s, t))
    BY SoundJoined
  <1>2. IsASequence(s) /\ Len(s) \in Nat /\ IsASequence(t) /\ Len(t) \in Nat
    BY SequenceShape DEF SoundEach
  <1> DEFINE a == Openings(s)  b == Openings(t)  c == Openings(Join(s, t))
  <1>3. /\ AllSequences(a) /\ Len(a) = Len(s) /\ Expanded(s) = FlattenSeq(a)
        /\ \A i \in 1..Len(s) : a[i] = Opened(s[i])
    BY OpeningsFormed
  <1>4. /\ AllSequences(b) /\ Len(b) = Len(t) /\ Expanded(t) = FlattenSeq(b)
        /\ \A i \in 1..Len(t) : b[i] = Opened(t[i])
    BY OpeningsFormed
  <1>5. /\ AllSequences(c) /\ Len(c) = Len(Join(s, t)) /\ Expanded(Join(s, t)) = FlattenSeq(c)
        /\ \A i \in 1..Len(Join(s, t)) : c[i] = Opened(Join(s, t)[i])
    BY <1>1, OpeningsFormed
  <1>6. /\ Len(Join(s, t)) = Len(s) + Len(t)
        /\ \A i \in 1..Len(s) : Join(s, t)[i] = s[i]
        /\ \A i \in 1..Len(t) : Join(s, t)[Len(s) + i] = t[i]
    <2>1. IsASequence(s) /\ IsASequence(t)
      BY <1>2
    <2> QED
      BY <2>1, JoinSequence
  <1> HIDE DEF a, b, c
  <1>7. c = Join(a, b)
    <2>1. IsASequence(a) /\ IsASequence(b) /\ IsASequence(c)
      BY <1>3, <1>4, <1>5 DEF AllSequences
    <2> DEFINE d == Join(a, b)
    <2>2. /\ IsASequence(d)
          /\ Len(d) = Len(a) + Len(b)
          /\ \A i \in 1..Len(a) : d[i] = a[i]
          /\ \A i \in 1..Len(b) : d[Len(a) + i] = b[i]
      BY <2>1, JoinSequence
    <2> HIDE DEF d
    <2>3. Len(c) = Len(d)
      BY <2>2, <1>3, <1>4, <1>5, <1>6
    <2>4. ASSUME NEW i \in 1..Len(c)
          PROVE  c[i] = d[i]
      <3>1. c[i] = Opened(Join(s, t)[i])
        BY <1>5
      <3>2. CASE i \in 1..Len(s)
        BY <3>1, <3>2, <2>2, <1>3, <1>6
      <3>3. CASE i \notin 1..Len(s)
        <4>1. i - Len(s) \in 1..Len(t) /\ i = Len(s) + (i - Len(s))
          BY <3>3, <1>2, <1>5, <1>6
        <4>2. Join(s, t)[i] = t[i - Len(s)]
          BY <4>1, <1>6
        <4>3. d[i] = b[i - Len(s)]
          BY <4>1, <2>2, <1>3, <1>4
        <4> QED
          BY <4>1, <4>2, <4>3, <3>1, <1>4
      <3> QED
        BY <3>2, <3>3
    <2>5. c = d
      BY <2>1, <2>2, <2>3, <2>4, SameSequence
    <2> QED
      BY <2>5 DEF d
  <1> QED
    <2>1. FlattenSeq(Join(a, b)) = Join(FlattenSeq(a), FlattenSeq(b))
      BY <1>3, <1>4, FlattenedJoin
    <2> QED
      BY <2>1, <1>3, <1>4, <1>5, <1>7

LEMMA ExpandedOne ==
  ASSUME NEW tree
  PROVE  Expanded(<<tree>>) = Opened(tree)
  <1>1. [n \in DOMAIN <<tree>> |-> Opened(<<tree>>[n])] = <<Opened(tree)>>
    OBVIOUS
  <1> QED
    BY <1>1, FlattenedOne DEF Expanded

LEMMA LevelsOfOne ==
  ASSUME NEW tree
  PROVE  /\ Levels(<<tree>>)[0] = <<tree>>
         /\ \A d \in Nat : Levels(<<tree>>)[d + 1] = Levels(Opened(tree))[d]
  <1> DEFINE s == <<tree>>
  <1>1. Expanded(s) = Opened(tree)
    BY ExpandedOne
  <1> HIDE DEF s
  <1>2. Levels(s)[0] = s /\ \A d \in Nat : Levels(s)[d + 1] = Levels(Expanded(s))[d]
    BY LevelsUnfold, LevelsOfExpanded
  <1>3. Levels(s)[0] = s /\ \A d \in Nat : Levels(s)[d + 1] = Levels(Opened(tree))[d]
    BY <1>1, <1>2
  <1> QED
    BY <1>3 DEF s

LEMMA ExpandedLeaves ==
  ASSUME NEW s, IsASequence(s), AllLeaves(s)
  PROVE  Expanded(s) = s
  <1>1. DOMAIN s = 1..Len(s)
    BY SequenceShape
  <1>2. \A i \in DOMAIN s : Opened(s[i]) = <<s[i]>>
    BY <1>1 DEF Opened, AllLeaves
  <1>3. [i \in DOMAIN s |-> Opened(s[i])] = [i \in DOMAIN s |-> <<s[i]>>]
    BY <1>2
  <1> QED
    BY <1>3, FlattenedSingles DEF Expanded

LEMMA LeavesStay ==
  ASSUME NEW trees, NEW d \in Nat, IsASequence(Levels(trees)[d]), AllLeaves(Levels(trees)[d])
  PROVE  \A e \in Nat : e >= d => Levels(trees)[e] = Levels(trees)[d]
  <1> DEFINE T == {n \in Nat : Levels(trees)[d + n] = Levels(trees)[d]}
  <1>1. 0 \in T
    OBVIOUS
  <1>2. ASSUME NEW n \in Nat, n \in T
        PROVE  n + 1 \in T
    <2>1. d + n \in Nat /\ d + (n + 1) = (d + n) + 1
      OBVIOUS
    <2>2. Levels(trees)[(d + n) + 1] = Expanded(Levels(trees)[d + n])
      BY <2>1, LevelsUnfold
    <2>3. Levels(trees)[d + n] = Levels(trees)[d]
      BY <1>2
    <2>4. Expanded(Levels(trees)[d]) = Levels(trees)[d]
      BY ExpandedLeaves
    <2> QED
      BY <2>1, <2>2, <2>3, <2>4
  <1> HIDE DEF T
  <1>3. Nat \subseteq T
    BY <1>1, <1>2, SetInduction
  <1>4. ASSUME NEW e \in Nat, e >= d
        PROVE  Levels(trees)[e] = Levels(trees)[d]
    <2>1. e - d \in T /\ d + (e - d) = e
      BY <1>3, <1>4
    <2> QED
      BY <2>1 DEF T
  <1> QED
    BY <1>4

LEMMA LevelsJoined ==
  ASSUME NEW s, AllSound(s), NEW t, AllSound(t)
  PROVE  /\ \A d \in Nat : Levels(Join(s, t))[d] = Join(Levels(s)[d], Levels(t)[d])
         /\ AllSound(Join(s, t))
  <1> DEFINE T == {d \in Nat : Levels(Join(s, t))[d] = Join(Levels(s)[d], Levels(t)[d])}
  <1>1. 0 \in T
    BY LevelsUnfold
  <1>2. ASSUME NEW d \in Nat, d \in T
        PROVE  d + 1 \in T
    <2>1. SoundEach(Levels(s)[d]) /\ SoundEach(Levels(t)[d])
      BY DEF AllSound
    <2>2. Expanded(Join(Levels(s)[d], Levels(t)[d])) = Join(Expanded(Levels(s)[d]), Expanded(Levels(t)[d]))
      BY <2>1, ExpandedJoined
    <2>3. /\ Levels(Join(s, t))[d + 1] = Expanded(Levels(Join(s, t))[d])
          /\ Levels(s)[d + 1] = Expanded(Levels(s)[d])
          /\ Levels(t)[d + 1] = Expanded(Levels(t)[d])
      BY LevelsUnfold
    <2>4. Levels(Join(s, t))[d] = Join(Levels(s)[d], Levels(t)[d])
      BY <1>2
    <2> HIDE DEF T
    <2>5. Levels(Join(s, t))[d + 1] = Join(Levels(s)[d + 1], Levels(t)[d + 1])
      BY <2>2, <2>3, <2>4
    <2>6. d + 1 \in Nat
      OBVIOUS
    <2> QED
      BY <2>5, <2>6 DEF T
  <1> HIDE DEF T
  <1>3. Nat \subseteq T
    BY <1>1, <1>2, SetInduction
  <1>4. \A d \in Nat : Levels(Join(s, t))[d] = Join(Levels(s)[d], Levels(t)[d])
    BY <1>3 DEF T
  <1>5. ASSUME NEW d \in Nat
        PROVE  SoundEach(Levels(Join(s, t))[d])
    <2>1. SoundEach(Levels(s)[d]) /\ SoundEach(Levels(t)[d])
      BY DEF AllSound
    <2>2. SoundEach(Join(Levels(s)[d], Levels(t)[d]))
      BY <2>1, SoundJoined
    <2> QED
      BY <1>4, <2>2
  <1> QED
    BY <1>4, <1>5 DEF AllSound

LEMMA NoTrees ==
  /\ \A d \in Nat : Levels(<< >>)[d] = << >>
  /\ AllSound(<< >>)
  /\ Shallow(<< >>)
  /\ AllFinished(<< >>)
  <1>1. IsASequence(<< >>) /\ AllLeaves(<< >>) /\ Len(<< >>) = 0
    BY EmptySequence DEF AllLeaves
  <1>2. Levels(<< >>)[0] = << >>
    BY LevelsUnfold
  <1>3. \A e \in Nat : e >= 0 => Levels(<< >>)[e] = << >>
    BY <1>1, <1>2, LeavesStay
  <1>4. \A e \in Nat : Levels(<< >>)[e] = << >>
    BY <1>3
  <1>5. SoundEach(<< >>) /\ AllFinished(<< >>)
    BY <1>1 DEF SoundEach, AllFinished
  <1>6. Shallow(<< >>)
    BY <1>1, <1>2 DEF Shallow
  <1> QED
    BY <1>4, <1>5, <1>6 DEF AllSound

LEMMA FinishedLeaf ==
  ASSUME NEW tree, tree.kind = "lexeme"
  PROVE  /\ Finished(tree)
         /\ \A d \in Nat : Levels(<<tree>>)[d] = <<tree>>
  <1>1. IsASequence(<<tree>>) /\ AllLeaves(<<tree>>) /\ Len(<<tree>>) = 1 /\ <<tree>>[1] = tree
    BY OneSequence DEF AllLeaves
  <1>2. Levels(<<tree>>)[0] = <<tree>>
    BY LevelsUnfold
  <1>3. \A e \in Nat : e >= 0 => Levels(<<tree>>)[e] = <<tree>>
    BY <1>1, <1>2, LeavesStay
  <1>4. \A e \in Nat : Levels(<<tree>>)[e] = <<tree>>
    BY <1>3
  <1>5. Shallow(<<tree>>)
    BY <1>1, <1>2 DEF Shallow
  <1>6. SoundEach(<<tree>>)
    BY <1>1, <1>5 DEF SoundEach, Sound
  <1> QED
    BY <1>4, <1>6 DEF AllSound, Finished

LEMMA SoundOfFinished ==
  ASSUME NEW tree, Finished(tree)
  PROVE  Sound(tree)
  <1>1. SoundEach(Levels(<<tree>>)[0])
    BY DEF Finished, AllSound
  <1>2. Levels(<<tree>>)[0] = <<tree>>
    BY LevelsUnfold
  <1> QED
    BY <1>1, <1>2, OneSequence DEF SoundEach

LEMMA AllFinishedJoined ==
  ASSUME NEW s, AllFinished(s), NEW t, AllFinished(t)
  PROVE  AllFinished(Join(s, t))
  <1>1. /\ IsASequence(s) /\ Len(s) \in Nat /\ \A i \in 1..Len(s) : Finished(s[i])
        /\ IsASequence(t) /\ Len(t) \in Nat /\ \A i \in 1..Len(t) : Finished(t[i])
    BY SequenceShape DEF AllFinished
  <1> DEFINE u == Join(s, t)
  <1>2. /\ IsASequence(u)
        /\ Len(u) = Len(s) + Len(t)
        /\ \A i \in 1..Len(s) : u[i] = s[i]
        /\ \A i \in 1..Len(t) : u[Len(s) + i] = t[i]
    <2>1. IsASequence(s) /\ IsASequence(t)
      BY <1>1
    <2> QED
      BY <2>1, JoinSequence
  <1> HIDE DEF u
  <1>3. ASSUME NEW i \in 1..Len(u)
        PROVE  Finished(u[i])
    <2>1. CASE i \in 1..Len(s)
      BY <2>1, <1>1, <1>2
    <2>2. CASE i \notin 1..Len(s)
      <3>1. i - Len(s) \in 1..Len(t) /\ i = Len(s) + (i - Len(s))
        BY <2>2, <1>1, <1>2
      <3> QED
        BY <3>1, <1>1, <1>2
    <2> QED
      BY <2>1, <2>2
  <1> QED
    BY <1>2, <1>3 DEF AllFinished, u

LEMMA FinishedOne ==
  ASSUME NEW tree, Finished(tree)
  PROVE  AllFinished(<<tree>>)
  BY OneSequence DEF AllFinished

LEMMA ShallowJoined ==
  ASSUME NEW s, AllSound(s), Shallow(s), NEW t, AllSound(t), Shallow(t)
  PROVE  Shallow(Join(s, t))
  <1>1. PICK d \in Nat : d <= Len(Levels(s)[d]) /\ AllLeaves(Levels(s)[d])
    BY DEF Shallow
  <1>2. PICK e \in Nat : e <= Len(Levels(t)[e]) /\ AllLeaves(Levels(t)[e])
    BY DEF Shallow
  <1>3. PICK m \in Nat : m >= d /\ m >= e /\ (m = d \/ m = e)
    <2>1. d >= e \/ e >= d
      OBVIOUS
    <2> QED
      BY <2>1
  <1>4. IsASequence(Levels(s)[d]) /\ IsASequence(Levels(t)[e])
    BY DEF AllSound, SoundEach
  <1>5. Levels(s)[m] = Levels(s)[d] /\ Levels(t)[m] = Levels(t)[e]
    BY <1>1, <1>2, <1>3, <1>4, LeavesStay
  <1>6. Levels(Join(s, t))[m] = Join(Levels(s)[d], Levels(t)[e])
    <2>0. \A x \in Nat : Levels(Join(s, t))[x] = Join(Levels(s)[x], Levels(t)[x])
      BY LevelsJoined
    <2>1. Levels(Join(s, t))[m] = Join(Levels(s)[m], Levels(t)[m])
      BY <2>0
    <2> QED
      BY <2>1, <1>5
  <1> DEFINE a == Levels(s)[d]  b == Levels(t)[e]
  <1>7. IsASequence(a) /\ IsASequence(b)
    BY <1>4
  <1>8. Len(a) \in Nat /\ Len(b) \in Nat
    BY <1>7, SequenceShape
  <1>a. d <= Len(a) /\ e <= Len(b) /\ AllLeaves(a) /\ AllLeaves(b)
    BY <1>1, <1>2
  <1>b. Levels(Join(s, t))[m] = Join(a, b)
    BY <1>6
  <1> HIDE DEF a, b
  <1>9. /\ Len(Join(a, b)) = Len(a) + Len(b)
        /\ \A i \in 1..Len(a) : Join(a, b)[i] = a[i]
        /\ \A i \in 1..Len(b) : Join(a, b)[Len(a) + i] = b[i]
    BY <1>7, JoinSequence
  <1>10. ASSUME NEW i \in 1..Len(Join(a, b))
         PROVE  Join(a, b)[i].kind = "lexeme"
    <2>1. CASE i \in 1..Len(a)
      BY <2>1, <1>9, <1>a DEF AllLeaves
    <2>2. CASE i \notin 1..Len(a)
      <3>1. i - Len(a) \in 1..Len(b) /\ i = Len(a) + (i - Len(a))
        BY <2>2, <1>8, <1>9
      <3> QED
        BY <3>1, <1>9, <1>a DEF AllLeaves
    <2> QED
      BY <2>1, <2>2
  <1>11. m <= Len(Join(a, b))
    BY <1>3, <1>8, <1>9, <1>a
  <1> QED
    BY <1>b, <1>10, <1>11 DEF Shallow, AllLeaves

LEMMA AllFinishedSound ==
  ASSUME NEW trees, AllFinished(trees)
  PROVE  AllSound(trees) /\ Shallow(trees)
  <1> DEFINE T == {n \in Nat : \A s : AllFinished(s) /\ Len(s) = n => AllSound(s) /\ Shallow(s)}
  <1>1. 0 \in T
    <2> SUFFICES ASSUME NEW s, AllFinished(s), Len(s) = 0
                 PROVE  AllSound(s) /\ Shallow(s)
      OBVIOUS
    <2>1. s = << >>
      BY EmptySequence DEF AllFinished
    <2> QED
      BY <2>1, NoTrees
  <1>2. ASSUME NEW n \in Nat, n \in T
        PROVE  n + 1 \in T
    <2> SUFFICES ASSUME NEW s, AllFinished(s), Len(s) = n + 1
                 PROVE  AllSound(s) /\ Shallow(s)
      OBVIOUS
    <2>0. \A t : AllFinished(t) /\ Len(t) = n => AllSound(t) /\ Shallow(t)
      BY <1>2
    <2> HIDE DEF T
    <2>1. IsASequence(s) /\ s # << >> /\ \A i \in 1..n + 1 : Finished(s[i])
      BY EmptySequence DEF AllFinished
    <2> DEFINE f == Front(s)  v == s[Len(s)]
    <2>2. /\ IsASequence(f)
          /\ Len(f) = Len(s) - 1
          /\ \A i \in 1..Len(s) - 1 : f[i] = s[i]
          /\ s = Join(f, <<v>>)
      BY <2>1, FrontJoin DEF Last
    <2>3. Finished(v)
      BY <2>1
    <2> HIDE DEF f, v
    <2>4. AllFinished(f) /\ Len(f) = n
      BY <2>1, <2>2 DEF AllFinished
    <2>5. AllSound(f) /\ Shallow(f)
      BY <2>0, <2>4
    <2>6. AllSound(<<v>>) /\ Shallow(<<v>>)
      BY <2>3, SoundOfFinished DEF Finished, Sound
    <2>7. AllSound(Join(f, <<v>>)) /\ Shallow(Join(f, <<v>>))
      BY <2>5, <2>6, LevelsJoined, ShallowJoined
    <2> QED
      BY <2>2, <2>7
  <1> HIDE DEF T
  <1>3. Nat \subseteq T
    BY <1>1, <1>2, SetInduction
  <1>4. Len(trees) \in Nat
    BY SequenceShape DEF AllFinished
  <1> QED
    BY <1>3, <1>4 DEF T

----------------------------------------------------------------------------
(* A node whose members are finished and have a lexeme among them is itself   *)
(* finished.                                                                  *)

HasLexeme(trees) == \E i \in 1..Len(trees) : trees[i].kind = "lexeme"

LEMMA JoinedLeaves ==
  ASSUME NEW s, IsASequence(s), AllLeaves(s), NEW t, IsASequence(t), AllLeaves(t)
  PROVE  AllLeaves(Join(s, t))
  <1>1. /\ Len(Join(s, t)) = Len(s) + Len(t)
        /\ \A i \in 1..Len(s) : Join(s, t)[i] = s[i]
        /\ \A i \in 1..Len(t) : Join(s, t)[Len(s) + i] = t[i]
    BY JoinSequence
  <1>2. Len(s) \in Nat /\ Len(t) \in Nat
    BY SequenceShape
  <1>3. ASSUME NEW i \in 1..Len(Join(s, t))
        PROVE  Join(s, t)[i].kind = "lexeme"
    <2>1. CASE i \in 1..Len(s)
      BY <2>1, <1>1 DEF AllLeaves
    <2>2. CASE i \notin 1..Len(s)
      <3>1. i - Len(s) \in 1..Len(t) /\ i = Len(s) + (i - Len(s))
        BY <2>2, <1>1, <1>2
      <3> QED
        BY <3>1, <1>1 DEF AllLeaves
    <2> QED
      BY <2>1, <2>2
  <1> QED
    BY <1>3 DEF AllLeaves

(* The depth of two sequences of trees together. *)
LEMMA DeeperOfTwo ==
  ASSUME NEW s, AllSound(s), NEW d \in Nat, AllLeaves(Levels(s)[d]),
         NEW t, AllSound(t), NEW e \in Nat, AllLeaves(Levels(t)[e])
  PROVE  \E m \in Nat : /\ m = d \/ m = e
                        /\ AllLeaves(Levels(Join(s, t))[m])
                        /\ Len(Levels(Join(s, t))[m]) = Len(Levels(s)[d]) + Len(Levels(t)[e])
                        /\ Len(Levels(s)[d]) \in Nat /\ Len(Levels(t)[e]) \in Nat
  <1>1. PICK m \in Nat : m >= d /\ m >= e /\ (m = d \/ m = e)
    <2>1. d >= e \/ e >= d
      OBVIOUS
    <2> QED
      BY <2>1
  <1>2. IsASequence(Levels(s)[d]) /\ IsASequence(Levels(t)[e])
    BY DEF AllSound, SoundEach
  <1>3. Levels(s)[m] = Levels(s)[d] /\ Levels(t)[m] = Levels(t)[e]
    BY <1>1, <1>2, LeavesStay
  <1>4. Levels(Join(s, t))[m] = Join(Levels(s)[m], Levels(t)[m])
    BY LevelsJoined
  <1>5. Levels(Join(s, t))[m] = Join(Levels(s)[d], Levels(t)[e])
    BY <1>3, <1>4
  <1>6. AllLeaves(Join(Levels(s)[d], Levels(t)[e]))
    BY <1>2, JoinedLeaves
  <1>7. Len(Join(Levels(s)[d], Levels(t)[e])) = Len(Levels(s)[d]) + Len(Levels(t)[e])
    BY <1>2, JoinSequence
  <1>8. Len(Levels(s)[d]) \in Nat /\ Len(Levels(t)[e]) \in Nat
    BY <1>2, SequenceShape
  <1> QED
    BY <1>1, <1>5, <1>6, <1>7, <1>8

Shallower(trees) ==
  \E d \in Nat : d + 1 <= Len(Levels(trees)[d]) /\ AllLeaves(Levels(trees)[d])

LEMMA ShallowerBelow ==
  ASSUME NEW trees, AllFinished(trees), HasLexeme(trees)
  PROVE  Shallower(trees)
  <1> DEFINE T == {n \in Nat : \A s : AllFinished(s) /\ Len(s) = n /\ HasLexeme(s) => Shallower(s)}
  <1>1. 0 \in T
    BY DEF HasLexeme
  <1>2. ASSUME NEW n \in Nat, n \in T
        PROVE  n + 1 \in T
    <2> SUFFICES ASSUME NEW s, AllFinished(s), Len(s) = n + 1, HasLexeme(s)
                 PROVE  Shallower(s)
      OBVIOUS
    <2>0. \A t : AllFinished(t) /\ Len(t) = n /\ HasLexeme(t) => Shallower(t)
      BY <1>2
    <2> HIDE DEF T
    <2>1. /\ IsASequence(s) /\ s # << >> /\ \A i \in 1..n + 1 : Finished(s[i])
          /\ \E i \in 1..n + 1 : s[i].kind = "lexeme"
      BY EmptySequence DEF AllFinished, HasLexeme
    <2> DEFINE f == Front(s)  v == s[Len(s)]
    <2>2. /\ IsASequence(f)
          /\ Len(f) = Len(s) - 1
          /\ \A i \in 1..Len(s) - 1 : f[i] = s[i]
          /\ s = Join(f, <<v>>)
      BY <2>1, FrontJoin DEF Last
    <2>3. Finished(v) /\ v = s[n + 1]
      BY <2>1
    <2>9. Shallower(Join(f, <<v>>)) => Shallower(s)
      BY <2>2
    <2> HIDE DEF f, v
    <2>4. AllFinished(f) /\ Len(f) = n
      BY <2>1, <2>2 DEF AllFinished
    <2>5. AllSound(f) /\ Shallow(f)
      BY <2>4, AllFinishedSound
    <2>6. AllSound(<<v>>) /\ Shallow(<<v>>)
      BY <2>3, SoundOfFinished DEF Finished, Sound
    <2>7. CASE v.kind = "lexeme"
      <3>1. PICK d \in Nat : d <= Len(Levels(f)[d]) /\ AllLeaves(Levels(f)[d])
        BY <2>5 DEF Shallow
      <3>2. Levels(<<v>>)[0] = <<v>> /\ AllLeaves(<<v>>) /\ Len(<<v>>) = 1
        BY <2>7, FinishedLeaf, OneSequence DEF AllLeaves
      <3>3. Levels(<<v>>)[d] = <<v>>
        BY <2>7, FinishedLeaf
      <3>4. AllLeaves(Levels(<<v>>)[d]) /\ Len(Levels(<<v>>)[d]) = 1
        BY <3>2, <3>3
      <3>5. PICK m \in Nat : /\ m = d \/ m = d
                             /\ AllLeaves(Levels(Join(f, <<v>>))[m])
                             /\ Len(Levels(Join(f, <<v>>))[m]) = Len(Levels(f)[d]) + Len(Levels(<<v>>)[d])
                             /\ Len(Levels(f)[d]) \in Nat /\ Len(Levels(<<v>>)[d]) \in Nat
        <4>1. AllSound(f) /\ AllSound(<<v>>) /\ AllLeaves(Levels(f)[d])
          BY <2>5, <2>6, <3>1
        <4> QED
          BY <4>1, <3>4, DeeperOfTwo
      <3>6. m + 1 <= Len(Levels(Join(f, <<v>>))[m])
        <4> DEFINE a == Len(Levels(f)[d])  b == Len(Levels(<<v>>)[d])
                   c == Len(Levels(Join(f, <<v>>))[m])
        <4>1. c = a + b /\ a \in Nat /\ b = 1 /\ d <= a /\ m = d
          BY <3>1, <3>4, <3>5
        <4> HIDE DEF a, b, c
        <4>2. m + 1 <= c
          BY <4>1
        <4> QED
          BY <4>2 DEF c
      <3>7. Shallower(Join(f, <<v>>))
        BY <3>5, <3>6 DEF Shallower
      <3> QED
        BY <2>9, <3>7
    <2>8. CASE v.kind # "lexeme"
      <3>1. HasLexeme(f)
        <4>1. PICK i \in 1..n + 1 : s[i].kind = "lexeme"
          BY <2>1
        <4>2. i # n + 1
          BY <4>1, <2>3, <2>8
        <4>3. i \in 1..n
          BY <4>2
        <4>4. f[i] = s[i]
          BY <4>3, <2>2
        <4> QED
          BY <4>1, <4>3, <4>4, <2>4 DEF HasLexeme
      <3>2. PICK d \in Nat : d + 1 <= Len(Levels(f)[d]) /\ AllLeaves(Levels(f)[d])
        BY <2>0, <2>4, <3>1 DEF Shallower
      <3>3. PICK e \in Nat : e <= Len(Levels(<<v>>)[e]) /\ AllLeaves(Levels(<<v>>)[e])
        BY <2>6 DEF Shallow
      <3>4. PICK m \in Nat : /\ m = d \/ m = e
                             /\ AllLeaves(Levels(Join(f, <<v>>))[m])
                             /\ Len(Levels(Join(f, <<v>>))[m]) = Len(Levels(f)[d]) + Len(Levels(<<v>>)[e])
                             /\ Len(Levels(f)[d]) \in Nat /\ Len(Levels(<<v>>)[e]) \in Nat
        BY <2>5, <2>6, <3>2, <3>3, DeeperOfTwo
      <3> QED
        <4>1. m + 1 <= Len(Levels(Join(f, <<v>>))[m])
          <5> DEFINE a == Len(Levels(f)[d])  b == Len(Levels(<<v>>)[e])
                     c == Len(Levels(Join(f, <<v>>))[m])
          <5>1. c = a + b /\ a \in Nat /\ b \in Nat /\ d + 1 <= a /\ e <= b /\ (m = d \/ m = e)
            BY <3>2, <3>3, <3>4
          <5> HIDE DEF a, b, c
          <5>2. m + 1 <= c
            BY <5>1
          <5> QED
            BY <5>2 DEF c
        <4>2. Shallower(Join(f, <<v>>))
          BY <3>4, <4>1 DEF Shallower
        <4> QED
          BY <2>9, <4>2
    <2> QED
      BY <2>7, <2>8
  <1> HIDE DEF T
  <1>3. Nat \subseteq T
    BY <1>1, <1>2, SetInduction
  <1>4. Len(trees) \in Nat
    BY SequenceShape DEF AllFinished
  <1> QED
    BY <1>3, <1>4 DEF T

LEMMA FinishedNode ==
  ASSUME NEW node, node.kind \in DOMAIN Written, ListsFormed(node),
         AllFinished(Members(node)), HasLexeme(Members(node))
  PROVE  Finished(node)
  <1> DEFINE parts == Members(node)
  <1>1. node.kind # "lexeme"
    BY WrittenKinds
  <1>2. Opened(node) = parts
    BY <1>1 DEF Opened
  <1>3. AllFinished(parts) /\ HasLexeme(parts)
    OBVIOUS
  <1> HIDE DEF parts
  <1>4. AllSound(parts) /\ Shallower(parts)
    BY <1>3, AllFinishedSound, ShallowerBelow
  <1>5. /\ Levels(<<node>>)[0] = <<node>>
        /\ \A d \in Nat : Levels(<<node>>)[d + 1] = Levels(parts)[d]
    BY <1>2, LevelsOfOne
  <1>6. Shallow(<<node>>)
    <2>1. PICK d \in Nat : d + 1 <= Len(Levels(parts)[d]) /\ AllLeaves(Levels(parts)[d])
      BY <1>4 DEF Shallower
    <2>2. d + 1 \in Nat /\ Levels(<<node>>)[d + 1] = Levels(parts)[d]
      BY <1>5
    <2> QED
      BY <2>1, <2>2 DEF Shallow
  <1>7. Sound(node)
    BY <1>1, <1>6 DEF Sound
  <1>8. SoundEach(<<node>>)
    BY <1>7, OneSequence DEF SoundEach
  <1>9. ASSUME NEW d \in Nat
        PROVE  SoundEach(Levels(<<node>>)[d])
    <2>1. CASE d = 0
      BY <2>1, <1>5, <1>8
    <2>2. CASE d # 0
      <3>1. d - 1 \in Nat /\ d = (d - 1) + 1
        BY <2>2
      <3>2. Levels(<<node>>)[d] = Levels(parts)[d - 1]
        BY <3>1, <1>5
      <3> QED
        BY <3>1, <3>2, <1>4 DEF AllSound
    <2> QED
      BY <2>1, <2>2
  <1> QED
    BY <1>9 DEF Finished, AllSound

----------------------------------------------------------------------------
(* What trees read as: their lexemes. *)

ReadsAs(trees, ls) == \E d \in Nat : \A e \in Nat : e >= d => Levels(trees)[e] = ls

LEMMA ReadsJoined ==
  ASSUME NEW s, AllFinished(s), NEW t, AllFinished(t), NEW a, ReadsAs(s, a), NEW b, ReadsAs(t, b)
  PROVE  ReadsAs(Join(s, t), Join(a, b))
  <1>1. PICK d \in Nat : \A e \in Nat : e >= d => Levels(s)[e] = a
    BY DEF ReadsAs
  <1>2. PICK c \in Nat : \A e \in Nat : e >= c => Levels(t)[e] = b
    BY DEF ReadsAs
  <1>3. \A e \in Nat : Levels(Join(s, t))[e] = Join(Levels(s)[e], Levels(t)[e])
    BY AllFinishedSound, LevelsJoined
  <1>4. ASSUME NEW e \in Nat, e >= d + c
        PROVE  Levels(Join(s, t))[e] = Join(a, b)
    <2>1. e >= d /\ e >= c
      BY <1>4
    <2>2. Levels(s)[e] = a /\ Levels(t)[e] = b
      BY <2>1, <1>1, <1>2
    <2> QED
      BY <2>2, <1>3
  <1>5. d + c \in Nat
    OBVIOUS
  <1> QED
    BY <1>4, <1>5 DEF ReadsAs

LEMMA ReadsOfNode ==
  ASSUME NEW node, node.kind # "lexeme", NEW ls
  PROVE  ReadsAs(<<node>>, ls) <=> ReadsAs(Members(node), ls)
  <1>0. \A d \in Nat : Levels(<<node>>)[d + 1] = Levels(Members(node))[d]
    BY LevelsOfOne DEF Opened
  <1>1. ASSUME ReadsAs(<<node>>, ls)
        PROVE  ReadsAs(Members(node), ls)
    <2>1. PICK d \in Nat : \A e \in Nat : e >= d => Levels(<<node>>)[e] = ls
      BY <1>1 DEF ReadsAs
    <2>2. ASSUME NEW e \in Nat, e >= d
          PROVE  Levels(Members(node))[e] = ls
      <3>1. e + 1 \in Nat /\ e + 1 >= d
        BY <2>2
      <3> QED
        BY <3>1, <2>1, <1>0
    <2> QED
      BY <2>2 DEF ReadsAs
  <1>2. ASSUME ReadsAs(Members(node), ls)
        PROVE  ReadsAs(<<node>>, ls)
    <2>1. PICK d \in Nat : \A e \in Nat : e >= d => Levels(Members(node))[e] = ls
      BY <1>2 DEF ReadsAs
    <2>2. ASSUME NEW e \in Nat, e >= d + 1
          PROVE  Levels(<<node>>)[e] = ls
      <3>1. e - 1 \in Nat /\ e - 1 >= d /\ e = (e - 1) + 1
        BY <2>2
      <3> QED
        BY <3>1, <2>1, <1>0
    <2>3. d + 1 \in Nat
      OBVIOUS
    <2> QED
      BY <2>2, <2>3 DEF ReadsAs
  <1> QED
    BY <1>1, <1>2

LEMMA ReadsOfLeaf ==
  ASSUME NEW tree, tree.kind = "lexeme"
  PROVE  ReadsAs(<<tree>>, <<tree>>)
  <1>1. \A e \in Nat : e >= 0 => Levels(<<tree>>)[e] = <<tree>>
    BY FinishedLeaf
  <1> QED
    BY <1>1 DEF ReadsAs

LEMMA ReadsOfNothing == ReadsAs(<< >>, << >>)
  <1>1. \A e \in Nat : e >= 0 => Levels(<< >>)[e] = << >>
    BY NoTrees
  <1> QED
    BY <1>1 DEF ReadsAs

(* Finished trees are read in as many steps as they have lexemes, or fewer. *)
LEMMA ReadsSoon ==
  ASSUME NEW trees, AllFinished(trees), NEW ls, ReadsAs(trees, ls)
  PROVE  /\ IsASequence(ls) /\ AllLeaves(ls)
         /\ \A e \in Nat : e >= Len(ls) => Levels(trees)[e] = ls
  <1>1. AllSound(trees) /\ Shallow(trees)
    BY AllFinishedSound
  <1>2. PICK d \in Nat : d <= Len(Levels(trees)[d]) /\ AllLeaves(Levels(trees)[d])
    BY <1>1 DEF Shallow
  <1>3. IsASequence(Levels(trees)[d])
    BY <1>1 DEF AllSound, SoundEach
  <1>4. \A e \in Nat : e >= d => Levels(trees)[e] = Levels(trees)[d]
    BY <1>2, <1>3, LeavesStay
  <1>5. PICK c \in Nat : \A e \in Nat : e >= c => Levels(trees)[e] = ls
    BY DEF ReadsAs
  <1>6. c + d \in Nat /\ c + d >= c /\ c + d >= d
    OBVIOUS
  <1>7. Levels(trees)[d] = ls
    BY <1>4, <1>5, <1>6
  <1>8. Len(ls) \in Nat
    BY <1>3, <1>7, SequenceShape
  <1>9. ASSUME NEW e \in Nat, e >= Len(ls)
        PROVE  Levels(trees)[e] = ls
    <2>1. e >= d
      BY <1>2, <1>7, <1>8, <1>9
    <2> QED
      BY <2>1, <1>4, <1>7
  <1> QED
    BY <1>2, <1>3, <1>7, <1>9

----------------------------------------------------------------------------
(* Where the members of a node are written, and what putting one there does.  *)

(* The commas of a list are written among its items. *)
ItemsOf(m) == CASE m = "argument_commas" -> "arguments"
                [] m = "parameter_commas" -> "parameters"
                [] m \notin {"argument_commas", "parameter_commas"} -> m
Belongs(kind, m) == \E p \in 1..Len(Written[kind]) : Written[kind][p] = ItemsOf(m)
Position(kind, m) == CHOOSE p \in 1..Len(Written[kind]) : Written[kind][p] = ItemsOf(m)

(* Nothing is written in a place, or after it. *)
Blank(node, p) ==
  \A q \in 1..Len(Written[node.kind]) : q >= p => Member(node, Written[node.kind][q]) = << >>

LEMMA WrittenLength ==
  ASSUME NEW kind \in DOMAIN Written
  PROVE  Len(Written[kind]) \in Nat /\ DOMAIN Written[kind] = 1..Len(Written[kind])
  <1>1. IsASequence(Written[kind])
    BY WrittenSequence
  <1> QED
    BY <1>1, SequenceShape

DifferentWords(w) == \A p, q \in 1..Len(w) : w[p] = w[q] => p = q

LEMMA WrittenOnce ==
  ASSUME NEW kind \in DOMAIN Written,
         NEW p \in 1..Len(Written[kind]), NEW q \in 1..Len(Written[kind]),
         Written[kind][p] = Written[kind][q]
  PROVE  p = q
  <1>1. DifferentWords(Written["let"])
    BY WrittenOf DEF DifferentWords
  <1>2. DifferentWords(Written["return"])
    BY WrittenOf DEF DifferentWords
  <1>3. DifferentWords(Written["while"])
    BY WrittenOf DEF DifferentWords
  <1>4. DifferentWords(Written["expression_statement"])
    BY WrittenOf DEF DifferentWords
  <1>5. DifferentWords(Written["atom"])
    BY WrittenOf DEF DifferentWords
  <1>6. DifferentWords(Written["paren"])
    BY WrittenOf DEF DifferentWords
  <1>7. DifferentWords(Written["block"])
    BY WrittenOf DEF DifferentWords
  <1>8. DifferentWords(Written["if"])
    BY WrittenOf DEF DifferentWords
  <1>9. DifferentWords(Written["else"])
    BY WrittenOf DEF DifferentWords
  <1>10. DifferentWords(Written["fn"])
    BY WrittenOf DEF DifferentWords
  <1>11. DifferentWords(Written["parameter"])
    BY WrittenOf DEF DifferentWords
  <1>12. DifferentWords(Written["return_type"])
    BY WrittenOf DEF DifferentWords
  <1>13. DifferentWords(Written["prefix"])
    BY WrittenOf DEF DifferentWords
  <1>14. DifferentWords(Written["prefix_bracket"])
    BY WrittenOf DEF DifferentWords
  <1>15. DifferentWords(Written["call"])
    BY WrittenOf DEF DifferentWords
  <1>16. DifferentWords(Written["index"])
    BY WrittenOf DEF DifferentWords
  <1>17. DifferentWords(Written["postfix"])
    BY WrittenOf DEF DifferentWords
  <1>18. DifferentWords(Written["binary"])
    BY WrittenOf DEF DifferentWords
  <1>19. DifferentWords(Written["unit"])
    BY WrittenOf DEF DifferentWords
  <1>20. DifferentWords(Written["none"])
    BY WrittenOf DEF DifferentWords
  <1>21. DifferentWords(Written[kind])
    BY <1>1, <1>2, <1>3, <1>4, <1>5, <1>6, <1>7, <1>8, <1>9, <1>10, <1>11, <1>12,
       <1>13, <1>14, <1>15, <1>16, <1>17, <1>18, <1>19, <1>20, WrittenKinds
  <1> QED
    BY <1>21 DEF DifferentWords

LEMMA WrittenMembers ==
  ASSUME NEW kind \in DOMAIN Written, NEW p \in 1..Len(Written[kind])
  PROVE  Written[kind][p] \notin {"argument_commas", "parameter_commas", "whole", "kind"}
  <1>1. CASE kind = "let"
    <2>1. Written[kind] = <<"kw_let", "kw_mut", "name", "eq", "initializer", "semicolon">>
      BY <1>1, WrittenOf
    <2> QED
      BY <2>1
  <1>2. CASE kind = "return"
    <2>1. Written[kind] = <<"kw_return", "value", "semicolon">>
      BY <1>2, WrittenOf
    <2> QED
      BY <2>1
  <1>3. CASE kind = "while"
    <2>1. Written[kind] = <<"kw_while", "condition", "body">>
      BY <1>3, WrittenOf
    <2> QED
      BY <2>1
  <1>4. CASE kind = "expression_statement"
    <2>1. Written[kind] = <<"expression", "semicolon">>
      BY <1>4, WrittenOf
    <2> QED
      BY <2>1
  <1>5. CASE kind = "atom"
    <2>1. Written[kind] = <<"lexeme">>
      BY <1>5, WrittenOf
    <2> QED
      BY <2>1
  <1>6. CASE kind = "paren"
    <2>1. Written[kind] = <<"lparen", "inner", "rparen">>
      BY <1>6, WrittenOf
    <2> QED
      BY <2>1
  <1>7. CASE kind = "block"
    <2>1. Written[kind] = <<"lbrace", "statements", "tail", "rbrace">>
      BY <1>7, WrittenOf
    <2> QED
      BY <2>1
  <1>8. CASE kind = "if"
    <2>1. Written[kind] = <<"kw_if", "condition", "then_block", "elses">>
      BY <1>8, WrittenOf
    <2> QED
      BY <2>1
  <1>9. CASE kind = "else"
    <2>1. Written[kind] = <<"kw_else", "kw_if", "condition", "body">>
      BY <1>9, WrittenOf
    <2> QED
      BY <2>1
  <1>10. CASE kind = "fn"
    <2>1. Written[kind] = <<"kw_fn", "name", "lparen", "parameters", "rparen", "return_type", "arrow", "body">>
      BY <1>10, WrittenOf
    <2> QED
      BY <2>1
  <1>11. CASE kind = "parameter"
    <2>1. Written[kind] = <<"kw_mut", "name", "colon", "type">>
      BY <1>11, WrittenOf
    <2> QED
      BY <2>1
  <1>12. CASE kind = "return_type"
    <2>1. Written[kind] = <<"colon", "type">>
      BY <1>12, WrittenOf
    <2> QED
      BY <2>1
  <1>13. CASE kind = "prefix"
    <2>1. Written[kind] = <<"op", "operand">>
      BY <1>13, WrittenOf
    <2> QED
      BY <2>1
  <1>14. CASE kind = "prefix_bracket"
    <2>1. Written[kind] = <<"lbracket", "size", "rbracket", "operand">>
      BY <1>14, WrittenOf
    <2> QED
      BY <2>1
  <1>15. CASE kind = "call"
    <2>1. Written[kind] = <<"callee", "lparen", "arguments", "rparen">>
      BY <1>15, WrittenOf
    <2> QED
      BY <2>1
  <1>16. CASE kind = "index"
    <2>1. Written[kind] = <<"operand", "lbracket", "index", "rbracket">>
      BY <1>16, WrittenOf
    <2> QED
      BY <2>1
  <1>17. CASE kind = "postfix"
    <2>1. Written[kind] = <<"operand", "op">>
      BY <1>17, WrittenOf
    <2> QED
      BY <2>1
  <1>18. CASE kind = "binary"
    <2>1. Written[kind] = <<"left", "op", "right">>
      BY <1>18, WrittenOf
    <2> QED
      BY <2>1
  <1>19. CASE kind = "unit"
    <2>1. Written[kind] = <<"statements">>
      BY <1>19, WrittenOf
    <2> QED
      BY <2>1
  <1>20. CASE kind = "none"
    <2>1. Written[kind] = << >>
      BY <1>20, WrittenOf
    <2> QED
      BY <2>1
  <1> QED
    BY <1>1, <1>2, <1>3, <1>4, <1>5, <1>6, <1>7, <1>8, <1>9, <1>10, <1>11, <1>12, <1>13, <1>14, <1>15, <1>16, <1>17, <1>18, <1>19, <1>20, WrittenKinds

LEMMA PositionIs ==
  ASSUME NEW kind \in DOMAIN Written, NEW m, NEW p \in 1..Len(Written[kind]),
         Written[kind][p] = ItemsOf(m)
  PROVE  Belongs(kind, m) /\ Position(kind, m) = p
  <1>1. Belongs(kind, m)
    BY DEF Belongs
  <1>2. /\ Position(kind, m) \in 1..Len(Written[kind])
        /\ Written[kind][Position(kind, m)] = ItemsOf(m)
    BY DEF Position
  <1> QED
    BY <1>1, <1>2, WrittenOnce

LEMMA PositionOf ==
  ASSUME NEW kind \in DOMAIN Written, NEW m, Belongs(kind, m)
  PROVE  /\ Position(kind, m) \in 1..Len(Written[kind])
         /\ Written[kind][Position(kind, m)] = ItemsOf(m)
         /\ m # "whole" /\ m # "kind"
  <1>1. m # "whole" /\ m # "kind"
    BY WrittenMembers DEF Belongs, ItemsOf
  <1> QED
    BY <1>1 DEF Belongs, Position

(* One member has a new value. *)
Replaced(next, node, m, value) ==
  /\ DOMAIN next = DOMAIN node \cup {m}
  /\ next[m] = value
  /\ \A x \in DOMAIN node : x # m => next[x] = node[x]

LEMMA PutMember ==
  ASSUME NEW node, NEW m, m \notin Lists, m # "whole", NEW v
  PROVE  Replaced(Put(node, m, v), node, m, v)
  <1>1. Put(node, m, v) = [x \in DOMAIN node \cup {m} |-> IF x = m THEN v ELSE node[x]]
    BY DEF Put
  <1> QED
    BY <1>1 DEF Replaced

LEMMA PutList ==
  ASSUME NEW node, NEW m \in Lists, NEW v, m \in DOMAIN node
  PROVE  Replaced(Put(node, m, v), node, m, Append(node[m], v))
  <1>0. m # "whole"
    BY DEF Lists
  <1>1. Put(node, m, v) = [node EXCEPT ![m] = Append(node[m], v)]
    BY <1>0 DEF Put
  <1> QED
    BY <1>1 DEF Replaced

LEMMA PutWhole ==
  ASSUME NEW node, NEW v
  PROVE  Put(node, "whole", v) = v
  BY DEF Put, Lists

LEMMA JoinOne ==
  ASSUME NEW s, IsASequence(s), NEW v
  PROVE  /\ IsASequence(Join(s, <<v>>))
         /\ Len(s) \in Nat
         /\ Len(Join(s, <<v>>)) = Len(s) + 1
         /\ \A i \in 1..Len(s) : Join(s, <<v>>)[i] = s[i]
         /\ Join(s, <<v>>)[Len(s) + 1] = v
  <1> DEFINE w == <<v>>
  <1>1. IsASequence(w) /\ Len(w) = 1 /\ w[1] = v
    BY OneSequence
  <1> HIDE DEF w
  <1>2. /\ IsASequence(Join(s, w)) /\ Len(Join(s, w)) = Len(s) + Len(w)
        /\ \A i \in 1..Len(s) : Join(s, w)[i] = s[i]
        /\ \A i \in 1..Len(w) : Join(s, w)[Len(s) + i] = w[i]
    <2>1. IsASequence(s) /\ IsASequence(w)
      BY <1>1
    <2> QED
      BY <2>1, JoinSequence
  <1>3. Len(s) \in Nat
    BY SequenceShape
  <1>4. Len(Join(s, w)) = Len(s) + 1 /\ Join(s, w)[Len(s) + 1] = v
    BY <1>1, <1>2
  <1> QED
    BY <1>2, <1>3, <1>4 DEF w

(* Items and commas take turns. *)
LEMMA JoinOneIs ==
  ASSUME NEW s, IsASequence(s), NEW v, NEW r, r = Join(s, <<v>>)
  PROVE  /\ IsASequence(r) /\ Len(r) = Len(s) + 1
         /\ \A i \in 1..Len(s) : r[i] = s[i]
         /\ r[Len(s) + 1] = v
  <1>1. /\ IsASequence(Join(s, <<v>>)) /\ Len(Join(s, <<v>>)) = Len(s) + 1
        /\ \A i \in 1..Len(s) : Join(s, <<v>>)[i] = s[i]
        /\ Join(s, <<v>>)[Len(s) + 1] = v
    BY JoinOne
  <1> QED
    BY <1>1

LEMMA AlternatingItem ==
  ASSUME NEW items, IsASequence(items), NEW commas, IsASequence(commas),
         Len(items) = Len(commas), NEW v
  PROVE  Alternating(Append(items, v), commas) = Join(Alternating(items, commas), <<v>>)
  <1> DEFINE n == Len(items)  a == Append(items, v)
             l == Alternating(a, commas)  s == Alternating(items, commas)  r == Join(s, <<v>>)
  <1>1. n \in Nat /\ Len(commas) = n
    BY SequenceShape
  <1>2. /\ IsASequence(a) /\ Len(a) = n + 1 /\ a[n + 1] = v
        /\ \A i \in 1..n : a[i] = items[i]
    BY AppendedSequence
  <1> HIDE DEF a
  <1>3. IsASequence(l) /\ Len(l) = (n + 1) + n /\ IsASequence(s) /\ Len(s) = n + n
    BY <1>1, <1>2, AlternatingSequence
  <1>4. \A i \in 1..n + n + 1 : l[i] = IF i % 2 = 1 THEN a[(i + 1) \div 2] ELSE commas[i \div 2]
    BY <1>1, <1>2 DEF Alternating
  <1>5. \A i \in 1..n + n : s[i] = IF i % 2 = 1 THEN items[(i + 1) \div 2] ELSE commas[i \div 2]
    BY <1>1 DEF Alternating
  <1> HIDE DEF l, s
  <1>6. /\ IsASequence(r) /\ Len(r) = n + n + 1
        /\ \A i \in 1..n + n : r[i] = s[i]
        /\ r[n + n + 1] = v
    <2>1. IsASequence(s)
      BY <1>3
    <2>2. r = Join(s, <<v>>)
      OBVIOUS
    <2> HIDE DEF r
    <2>3. /\ IsASequence(r) /\ Len(r) = Len(s) + 1
          /\ \A i \in 1..Len(s) : r[i] = s[i]
          /\ r[Len(s) + 1] = v
      BY <2>1, <2>2, JoinOneIs
    <2> QED
      BY <1>1, <1>3, <2>3
  <1> HIDE DEF r
  <1>7. ASSUME NEW i \in 1..n + n + 1
        PROVE  l[i] = r[i]
    <2>1. CASE i = n + n + 1
      <3>1. i % 2 = 1 /\ (i + 1) \div 2 = n + 1
        BY <2>1, <1>1
      <3> QED
        BY <3>1, <2>1, <1>2, <1>4, <1>6
    <2>2. CASE i # n + n + 1 /\ i % 2 = 1
      <3>1. i \in 1..n + n /\ (i + 1) \div 2 \in 1..n
        BY <2>2, <1>1
      <3> QED
        BY <3>1, <2>2, <1>2, <1>4, <1>5, <1>6
    <2>3. CASE i # n + n + 1 /\ i % 2 # 1
      <3>1. i \in 1..n + n
        BY <2>3, <1>1
      <3> QED
        BY <3>1, <2>3, <1>4, <1>5, <1>6
    <2> QED
      BY <2>1, <2>2, <2>3
  <1>8. l = r
    BY <1>1, <1>3, <1>6, <1>7, SameSequence
  <1> QED
    BY <1>8 DEF l, r, s, a

LEMMA AlternatingComma ==
  ASSUME NEW items, IsASequence(items), NEW commas, IsASequence(commas),
         Len(items) = Len(commas) + 1, NEW v
  PROVE  Alternating(items, Append(commas, v)) = Join(Alternating(items, commas), <<v>>)
  <1> DEFINE n == Len(commas)  a == Append(commas, v)
             l == Alternating(items, a)  s == Alternating(items, commas)  r == Join(s, <<v>>)
  <1>1. n \in Nat /\ Len(items) = n + 1
    BY SequenceShape
  <1>2. /\ IsASequence(a) /\ Len(a) = n + 1 /\ a[n + 1] = v
        /\ \A i \in 1..n : a[i] = commas[i]
    BY AppendedSequence
  <1> HIDE DEF a
  <1>3. IsASequence(l) /\ Len(l) = (n + 1) + (n + 1) /\ IsASequence(s) /\ Len(s) = (n + 1) + n
    BY <1>1, <1>2, AlternatingSequence
  <1>4. \A i \in 1..n + n + 2 : l[i] = IF i % 2 = 1 THEN items[(i + 1) \div 2] ELSE a[i \div 2]
    BY <1>1, <1>2 DEF Alternating
  <1>5. \A i \in 1..n + n + 1 : s[i] = IF i % 2 = 1 THEN items[(i + 1) \div 2] ELSE commas[i \div 2]
    BY <1>1 DEF Alternating
  <1> HIDE DEF l, s
  <1>6. /\ IsASequence(r) /\ Len(r) = n + n + 2
        /\ \A i \in 1..n + n + 1 : r[i] = s[i]
        /\ r[n + n + 2] = v
    <2>1. IsASequence(s)
      BY <1>3
    <2>2. r = Join(s, <<v>>)
      OBVIOUS
    <2> HIDE DEF r
    <2>3. /\ IsASequence(r) /\ Len(r) = Len(s) + 1
          /\ \A i \in 1..Len(s) : r[i] = s[i]
          /\ r[Len(s) + 1] = v
      BY <2>1, <2>2, JoinOneIs
    <2> QED
      BY <1>1, <1>3, <2>3
  <1> HIDE DEF r
  <1>7. ASSUME NEW i \in 1..n + n + 2
        PROVE  l[i] = r[i]
    <2>1. CASE i = n + n + 2
      <3>1. i % 2 # 1 /\ i \div 2 = n + 1
        BY <2>1, <1>1
      <3> QED
        BY <3>1, <2>1, <1>2, <1>4, <1>6
    <2>2. CASE i # n + n + 2 /\ i % 2 = 1
      <3>1. i \in 1..n + n + 1
        BY <2>2, <1>1
      <3> QED
        BY <3>1, <2>2, <1>4, <1>5, <1>6
    <2>3. CASE i # n + n + 2 /\ i % 2 # 1
      <3>1. i \in 1..n + n + 1 /\ i \div 2 \in 1..n
        BY <2>3, <1>1
      <3> QED
        BY <3>1, <2>3, <1>2, <1>4, <1>5, <1>6
    <2> QED
      BY <2>1, <2>2, <2>3
  <1>8. l = r
    BY <1>1, <1>3, <1>6, <1>7, SameSequence
  <1> QED
    BY <1>8 DEF l, r, s, a

LEMMA MemberIs ==
  ASSUME NEW node, NEW m
  PROVE  /\ m \notin DOMAIN node => Member(node, m) = << >>
         /\ m \in DOMAIN node /\ m = "arguments" =>
              Member(node, m) = Alternating(node.arguments, node.argument_commas)
         /\ m \in DOMAIN node /\ m = "parameters" =>
              Member(node, m) = Alternating(node.parameters, node.parameter_commas)
         /\ m \in DOMAIN node /\ m \in Lists \ {"arguments", "parameters"} => Member(node, m) = node[m]
         /\ m \in DOMAIN node /\ m \notin Lists => Member(node, m) = <<node[m]>>
  BY DEF Member, Lists

(* Other members are as they were. *)
LEMMA OtherMember ==
  ASSUME NEW node, NEW next, NEW m,
         \A x : x # m => (x \in DOMAIN next <=> x \in DOMAIN node),
         \A x \in DOMAIN node : x # m => next[x] = node[x],
         ListsFormed(node), NEW n, n # m, n # ItemsOf(m)
  PROVE  Member(next, n) = Member(node, n)
  <1>1. CASE n \notin DOMAIN node
    BY <1>1, MemberIs
  <1>2. CASE n \in DOMAIN node /\ n = "arguments"
    <2>1. "argument_commas" \in DOMAIN node /\ m # "argument_commas"
      BY <1>2 DEF ListsFormed, ItemsOf
    <2>2. next.arguments = node.arguments /\ next.argument_commas = node.argument_commas
      BY <1>2, <2>1
    <2>3. n \in DOMAIN next
      BY <1>2
    <2>4. /\ Member(node, n) = Alternating(node.arguments, node.argument_commas)
          /\ Member(next, n) = Alternating(next.arguments, next.argument_commas)
      BY <1>2, <2>3, MemberIs
    <2> QED
      BY <2>2, <2>4
  <1>3. CASE n \in DOMAIN node /\ n = "parameters"
    <2>1. "parameter_commas" \in DOMAIN node /\ m # "parameter_commas"
      BY <1>3 DEF ListsFormed, ItemsOf
    <2>2. next.parameters = node.parameters /\ next.parameter_commas = node.parameter_commas
      BY <1>3, <2>1
    <2>3. n \in DOMAIN next
      BY <1>3
    <2>4. /\ Member(node, n) = Alternating(node.parameters, node.parameter_commas)
          /\ Member(next, n) = Alternating(next.parameters, next.parameter_commas)
      BY <1>3, <2>3, MemberIs
    <2> QED
      BY <2>2, <2>4
  <1>4. CASE n \in DOMAIN node /\ n \in Lists \ {"arguments", "parameters"}
    <2>1. n \in DOMAIN next /\ next[n] = node[n]
      BY <1>4
    <2>2. Member(node, n) = node[n] /\ Member(next, n) = next[n]
      BY <1>4, <2>1, MemberIs
    <2> QED
      BY <2>1, <2>2
  <1>5. CASE n \in DOMAIN node /\ n \notin Lists
    <2>1. n \in DOMAIN next /\ next[n] = node[n]
      BY <1>5
    <2>2. Member(node, n) = <<node[n]>> /\ Member(next, n) = <<next[n]>>
      BY <1>5, <2>1, MemberIs
    <2> QED
      BY <2>1, <2>2
  <1> QED
    BY <1>1, <1>2, <1>3, <1>4, <1>5 DEF Lists

(* A place for one more: the last written one, if it is a list's, or one that *)
(* nothing was written in or after.                                           *)
Fillable(node, m) ==
  /\ Belongs(node.kind, m)
  /\ Blank(node, IF m \in Lists THEN Position(node.kind, m) + 1 ELSE Position(node.kind, m))
  /\ m \in Lists => m \in DOMAIN node /\ ItemsOf(m) \in DOMAIN node
  /\ m = "arguments" => Len(node.arguments) = Len(node.argument_commas)
  /\ m = "argument_commas" => Len(node.arguments) = Len(node.argument_commas) + 1
  /\ m = "parameters" => Len(node.parameters) = Len(node.parameter_commas)
  /\ m = "parameter_commas" => Len(node.parameters) = Len(node.parameter_commas) + 1

Added(node, m, v) == IF m \in Lists THEN Append(node[m], v) ELSE v

LEMMA PutChanges ==
  ASSUME NEW node, NEW m, m # "whole", m \in Lists => m \in DOMAIN node, NEW v
  PROVE  Replaced(Put(node, m, v), node, m, Added(node, m, v))
  BY PutList, PutMember DEF Added

LEMMA PutKeepsLists ==
  ASSUME NEW node, ListsFormed(node), NEW m, m # "whole",
         m \in Lists => m \in DOMAIN node /\ ItemsOf(m) \in DOMAIN node, NEW v
  PROVE  ListsFormed(Put(node, m, v))
  <1> DEFINE next == Put(node, m, v)
  <1>0. Replaced(next, node, m, Added(node, m, v))
    BY PutChanges
  <1> HIDE DEF next
  <1>1. /\ DOMAIN next = DOMAIN node \cup {m}
        /\ \A x \in DOMAIN node : x # m => next[x] = node[x]
        /\ m \in Lists => next[m] = Append(node[m], v)
    BY <1>0 DEF Replaced, Added
  <1>2. ASSUME NEW x \in Lists, x \in DOMAIN next
        PROVE  IsASequence(next[x])
    <2>1. x \in DOMAIN node
      BY <1>1, <1>2
    <2>2. IsASequence(node[x])
      BY <2>1 DEF ListsFormed
    <2>3. CASE x = m
      <3>1. next[x] = Append(node[x], v)
        BY <1>1, <2>3
      <3> QED
        BY <2>2, <3>1, AppendedSequence
    <2>4. CASE x # m
      <3>1. next[x] = node[x]
        BY <1>1, <2>1, <2>4
      <3> QED
        BY <2>2, <3>1
    <2> QED
      BY <2>3, <2>4
  <1>3. "arguments" \in DOMAIN next => "argument_commas" \in DOMAIN next
    BY <1>1 DEF ListsFormed, Lists
  <1>4. "parameters" \in DOMAIN next => "parameter_commas" \in DOMAIN next
    BY <1>1 DEF ListsFormed, Lists
  <1>5. "kind" \in DOMAIN next
    BY <1>1 DEF ListsFormed
  <1>6. ListsFormed(next)
    BY <1>2, <1>3, <1>4, <1>5 DEF ListsFormed
  <1> QED
    BY <1>6 DEF next

LEMMA PutMemberGrows ==
  ASSUME NEW node, ListsFormed(node), NEW m, Fillable(node, m), node.kind \in DOMAIN Written, NEW v
  PROVE  Member(Put(node, m, v), ItemsOf(m)) = Join(Member(node, ItemsOf(m)), <<v>>)
  <1> DEFINE next == Put(node, m, v)
  <1>0. m # "whole" /\ m # "kind"
    BY PositionOf DEF Fillable
  <1>1. /\ DOMAIN next = DOMAIN node \cup {m}
        /\ \A x \in DOMAIN node : x # m => next[x] = node[x]
        /\ m \in Lists => next[m] = Append(node[m], v)
        /\ m \notin Lists => next[m] = v
    <2>1. m \in Lists => m \in DOMAIN node
      BY DEF Fillable
    <2>2. Replaced(next, node, m, Added(node, m, v))
      BY <1>0, <2>1, PutChanges
    <2> HIDE DEF next
    <2> QED
      BY <2>2 DEF Replaced, Added
  <1>2. ListsFormed(next)
    BY <1>0, PutKeepsLists DEF Fillable
  <1> HIDE DEF next
  <1>3. CASE m \notin Lists
    <2>1. ItemsOf(m) = m
      BY <1>3 DEF ItemsOf, Lists
    <2>2. Member(next, m) = <<v>>
      BY <1>1, <1>3, MemberIs
    <2>3. Member(node, m) = << >>
      <3>1. /\ Position(node.kind, m) \in 1..Len(Written[node.kind])
            /\ Written[node.kind][Position(node.kind, m)] = m
        BY <2>1, PositionOf DEF Fillable
      <3>2. Blank(node, Position(node.kind, m))
        BY <1>3 DEF Fillable
      <3> QED
        BY <3>1, <3>2, WrittenLength DEF Blank
    <2>4. Join(<< >>, <<v>>) = <<v>>
      BY JoinEmpty, OneSequence
    <2> QED
      BY <2>1, <2>2, <2>3, <2>4 DEF next
  <1>4. CASE m \in Lists \ {"arguments", "argument_commas", "parameters", "parameter_commas"}
    <2>1. ItemsOf(m) = m /\ m \in DOMAIN node /\ m \in DOMAIN next
      BY <1>1, <1>4 DEF ItemsOf, Fillable
    <2>2. Member(next, m) = Append(node[m], v) /\ Member(node, m) = node[m]
      BY <1>1, <1>4, <2>1, MemberIs
    <2>3. IsASequence(node[m])
      BY <1>4, <2>1 DEF ListsFormed
    <2>4. Append(node[m], v) = Join(node[m], <<v>>)
      BY <2>3, AppendedIsJoined DEF Join
    <2> QED
      BY <2>1, <2>2, <2>4 DEF next
  <1>5. CASE m \in {"arguments", "argument_commas"}
    <2>1. /\ ItemsOf(m) = "arguments"
          /\ {"arguments", "argument_commas"} \subseteq DOMAIN node
          /\ {"arguments", "argument_commas"} \subseteq DOMAIN next
      BY <1>1, <1>5 DEF ItemsOf, Fillable, ListsFormed, Lists
    <2>2. IsASequence(node.arguments) /\ IsASequence(node.argument_commas)
      BY <2>1 DEF ListsFormed, Lists
    <2>3. /\ Member(node, "arguments") = Alternating(node.arguments, node.argument_commas)
          /\ Member(next, "arguments") = Alternating(next.arguments, next.argument_commas)
      BY <2>1, MemberIs
    <2>4. CASE m = "arguments"
      <3>1. Len(node.arguments) = Len(node.argument_commas)
        BY <2>4 DEF Fillable
      <3>2. next.arguments = Append(node.arguments, v) /\ next.argument_commas = node.argument_commas
        BY <1>1, <2>1, <2>4 DEF Lists
      <3>3. Alternating(Append(node.arguments, v), node.argument_commas)
              = Join(Alternating(node.arguments, node.argument_commas), <<v>>)
        BY <2>2, <3>1, AlternatingItem
      <3> QED
        BY <2>1, <2>3, <3>2, <3>3 DEF next
    <2>5. CASE m = "argument_commas"
      <3>1. Len(node.arguments) = Len(node.argument_commas) + 1
        BY <2>5 DEF Fillable
      <3>2. next.arguments = node.arguments /\ next.argument_commas = Append(node.argument_commas, v)
        BY <1>1, <2>1, <2>5 DEF Lists
      <3>3. Alternating(node.arguments, Append(node.argument_commas, v))
              = Join(Alternating(node.arguments, node.argument_commas), <<v>>)
        BY <2>2, <3>1, AlternatingComma
      <3> QED
        BY <2>1, <2>3, <3>2, <3>3 DEF next
    <2> QED
      BY <1>5, <2>4, <2>5
  <1>6. CASE m \in {"parameters", "parameter_commas"}
    <2>1. /\ ItemsOf(m) = "parameters"
          /\ {"parameters", "parameter_commas"} \subseteq DOMAIN node
          /\ {"parameters", "parameter_commas"} \subseteq DOMAIN next
      BY <1>1, <1>6 DEF ItemsOf, Fillable, ListsFormed, Lists
    <2>2. IsASequence(node.parameters) /\ IsASequence(node.parameter_commas)
      BY <2>1 DEF ListsFormed, Lists
    <2>3. /\ Member(node, "parameters") = Alternating(node.parameters, node.parameter_commas)
          /\ Member(next, "parameters") = Alternating(next.parameters, next.parameter_commas)
      BY <2>1, MemberIs
    <2>4. CASE m = "parameters"
      <3>1. Len(node.parameters) = Len(node.parameter_commas)
        BY <2>4 DEF Fillable
      <3>2. next.parameters = Append(node.parameters, v) /\ next.parameter_commas = node.parameter_commas
        BY <1>1, <2>1, <2>4 DEF Lists
      <3>3. Alternating(Append(node.parameters, v), node.parameter_commas)
              = Join(Alternating(node.parameters, node.parameter_commas), <<v>>)
        BY <2>2, <3>1, AlternatingItem
      <3> QED
        BY <2>1, <2>3, <3>2, <3>3 DEF next
    <2>5. CASE m = "parameter_commas"
      <3>1. Len(node.parameters) = Len(node.parameter_commas) + 1
        BY <2>5 DEF Fillable
      <3>2. next.parameters = node.parameters /\ next.parameter_commas = Append(node.parameter_commas, v)
        BY <1>1, <2>1, <2>5 DEF Lists
      <3>3. Alternating(node.parameters, Append(node.parameter_commas, v))
              = Join(Alternating(node.parameters, node.parameter_commas), <<v>>)
        BY <2>2, <3>1, AlternatingComma
      <3> QED
        BY <2>1, <2>3, <3>2, <3>3 DEF next
    <2> QED
      BY <1>6, <2>4, <2>5
  <1> QED
    BY <1>3, <1>4, <1>5, <1>6 DEF Lists

LEMMA PutGrows ==
  ASSUME NEW node, node.kind \in DOMAIN Written, ListsFormed(node), NEW m, Fillable(node, m), NEW v
  PROVE  /\ Put(node, m, v).kind = node.kind
         /\ ListsFormed(Put(node, m, v))
         /\ Members(Put(node, m, v)) = Join(Members(node), <<v>>)
         /\ \A q \in 1..Len(Written[node.kind]) :
              q # Position(node.kind, m) =>
                Member(Put(node, m, v), Written[node.kind][q]) = Member(node, Written[node.kind][q])
         /\ Replaced(Put(node, m, v), node, m, Added(node, m, v))
  <1> DEFINE next == Put(node, m, v)  w == Written[node.kind]  j == Position(node.kind, m)
  <1>0. m # "whole" /\ m # "kind" /\ j \in 1..Len(w) /\ w[j] = ItemsOf(m)
    BY PositionOf DEF Fillable
  <1>c. Replaced(next, node, m, Added(node, m, v))
    <2>1. m \in Lists => m \in DOMAIN node
      BY DEF Fillable
    <2> QED
      BY <1>0, <2>1, PutChanges
  <1>2. ListsFormed(next)
    BY <1>0, PutKeepsLists DEF Fillable
  <1>3. Member(next, ItemsOf(m)) = Join(Member(node, ItemsOf(m)), <<v>>)
    BY PutMemberGrows
  <1> HIDE DEF next
  <1>1. /\ DOMAIN next = DOMAIN node \cup {m}
        /\ \A x \in DOMAIN node : x # m => next[x] = node[x]
    BY <1>c DEF Replaced
  <1>k. next.kind = node.kind
    BY <1>0, <1>1 DEF ListsFormed
  <1>4. ASSUME NEW q \in 1..Len(w), q # j
        PROVE  Member(next, w[q]) = Member(node, w[q])
    <2>1. w[q] # ItemsOf(m)
      BY <1>0, <1>4, WrittenOnce
    <2>2. w[q] # m
      BY <2>1, WrittenMembers DEF ItemsOf
    <2> QED
      BY <1>1, <2>1, <2>2, OtherMember
  <1>5. /\ AllSequences(Places(node)) /\ Len(Places(node)) = Len(w)
        /\ \A i \in 1..Len(w) : Places(node)[i] = Member(node, w[i])
        /\ Members(node) = FlattenSeq(Places(node))
    BY PlacesFormed
  <1>6. /\ AllSequences(Places(next)) /\ Len(Places(next)) = Len(w)
        /\ \A i \in 1..Len(w) : Places(next)[i] = Member(next, w[i])
        /\ Members(next) = FlattenSeq(Places(next))
    BY <1>2, <1>k, PlacesFormed
  <1>7. Len(w) \in Nat
    BY WrittenLength
  <1>8. \A i \in 1..Len(w) : i > j => Member(node, w[i]) = << >>
    BY <1>0, <1>7 DEF Fillable, Blank
  <1>9. Grown(Places(node), Places(next), j, v)
    <2>1. Places(next)[j] = Places(node)[j] \o <<v>>
      <3>1. /\ Places(next)[j] = Member(next, ItemsOf(m))
            /\ Places(node)[j] = Member(node, ItemsOf(m))
        BY <1>0, <1>5, <1>6
      <3> QED
        BY <3>1, <1>3 DEF Join
    <2>2. \A i \in 1..Len(w) : i # j => Places(next)[i] = Places(node)[i]
      BY <1>4, <1>5, <1>6
    <2>3. \A i \in 1..Len(w) : i > j => Places(node)[i] = << >>
      BY <1>5, <1>8
    <2>4. /\ AllSequences(Places(node)) /\ AllSequences(Places(next))
          /\ Len(Places(next)) = Len(Places(node)) /\ j \in 1..Len(Places(node))
      BY <1>0, <1>5, <1>6
    <2>5. /\ \A i \in 1..Len(Places(node)) : i # j => Places(next)[i] = Places(node)[i]
          /\ \A i \in 1..Len(Places(node)) : i > j => Places(node)[i] = << >>
      BY <2>2, <2>3, <1>5
    <2> QED
      BY <2>1, <2>4, <2>5 DEF Grown
  <1>10. Members(next) = Join(Members(node), <<v>>)
    BY <1>5, <1>6, <1>9, FlattenedGrows
  <1> QED
    BY <1>c, <1>2, <1>4, <1>10, <1>k DEF next

----------------------------------------------------------------------------
(* An activation: the node it is building and the steps it still has to do    *)
(* fit together, so that whatever it reads next is written after everything   *)
(* it has read.                                                               *)

(* The node in which a decision is taken, and the places of what it reads:    *)
(* nothing is written yet in first or after it, nothing will be after last.   *)
Choice ==
  [unit |-> [of |-> "unit", first |-> 2, last |-> 1],
   item |-> [of |-> "block", first |-> 3, last |-> 4],
   tail |-> [of |-> "block", first |-> 4, last |-> 4],
   else |-> [of |-> "if", first |-> 5, last |-> 4],
   else_if |-> [of |-> "else", first |-> 2, last |-> 4],
   size |-> [of |-> "prefix_bracket", first |-> 2, last |-> 2],
   argument |-> [of |-> "call", first |-> 4, last |-> 3],
   argument_comma |-> [of |-> "call", first |-> 4, last |-> 3],
   parameter |-> [of |-> "fn", first |-> 5, last |-> 4],
   parameter_comma |-> [of |-> "fn", first |-> 5, last |-> 4]]

Fits(kind, step) ==
  \/ /\ step.do \in {"expect", "accept"}
     /\ Belongs(kind, step.member) /\ step.member \notin Lists
  \/ /\ step.do = "parse" /\ step.what \in DOMAIN Functions /\ step.level \in 0..AnyLevel
     /\ \/ Belongs(kind, step.member)
        \/ kind = "none" /\ step.member = "whole"
     /\ step.member \notin {"argument_commas", "parameter_commas"}
  \/ /\ step.do = "decide"
     /\ \/ step.what \in DOMAIN Choice /\ Choice[step.what].of = kind
        \/ step.what \in {"statement", "operand", "primary"} /\ kind = "none"
        \/ step.what \in {"postfix", "infix"} /\ kind # "unit"

FirstPlace(kind, step) ==
  IF step.do = "decide"
  THEN IF step.what \in DOMAIN Choice THEN Choice[step.what].first ELSE Len(Written[kind]) + 1
  ELSE IF step.member = "whole" THEN Len(Written[kind]) + 1
  ELSE IF step.member \in Lists THEN Position(kind, step.member) + 1
  ELSE Position(kind, step.member)

LastPlace(kind, step) ==
  IF step.do = "decide"
  THEN IF step.what \in DOMAIN Choice THEN Choice[step.what].last ELSE Len(Written[kind])
  ELSE IF step.member = "whole" THEN Len(Written[kind])
  ELSE Position(kind, step.member)

(* The node of an activation: its lists are there from the start.             *)
NodeFormed(node) ==
  /\ node.kind \in DOMAIN Written
  /\ ListsFormed(node)
  /\ \A m \in Lists : Belongs(node.kind, m) => m \in DOMAIN node
  /\ AllFinished(Members(node))

(* Every step belongs to the node, and to a later place than the one before.  *)
StepsInTurn(kind, todo) ==
  /\ IsASequence(todo)
  /\ \A i \in 1..Len(todo) : Fits(kind, todo[i])
  /\ \A i, j \in 1..Len(todo) : i < j => LastPlace(kind, todo[i]) < FirstPlace(kind, todo[j])

NextIsBlank(node, todo) == todo # << >> => Blank(node, FirstPlace(node.kind, todo[1]))

(* Where a decision that replaces the whole node stands.                      *)
NotYetChosen(kind, todo) ==
  kind = "none" => \/ todo = <<Decide("statement")>>
                   \/ todo = <<Decide("primary")>>
                   \/ todo = <<Decide("operand"), Decide("infix")>>
                   \/ todo = <<Parse("primary", "whole"), Decide("postfix"), Decide("infix")>>
UnitGoesOn(kind, todo) ==
  kind = "unit" => \/ todo = <<Decide("unit")>>
                   \/ todo = <<Parse("statement", "statements"), Decide("unit")>>
OperatorsLast(todo) ==
  \A i \in 1..Len(todo) :
    /\ todo[i] = Decide("infix") => i = Len(todo)
    /\ todo[i] = Decide("postfix") => i = Len(todo) - 1 /\ todo[i + 1] = Decide("infix")
TailRead(node, todo) ==
  \A i \in 1..Len(todo) :
    todo[i] = Decide("tail") => \/ i = 1 /\ "tail" \in DOMAIN node /\ node.tail.kind # "lexeme"
                                \/ i = 2 /\ todo[1].do = "parse" /\ todo[1].member = "tail"

(* There is a lexeme in the node, or there will be.                           *)
Worded(node, todo) ==
  node.kind \notin {"none", "unit"} => \/ HasLexeme(Members(node))
                                       \/ \E i \in 1..Len(todo) : todo[i].do = "expect"

(* Items and commas take turns: at most one step, or an item and the comma    *)
(* after it, is about a list with commas.                                     *)
CommaLists == {[items |-> "arguments", commas |-> "argument_commas",
                item |-> "argument", comma |-> "argument_comma"],
               [items |-> "parameters", commas |-> "parameter_commas",
                item |-> "parameter", comma |-> "parameter_comma"]}
Fills(step, m) == step.do = "parse" /\ step.member = m
OfList(step, l) == step = Decide(l.item) \/ step = Decide(l.comma) \/ Fills(step, l.items)
Even(node, l) ==
  {l.items, l.commas} \subseteq DOMAIN node /\ Len(node[l.items]) = Len(node[l.commas])
Odd(node, l) ==
  {l.items, l.commas} \subseteq DOMAIN node /\ Len(node[l.items]) = Len(node[l.commas]) + 1
NoneOf(todo, l) == \A i \in 1..Len(todo) : ~OfList(todo[i], l)
Settled(node, todo, l) ==
  \/ NoneOf(todo, l)
  \/ /\ Even(node, l)
     /\ \E i \in 1..Len(todo) : /\ todo[i] = Decide(l.item)
                                /\ \A j \in 1..Len(todo) : j # i => ~OfList(todo[j], l)
TakesTurns(node, todo, l) ==
  \/ Settled(node, todo, l)
  \/ /\ Even(node, l)
     /\ Len(todo) >= 2 /\ Fills(todo[1], l.items) /\ todo[2] = Decide(l.comma)
     /\ \A j \in 1..Len(todo) : j > 2 => ~OfList(todo[j], l)
  \/ /\ Odd(node, l)
     /\ Len(todo) >= 1 /\ todo[1] = Decide(l.comma)
     /\ \A j \in 1..Len(todo) : j > 1 => ~OfList(todo[j], l)
TurnsTaken(node, todo) == \A l \in CommaLists : TakesTurns(node, todo, l)

Form(node, todo) ==
  /\ NodeFormed(node)
  /\ StepsInTurn(node.kind, todo)
  /\ NextIsBlank(node, todo)
  /\ NotYetChosen(node.kind, todo) /\ UnitGoesOn(node.kind, todo) /\ OperatorsLast(todo)
  /\ TailRead(node, todo)
  /\ Worded(node, todo)
  /\ TurnsTaken(node, todo)

(* The places of the members, node by node. *)
LEMMA LetPlaces ==
  /\ "let" \in DOMAIN Written /\ Len(Written["let"]) = 6
  /\ Belongs("let", "kw_let") /\ Position("let", "kw_let") = 1
  /\ Belongs("let", "kw_mut") /\ Position("let", "kw_mut") = 2
  /\ Belongs("let", "name") /\ Position("let", "name") = 3
  /\ Belongs("let", "eq") /\ Position("let", "eq") = 4
  /\ Belongs("let", "initializer") /\ Position("let", "initializer") = 5
  /\ Belongs("let", "semicolon") /\ Position("let", "semicolon") = 6
  <1>1. Written["let"] = <<"kw_let", "kw_mut", "name", "eq", "initializer", "semicolon">>
    BY WrittenOf
  <1>2. "let" \in DOMAIN Written /\ Len(Written["let"]) = 6
    BY <1>1, WrittenKinds
  <1>3. Belongs("let", "kw_let") /\ Position("let", "kw_let") = 1
    <2>1. 1 \in 1..Len(Written["let"]) /\ Written["let"][1] = ItemsOf("kw_let")
      BY <1>1, <1>2 DEF ItemsOf
    <2> QED
      BY <1>2, <2>1, PositionIs
  <1>4. Belongs("let", "kw_mut") /\ Position("let", "kw_mut") = 2
    <2>1. 2 \in 1..Len(Written["let"]) /\ Written["let"][2] = ItemsOf("kw_mut")
      BY <1>1, <1>2 DEF ItemsOf
    <2> QED
      BY <1>2, <2>1, PositionIs
  <1>5. Belongs("let", "name") /\ Position("let", "name") = 3
    <2>1. 3 \in 1..Len(Written["let"]) /\ Written["let"][3] = ItemsOf("name")
      BY <1>1, <1>2 DEF ItemsOf
    <2> QED
      BY <1>2, <2>1, PositionIs
  <1>6. Belongs("let", "eq") /\ Position("let", "eq") = 4
    <2>1. 4 \in 1..Len(Written["let"]) /\ Written["let"][4] = ItemsOf("eq")
      BY <1>1, <1>2 DEF ItemsOf
    <2> QED
      BY <1>2, <2>1, PositionIs
  <1>7. Belongs("let", "initializer") /\ Position("let", "initializer") = 5
    <2>1. 5 \in 1..Len(Written["let"]) /\ Written["let"][5] = ItemsOf("initializer")
      BY <1>1, <1>2 DEF ItemsOf
    <2> QED
      BY <1>2, <2>1, PositionIs
  <1>8. Belongs("let", "semicolon") /\ Position("let", "semicolon") = 6
    <2>1. 6 \in 1..Len(Written["let"]) /\ Written["let"][6] = ItemsOf("semicolon")
      BY <1>1, <1>2 DEF ItemsOf
    <2> QED
      BY <1>2, <2>1, PositionIs
  <1> QED
    BY <1>2, <1>3, <1>4, <1>5, <1>6, <1>7, <1>8

LEMMA ReturnPlaces ==
  /\ "return" \in DOMAIN Written /\ Len(Written["return"]) = 3
  /\ Belongs("return", "kw_return") /\ Position("return", "kw_return") = 1
  /\ Belongs("return", "value") /\ Position("return", "value") = 2
  /\ Belongs("return", "semicolon") /\ Position("return", "semicolon") = 3
  <1>1. Written["return"] = <<"kw_return", "value", "semicolon">>
    BY WrittenOf
  <1>2. "return" \in DOMAIN Written /\ Len(Written["return"]) = 3
    BY <1>1, WrittenKinds
  <1>3. Belongs("return", "kw_return") /\ Position("return", "kw_return") = 1
    <2>1. 1 \in 1..Len(Written["return"]) /\ Written["return"][1] = ItemsOf("kw_return")
      BY <1>1, <1>2 DEF ItemsOf
    <2> QED
      BY <1>2, <2>1, PositionIs
  <1>4. Belongs("return", "value") /\ Position("return", "value") = 2
    <2>1. 2 \in 1..Len(Written["return"]) /\ Written["return"][2] = ItemsOf("value")
      BY <1>1, <1>2 DEF ItemsOf
    <2> QED
      BY <1>2, <2>1, PositionIs
  <1>5. Belongs("return", "semicolon") /\ Position("return", "semicolon") = 3
    <2>1. 3 \in 1..Len(Written["return"]) /\ Written["return"][3] = ItemsOf("semicolon")
      BY <1>1, <1>2 DEF ItemsOf
    <2> QED
      BY <1>2, <2>1, PositionIs
  <1> QED
    BY <1>2, <1>3, <1>4, <1>5

LEMMA WhilePlaces ==
  /\ "while" \in DOMAIN Written /\ Len(Written["while"]) = 3
  /\ Belongs("while", "kw_while") /\ Position("while", "kw_while") = 1
  /\ Belongs("while", "condition") /\ Position("while", "condition") = 2
  /\ Belongs("while", "body") /\ Position("while", "body") = 3
  <1>1. Written["while"] = <<"kw_while", "condition", "body">>
    BY WrittenOf
  <1>2. "while" \in DOMAIN Written /\ Len(Written["while"]) = 3
    BY <1>1, WrittenKinds
  <1>3. Belongs("while", "kw_while") /\ Position("while", "kw_while") = 1
    <2>1. 1 \in 1..Len(Written["while"]) /\ Written["while"][1] = ItemsOf("kw_while")
      BY <1>1, <1>2 DEF ItemsOf
    <2> QED
      BY <1>2, <2>1, PositionIs
  <1>4. Belongs("while", "condition") /\ Position("while", "condition") = 2
    <2>1. 2 \in 1..Len(Written["while"]) /\ Written["while"][2] = ItemsOf("condition")
      BY <1>1, <1>2 DEF ItemsOf
    <2> QED
      BY <1>2, <2>1, PositionIs
  <1>5. Belongs("while", "body") /\ Position("while", "body") = 3
    <2>1. 3 \in 1..Len(Written["while"]) /\ Written["while"][3] = ItemsOf("body")
      BY <1>1, <1>2 DEF ItemsOf
    <2> QED
      BY <1>2, <2>1, PositionIs
  <1> QED
    BY <1>2, <1>3, <1>4, <1>5

LEMMA ExpressionStatementPlaces ==
  /\ "expression_statement" \in DOMAIN Written /\ Len(Written["expression_statement"]) = 2
  /\ Belongs("expression_statement", "expression") /\ Position("expression_statement", "expression") = 1
  /\ Belongs("expression_statement", "semicolon") /\ Position("expression_statement", "semicolon") = 2
  <1>1. Written["expression_statement"] = <<"expression", "semicolon">>
    BY WrittenOf
  <1>2. "expression_statement" \in DOMAIN Written /\ Len(Written["expression_statement"]) = 2
    BY <1>1, WrittenKinds
  <1>3. Belongs("expression_statement", "expression") /\ Position("expression_statement", "expression") = 1
    <2>1. 1 \in 1..Len(Written["expression_statement"]) /\ Written["expression_statement"][1] = ItemsOf("expression")
      BY <1>1, <1>2 DEF ItemsOf
    <2> QED
      BY <1>2, <2>1, PositionIs
  <1>4. Belongs("expression_statement", "semicolon") /\ Position("expression_statement", "semicolon") = 2
    <2>1. 2 \in 1..Len(Written["expression_statement"]) /\ Written["expression_statement"][2] = ItemsOf("semicolon")
      BY <1>1, <1>2 DEF ItemsOf
    <2> QED
      BY <1>2, <2>1, PositionIs
  <1> QED
    BY <1>2, <1>3, <1>4

LEMMA AtomPlaces ==
  /\ "atom" \in DOMAIN Written /\ Len(Written["atom"]) = 1
  /\ Belongs("atom", "lexeme") /\ Position("atom", "lexeme") = 1
  <1>1. Written["atom"] = <<"lexeme">>
    BY WrittenOf
  <1>2. "atom" \in DOMAIN Written /\ Len(Written["atom"]) = 1
    BY <1>1, WrittenKinds
  <1>3. Belongs("atom", "lexeme") /\ Position("atom", "lexeme") = 1
    <2>1. 1 \in 1..Len(Written["atom"]) /\ Written["atom"][1] = ItemsOf("lexeme")
      BY <1>1, <1>2 DEF ItemsOf
    <2> QED
      BY <1>2, <2>1, PositionIs
  <1> QED
    BY <1>2, <1>3

LEMMA ParenPlaces ==
  /\ "paren" \in DOMAIN Written /\ Len(Written["paren"]) = 3
  /\ Belongs("paren", "lparen") /\ Position("paren", "lparen") = 1
  /\ Belongs("paren", "inner") /\ Position("paren", "inner") = 2
  /\ Belongs("paren", "rparen") /\ Position("paren", "rparen") = 3
  <1>1. Written["paren"] = <<"lparen", "inner", "rparen">>
    BY WrittenOf
  <1>2. "paren" \in DOMAIN Written /\ Len(Written["paren"]) = 3
    BY <1>1, WrittenKinds
  <1>3. Belongs("paren", "lparen") /\ Position("paren", "lparen") = 1
    <2>1. 1 \in 1..Len(Written["paren"]) /\ Written["paren"][1] = ItemsOf("lparen")
      BY <1>1, <1>2 DEF ItemsOf
    <2> QED
      BY <1>2, <2>1, PositionIs
  <1>4. Belongs("paren", "inner") /\ Position("paren", "inner") = 2
    <2>1. 2 \in 1..Len(Written["paren"]) /\ Written["paren"][2] = ItemsOf("inner")
      BY <1>1, <1>2 DEF ItemsOf
    <2> QED
      BY <1>2, <2>1, PositionIs
  <1>5. Belongs("paren", "rparen") /\ Position("paren", "rparen") = 3
    <2>1. 3 \in 1..Len(Written["paren"]) /\ Written["paren"][3] = ItemsOf("rparen")
      BY <1>1, <1>2 DEF ItemsOf
    <2> QED
      BY <1>2, <2>1, PositionIs
  <1> QED
    BY <1>2, <1>3, <1>4, <1>5

LEMMA BlockPlaces ==
  /\ "block" \in DOMAIN Written /\ Len(Written["block"]) = 4
  /\ Belongs("block", "lbrace") /\ Position("block", "lbrace") = 1
  /\ Belongs("block", "statements") /\ Position("block", "statements") = 2
  /\ Belongs("block", "tail") /\ Position("block", "tail") = 3
  /\ Belongs("block", "rbrace") /\ Position("block", "rbrace") = 4
  <1>1. Written["block"] = <<"lbrace", "statements", "tail", "rbrace">>
    BY WrittenOf
  <1>2. "block" \in DOMAIN Written /\ Len(Written["block"]) = 4
    BY <1>1, WrittenKinds
  <1>3. Belongs("block", "lbrace") /\ Position("block", "lbrace") = 1
    <2>1. 1 \in 1..Len(Written["block"]) /\ Written["block"][1] = ItemsOf("lbrace")
      BY <1>1, <1>2 DEF ItemsOf
    <2> QED
      BY <1>2, <2>1, PositionIs
  <1>4. Belongs("block", "statements") /\ Position("block", "statements") = 2
    <2>1. 2 \in 1..Len(Written["block"]) /\ Written["block"][2] = ItemsOf("statements")
      BY <1>1, <1>2 DEF ItemsOf
    <2> QED
      BY <1>2, <2>1, PositionIs
  <1>5. Belongs("block", "tail") /\ Position("block", "tail") = 3
    <2>1. 3 \in 1..Len(Written["block"]) /\ Written["block"][3] = ItemsOf("tail")
      BY <1>1, <1>2 DEF ItemsOf
    <2> QED
      BY <1>2, <2>1, PositionIs
  <1>6. Belongs("block", "rbrace") /\ Position("block", "rbrace") = 4
    <2>1. 4 \in 1..Len(Written["block"]) /\ Written["block"][4] = ItemsOf("rbrace")
      BY <1>1, <1>2 DEF ItemsOf
    <2> QED
      BY <1>2, <2>1, PositionIs
  <1> QED
    BY <1>2, <1>3, <1>4, <1>5, <1>6

LEMMA IfPlaces ==
  /\ "if" \in DOMAIN Written /\ Len(Written["if"]) = 4
  /\ Belongs("if", "kw_if") /\ Position("if", "kw_if") = 1
  /\ Belongs("if", "condition") /\ Position("if", "condition") = 2
  /\ Belongs("if", "then_block") /\ Position("if", "then_block") = 3
  /\ Belongs("if", "elses") /\ Position("if", "elses") = 4
  <1>1. Written["if"] = <<"kw_if", "condition", "then_block", "elses">>
    BY WrittenOf
  <1>2. "if" \in DOMAIN Written /\ Len(Written["if"]) = 4
    BY <1>1, WrittenKinds
  <1>3. Belongs("if", "kw_if") /\ Position("if", "kw_if") = 1
    <2>1. 1 \in 1..Len(Written["if"]) /\ Written["if"][1] = ItemsOf("kw_if")
      BY <1>1, <1>2 DEF ItemsOf
    <2> QED
      BY <1>2, <2>1, PositionIs
  <1>4. Belongs("if", "condition") /\ Position("if", "condition") = 2
    <2>1. 2 \in 1..Len(Written["if"]) /\ Written["if"][2] = ItemsOf("condition")
      BY <1>1, <1>2 DEF ItemsOf
    <2> QED
      BY <1>2, <2>1, PositionIs
  <1>5. Belongs("if", "then_block") /\ Position("if", "then_block") = 3
    <2>1. 3 \in 1..Len(Written["if"]) /\ Written["if"][3] = ItemsOf("then_block")
      BY <1>1, <1>2 DEF ItemsOf
    <2> QED
      BY <1>2, <2>1, PositionIs
  <1>6. Belongs("if", "elses") /\ Position("if", "elses") = 4
    <2>1. 4 \in 1..Len(Written["if"]) /\ Written["if"][4] = ItemsOf("elses")
      BY <1>1, <1>2 DEF ItemsOf
    <2> QED
      BY <1>2, <2>1, PositionIs
  <1> QED
    BY <1>2, <1>3, <1>4, <1>5, <1>6

LEMMA ElsePlaces ==
  /\ "else" \in DOMAIN Written /\ Len(Written["else"]) = 4
  /\ Belongs("else", "kw_else") /\ Position("else", "kw_else") = 1
  /\ Belongs("else", "kw_if") /\ Position("else", "kw_if") = 2
  /\ Belongs("else", "condition") /\ Position("else", "condition") = 3
  /\ Belongs("else", "body") /\ Position("else", "body") = 4
  <1>1. Written["else"] = <<"kw_else", "kw_if", "condition", "body">>
    BY WrittenOf
  <1>2. "else" \in DOMAIN Written /\ Len(Written["else"]) = 4
    BY <1>1, WrittenKinds
  <1>3. Belongs("else", "kw_else") /\ Position("else", "kw_else") = 1
    <2>1. 1 \in 1..Len(Written["else"]) /\ Written["else"][1] = ItemsOf("kw_else")
      BY <1>1, <1>2 DEF ItemsOf
    <2> QED
      BY <1>2, <2>1, PositionIs
  <1>4. Belongs("else", "kw_if") /\ Position("else", "kw_if") = 2
    <2>1. 2 \in 1..Len(Written["else"]) /\ Written["else"][2] = ItemsOf("kw_if")
      BY <1>1, <1>2 DEF ItemsOf
    <2> QED
      BY <1>2, <2>1, PositionIs
  <1>5. Belongs("else", "condition") /\ Position("else", "condition") = 3
    <2>1. 3 \in 1..Len(Written["else"]) /\ Written["else"][3] = ItemsOf("condition")
      BY <1>1, <1>2 DEF ItemsOf
    <2> QED
      BY <1>2, <2>1, PositionIs
  <1>6. Belongs("else", "body") /\ Position("else", "body") = 4
    <2>1. 4 \in 1..Len(Written["else"]) /\ Written["else"][4] = ItemsOf("body")
      BY <1>1, <1>2 DEF ItemsOf
    <2> QED
      BY <1>2, <2>1, PositionIs
  <1> QED
    BY <1>2, <1>3, <1>4, <1>5, <1>6

LEMMA FnPlaces ==
  /\ "fn" \in DOMAIN Written /\ Len(Written["fn"]) = 8
  /\ Belongs("fn", "kw_fn") /\ Position("fn", "kw_fn") = 1
  /\ Belongs("fn", "name") /\ Position("fn", "name") = 2
  /\ Belongs("fn", "lparen") /\ Position("fn", "lparen") = 3
  /\ Belongs("fn", "parameters") /\ Position("fn", "parameters") = 4
  /\ Belongs("fn", "rparen") /\ Position("fn", "rparen") = 5
  /\ Belongs("fn", "return_type") /\ Position("fn", "return_type") = 6
  /\ Belongs("fn", "arrow") /\ Position("fn", "arrow") = 7
  /\ Belongs("fn", "body") /\ Position("fn", "body") = 8
  /\ Belongs("fn", "parameter_commas") /\ Position("fn", "parameter_commas") = 4
  <1>1. Written["fn"] = <<"kw_fn", "name", "lparen", "parameters", "rparen", "return_type", "arrow", "body">>
    BY WrittenOf
  <1>2. "fn" \in DOMAIN Written /\ Len(Written["fn"]) = 8
    BY <1>1, WrittenKinds
  <1>3. Belongs("fn", "kw_fn") /\ Position("fn", "kw_fn") = 1
    <2>1. 1 \in 1..Len(Written["fn"]) /\ Written["fn"][1] = ItemsOf("kw_fn")
      BY <1>1, <1>2 DEF ItemsOf
    <2> QED
      BY <1>2, <2>1, PositionIs
  <1>4. Belongs("fn", "name") /\ Position("fn", "name") = 2
    <2>1. 2 \in 1..Len(Written["fn"]) /\ Written["fn"][2] = ItemsOf("name")
      BY <1>1, <1>2 DEF ItemsOf
    <2> QED
      BY <1>2, <2>1, PositionIs
  <1>5. Belongs("fn", "lparen") /\ Position("fn", "lparen") = 3
    <2>1. 3 \in 1..Len(Written["fn"]) /\ Written["fn"][3] = ItemsOf("lparen")
      BY <1>1, <1>2 DEF ItemsOf
    <2> QED
      BY <1>2, <2>1, PositionIs
  <1>6. Belongs("fn", "parameters") /\ Position("fn", "parameters") = 4
    <2>1. 4 \in 1..Len(Written["fn"]) /\ Written["fn"][4] = ItemsOf("parameters")
      BY <1>1, <1>2 DEF ItemsOf
    <2> QED
      BY <1>2, <2>1, PositionIs
  <1>7. Belongs("fn", "rparen") /\ Position("fn", "rparen") = 5
    <2>1. 5 \in 1..Len(Written["fn"]) /\ Written["fn"][5] = ItemsOf("rparen")
      BY <1>1, <1>2 DEF ItemsOf
    <2> QED
      BY <1>2, <2>1, PositionIs
  <1>8. Belongs("fn", "return_type") /\ Position("fn", "return_type") = 6
    <2>1. 6 \in 1..Len(Written["fn"]) /\ Written["fn"][6] = ItemsOf("return_type")
      BY <1>1, <1>2 DEF ItemsOf
    <2> QED
      BY <1>2, <2>1, PositionIs
  <1>9. Belongs("fn", "arrow") /\ Position("fn", "arrow") = 7
    <2>1. 7 \in 1..Len(Written["fn"]) /\ Written["fn"][7] = ItemsOf("arrow")
      BY <1>1, <1>2 DEF ItemsOf
    <2> QED
      BY <1>2, <2>1, PositionIs
  <1>10. Belongs("fn", "body") /\ Position("fn", "body") = 8
    <2>1. 8 \in 1..Len(Written["fn"]) /\ Written["fn"][8] = ItemsOf("body")
      BY <1>1, <1>2 DEF ItemsOf
    <2> QED
      BY <1>2, <2>1, PositionIs
  <1>11. Belongs("fn", "parameter_commas") /\ Position("fn", "parameter_commas") = 4
    <2>1. 4 \in 1..Len(Written["fn"]) /\ Written["fn"][4] = ItemsOf("parameter_commas")
      BY <1>1, <1>2 DEF ItemsOf
    <2> QED
      BY <1>2, <2>1, PositionIs
  <1> QED
    BY <1>2, <1>3, <1>4, <1>5, <1>6, <1>7, <1>8, <1>9, <1>10, <1>11

LEMMA ParameterPlaces ==
  /\ "parameter" \in DOMAIN Written /\ Len(Written["parameter"]) = 4
  /\ Belongs("parameter", "kw_mut") /\ Position("parameter", "kw_mut") = 1
  /\ Belongs("parameter", "name") /\ Position("parameter", "name") = 2
  /\ Belongs("parameter", "colon") /\ Position("parameter", "colon") = 3
  /\ Belongs("parameter", "type") /\ Position("parameter", "type") = 4
  <1>1. Written["parameter"] = <<"kw_mut", "name", "colon", "type">>
    BY WrittenOf
  <1>2. "parameter" \in DOMAIN Written /\ Len(Written["parameter"]) = 4
    BY <1>1, WrittenKinds
  <1>3. Belongs("parameter", "kw_mut") /\ Position("parameter", "kw_mut") = 1
    <2>1. 1 \in 1..Len(Written["parameter"]) /\ Written["parameter"][1] = ItemsOf("kw_mut")
      BY <1>1, <1>2 DEF ItemsOf
    <2> QED
      BY <1>2, <2>1, PositionIs
  <1>4. Belongs("parameter", "name") /\ Position("parameter", "name") = 2
    <2>1. 2 \in 1..Len(Written["parameter"]) /\ Written["parameter"][2] = ItemsOf("name")
      BY <1>1, <1>2 DEF ItemsOf
    <2> QED
      BY <1>2, <2>1, PositionIs
  <1>5. Belongs("parameter", "colon") /\ Position("parameter", "colon") = 3
    <2>1. 3 \in 1..Len(Written["parameter"]) /\ Written["parameter"][3] = ItemsOf("colon")
      BY <1>1, <1>2 DEF ItemsOf
    <2> QED
      BY <1>2, <2>1, PositionIs
  <1>6. Belongs("parameter", "type") /\ Position("parameter", "type") = 4
    <2>1. 4 \in 1..Len(Written["parameter"]) /\ Written["parameter"][4] = ItemsOf("type")
      BY <1>1, <1>2 DEF ItemsOf
    <2> QED
      BY <1>2, <2>1, PositionIs
  <1> QED
    BY <1>2, <1>3, <1>4, <1>5, <1>6

LEMMA ReturnTypePlaces ==
  /\ "return_type" \in DOMAIN Written /\ Len(Written["return_type"]) = 2
  /\ Belongs("return_type", "colon") /\ Position("return_type", "colon") = 1
  /\ Belongs("return_type", "type") /\ Position("return_type", "type") = 2
  <1>1. Written["return_type"] = <<"colon", "type">>
    BY WrittenOf
  <1>2. "return_type" \in DOMAIN Written /\ Len(Written["return_type"]) = 2
    BY <1>1, WrittenKinds
  <1>3. Belongs("return_type", "colon") /\ Position("return_type", "colon") = 1
    <2>1. 1 \in 1..Len(Written["return_type"]) /\ Written["return_type"][1] = ItemsOf("colon")
      BY <1>1, <1>2 DEF ItemsOf
    <2> QED
      BY <1>2, <2>1, PositionIs
  <1>4. Belongs("return_type", "type") /\ Position("return_type", "type") = 2
    <2>1. 2 \in 1..Len(Written["return_type"]) /\ Written["return_type"][2] = ItemsOf("type")
      BY <1>1, <1>2 DEF ItemsOf
    <2> QED
      BY <1>2, <2>1, PositionIs
  <1> QED
    BY <1>2, <1>3, <1>4

LEMMA PrefixPlaces ==
  /\ "prefix" \in DOMAIN Written /\ Len(Written["prefix"]) = 2
  /\ Belongs("prefix", "op") /\ Position("prefix", "op") = 1
  /\ Belongs("prefix", "operand") /\ Position("prefix", "operand") = 2
  <1>1. Written["prefix"] = <<"op", "operand">>
    BY WrittenOf
  <1>2. "prefix" \in DOMAIN Written /\ Len(Written["prefix"]) = 2
    BY <1>1, WrittenKinds
  <1>3. Belongs("prefix", "op") /\ Position("prefix", "op") = 1
    <2>1. 1 \in 1..Len(Written["prefix"]) /\ Written["prefix"][1] = ItemsOf("op")
      BY <1>1, <1>2 DEF ItemsOf
    <2> QED
      BY <1>2, <2>1, PositionIs
  <1>4. Belongs("prefix", "operand") /\ Position("prefix", "operand") = 2
    <2>1. 2 \in 1..Len(Written["prefix"]) /\ Written["prefix"][2] = ItemsOf("operand")
      BY <1>1, <1>2 DEF ItemsOf
    <2> QED
      BY <1>2, <2>1, PositionIs
  <1> QED
    BY <1>2, <1>3, <1>4

LEMMA PrefixBracketPlaces ==
  /\ "prefix_bracket" \in DOMAIN Written /\ Len(Written["prefix_bracket"]) = 4
  /\ Belongs("prefix_bracket", "lbracket") /\ Position("prefix_bracket", "lbracket") = 1
  /\ Belongs("prefix_bracket", "size") /\ Position("prefix_bracket", "size") = 2
  /\ Belongs("prefix_bracket", "rbracket") /\ Position("prefix_bracket", "rbracket") = 3
  /\ Belongs("prefix_bracket", "operand") /\ Position("prefix_bracket", "operand") = 4
  <1>1. Written["prefix_bracket"] = <<"lbracket", "size", "rbracket", "operand">>
    BY WrittenOf
  <1>2. "prefix_bracket" \in DOMAIN Written /\ Len(Written["prefix_bracket"]) = 4
    BY <1>1, WrittenKinds
  <1>3. Belongs("prefix_bracket", "lbracket") /\ Position("prefix_bracket", "lbracket") = 1
    <2>1. 1 \in 1..Len(Written["prefix_bracket"]) /\ Written["prefix_bracket"][1] = ItemsOf("lbracket")
      BY <1>1, <1>2 DEF ItemsOf
    <2> QED
      BY <1>2, <2>1, PositionIs
  <1>4. Belongs("prefix_bracket", "size") /\ Position("prefix_bracket", "size") = 2
    <2>1. 2 \in 1..Len(Written["prefix_bracket"]) /\ Written["prefix_bracket"][2] = ItemsOf("size")
      BY <1>1, <1>2 DEF ItemsOf
    <2> QED
      BY <1>2, <2>1, PositionIs
  <1>5. Belongs("prefix_bracket", "rbracket") /\ Position("prefix_bracket", "rbracket") = 3
    <2>1. 3 \in 1..Len(Written["prefix_bracket"]) /\ Written["prefix_bracket"][3] = ItemsOf("rbracket")
      BY <1>1, <1>2 DEF ItemsOf
    <2> QED
      BY <1>2, <2>1, PositionIs
  <1>6. Belongs("prefix_bracket", "operand") /\ Position("prefix_bracket", "operand") = 4
    <2>1. 4 \in 1..Len(Written["prefix_bracket"]) /\ Written["prefix_bracket"][4] = ItemsOf("operand")
      BY <1>1, <1>2 DEF ItemsOf
    <2> QED
      BY <1>2, <2>1, PositionIs
  <1> QED
    BY <1>2, <1>3, <1>4, <1>5, <1>6

LEMMA CallPlaces ==
  /\ "call" \in DOMAIN Written /\ Len(Written["call"]) = 4
  /\ Belongs("call", "callee") /\ Position("call", "callee") = 1
  /\ Belongs("call", "lparen") /\ Position("call", "lparen") = 2
  /\ Belongs("call", "arguments") /\ Position("call", "arguments") = 3
  /\ Belongs("call", "rparen") /\ Position("call", "rparen") = 4
  /\ Belongs("call", "argument_commas") /\ Position("call", "argument_commas") = 3
  <1>1. Written["call"] = <<"callee", "lparen", "arguments", "rparen">>
    BY WrittenOf
  <1>2. "call" \in DOMAIN Written /\ Len(Written["call"]) = 4
    BY <1>1, WrittenKinds
  <1>3. Belongs("call", "callee") /\ Position("call", "callee") = 1
    <2>1. 1 \in 1..Len(Written["call"]) /\ Written["call"][1] = ItemsOf("callee")
      BY <1>1, <1>2 DEF ItemsOf
    <2> QED
      BY <1>2, <2>1, PositionIs
  <1>4. Belongs("call", "lparen") /\ Position("call", "lparen") = 2
    <2>1. 2 \in 1..Len(Written["call"]) /\ Written["call"][2] = ItemsOf("lparen")
      BY <1>1, <1>2 DEF ItemsOf
    <2> QED
      BY <1>2, <2>1, PositionIs
  <1>5. Belongs("call", "arguments") /\ Position("call", "arguments") = 3
    <2>1. 3 \in 1..Len(Written["call"]) /\ Written["call"][3] = ItemsOf("arguments")
      BY <1>1, <1>2 DEF ItemsOf
    <2> QED
      BY <1>2, <2>1, PositionIs
  <1>6. Belongs("call", "rparen") /\ Position("call", "rparen") = 4
    <2>1. 4 \in 1..Len(Written["call"]) /\ Written["call"][4] = ItemsOf("rparen")
      BY <1>1, <1>2 DEF ItemsOf
    <2> QED
      BY <1>2, <2>1, PositionIs
  <1>7. Belongs("call", "argument_commas") /\ Position("call", "argument_commas") = 3
    <2>1. 3 \in 1..Len(Written["call"]) /\ Written["call"][3] = ItemsOf("argument_commas")
      BY <1>1, <1>2 DEF ItemsOf
    <2> QED
      BY <1>2, <2>1, PositionIs
  <1> QED
    BY <1>2, <1>3, <1>4, <1>5, <1>6, <1>7

LEMMA IndexPlaces ==
  /\ "index" \in DOMAIN Written /\ Len(Written["index"]) = 4
  /\ Belongs("index", "operand") /\ Position("index", "operand") = 1
  /\ Belongs("index", "lbracket") /\ Position("index", "lbracket") = 2
  /\ Belongs("index", "index") /\ Position("index", "index") = 3
  /\ Belongs("index", "rbracket") /\ Position("index", "rbracket") = 4
  <1>1. Written["index"] = <<"operand", "lbracket", "index", "rbracket">>
    BY WrittenOf
  <1>2. "index" \in DOMAIN Written /\ Len(Written["index"]) = 4
    BY <1>1, WrittenKinds
  <1>3. Belongs("index", "operand") /\ Position("index", "operand") = 1
    <2>1. 1 \in 1..Len(Written["index"]) /\ Written["index"][1] = ItemsOf("operand")
      BY <1>1, <1>2 DEF ItemsOf
    <2> QED
      BY <1>2, <2>1, PositionIs
  <1>4. Belongs("index", "lbracket") /\ Position("index", "lbracket") = 2
    <2>1. 2 \in 1..Len(Written["index"]) /\ Written["index"][2] = ItemsOf("lbracket")
      BY <1>1, <1>2 DEF ItemsOf
    <2> QED
      BY <1>2, <2>1, PositionIs
  <1>5. Belongs("index", "index") /\ Position("index", "index") = 3
    <2>1. 3 \in 1..Len(Written["index"]) /\ Written["index"][3] = ItemsOf("index")
      BY <1>1, <1>2 DEF ItemsOf
    <2> QED
      BY <1>2, <2>1, PositionIs
  <1>6. Belongs("index", "rbracket") /\ Position("index", "rbracket") = 4
    <2>1. 4 \in 1..Len(Written["index"]) /\ Written["index"][4] = ItemsOf("rbracket")
      BY <1>1, <1>2 DEF ItemsOf
    <2> QED
      BY <1>2, <2>1, PositionIs
  <1> QED
    BY <1>2, <1>3, <1>4, <1>5, <1>6

LEMMA PostfixPlaces ==
  /\ "postfix" \in DOMAIN Written /\ Len(Written["postfix"]) = 2
  /\ Belongs("postfix", "operand") /\ Position("postfix", "operand") = 1
  /\ Belongs("postfix", "op") /\ Position("postfix", "op") = 2
  <1>1. Written["postfix"] = <<"operand", "op">>
    BY WrittenOf
  <1>2. "postfix" \in DOMAIN Written /\ Len(Written["postfix"]) = 2
    BY <1>1, WrittenKinds
  <1>3. Belongs("postfix", "operand") /\ Position("postfix", "operand") = 1
    <2>1. 1 \in 1..Len(Written["postfix"]) /\ Written["postfix"][1] = ItemsOf("operand")
      BY <1>1, <1>2 DEF ItemsOf
    <2> QED
      BY <1>2, <2>1, PositionIs
  <1>4. Belongs("postfix", "op") /\ Position("postfix", "op") = 2
    <2>1. 2 \in 1..Len(Written["postfix"]) /\ Written["postfix"][2] = ItemsOf("op")
      BY <1>1, <1>2 DEF ItemsOf
    <2> QED
      BY <1>2, <2>1, PositionIs
  <1> QED
    BY <1>2, <1>3, <1>4

LEMMA BinaryPlaces ==
  /\ "binary" \in DOMAIN Written /\ Len(Written["binary"]) = 3
  /\ Belongs("binary", "left") /\ Position("binary", "left") = 1
  /\ Belongs("binary", "op") /\ Position("binary", "op") = 2
  /\ Belongs("binary", "right") /\ Position("binary", "right") = 3
  <1>1. Written["binary"] = <<"left", "op", "right">>
    BY WrittenOf
  <1>2. "binary" \in DOMAIN Written /\ Len(Written["binary"]) = 3
    BY <1>1, WrittenKinds
  <1>3. Belongs("binary", "left") /\ Position("binary", "left") = 1
    <2>1. 1 \in 1..Len(Written["binary"]) /\ Written["binary"][1] = ItemsOf("left")
      BY <1>1, <1>2 DEF ItemsOf
    <2> QED
      BY <1>2, <2>1, PositionIs
  <1>4. Belongs("binary", "op") /\ Position("binary", "op") = 2
    <2>1. 2 \in 1..Len(Written["binary"]) /\ Written["binary"][2] = ItemsOf("op")
      BY <1>1, <1>2 DEF ItemsOf
    <2> QED
      BY <1>2, <2>1, PositionIs
  <1>5. Belongs("binary", "right") /\ Position("binary", "right") = 3
    <2>1. 3 \in 1..Len(Written["binary"]) /\ Written["binary"][3] = ItemsOf("right")
      BY <1>1, <1>2 DEF ItemsOf
    <2> QED
      BY <1>2, <2>1, PositionIs
  <1> QED
    BY <1>2, <1>3, <1>4, <1>5

LEMMA UnitPlaces ==
  /\ "unit" \in DOMAIN Written /\ Len(Written["unit"]) = 1
  /\ Belongs("unit", "statements") /\ Position("unit", "statements") = 1
  <1>1. Written["unit"] = <<"statements">>
    BY WrittenOf
  <1>2. "unit" \in DOMAIN Written /\ Len(Written["unit"]) = 1
    BY <1>1, WrittenKinds
  <1>3. Belongs("unit", "statements") /\ Position("unit", "statements") = 1
    <2>1. 1 \in 1..Len(Written["unit"]) /\ Written["unit"][1] = ItemsOf("statements")
      BY <1>1, <1>2 DEF ItemsOf
    <2> QED
      BY <1>2, <2>1, PositionIs
  <1> QED
    BY <1>2, <1>3

(* What does not depend on the node but on its kind. *)
Plan(kind, todo) ==
  /\ StepsInTurn(kind, todo)
  /\ NotYetChosen(kind, todo) /\ UnitGoesOn(kind, todo) /\ OperatorsLast(todo)

LEMMA TailSteps ==
  ASSUME NEW todo, IsASequence(todo), todo # << >>
  PROVE  /\ IsASequence(Tail(todo)) /\ Len(todo) \in Nat /\ Len(todo) >= 1
         /\ Len(Tail(todo)) = Len(todo) - 1
         /\ \A i \in 1..Len(Tail(todo)) : i + 1 \in 1..Len(todo) /\ Tail(todo)[i] = todo[i + 1]
         /\ Head(todo) = todo[1]
         /\ 1 \in 1..Len(todo)
  BY TailOfSequence

LEMMA PlaceBounds ==
  ASSUME NEW kind \in DOMAIN Written, NEW step, Fits(kind, step)
  PROVE  FirstPlace(kind, step) \in Int /\ LastPlace(kind, step) \in Int
  <1>1. Len(Written[kind]) \in Nat
    BY WrittenLength
  <1>2. Belongs(kind, step.member) => Position(kind, step.member) \in Int
    BY <1>1, PositionOf
  <1>3. CASE step.do = "decide"
    <2>1. step.what \in DOMAIN Choice =>
            Choice[step.what].first \in Int /\ Choice[step.what].last \in Int
      BY DEF Choice
    <2> QED
      BY <1>1, <1>3, <2>1 DEF FirstPlace, LastPlace
  <1>4. CASE step.do # "decide"
    <2>1. Belongs(kind, step.member) \/ step.member = "whole"
      BY <1>4 DEF Fits
    <2> QED
      BY <1>1, <1>2, <1>4, <2>1 DEF FirstPlace, LastPlace
  <1> QED
    BY <1>3, <1>4

LEMMA PlanTail ==
  ASSUME NEW kind, kind # "none", NEW todo, Plan(kind, todo), todo # << >>,
         kind = "unit" => todo[1].do = "parse"
  PROVE  Plan(kind, Tail(todo))
  <1> DEFINE t == Tail(todo)
  <1>0. UnitGoesOn(kind, t)
    <2> SUFFICES ASSUME kind = "unit"
                 PROVE  t = <<Decide("unit")>>
      BY DEF UnitGoesOn
    <2>1. todo = <<Parse("statement", "statements"), Decide("unit")>>
      BY DEF Plan, UnitGoesOn, Decide
    <2> QED
      BY <2>1
  <1>1. /\ IsASequence(todo) /\ \A i \in 1..Len(todo) : Fits(kind, todo[i])
        /\ \A i, j \in 1..Len(todo) : i < j => LastPlace(kind, todo[i]) < FirstPlace(kind, todo[j])
    BY DEF Plan, StepsInTurn
  <1>2. /\ IsASequence(t) /\ Len(todo) \in Nat /\ Len(t) = Len(todo) - 1
        /\ \A i \in 1..Len(t) : i + 1 \in 1..Len(todo) /\ t[i] = todo[i + 1]
    BY <1>1, TailSteps
  <1> HIDE DEF t
  <1>3. \A i \in 1..Len(t) : Fits(kind, t[i])
    BY <1>1, <1>2
  <1>4. ASSUME NEW i \in 1..Len(t), NEW j \in 1..Len(t), i < j
        PROVE  LastPlace(kind, t[i]) < FirstPlace(kind, t[j])
    <2>1. /\ i + 1 \in 1..Len(todo) /\ j + 1 \in 1..Len(todo) /\ i + 1 < j + 1
          /\ t[i] = todo[i + 1] /\ t[j] = todo[j + 1]
      BY <1>2, <1>4
    <2>2. LastPlace(kind, todo[i + 1]) < FirstPlace(kind, todo[j + 1])
      BY <1>1, <2>1
    <2> QED
      BY <2>1, <2>2
  <1>5. ASSUME NEW i \in 1..Len(t)
        PROVE  /\ t[i] = Decide("infix") => i = Len(t)
               /\ t[i] = Decide("postfix") => i = Len(t) - 1 /\ t[i + 1] = Decide("infix")
    <2>1. i + 1 \in 1..Len(todo) /\ t[i] = todo[i + 1]
      BY <1>2
    <2>2. /\ todo[i + 1] = Decide("infix") => i + 1 = Len(todo)
          /\ todo[i + 1] = Decide("postfix") =>
               i + 1 = Len(todo) - 1 /\ todo[(i + 1) + 1] = Decide("infix")
      BY <2>1 DEF Plan, OperatorsLast
    <2>3. CASE t[i] = Decide("postfix")
      <3>1. i + 1 = Len(todo) - 1 /\ todo[(i + 1) + 1] = Decide("infix")
        BY <2>1, <2>2, <2>3
      <3>2. i = Len(t) - 1 /\ i + 1 \in 1..Len(t)
        BY <3>1, <1>2
      <3>3. t[i + 1] = todo[(i + 1) + 1]
        BY <3>2, <1>2
      <3>4. t[i] # Decide("infix")
        BY <2>3 DEF Decide
      <3> QED
        BY <3>1, <3>2, <3>3, <3>4
    <2>4. CASE t[i] # Decide("postfix")
      BY <2>1, <2>2, <2>4, <1>2
    <2> QED
      BY <2>3, <2>4
  <1>6. Plan(kind, t)
    BY <1>0, <1>2, <1>3, <1>4, <1>5 DEF Plan, StepsInTurn, NotYetChosen, OperatorsLast
  <1> QED
    BY <1>6 DEF t

(* Steps that a decision adds. *)
UpTo(kind, step, steps) ==
  /\ IsASequence(steps)
  /\ \A i \in 1..Len(steps) : /\ Fits(kind, steps[i])
                              /\ steps[i] \notin {Decide("infix"), Decide("postfix")}
                              /\ LastPlace(kind, steps[i]) <= LastPlace(kind, step)
  /\ \A i, j \in 1..Len(steps) : i < j => LastPlace(kind, steps[i]) < FirstPlace(kind, steps[j])
Within(kind, step, steps) ==
  /\ UpTo(kind, step, steps)
  /\ \A i \in 1..Len(steps) : FirstPlace(kind, steps[i]) >= FirstPlace(kind, step)

LEMMA JoinedSteps ==
  ASSUME NEW s, IsASequence(s), NEW t, IsASequence(t)
  PROVE  /\ IsASequence(Join(s, t))
         /\ Len(s) \in Nat /\ Len(t) \in Nat
         /\ Len(Join(s, t)) = Len(s) + Len(t)
         /\ \A i \in 1..Len(Join(s, t)) :
              \/ i \in 1..Len(s) /\ Join(s, t)[i] = s[i]
              \/ i - Len(s) \in 1..Len(t) /\ i > Len(s) /\ Join(s, t)[i] = t[i - Len(s)]
  <1>1. /\ IsASequence(Join(s, t))
        /\ Len(Join(s, t)) = Len(s) + Len(t)
        /\ \A i \in 1..Len(s) : Join(s, t)[i] = s[i]
        /\ \A i \in 1..Len(t) : Join(s, t)[Len(s) + i] = t[i]
    BY JoinSequence
  <1>2. Len(s) \in Nat /\ Len(t) \in Nat
    BY SequenceShape
  <1>3. ASSUME NEW i \in 1..Len(Join(s, t))
        PROVE  \/ i \in 1..Len(s) /\ Join(s, t)[i] = s[i]
               \/ i - Len(s) \in 1..Len(t) /\ i > Len(s) /\ Join(s, t)[i] = t[i - Len(s)]
    <2>1. CASE i \in 1..Len(s)
      BY <2>1, <1>1
    <2>2. CASE i \notin 1..Len(s)
      <3>1. i - Len(s) \in 1..Len(t) /\ i = Len(s) + (i - Len(s)) /\ i > Len(s)
        BY <2>2, <1>1, <1>2
      <3> QED
        BY <3>1, <1>1
    <2> QED
      BY <2>1, <2>2
  <1> QED
    BY <1>1, <1>2, <1>3

LEMMA PlanExpands ==
  ASSUME NEW kind \in DOMAIN Written, kind \notin {"none", "unit"}, NEW todo, Plan(kind, todo),
         todo # << >>, NEW steps, UpTo(kind, todo[1], steps)
  PROVE  Plan(kind, Join(steps, Tail(todo)))
  <1> DEFINE t == Tail(todo)  u == Join(steps, t)  n == Len(steps)
  <1>0. Plan(kind, t)
    BY PlanTail
  <1>1. /\ IsASequence(todo) /\ \A i \in 1..Len(todo) : Fits(kind, todo[i])
        /\ \A i, j \in 1..Len(todo) : i < j => LastPlace(kind, todo[i]) < FirstPlace(kind, todo[j])
    BY DEF Plan, StepsInTurn
  <1>2. /\ IsASequence(t) /\ Len(todo) \in Nat /\ Len(t) = Len(todo) - 1
        /\ \A i \in 1..Len(t) : i + 1 \in 1..Len(todo) /\ t[i] = todo[i + 1]
        /\ 1 \in 1..Len(todo)
    BY <1>1, TailSteps
  <1> HIDE DEF t
  <1>3. /\ IsASequence(steps)
        /\ \A i \in 1..n : /\ Fits(kind, steps[i])
                           /\ steps[i] \notin {Decide("infix"), Decide("postfix")}
                           /\ LastPlace(kind, steps[i]) <= LastPlace(kind, todo[1])
        /\ \A i, j \in 1..n : i < j => LastPlace(kind, steps[i]) < FirstPlace(kind, steps[j])
    BY DEF UpTo
  <1>4. IsASequence(steps) /\ IsASequence(t)
    BY <1>2, <1>3
  <1>5. /\ IsASequence(u)
        /\ n \in Nat /\ Len(t) \in Nat /\ Len(u) = n + Len(t)
        /\ \A i \in 1..Len(u) : \/ i \in 1..n /\ u[i] = steps[i]
                                \/ i - n \in 1..Len(t) /\ i > n /\ u[i] = t[i - n]
    BY <1>4, JoinedSteps
  <1>a. \A i \in 1..Len(t) : u[n + i] = t[i]
    BY <1>4, JoinSequence
  <1> HIDE DEF u, n
  <1>6. /\ \A i \in 1..Len(t) : Fits(kind, t[i])
        /\ \A i, j \in 1..Len(t) : i < j => LastPlace(kind, t[i]) < FirstPlace(kind, t[j])
        /\ \A i \in 1..Len(t) :
             /\ t[i] = Decide("infix") => i = Len(t)
             /\ t[i] = Decide("postfix") => i = Len(t) - 1 /\ t[i + 1] = Decide("infix")
    BY <1>0 DEF Plan, StepsInTurn, OperatorsLast
  <1>7. \A i \in 1..Len(u) : Fits(kind, u[i])
    BY <1>3, <1>5, <1>6
  <1>8. ASSUME NEW i \in 1..Len(u), NEW j \in 1..Len(u), i < j
        PROVE  LastPlace(kind, u[i]) < FirstPlace(kind, u[j])
    <2>1. CASE i \in 1..n /\ j \in 1..n
      <3>1. u[i] = steps[i] /\ u[j] = steps[j]
        BY <2>1, <1>5
      <3> QED
        BY <2>1, <3>1, <1>3, <1>8
    <2>2. CASE i \in 1..n /\ j \notin 1..n
      <3> DEFINE k == j - n
      <3>1. u[i] = steps[i] /\ k \in 1..Len(t) /\ u[j] = t[k]
        BY <2>2, <1>5
      <3> HIDE DEF k
      <3>2. k + 1 \in 1..Len(todo) /\ 1 < k + 1 /\ u[j] = todo[k + 1]
        BY <3>1, <1>2
      <3>3. LastPlace(kind, todo[1]) < FirstPlace(kind, u[j])
        BY <3>2, <1>1, <1>2
      <3>4. LastPlace(kind, steps[i]) <= LastPlace(kind, todo[1])
        BY <2>2, <1>3
      <3>5. /\ LastPlace(kind, steps[i]) \in Int /\ LastPlace(kind, todo[1]) \in Int
            /\ FirstPlace(kind, u[j]) \in Int
        BY <2>2, <1>1, <1>2, <1>3, <1>7, PlaceBounds
      <3> QED
        BY <3>1, <3>3, <3>4, <3>5
    <2>3. CASE i \notin 1..n
      <3>1. /\ j \notin 1..n /\ i - n < j - n
            /\ i - n \in 1..Len(t) /\ u[i] = t[i - n]
            /\ j - n \in 1..Len(t) /\ u[j] = t[j - n]
        BY <2>3, <1>5, <1>8
      <3> QED
        BY <3>1, <1>6
    <2> QED
      BY <2>1, <2>2, <2>3
  <1>9. ASSUME NEW i \in 1..Len(u)
        PROVE  /\ u[i] = Decide("infix") => i = Len(u)
               /\ u[i] = Decide("postfix") => i = Len(u) - 1 /\ u[i + 1] = Decide("infix")
    <2>1. CASE i \in 1..n
      <3>1. u[i] \notin {Decide("infix"), Decide("postfix")}
        BY <2>1, <1>3, <1>5
      <3> QED
        BY <3>1
    <2>2. CASE i \notin 1..n
      <3>1. i - n \in 1..Len(t) /\ u[i] = t[i - n]
        BY <2>2, <1>5
      <3>2. CASE u[i] = Decide("infix")
        <4>1. i - n = Len(t)
          BY <3>1, <3>2, <1>6
        <4>2. u[i] # Decide("postfix")
          BY <3>2 DEF Decide
        <4> QED
          BY <4>1, <4>2, <1>5
      <3>3. CASE u[i] = Decide("postfix")
        <4>1. i - n = Len(t) - 1 /\ t[(i - n) + 1] = Decide("infix")
          BY <3>1, <3>3, <1>6
        <4>2. (i - n) + 1 \in 1..Len(t) /\ n + ((i - n) + 1) = i + 1 /\ i = Len(u) - 1
          BY <4>1, <3>1, <1>5
        <4>3. u[i + 1] = t[(i - n) + 1]
          BY <4>2, <1>a
        <4>4. u[i] # Decide("infix")
          BY <3>3 DEF Decide
        <4> QED
          BY <4>1, <4>2, <4>3, <4>4
      <3> QED
        BY <3>2, <3>3
    <2> QED
      BY <2>1, <2>2
  <1>10. Plan(kind, u)
    BY <1>5, <1>7, <1>8, <1>9 DEF Plan, StepsInTurn, NotYetChosen, UnitGoesOn, OperatorsLast
  <1> QED
    BY <1>10 DEF u, t

----------------------------------------------------------------------------
(* Items and commas. *)

LEMMA CommaListsAre ==
  ASSUME NEW l \in CommaLists
  PROVE  /\ l.items \in Lists /\ l.commas \in Lists /\ l.items # l.commas
         /\ l.commas \in {"argument_commas", "parameter_commas"}
         /\ ItemsOf(l.items) = l.items /\ ItemsOf(l.commas) = l.items
         /\ l.item # l.comma
         /\ l.item \in DOMAIN Choice /\ l.comma \in DOMAIN Choice
  BY DEF CommaLists, Lists, ItemsOf, Choice

SameLists(next, node, l) ==
  {l.items, l.commas} \subseteq DOMAIN node =>
    /\ {l.items, l.commas} \subseteq DOMAIN next
    /\ next[l.items] = node[l.items] /\ next[l.commas] = node[l.commas]

LEMMA TurnsTail ==
  ASSUME NEW l \in CommaLists, NEW node, NEW todo, IsASequence(todo), todo # << >>,
         TakesTurns(node, todo, l), ~OfList(todo[1], l), NEW next, SameLists(next, node, l)
  PROVE  Settled(next, Tail(todo), l)
  <1> DEFINE t == Tail(todo)
  <1>1. /\ IsASequence(t) /\ Len(todo) \in Nat /\ Len(t) = Len(todo) - 1
        /\ \A i \in 1..Len(t) : i + 1 \in 1..Len(todo) /\ t[i] = todo[i + 1]
        /\ 1 \in 1..Len(todo)
    BY TailSteps
  <1> HIDE DEF t
  <1>2. CASE NoneOf(todo, l)
    <2>1. NoneOf(t, l)
      BY <1>1, <1>2 DEF NoneOf
    <2> QED
      BY <2>1 DEF Settled, t
  <1>3. CASE /\ Even(node, l)
             /\ \E i \in 1..Len(todo) : /\ todo[i] = Decide(l.item)
                                        /\ \A j \in 1..Len(todo) : j # i => ~OfList(todo[j], l)
    <2>1. PICK i \in 1..Len(todo) : /\ todo[i] = Decide(l.item)
                                    /\ \A j \in 1..Len(todo) : j # i => ~OfList(todo[j], l)
      BY <1>3
    <2>2. i # 1
      BY <2>1 DEF OfList
    <2>3. i - 1 \in 1..Len(t) /\ i = (i - 1) + 1
      BY <2>2, <1>1
    <2>4. t[i - 1] = Decide(l.item)
      BY <2>1, <2>3, <1>1
    <2>5. ASSUME NEW j \in 1..Len(t), j # i - 1
          PROVE  ~OfList(t[j], l)
      <3>1. j + 1 \in 1..Len(todo) /\ j + 1 # i /\ t[j] = todo[j + 1]
        BY <2>3, <2>5, <1>1
      <3> QED
        BY <3>1, <2>1
    <2>6. Even(next, l)
      BY <1>3 DEF Even, SameLists
    <2> QED
      BY <2>3, <2>4, <2>5, <2>6 DEF Settled, t
  <1> QED
    BY <1>2, <1>3, <1>1 DEF TakesTurns, Settled, OfList

LEMMA TurnsJoin ==
  ASSUME NEW l \in CommaLists, NEW node, NEW s, IsASequence(s), NoneOf(s, l),
         NEW t, IsASequence(t), Settled(node, t, l)
  PROVE  Settled(node, Join(s, t), l)
  <1> DEFINE u == Join(s, t)  n == Len(s)
  <1>1. /\ IsASequence(u)
        /\ n \in Nat /\ Len(t) \in Nat /\ Len(u) = n + Len(t)
        /\ \A i \in 1..Len(u) : \/ i \in 1..n /\ u[i] = s[i]
                                \/ i - n \in 1..Len(t) /\ i > n /\ u[i] = t[i - n]
    BY JoinedSteps
  <1>a. \A i \in 1..Len(t) : u[n + i] = t[i]
    BY JoinSequence
  <1>b. \A i \in 1..n : ~OfList(s[i], l)
    BY DEF NoneOf
  <1> HIDE DEF u, n
  <1>2. CASE NoneOf(t, l)
    <2>1. NoneOf(u, l)
      BY <1>1, <1>2, <1>b DEF NoneOf
    <2> QED
      BY <2>1 DEF Settled, u
  <1>3. CASE /\ Even(node, l)
             /\ \E i \in 1..Len(t) : /\ t[i] = Decide(l.item)
                                     /\ \A j \in 1..Len(t) : j # i => ~OfList(t[j], l)
    <2>1. PICK i \in 1..Len(t) : /\ t[i] = Decide(l.item)
                                 /\ \A j \in 1..Len(t) : j # i => ~OfList(t[j], l)
      BY <1>3
    <2>2. n + i \in 1..Len(u) /\ u[n + i] = Decide(l.item)
      BY <2>1, <1>1, <1>a
    <2>3. ASSUME NEW j \in 1..Len(u), j # n + i
          PROVE  ~OfList(u[j], l)
      <3>1. CASE j \in 1..n /\ u[j] = s[j]
        BY <3>1, <1>b
      <3>2. CASE j - n \in 1..Len(t) /\ j > n /\ u[j] = t[j - n]
        <4>1. j - n # i
          BY <2>3, <1>1
        <4> QED
          BY <3>2, <4>1, <2>1
      <3> QED
        BY <3>1, <3>2, <1>1
    <2> QED
      BY <2>2, <2>3, <1>3 DEF Settled, u
  <1> QED
    BY <1>2, <1>3 DEF Settled

(* An item is put, and a comma is expected. *)
LEMMA TurnsAfterItem ==
  ASSUME NEW l \in CommaLists, NEW node, ListsFormed(node), NEW todo, IsASequence(todo), todo # << >>,
         TakesTurns(node, todo, l), Fills(todo[1], l.items), NEW v, NEW next,
         Replaced(next, node, l.items, Append(node[l.items], v))
  PROVE  TakesTurns(next, Tail(todo), l)
  <1> DEFINE t == Tail(todo)
  <1>1. /\ IsASequence(t) /\ Len(todo) \in Nat /\ Len(t) = Len(todo) - 1
        /\ \A i \in 1..Len(t) : i + 1 \in 1..Len(todo) /\ t[i] = todo[i + 1]
        /\ 1 \in 1..Len(todo)
    BY TailSteps
  <1> HIDE DEF t
  <1>2. todo[1] # Decide(l.item) /\ todo[1] # Decide(l.comma) /\ OfList(todo[1], l)
    BY DEF Fills, Decide, OfList
  <1>3. /\ Even(node, l)
        /\ Len(todo) >= 2 /\ todo[2] = Decide(l.comma)
        /\ \A j \in 1..Len(todo) : j > 2 => ~OfList(todo[j], l)
    BY <1>1, <1>2 DEF TakesTurns, Settled, NoneOf
  <1>4. Len(t) >= 1 /\ t[1] = Decide(l.comma)
    BY <1>1, <1>3
  <1>5. ASSUME NEW j \in 1..Len(t), j > 1
        PROVE  ~OfList(t[j], l)
    <2>1. j + 1 \in 1..Len(todo) /\ j + 1 > 2 /\ t[j] = todo[j + 1]
      BY <1>1, <1>5
    <2> QED
      BY <2>1, <1>3
  <1>6. Odd(next, l)
    <2>1. /\ {l.items, l.commas} \subseteq DOMAIN node
          /\ Len(node[l.items]) = Len(node[l.commas])
      BY <1>3 DEF Even
    <2>2. IsASequence(node[l.items]) /\ IsASequence(node[l.commas])
      BY <2>1, CommaListsAre DEF ListsFormed
    <2>3. /\ {l.items, l.commas} \subseteq DOMAIN next
          /\ next[l.items] = Append(node[l.items], v) /\ next[l.commas] = node[l.commas]
      BY <2>1, CommaListsAre DEF Replaced
    <2>4. Len(Append(node[l.items], v)) = Len(node[l.items]) + 1
      BY <2>2, AppendedSequence
    <2> QED
      BY <2>1, <2>3, <2>4 DEF Odd
  <1> QED
    BY <1>4, <1>5, <1>6 DEF TakesTurns, t

(* A comma is put, and an item is next. *)
LEMMA TurnsAfterComma ==
  ASSUME NEW l \in CommaLists, NEW node, ListsFormed(node), NEW todo, IsASequence(todo), todo # << >>,
         TakesTurns(node, todo, l), todo[1] = Decide(l.comma), NEW v, NEW next,
         Replaced(next, node, l.commas, Append(node[l.commas], v))
  PROVE  TakesTurns(next, Join(<<Decide(l.item)>>, Tail(todo)), l)
  <1> DEFINE t == Tail(todo)  s == <<Decide(l.item)>>  u == Join(s, t)
  <1>1. /\ IsASequence(t) /\ Len(todo) \in Nat /\ Len(t) = Len(todo) - 1
        /\ \A i \in 1..Len(t) : i + 1 \in 1..Len(todo) /\ t[i] = todo[i + 1]
        /\ 1 \in 1..Len(todo)
    BY TailSteps
  <1>s. IsASequence(s) /\ Len(s) = 1 /\ s[1] = Decide(l.item)
    BY OneSequence
  <1> HIDE DEF t, s
  <1>2. todo[1] # Decide(l.item) /\ ~Fills(todo[1], l.items) /\ OfList(todo[1], l)
    BY CommaListsAre DEF Fills, Decide, OfList
  <1>3. Odd(node, l) /\ \A j \in 1..Len(todo) : j > 1 => ~OfList(todo[j], l)
    BY <1>1, <1>2 DEF TakesTurns, Settled, NoneOf
  <1>u. /\ IsASequence(u) /\ Len(t) \in Nat /\ Len(u) = Len(s) + Len(t)
        /\ \A i \in 1..Len(u) : \/ i \in 1..Len(s) /\ u[i] = s[i]
                                \/ i - Len(s) \in 1..Len(t) /\ i > Len(s) /\ u[i] = t[i - Len(s)]
    <2>1. IsASequence(s) /\ IsASequence(t)
      BY <1>1, <1>s
    <2> QED
      BY <2>1, JoinedSteps
  <1> HIDE DEF u
  <1>4. 1 \in 1..Len(u) /\ u[1] = Decide(l.item)
    BY <1>s, <1>u
  <1>5. ASSUME NEW j \in 1..Len(u), j # 1
        PROVE  ~OfList(u[j], l)
    <2>1. j - 1 \in 1..Len(t) /\ u[j] = t[j - 1]
      BY <1>5, <1>s, <1>u
    <2>2. j \in 1..Len(todo) /\ j > 1 /\ t[j - 1] = todo[j]
      BY <2>1, <1>1
    <2> QED
      BY <2>1, <2>2, <1>3
  <1>6. Even(next, l)
    <2>1. /\ {l.items, l.commas} \subseteq DOMAIN node
          /\ Len(node[l.items]) = Len(node[l.commas]) + 1
      BY <1>3 DEF Odd
    <2>2. IsASequence(node[l.items]) /\ IsASequence(node[l.commas])
      BY <2>1, CommaListsAre DEF ListsFormed
    <2>3. /\ {l.items, l.commas} \subseteq DOMAIN next
          /\ next[l.commas] = Append(node[l.commas], v) /\ next[l.items] = node[l.items]
      BY <2>1, CommaListsAre DEF Replaced
    <2>4. Len(Append(node[l.commas], v)) = Len(node[l.commas]) + 1
      BY <2>2, AppendedSequence
    <2> QED
      BY <2>1, <2>3, <2>4 DEF Even
  <1> QED
    BY <1>4, <1>5, <1>6 DEF TakesTurns, Settled, u, t, s

(* The decision for another item is taken: there is one, or there is none. *)
LEMMA TurnsNext ==
  ASSUME NEW l \in CommaLists, NEW node, NEW todo, IsASequence(todo), todo # << >>,
         TakesTurns(node, todo, l), todo[1] = Decide(l.item)
  PROVE  NoneOf(Tail(todo), l) /\ Even(node, l)
  <1> DEFINE t == Tail(todo)
  <1>1. /\ IsASequence(t) /\ Len(todo) \in Nat /\ Len(t) = Len(todo) - 1
        /\ \A i \in 1..Len(t) : i + 1 \in 1..Len(todo) /\ t[i] = todo[i + 1]
        /\ 1 \in 1..Len(todo)
    BY TailSteps
  <1> HIDE DEF t
  <1>2. todo[1] # Decide(l.comma) /\ ~Fills(todo[1], l.items) /\ OfList(todo[1], l)
    BY CommaListsAre DEF Fills, Decide, OfList
  <1>3. Even(node, l) /\ \A j \in 1..Len(todo) : j # 1 => ~OfList(todo[j], l)
    BY <1>1, <1>2 DEF TakesTurns, Settled, NoneOf
  <1>4. ASSUME NEW j \in 1..Len(t)
        PROVE  ~OfList(t[j], l)
    <2>1. j + 1 \in 1..Len(todo) /\ j + 1 # 1 /\ t[j] = todo[j + 1]
      BY <1>1
    <2> QED
      BY <2>1, <1>3
  <1> QED
    BY <1>3, <1>4 DEF NoneOf, t

LEMMA TurnsOver ==
  ASSUME NEW l \in CommaLists, NEW node, NEW todo, IsASequence(todo), todo # << >>,
         TakesTurns(node, todo, l), todo[1] = Decide(l.comma)
  PROVE  NoneOf(Tail(todo), l)
  <1> DEFINE t == Tail(todo)
  <1>1. /\ IsASequence(t) /\ Len(todo) \in Nat /\ Len(t) = Len(todo) - 1
        /\ \A i \in 1..Len(t) : i + 1 \in 1..Len(todo) /\ t[i] = todo[i + 1]
        /\ 1 \in 1..Len(todo)
    BY TailSteps
  <1> HIDE DEF t
  <1>2. todo[1] # Decide(l.item) /\ ~Fills(todo[1], l.items) /\ OfList(todo[1], l)
    BY CommaListsAre DEF Fills, Decide, OfList
  <1>3. \A j \in 1..Len(todo) : j > 1 => ~OfList(todo[j], l)
    BY <1>1, <1>2 DEF TakesTurns, Settled, NoneOf
  <1>4. ASSUME NEW j \in 1..Len(t)
        PROVE  ~OfList(t[j], l)
    <2>1. j + 1 \in 1..Len(todo) /\ j + 1 > 1 /\ t[j] = todo[j + 1]
      BY <1>1
    <2> QED
      BY <2>1, <1>3
  <1> QED
    BY <1>4 DEF NoneOf, t

LEMMA TurnsBegin ==
  ASSUME NEW l \in CommaLists, NEW node, NEW t, IsASequence(t), NoneOf(t, l), Even(node, l),
         NEW a, Fills(a, l.items)
  PROVE  TakesTurns(node, Join(<<a, Decide(l.comma)>>, t), l)
  <1> DEFINE s == <<a, Decide(l.comma)>>  u == Join(s, t)
  <1>1. IsASequence(s) /\ Len(s) = 2 /\ s[1] = a /\ s[2] = Decide(l.comma)
    BY DEF IsASequence
  <1> HIDE DEF s
  <1>2. /\ IsASequence(u) /\ Len(t) \in Nat /\ Len(u) = Len(s) + Len(t)
        /\ \A i \in 1..Len(u) : \/ i \in 1..Len(s) /\ u[i] = s[i]
                                \/ i - Len(s) \in 1..Len(t) /\ i > Len(s) /\ u[i] = t[i - Len(s)]
    BY <1>1, JoinedSteps
  <1> HIDE DEF u
  <1>3. Len(u) >= 2 /\ u[1] = a /\ u[2] = Decide(l.comma)
    BY <1>1, <1>2
  <1>4. ASSUME NEW j \in 1..Len(u), j > 2
        PROVE  ~OfList(u[j], l)
    <2>1. j - 2 \in 1..Len(t) /\ u[j] = t[j - 2]
      BY <1>1, <1>2, <1>4
    <2> QED
      BY <2>1 DEF NoneOf
  <1> QED
    BY <1>3, <1>4 DEF TakesTurns, u, s

----------------------------------------------------------------------------
(* What an activation does keeps its node and its steps fitting.              *)

LEMMA LexemeJoined ==
  ASSUME NEW s, IsASequence(s), NEW v, HasLexeme(s) \/ v.kind = "lexeme"
  PROVE  HasLexeme(Join(s, <<v>>))
  <1>1. /\ Len(s) \in Nat /\ Len(Join(s, <<v>>)) = Len(s) + 1
        /\ \A i \in 1..Len(s) : Join(s, <<v>>)[i] = s[i]
        /\ Join(s, <<v>>)[Len(s) + 1] = v
    BY JoinOne
  <1>2. CASE HasLexeme(s)
    <2>1. PICK i \in 1..Len(s) : s[i].kind = "lexeme"
      BY <1>2 DEF HasLexeme
    <2>2. i \in 1..Len(Join(s, <<v>>)) /\ Join(s, <<v>>)[i] = s[i]
      BY <1>1
    <2> QED
      BY <2>1, <2>2 DEF HasLexeme
  <1>3. CASE v.kind = "lexeme"
    <2>1. Len(s) + 1 \in 1..Len(Join(s, <<v>>))
      BY <1>1
    <2> QED
      BY <2>1, <1>1, <1>3 DEF HasLexeme
  <1> QED
    BY <1>2, <1>3

(* A node goes on with the steps after the first. *)
LEMMA BlankLater ==
  ASSUME NEW node, node.kind \in DOMAIN Written, NEW todo, StepsInTurn(node.kind, todo),
         NextIsBlank(node, todo), todo # << >>, NEW next, next.kind = node.kind,
         \A q \in 1..Len(Written[node.kind]) :
           q > LastPlace(node.kind, todo[1]) /\ q >= FirstPlace(node.kind, todo[1]) =>
             Member(next, Written[node.kind][q]) = Member(node, Written[node.kind][q]),
         FirstPlace(node.kind, todo[1]) <= LastPlace(node.kind, todo[1]) + 1
  PROVE  NextIsBlank(next, Tail(todo))
  <1> DEFINE t == Tail(todo)  w == Written[node.kind]  k == node.kind
  <1>1. /\ IsASequence(todo) /\ \A i \in 1..Len(todo) : Fits(k, todo[i])
        /\ \A i, j \in 1..Len(todo) : i < j => LastPlace(k, todo[i]) < FirstPlace(k, todo[j])
    BY DEF StepsInTurn
  <1>2. /\ IsASequence(t) /\ Len(todo) \in Nat /\ Len(t) = Len(todo) - 1
        /\ \A i \in 1..Len(t) : i + 1 \in 1..Len(todo) /\ t[i] = todo[i + 1]
        /\ 1 \in 1..Len(todo)
    BY <1>1, TailSteps
  <1> HIDE DEF t
  <1> SUFFICES ASSUME t # << >>, NEW q \in 1..Len(w), q >= FirstPlace(k, t[1])
               PROVE  Member(next, w[q]) = << >>
    BY DEF NextIsBlank, Blank, t
  <1>3. 1 \in 1..Len(t)
    BY <1>2, SequenceShape, EmptySequence
  <1>4. 2 \in 1..Len(todo) /\ t[1] = todo[2]
    BY <1>2, <1>3
  <1>5. LastPlace(k, todo[1]) < FirstPlace(k, t[1])
    BY <1>1, <1>2, <1>4
  <1>6. /\ LastPlace(k, todo[1]) \in Int /\ FirstPlace(k, todo[1]) \in Int
        /\ FirstPlace(k, t[1]) \in Int
    BY <1>1, <1>2, <1>4, PlaceBounds
  <1>7. q > LastPlace(k, todo[1]) /\ q >= FirstPlace(k, todo[1])
    BY <1>5, <1>6, WrittenLength
  <1>8. Member(next, w[q]) = Member(node, w[q])
    BY <1>7
  <1>9. Member(node, w[q]) = << >>
    BY <1>7 DEF NextIsBlank, Blank
  <1> QED
    BY <1>8, <1>9

LEMMA FormReads ==
  ASSUME NEW node, NEW todo, Form(node, todo), todo # << >>,
         todo[1].do \in {"expect", "accept", "parse"}, todo[1].member # "whole",
         NEW v, Finished(v), todo[1].do \in {"expect", "accept"} <=> v.kind = "lexeme"
  PROVE  /\ Form(Put(node, todo[1].member, v), Tail(todo))
         /\ Members(Put(node, todo[1].member, v)) = Join(Members(node), <<v>>)
         /\ Put(node, todo[1].member, v).kind = node.kind
  <1> DEFINE m == todo[1].member  next == Put(node, m, v)  t == Tail(todo)
             k == node.kind  w == Written[node.kind]  j == Position(k, m)
  <1>f. /\ k \in DOMAIN Written /\ ListsFormed(node) /\ AllFinished(Members(node))
        /\ \A n \in Lists : Belongs(k, n) => n \in DOMAIN node
    BY DEF Form, NodeFormed
  <1>p. Plan(k, todo)
    BY DEF Form, Plan
  <1>1. /\ IsASequence(todo) /\ \A i \in 1..Len(todo) : Fits(k, todo[i])
        /\ \A i, n \in 1..Len(todo) : i < n => LastPlace(k, todo[i]) < FirstPlace(k, todo[n])
    BY DEF Form, StepsInTurn
  <1>2. /\ IsASequence(t) /\ Len(todo) \in Nat /\ Len(t) = Len(todo) - 1
        /\ \A i \in 1..Len(t) : i + 1 \in 1..Len(todo) /\ t[i] = todo[i + 1]
        /\ 1 \in 1..Len(todo)
    BY <1>1, TailSteps
  <1>3. Fits(k, todo[1])
    BY <1>1, <1>2
  <1>4. /\ Belongs(k, m) /\ m \notin {"argument_commas", "parameter_commas"}
        /\ todo[1].do \in {"expect", "accept"} => m \notin Lists
    BY <1>3 DEF Fits, Lists
  <1>5. m # "whole" /\ m # "kind" /\ j \in 1..Len(w) /\ w[j] = ItemsOf(m) /\ ItemsOf(m) = m
    BY <1>4, <1>f, PositionOf DEF ItemsOf
  <1>6. /\ FirstPlace(k, todo[1]) = IF m \in Lists THEN j + 1 ELSE j
        /\ LastPlace(k, todo[1]) = j
    BY DEF FirstPlace, LastPlace
  <1>7. m \in Lists => todo[1].do = "parse"
    BY <1>4
  <1>8. ASSUME NEW l \in CommaLists, m = l.items
        PROVE  Even(node, l)
    <2>1. Fills(todo[1], l.items) /\ OfList(todo[1], l) /\ todo[1] # Decide(l.item)
          /\ todo[1] # Decide(l.comma)
      BY <1>8, <1>7, CommaListsAre DEF Fills, OfList, Decide
    <2>2. TakesTurns(node, todo, l)
      BY DEF Form, TurnsTaken
    <2> QED
      BY <2>1, <2>2, <1>2 DEF TakesTurns, Settled, NoneOf
  <1>9. Fillable(node, m)
    <2>1. Blank(node, IF m \in Lists THEN j + 1 ELSE j)
      BY <1>6 DEF Form, NextIsBlank
    <2>2. m = "arguments" => Len(node.arguments) = Len(node.argument_commas)
      BY <1>8 DEF CommaLists, Even
    <2>3. m = "parameters" => Len(node.parameters) = Len(node.parameter_commas)
      BY <1>8 DEF CommaLists, Even
    <2> QED
      BY <1>4, <1>5, <1>f, <2>1, <2>2, <2>3 DEF Fillable
  <1>10. /\ next.kind = k
         /\ ListsFormed(next)
         /\ Members(next) = Join(Members(node), <<v>>)
         /\ \A q \in 1..Len(w) : q # j => Member(next, w[q]) = Member(node, w[q])
         /\ Replaced(next, node, m, Added(node, m, v))
    BY <1>9, <1>f, PutGrows
  <1> HIDE DEF next
  <1>11. NodeFormed(next)
    <2>1. AllFinished(Join(Members(node), <<v>>))
      BY <1>f, FinishedOne, AllFinishedJoined
    <2>2. \A n \in Lists : Belongs(k, n) => n \in DOMAIN next
      BY <1>f, <1>10 DEF Replaced
    <2> QED
      BY <1>f, <1>10, <2>1, <2>2 DEF NodeFormed
  <1>12. k # "none"
    BY <1>4, WrittenOf DEF Belongs
  <1>13. k = "unit" => todo[1].do = "parse"
    <2>1. k = "unit" => todo[1] = Decide("unit") \/ todo[1] = Parse("statement", "statements")
      BY DEF Form, UnitGoesOn
    <2> QED
      BY <2>1 DEF Decide, Parse
  <1>14. Plan(k, t)
    BY <1>p, <1>12, <1>13, PlanTail
  <1>15. NextIsBlank(next, t)
    <2>1. \A q \in 1..Len(w) :
            q > LastPlace(k, todo[1]) /\ q >= FirstPlace(k, todo[1]) =>
              Member(next, w[q]) = Member(node, w[q])
      <3>1. SUFFICES ASSUME NEW q \in 1..Len(w), q > LastPlace(k, todo[1])
                     PROVE  Member(next, w[q]) = Member(node, w[q])
        OBVIOUS
      <3>2. q # j
        BY <3>1, <1>5, <1>6, <1>f, WrittenLength
      <3> QED
        BY <3>2, <1>10
    <2>2. FirstPlace(k, todo[1]) <= LastPlace(k, todo[1]) + 1
      BY <1>5, <1>6, <1>f, WrittenLength
    <2>3. StepsInTurn(k, todo) /\ NextIsBlank(node, todo)
      BY DEF Form
    <2> QED
      BY <2>1, <2>2, <2>3, <1>10, <1>f, BlankLater
  <1>16. TailRead(next, t)
    <2> SUFFICES ASSUME NEW i \in 1..Len(t), t[i] = Decide("tail")
                 PROVE  i = 1 /\ "tail" \in DOMAIN next /\ next.tail.kind # "lexeme"
      BY DEF TailRead
    <2>1. i + 1 \in 1..Len(todo) /\ todo[i + 1] = Decide("tail") /\ i + 1 # 1
      BY <1>2
    <2>2. i + 1 = 2 /\ todo[1].do = "parse" /\ m = "tail"
      BY <2>1 DEF Form, TailRead
    <2>3. Added(node, m, v) = v /\ v.kind # "lexeme"
      BY <2>2 DEF Added, Lists
    <2> QED
      BY <2>2, <2>3, <1>10 DEF Replaced
  <1>17. Worded(next, t)
    <2> SUFFICES ASSUME k \notin {"none", "unit"}, ~HasLexeme(Members(next))
                 PROVE  \E i \in 1..Len(t) : t[i].do = "expect"
      BY <1>10 DEF Worded
    <2>1. IsASequence(Members(node))
      BY <1>f DEF AllFinished
    <2>2. ~HasLexeme(Members(node)) /\ v.kind # "lexeme"
      BY <2>1, <1>10, LexemeJoined
    <2>3. PICK i \in 1..Len(todo) : todo[i].do = "expect"
      BY <2>2 DEF Form, Worded
    <2>4. i # 1
      BY <2>2, <2>3
    <2>5. i - 1 \in 1..Len(t) /\ i = (i - 1) + 1
      BY <2>4, <1>2
    <2> QED
      BY <2>3, <2>5, <1>2
  <1>18. ASSUME NEW l \in CommaLists
         PROVE  TakesTurns(next, t, l)
    <2>0. TakesTurns(node, todo, l)
      BY DEF Form, TurnsTaken
    <2>1. CASE m = l.items
      <3>1. Fills(todo[1], l.items) /\ m \in Lists
        BY <2>1, <1>7, CommaListsAre DEF Fills
      <3>2. Replaced(next, node, l.items, Append(node[l.items], v))
        BY <3>1, <2>1, <1>10 DEF Added
      <3> QED
        BY <3>1, <3>2, <2>0, <1>1, <1>f, TurnsAfterItem
    <2>2. CASE m # l.items
      <3>1. ~OfList(todo[1], l)
        BY <2>2 DEF OfList, Fills, Decide
      <3>2. m # l.commas
        BY <1>4, CommaListsAre
      <3>3. SameLists(next, node, l)
        BY <2>2, <3>2, <1>10 DEF SameLists, Replaced
      <3>4. Settled(next, t, l)
        BY <3>1, <3>3, <2>0, <1>1, TurnsTail
      <3> QED
        BY <3>4 DEF TakesTurns
    <2> QED
      BY <2>1, <2>2
  <1>19. Form(next, t)
    BY <1>10, <1>11, <1>14, <1>15, <1>16, <1>17, <1>18 DEF Form, Plan, TurnsTaken
  <1> QED
    BY <1>10, <1>19 DEF next, t

LEMMA PlaceOrder ==
  ASSUME NEW kind \in DOMAIN Written, NEW step, Fits(kind, step)
  PROVE  FirstPlace(kind, step) <= LastPlace(kind, step) + 1
  <1>1. Len(Written[kind]) \in Nat
    BY WrittenLength
  <1>2. Belongs(kind, step.member) => Position(kind, step.member) \in Int
    BY <1>1, PositionOf
  <1>3. CASE step.do = "decide"
    <2>1. step.what \in DOMAIN Choice =>
            Choice[step.what].first <= Choice[step.what].last + 1
      BY DEF Choice
    <2> QED
      BY <1>1, <1>3, <2>1 DEF FirstPlace, LastPlace
  <1>4. CASE step.do # "decide"
    <2>1. Belongs(kind, step.member) \/ step.member = "whole"
      BY <1>4 DEF Fits
    <2> QED
      BY <1>1, <1>2, <1>4, <2>1 DEF FirstPlace, LastPlace
  <1> QED
    BY <1>3, <1>4

(* The steps that are no longer about a list. *)
LEMMA TurnsKept ==
  ASSUME NEW node, NEW todo, Form(node, todo), todo # << >>, NEW steps, IsASequence(steps),
         NEW l \in CommaLists, ~OfList(todo[1], l), NoneOf(steps, l)
  PROVE  TakesTurns(node, Join(steps, Tail(todo)), l)
  <1>1. IsASequence(todo) /\ TakesTurns(node, todo, l)
    BY DEF Form, StepsInTurn, TurnsTaken
  <1>2. SameLists(node, node, l)
    BY DEF SameLists
  <1>3. Settled(node, Tail(todo), l) /\ IsASequence(Tail(todo))
    BY <1>1, <1>2, TurnsTail, TailSteps
  <1>4. Settled(node, Join(steps, Tail(todo)), l)
    BY <1>3, TurnsJoin
  <1> QED
    BY <1>4 DEF TakesTurns

(* A decision is taken, or there was nothing to accept. *)
LEMMA FormGoesOn ==
  ASSUME NEW node, NEW todo, Form(node, todo), todo # << >>, node.kind \notin {"none", "unit"},
         todo[1].do \in {"accept", "decide"},
         NEW steps, Within(node.kind, todo[1], steps),
         \A i \in 1..Len(steps) :
           steps[i] = Decide("tail") => i = 2 /\ steps[1].do = "parse" /\ steps[1].member = "tail",
         \A l \in CommaLists : TakesTurns(node, Join(steps, Tail(todo)), l)
  PROVE  Form(node, Join(steps, Tail(todo)))
  <1> DEFINE k == node.kind  t == Tail(todo)  u == Join(steps, t)  n == Len(steps)
  <1>f. k \in DOMAIN Written /\ NodeFormed(node)
    BY DEF Form, NodeFormed
  <1>p. Plan(k, todo)
    BY DEF Form, Plan
  <1>1. /\ IsASequence(todo) /\ \A i \in 1..Len(todo) : Fits(k, todo[i])
        /\ \A i, j \in 1..Len(todo) : i < j => LastPlace(k, todo[i]) < FirstPlace(k, todo[j])
    BY DEF Form, StepsInTurn
  <1>2. /\ IsASequence(t) /\ Len(todo) \in Nat /\ Len(t) = Len(todo) - 1
        /\ \A i \in 1..Len(t) : i + 1 \in 1..Len(todo) /\ t[i] = todo[i + 1]
        /\ 1 \in 1..Len(todo)
    BY <1>1, TailSteps
  <1>3. Plan(k, u)
    BY <1>f, <1>p, PlanExpands DEF Within
  <1>t. \A l \in CommaLists : TakesTurns(node, u, l)
    OBVIOUS
  <1>4. IsASequence(steps) /\ IsASequence(t)
    BY <1>2 DEF Within, UpTo
  <1>5. /\ IsASequence(u)
        /\ n \in Nat /\ Len(t) \in Nat /\ Len(u) = n + Len(t)
        /\ \A i \in 1..Len(u) : \/ i \in 1..n /\ u[i] = steps[i]
                                \/ i - n \in 1..Len(t) /\ i > n /\ u[i] = t[i - n]
    BY <1>4, JoinedSteps
  <1>6. \A i \in 1..Len(t) : u[n + i] = t[i]
    <2> HIDE DEF t
    <2> QED
      BY <1>4, JoinSequence
  <1>7. n = 0 => u = t
    BY <1>4, EmptySequence, JoinEmpty
  <1>8. NextIsBlank(node, t)
    <2>1. Fits(k, todo[1])
      BY <1>1, <1>2
    <2>2. FirstPlace(k, todo[1]) <= LastPlace(k, todo[1]) + 1
      BY <2>1, <1>f, PlaceOrder
    <2>3. StepsInTurn(k, todo) /\ NextIsBlank(node, todo)
      BY DEF Form
    <2> QED
      BY <2>2, <2>3, <1>f, BlankLater
  <1> HIDE DEF t, u, n
  <1>9. NextIsBlank(node, u)
    <2>1. CASE n = 0
      BY <2>1, <1>7, <1>8
    <2>2. CASE n # 0
      <3>1. 1 \in 1..n
        BY <2>2, <1>5
      <3>2. u[1] = steps[1]
        BY <3>1, <1>5
      <3>3. /\ FirstPlace(k, u[1]) >= FirstPlace(k, todo[1])
            /\ FirstPlace(k, u[1]) \in Int /\ FirstPlace(k, todo[1]) \in Int
        BY <3>1, <3>2, <1>1, <1>2, <1>f, PlaceBounds DEF Within, UpTo, n
      <3>4. Blank(node, FirstPlace(k, todo[1]))
        BY DEF Form, NextIsBlank
      <3>5. Blank(node, FirstPlace(k, u[1]))
        BY <3>3, <3>4, <1>f, WrittenLength DEF Blank
      <3> QED
        BY <3>5 DEF NextIsBlank
    <2> QED
      BY <2>1, <2>2
  <1>10. TailRead(node, u)
    <2> SUFFICES ASSUME NEW i \in 1..Len(u), u[i] = Decide("tail")
                 PROVE  i = 2 /\ u[1].do = "parse" /\ u[1].member = "tail"
      BY DEF TailRead
    <2>1. CASE i \in 1..n /\ u[i] = steps[i]
      <3>1. i = 2 /\ steps[1].do = "parse" /\ steps[1].member = "tail"
        BY <2>1 DEF n
      <3>2. 1 \in 1..n /\ 1 \in 1..Len(u) /\ 1 - n \notin 1..Len(t)
        BY <2>1, <3>1, <1>5
      <3>3. u[1] = steps[1]
        BY <3>2, <1>5
      <3> QED
        BY <3>1, <3>3
    <2>2. CASE i - n \in 1..Len(t) /\ i > n /\ u[i] = t[i - n]
      <3> DEFINE j == i - n
      <3>1. j \in 1..Len(t) /\ t[j] = Decide("tail")
        BY <2>2
      <3> HIDE DEF j
      <3>2. j + 1 \in 1..Len(todo) /\ todo[j + 1] = Decide("tail") /\ j + 1 # 1
        BY <3>1, <1>2
      <3>3. todo[1].do = "parse"
        BY <3>2 DEF Form, TailRead
      <3> QED
        BY <3>3
    <2> QED
      BY <2>1, <2>2, <1>5
  <1>11. Worded(node, u)
    <2> SUFFICES ASSUME k \notin {"none", "unit"}, ~HasLexeme(Members(node))
                 PROVE  \E i \in 1..Len(u) : u[i].do = "expect"
      BY DEF Worded
    <2>1. PICK i \in 1..Len(todo) : todo[i].do = "expect"
      BY DEF Form, Worded
    <2>2. i # 1
      BY <2>1
    <2>3. i - 1 \in 1..Len(t) /\ i = (i - 1) + 1
      BY <2>2, <1>2
    <2>4. t[i - 1] = todo[i]
      BY <2>3, <1>2
    <2>5. n + (i - 1) \in 1..Len(u) /\ u[n + (i - 1)] = t[i - 1]
      BY <2>3, <1>5, <1>6
    <2> QED
      BY <2>1, <2>4, <2>5
  <1>12. Form(node, u)
    BY <1>f, <1>3, <1>9, <1>10, <1>11, <1>t DEF Form, Plan, TurnsTaken
  <1> QED
    BY <1>12 DEF u, t

(* Nothing is added. *)
LEMMA FormSkips ==
  ASSUME NEW node, NEW todo, Form(node, todo), todo # << >>, node.kind \notin {"none", "unit"},
         todo[1].do \in {"accept", "decide"}
  PROVE  Form(node, Tail(todo)) /\ Join(<< >>, Tail(todo)) = Tail(todo)
  <1>1. IsASequence(todo)
    BY DEF Form, StepsInTurn
  <1>2. IsASequence(Tail(todo))
    BY <1>1, TailSteps
  <1>3. Join(<< >>, Tail(todo)) = Tail(todo)
    BY <1>2, JoinEmpty
  <1>4. Within(node.kind, todo[1], << >>)
    BY EmptySequence DEF Within, UpTo
  <1>5. ASSUME NEW l \in CommaLists
        PROVE  TakesTurns(node, Tail(todo), l)
    <2>0. TakesTurns(node, todo, l)
      BY DEF Form, TurnsTaken
    <2>1. CASE todo[1] = Decide(l.item)
      <3>1. NoneOf(Tail(todo), l)
        BY <2>0, <2>1, <1>1, TurnsNext
      <3> QED
        BY <3>1 DEF TakesTurns, Settled
    <2>2. CASE todo[1] = Decide(l.comma)
      <3>1. NoneOf(Tail(todo), l)
        BY <2>0, <2>2, <1>1, TurnsOver
      <3> QED
        BY <3>1 DEF TakesTurns, Settled
    <2>3. CASE todo[1] # Decide(l.item) /\ todo[1] # Decide(l.comma)
      <3>1. ~OfList(todo[1], l)
        BY <2>3 DEF OfList, Fills
      <3>2. SameLists(node, node, l)
        BY DEF SameLists
      <3>3. Settled(node, Tail(todo), l)
        BY <3>1, <3>2, <2>0, <1>1, TurnsTail
      <3> QED
        BY <3>3 DEF TakesTurns
    <2> QED
      BY <2>1, <2>2, <2>3
  <1>6. Form(node, Join(<< >>, Tail(todo)))
    <2>1. \A l \in CommaLists : TakesTurns(node, Join(<< >>, Tail(todo)), l)
      BY <1>3, <1>5
    <2>2. \A i \in 1..Len(<< >>) : << >>[i] = Decide("tail") =>
             i = 2 /\ << >>[1].do = "parse" /\ << >>[1].member = "tail"
      BY EmptySequence
    <2> QED
      BY <2>1, <2>2, <1>4, FormGoesOn
  <1> QED
    BY <1>3, <1>6

----------------------------------------------------------------------------
(* A node at its beginning, with all its steps before it.                     *)

LEMMA FlattenedNothing ==
  ASSUME NEW ss, AllSequences(ss), \A i \in 1..Len(ss) : ss[i] = << >>
  PROVE  FlattenSeq(ss) = << >>
  <1> DEFINE T == {n \in Nat : \A xx : /\ AllSequences(xx) /\ Len(xx) = n
                                       /\ \A i \in 1..Len(xx) : xx[i] = << >>
                                       => FlattenSeq(xx) = << >>}
  <1>1. 0 \in T
    <2> SUFFICES ASSUME NEW xx, AllSequences(xx), Len(xx) = 0
                 PROVE  FlattenSeq(xx) = << >>
      OBVIOUS
    <2>1. xx = << >>
      BY EmptySequence DEF AllSequences
    <2> QED
      BY <2>1, FlattenedEmpty
  <1>2. ASSUME NEW n \in Nat, n \in T
        PROVE  n + 1 \in T
    <2> SUFFICES ASSUME NEW xx, AllSequences(xx), Len(xx) = n + 1,
                        \A i \in 1..Len(xx) : xx[i] = << >>
                 PROVE  FlattenSeq(xx) = << >>
      OBVIOUS
    <2>0. \A yy : /\ AllSequences(yy) /\ Len(yy) = n
                  /\ \A i \in 1..Len(yy) : yy[i] = << >>
                  => FlattenSeq(yy) = << >>
      BY <1>2
    <2> HIDE DEF T
    <2>1. IsASequence(xx) /\ xx # << >>
      BY EmptySequence DEF AllSequences
    <2>2. /\ IsASequence(Front(xx)) /\ Len(Front(xx)) = n
          /\ \A i \in 1..n : Front(xx)[i] = xx[i]
          /\ Last(xx) = xx[n + 1] /\ xx = Join(Front(xx), <<Last(xx)>>)
      <3>1. /\ IsASequence(Front(xx)) /\ Len(Front(xx)) = Len(xx) - 1
            /\ \A i \in 1..Len(xx) - 1 : Front(xx)[i] = xx[i]
            /\ xx = Join(Front(xx), <<Last(xx)>>)
        BY <2>1, FrontJoin
      <3>2. Last(xx) = xx[Len(xx)]
        BY DEF Last
      <3>3. Len(xx) - 1 = n /\ Len(xx) = n + 1
        OBVIOUS
      <3> QED
        BY <3>1, <3>2, <3>3
    <2>3. AllSequences(Front(xx)) /\ \A i \in 1..Len(Front(xx)) : Front(xx)[i] = << >>
      BY <2>2, EmptySequence DEF AllSequences
    <2>4. FlattenSeq(Front(xx)) = << >>
      BY <2>0, <2>2, <2>3
    <2>5. FlattenSeq(xx) = Join(FlattenSeq(Front(xx)), Last(xx))
      <3>1. IsASequence(Last(xx))
        BY <2>2 DEF AllSequences
      <3>2. FlattenSeq(Join(Front(xx), <<Last(xx)>>)) = Join(FlattenSeq(Front(xx)), Last(xx))
        BY <2>2, <3>1, FlattenedWithLast DEF Join
      <3> QED
        BY <2>2, <3>2
    <2>6. Last(xx) = << >>
      BY <2>2
    <2>7. Join(<< >>, << >>) = << >>
      BY JoinEmpty, EmptySequence
    <2> QED
      BY <2>4, <2>5, <2>6, <2>7
  <1> HIDE DEF T
  <1>3. Nat \subseteq T
    BY <1>1, <1>2, SetInduction
  <1>4. Len(ss) \in Nat
    BY SequenceShape DEF AllSequences
  <1> QED
    BY <1>3, <1>4 DEF T

(* The node has its lists, empty, and nothing else. *)
Fresh(node) ==
  /\ node.kind \in DOMAIN Written /\ "kind" \in DOMAIN node
  /\ \A m \in Lists : Belongs(node.kind, m) <=> m \in DOMAIN node
  /\ \A m \in DOMAIN node : m = "kind" \/ (m \in Lists /\ node[m] = << >>)

LEMMA AlternatingNothing == Alternating(<< >>, << >>) = << >>
  <1>1. IsASequence(Alternating(<< >>, << >>)) /\ Len(Alternating(<< >>, << >>)) = 0
    BY AlternatingSequence, EmptySequence
  <1> QED
    BY <1>1, EmptySequence

LEMMA FreshNode ==
  ASSUME NEW node, Fresh(node)
  PROVE  /\ NodeFormed(node) /\ Members(node) = << >>
         /\ \A p \in Int : Blank(node, p)
         /\ \A l \in CommaLists : l.items \in DOMAIN node => Even(node, l)
  <1>0. /\ Belongs(node.kind, "arguments") => Belongs(node.kind, "argument_commas")
        /\ Belongs(node.kind, "parameters") => Belongs(node.kind, "parameter_commas")
    BY DEF Belongs, ItemsOf
  <1>1. ListsFormed(node)
    BY <1>0, EmptySequence DEF Fresh, ListsFormed, Lists
  <1>2. ASSUME NEW q \in 1..Len(Written[node.kind])
        PROVE  Member(node, Written[node.kind][q]) = << >>
    <2> DEFINE m == Written[node.kind][q]
    <2>1. m # "kind"
      BY WrittenMembers DEF Fresh
    <2> HIDE DEF m
    <2>2. CASE m \notin DOMAIN node
      BY <2>2, MemberIs DEF m
    <2>3. CASE m \in DOMAIN node /\ m = "arguments"
      <3>1. node.arguments = << >> /\ node.argument_commas = << >>
        BY <2>3, <1>1 DEF Fresh, ListsFormed
      <3> QED
        BY <2>3, <3>1, MemberIs, AlternatingNothing DEF m
    <2>4. CASE m \in DOMAIN node /\ m = "parameters"
      <3>1. node.parameters = << >> /\ node.parameter_commas = << >>
        BY <2>4, <1>1 DEF Fresh, ListsFormed
      <3> QED
        BY <2>4, <3>1, MemberIs, AlternatingNothing DEF m
    <2>5. CASE m \in DOMAIN node /\ m \notin {"arguments", "parameters"}
      <3>1. m \in Lists \ {"arguments", "parameters"} /\ node[m] = << >>
        BY <2>1, <2>5 DEF Fresh
      <3> QED
        BY <2>5, <3>1, MemberIs DEF m
    <2> QED
      BY <2>2, <2>3, <2>4, <2>5
  <1>3. Members(node) = << >>
    <2>1. /\ AllSequences(Places(node)) /\ Len(Places(node)) = Len(Written[node.kind])
          /\ \A i \in 1..Len(Written[node.kind]) : Places(node)[i] = Member(node, Written[node.kind][i])
          /\ Members(node) = FlattenSeq(Places(node))
      BY <1>1, PlacesFormed DEF Fresh
    <2>2. \A i \in 1..Len(Places(node)) : Places(node)[i] = << >>
      BY <2>1, <1>2
    <2> QED
      BY <2>1, <2>2, FlattenedNothing
  <1>4. NodeFormed(node)
    BY <1>1, <1>3, NoTrees DEF NodeFormed, Fresh
  <1>5. ASSUME NEW l \in CommaLists, l.items \in DOMAIN node
        PROVE  Even(node, l)
    <2>1. l.commas \in DOMAIN node
      BY <1>1, <1>5 DEF ListsFormed, CommaLists
    <2>2. node[l.items] = << >> /\ node[l.commas] = << >>
      BY <1>5, <2>1, CommaListsAre DEF Fresh, Lists, CommaLists
    <2> QED
      BY <1>5, <2>1, <2>2 DEF Even
  <1> QED
    BY <1>2, <1>3, <1>4, <1>5 DEF Blank

(* Where a step stands in the order of the node's places. *)
Sits(kind, step, a, b) ==
  Fits(kind, step) /\ FirstPlace(kind, step) = a /\ LastPlace(kind, step) = b

LEMMA StepsAre ==
  ASSUME NEW a, NEW m
  PROVE  /\ Expect(a, m).do = "expect" /\ Expect(a, m).member = m /\ Expect(a, m).token = a
         /\ Accept(a, m).do = "accept" /\ Accept(a, m).member = m /\ Accept(a, m).token = a
         /\ Operand(a, m).do = "parse" /\ Operand(a, m).member = m /\ Operand(a, m).level = a
         /\ Operand(a, m).what = "expression"
         /\ Parse(a, m).do = "parse" /\ Parse(a, m).member = m /\ Parse(a, m).level = AnyLevel
         /\ Parse(a, m).what = a
         /\ Decide(a).do = "decide" /\ Decide(a).what = a
  BY DEF Expect, Accept, Operand, Parse, Decide

LEMMA FunctionsAre ==
  DOMAIN Functions = {"statement", "expression", "primary", "let", "return", "while", "block", "else",
                      "parameter", "return_type"}
  BY DEF Functions

LEMMA ReadingSits ==
  ASSUME NEW kind, NEW m, m \notin Lists, NEW p, Belongs(kind, m), Position(kind, m) = p,
         m # "whole", NEW step, step.member = m,
         \/ step.do \in {"expect", "accept"}
         \/ step.do = "parse" /\ step.what \in DOMAIN Functions /\ step.level \in 0..AnyLevel
  PROVE  Sits(kind, step, p, p)
  BY DEF Sits, Fits, FirstPlace, LastPlace, Lists

LEMMA ListSits ==
  ASSUME NEW kind, NEW m \in {"statements", "arguments", "parameters", "elses"}, NEW p \in Int,
         Belongs(kind, m), Position(kind, m) = p, NEW step, step.member = m,
         step.do = "parse" /\ step.what \in DOMAIN Functions /\ step.level \in 0..AnyLevel
  PROVE  Sits(kind, step, p + 1, p)
  BY DEF Sits, Fits, FirstPlace, LastPlace, Lists

LEMMA ChoiceSits ==
  ASSUME NEW what \in DOMAIN Choice
  PROVE  Sits(Choice[what].of, Decide(what), Choice[what].first, Choice[what].last)
  BY StepsAre DEF Sits, Fits, FirstPlace, LastPlace

LEMMA OperatorSits ==
  ASSUME NEW kind, kind # "unit", NEW what \in {"postfix", "infix"}
  PROVE  Sits(kind, Decide(what), Len(Written[kind]) + 1, Len(Written[kind]))
  BY StepsAre DEF Sits, Fits, FirstPlace, LastPlace, Choice

LEMMA OperatorsSit ==
  ASSUME NEW kind, kind # "unit", NEW n \in Nat, Len(Written[kind]) = n, NEW f, f = n + 1
  PROVE  Sits(kind, Decide("postfix"), f, n) /\ Sits(kind, Decide("infix"), f, n)
  BY OperatorSits

LEMMA ChoicesAre ==
  /\ Sits("unit", Decide("unit"), 2, 1)
  /\ Sits("block", Decide("item"), 3, 4)
  /\ Sits("block", Decide("tail"), 4, 4)
  /\ Sits("if", Decide("else"), 5, 4)
  /\ Sits("else", Decide("else_if"), 2, 4)
  /\ Sits("prefix_bracket", Decide("size"), 2, 2)
  /\ Sits("call", Decide("argument"), 4, 3)
  /\ Sits("call", Decide("argument_comma"), 4, 3)
  /\ Sits("fn", Decide("parameter"), 5, 4)
  /\ Sits("fn", Decide("parameter_comma"), 5, 4)
  BY ChoiceSits DEF Choice

LEMMA InItsInterval ==
  ASSUME NEW n \in Nat, n > 6
  PROVE  n \in 0..n /\ 1 \in 0..n
  OBVIOUS

LEMMA AnyLevelIs == AnyLevel \in Nat /\ AnyLevel \in 0..AnyLevel /\ 1 \in 0..AnyLevel /\ AnyLevel > 6
  <1>1. AnyLevel \in Nat
    BY SMT DEF AnyLevel
  <1>2. AnyLevel > 6
    BY SMT DEF AnyLevel
  <1> QED
    BY <1>1, <1>2, InItsInterval

(* A plan, from the places of its steps. *)
Follow(F, L, n) == \A i, j \in 1..n : i < j => L[i] < F[j]

LEMMA PlanOf ==
  ASSUME NEW kind, kind \notin {"none", "unit"}, NEW todo, IsASequence(todo), NEW F, NEW L,
         \A i \in 1..Len(todo) : Sits(kind, todo[i], F[i], L[i]),
         Follow(F, L, Len(todo)), OperatorsLast(todo)
  PROVE  Plan(kind, todo)
  <1>1. \A i \in 1..Len(todo) : /\ Fits(kind, todo[i])
                                /\ FirstPlace(kind, todo[i]) = F[i] /\ LastPlace(kind, todo[i]) = L[i]
    BY DEF Sits
  <1>2. \A i, j \in 1..Len(todo) : i < j => LastPlace(kind, todo[i]) < FirstPlace(kind, todo[j])
    BY <1>1 DEF Follow
  <1> QED
    BY <1>1, <1>2 DEF Plan, StepsInTurn, NotYetChosen, UnitGoesOn

LEMMA FreshForm ==
  ASSUME NEW node, Fresh(node), NEW todo, Plan(node.kind, todo), todo # << >>,
         \A i \in 1..Len(todo) : todo[i] # Decide("tail"),
         \E i \in 1..Len(todo) : todo[i].do = "expect",
         \A l \in CommaLists : \/ NoneOf(todo, l)
                               \/ /\ l.items \in DOMAIN node
                                  /\ \E i \in 1..Len(todo) :
                                       /\ todo[i] = Decide(l.item)
                                       /\ \A j \in 1..Len(todo) : j # i => ~OfList(todo[j], l)
  PROVE  Form(node, todo) /\ Members(node) = << >>
  <1>1. /\ NodeFormed(node) /\ Members(node) = << >>
        /\ \A p \in Int : Blank(node, p)
        /\ \A l \in CommaLists : l.items \in DOMAIN node => Even(node, l)
    BY FreshNode
  <1>2. StepsInTurn(node.kind, todo) /\ node.kind \in DOMAIN Written
    BY DEF Plan, Fresh
  <1>3. NextIsBlank(node, todo)
    <2>1. 1 \in 1..Len(todo)
      BY <1>2, TailSteps DEF StepsInTurn
    <2>2. FirstPlace(node.kind, todo[1]) \in Int
      BY <1>2, <2>1, PlaceBounds DEF StepsInTurn
    <2> QED
      BY <2>2, <1>1 DEF NextIsBlank
  <1>4. TailRead(node, todo)
    BY DEF TailRead
  <1>5. Worded(node, todo)
    BY DEF Worded
  <1>6. TurnsTaken(node, todo)
    BY <1>1 DEF TurnsTaken, TakesTurns, Settled
  <1> QED
    BY <1>1, <1>2, <1>3, <1>4, <1>5, <1>6 DEF Form, Plan

(* Steps of different sorts differ, and those with other members. *)
LEMMA StepsDiffer ==
  ASSUME NEW a, NEW m, NEW b
  PROVE  /\ Expect(a, m) # Decide(b) /\ Accept(a, m) # Decide(b)
         /\ Operand(a, m) # Decide(b) /\ Parse(a, m) # Decide(b)
         /\ Decide(a) = Decide(b) => a = b
  BY StepsAre

(* The steps that are about no list with commas, or about one of them only. *)
LEMMA StepsOutside ==
  ASSUME NEW list \in CommaLists, NEW a, NEW m
  PROVE  /\ ~OfList(Expect(a, m), list) /\ ~OfList(Accept(a, m), list)
         /\ m # list.items => ~OfList(Operand(a, m), list) /\ ~OfList(Parse(a, m), list)
         /\ a \notin {list.item, list.comma} => ~OfList(Decide(a), list)
  BY StepsAre DEF OfList, Fills

LEMMA CommaListNames ==
  ASSUME NEW list \in CommaLists
  PROVE  \/ /\ list.items = "arguments" /\ list.item = "argument" /\ list.comma = "argument_comma"
            /\ list.commas = "argument_commas"
         \/ /\ list.items = "parameters" /\ list.item = "parameter" /\ list.comma = "parameter_comma"
            /\ list.commas = "parameter_commas"
  BY DEF CommaLists

(* Short sequences put together. *)
LEMMA JoinedPair ==
  ASSUME NEW a, NEW c
  PROVE  Join(<<a>>, <<c>>) = <<a, c>>
  <1> DEFINE s == <<a>>
            f == <<a, c>>
  <1>1. IsASequence(s) /\ IsASequence(f) /\ Len(s) = 1 /\ Len(f) = 2 /\ f[2] = c
    BY DEF IsASequence
  <1>2. \A i \in 1..1 : s[i] = f[i]
    OBVIOUS
  <1> HIDE DEF s, f
  <1>0. IsASequence(s)
    BY <1>1
  <1>6. /\ IsASequence(Join(s, <<c>>)) /\ Len(Join(s, <<c>>)) = Len(s) + 1
        /\ \A i \in 1..Len(s) : Join(s, <<c>>)[i] = s[i]
        /\ Join(s, <<c>>)[Len(s) + 1] = c
    BY <1>0, JoinOne
  <1>3. /\ IsASequence(Join(s, <<c>>)) /\ Len(Join(s, <<c>>)) = 2
        /\ \A i \in 1..1 : Join(s, <<c>>)[i] = s[i]
        /\ Join(s, <<c>>)[2] = c
    BY <1>1, <1>6
  <1>4. \A i \in 1..2 : Join(s, <<c>>)[i] = f[i]
    BY <1>1, <1>2, <1>3
  <1>5. Join(s, <<c>>) = f
    BY <1>1, <1>3, <1>4, SameSequence
  <1> QED
    BY <1>5 DEF s, f

LEMMA JoinedTriple ==
  ASSUME NEW a, NEW b, NEW c
  PROVE  Join(<<a, b>>, <<c>>) = <<a, b, c>>
  <1> DEFINE s == <<a, b>>
            f == <<a, b, c>>
  <1>1. IsASequence(s) /\ IsASequence(f) /\ Len(s) = 2 /\ Len(f) = 3 /\ f[3] = c
    BY DEF IsASequence
  <1>2. \A i \in 1..2 : s[i] = f[i]
    OBVIOUS
  <1> HIDE DEF s, f
  <1>0. IsASequence(s)
    BY <1>1
  <1>6. /\ IsASequence(Join(s, <<c>>)) /\ Len(Join(s, <<c>>)) = Len(s) + 1
        /\ \A i \in 1..Len(s) : Join(s, <<c>>)[i] = s[i]
        /\ Join(s, <<c>>)[Len(s) + 1] = c
    BY <1>0, JoinOne
  <1>3. /\ IsASequence(Join(s, <<c>>)) /\ Len(Join(s, <<c>>)) = 3
        /\ \A i \in 1..2 : Join(s, <<c>>)[i] = s[i]
        /\ Join(s, <<c>>)[3] = c
    BY <1>1, <1>6
  <1>4. \A i \in 1..3 : Join(s, <<c>>)[i] = f[i]
    BY <1>1, <1>2, <1>3
  <1>5. Join(s, <<c>>) = f
    BY <1>1, <1>3, <1>4, SameSequence
  <1> QED
    BY <1>5 DEF s, f

LEMMA JoinedQuintuple ==
  ASSUME NEW a, NEW b, NEW c, NEW d, NEW e
  PROVE  Join(<<a, b, c, d>>, <<e>>) = <<a, b, c, d, e>>
  <1> DEFINE s == <<a, b, c, d>>
            f == <<a, b, c, d, e>>
  <1>1. IsASequence(s) /\ IsASequence(f) /\ Len(s) = 4 /\ Len(f) = 5 /\ f[5] = e
    BY DEF IsASequence
  <1>2. \A i \in 1..4 : s[i] = f[i]
    OBVIOUS
  <1> HIDE DEF s, f
  <1>0. IsASequence(s)
    BY <1>1
  <1>6. /\ IsASequence(Join(s, <<e>>)) /\ Len(Join(s, <<e>>)) = Len(s) + 1
        /\ \A i \in 1..Len(s) : Join(s, <<e>>)[i] = s[i]
        /\ Join(s, <<e>>)[Len(s) + 1] = e
    BY <1>0, JoinOne
  <1>3. /\ IsASequence(Join(s, <<e>>)) /\ Len(Join(s, <<e>>)) = 5
        /\ \A i \in 1..4 : Join(s, <<e>>)[i] = s[i]
        /\ Join(s, <<e>>)[5] = e
    BY <1>1, <1>6
  <1>4. \A i \in 1..5 : Join(s, <<e>>)[i] = f[i]
    BY <1>1, <1>2, <1>3
  <1>5. Join(s, <<e>>) = f
    BY <1>1, <1>3, <1>4, SameSequence
  <1> QED
    BY <1>5 DEF s, f

----------------------------------------------------------------------------
(* The nodes with which the functions begin, or the operators rewrap what     *)
(* they follow: those that are there already are their first steps.           *)

LEMMA LetSits ==
  ASSUME NEW a
  PROVE  /\ Sits("let", Expect("kw_let", "kw_let"), 1, 1)
         /\ Sits("let", Accept("kw_mut", "kw_mut"), 2, 2)
         /\ Sits("let", Expect("identifier", "name"), 3, 3)
         /\ Sits("let", Expect("=", "eq"), 4, 4)
         /\ Sits("let", Parse("expression", "initializer"), 5, 5)
         /\ Sits("let", Expect(a, "semicolon"), 6, 6)
  <1>1. Sits("let", Expect("kw_let", "kw_let"), 1, 1)
    BY ReadingSits, LetPlaces, StepsAre, FunctionsAre, AnyLevelIs DEF Lists
  <1>2. Sits("let", Accept("kw_mut", "kw_mut"), 2, 2)
    BY ReadingSits, LetPlaces, StepsAre, FunctionsAre, AnyLevelIs DEF Lists
  <1>3. Sits("let", Expect("identifier", "name"), 3, 3)
    BY ReadingSits, LetPlaces, StepsAre, FunctionsAre, AnyLevelIs DEF Lists
  <1>4. Sits("let", Expect("=", "eq"), 4, 4)
    BY ReadingSits, LetPlaces, StepsAre, FunctionsAre, AnyLevelIs DEF Lists
  <1>5. Sits("let", Parse("expression", "initializer"), 5, 5)
    BY ReadingSits, LetPlaces, StepsAre, FunctionsAre, AnyLevelIs DEF Lists
  <1>6. Sits("let", Expect(a, "semicolon"), 6, 6)
    BY ReadingSits, LetPlaces, StepsAre, FunctionsAre, AnyLevelIs DEF Lists
  <1> QED
    BY <1>1, <1>2, <1>3, <1>4, <1>5, <1>6

LEMMA LetBegins ==
  ASSUME NEW a, NEW todo,
         todo = <<Expect("kw_let", "kw_let"), Accept("kw_mut", "kw_mut"),
                  Expect("identifier", "name"), Expect("=", "eq"),
                  Parse("expression", "initializer"), Expect(a, "semicolon")>>
  PROVE  /\ Form([kind |-> "let"], todo)
         /\ Members([kind |-> "let"]) = << >>
  <1> DEFINE node == [kind |-> "let"]
  <1>1. IsASequence(todo) /\ Len(todo) = 6 /\ todo # << >>
    BY DEF IsASequence
  <1>2. node.kind = "let" /\ Fresh(node)
    <2>1. "let" \in DOMAIN Written /\ node.kind = "let"
      BY LetPlaces
    <2>2. \A m \in Lists : Belongs("let", m) <=> m \in DOMAIN node
      BY WrittenOf DEF Belongs, ItemsOf, Lists
    <2> QED
      BY <2>1, <2>2 DEF Fresh, Lists
  <1> HIDE DEF node
  <1>3. \A i \in 1..Len(todo) : Sits("let", todo[i], <<1, 2, 3, 4, 5, 6>>[i], <<1, 2, 3, 4, 5, 6>>[i])
    BY <1>1, LetSits
  <1>4. Follow(<<1, 2, 3, 4, 5, 6>>, <<1, 2, 3, 4, 5, 6>>, Len(todo))
    BY <1>1 DEF Follow
  <1>5. OperatorsLast(todo)
    BY <1>1, StepsDiffer DEF OperatorsLast
  <1>6. Plan("let", todo)
    BY <1>1, <1>3, <1>4, <1>5, PlanOf
  <1>7. \E i \in 1..Len(todo) : todo[i].do = "expect"
    <2>1. 1 \in 1..Len(todo) /\ todo[1].do = "expect"
      BY <1>1, StepsAre
    <2> QED
      BY <2>1
  <1>8. \A i \in 1..Len(todo) : todo[i] # Decide("tail")
    BY <1>1, StepsDiffer
  <1>9. ASSUME NEW l0 \in CommaLists
        PROVE  NoneOf(todo, l0)
    <2>1. /\ ~OfList(Expect("kw_let", "kw_let"), l0)
          /\ ~OfList(Accept("kw_mut", "kw_mut"), l0)
          /\ ~OfList(Expect("identifier", "name"), l0)
          /\ ~OfList(Expect("=", "eq"), l0)
          /\ ~OfList(Parse("expression", "initializer"), l0)
          /\ ~OfList(Expect(a, "semicolon"), l0)
      BY CommaListNames, StepsOutside
    <2>2. \A j \in 1..Len(todo) : ~OfList(todo[j], l0)
      BY <1>1, <2>1
    <2> QED
      BY <2>2 DEF NoneOf
  <1>10. Form(node, todo) /\ Members(node) = << >>
    BY <1>1, <1>2, <1>6, <1>7, <1>8, <1>9, FreshForm
  <1> QED
    BY <1>10 DEF node

LEMMA ReturnSits ==
  ASSUME NEW a
  PROVE  /\ Sits("return", Expect("kw_return", "kw_return"), 1, 1)
         /\ Sits("return", Parse("expression", "value"), 2, 2)
         /\ Sits("return", Expect(a, "semicolon"), 3, 3)
  <1>1. Sits("return", Expect("kw_return", "kw_return"), 1, 1)
    BY ReadingSits, ReturnPlaces, StepsAre, FunctionsAre, AnyLevelIs DEF Lists
  <1>2. Sits("return", Parse("expression", "value"), 2, 2)
    BY ReadingSits, ReturnPlaces, StepsAre, FunctionsAre, AnyLevelIs DEF Lists
  <1>3. Sits("return", Expect(a, "semicolon"), 3, 3)
    BY ReadingSits, ReturnPlaces, StepsAre, FunctionsAre, AnyLevelIs DEF Lists
  <1> QED
    BY <1>1, <1>2, <1>3

LEMMA ReturnBegins ==
  ASSUME NEW a, NEW todo,
         todo = <<Expect("kw_return", "kw_return"), Parse("expression", "value"),
                  Expect(a, "semicolon")>>
  PROVE  /\ Form([kind |-> "return"], todo)
         /\ Members([kind |-> "return"]) = << >>
  <1> DEFINE node == [kind |-> "return"]
  <1>1. IsASequence(todo) /\ Len(todo) = 3 /\ todo # << >>
    BY DEF IsASequence
  <1>2. node.kind = "return" /\ Fresh(node)
    <2>1. "return" \in DOMAIN Written /\ node.kind = "return"
      BY ReturnPlaces
    <2>2. \A m \in Lists : Belongs("return", m) <=> m \in DOMAIN node
      BY WrittenOf DEF Belongs, ItemsOf, Lists
    <2> QED
      BY <2>1, <2>2 DEF Fresh, Lists
  <1> HIDE DEF node
  <1>3. \A i \in 1..Len(todo) : Sits("return", todo[i], <<1, 2, 3>>[i], <<1, 2, 3>>[i])
    BY <1>1, ReturnSits
  <1>4. Follow(<<1, 2, 3>>, <<1, 2, 3>>, Len(todo))
    BY <1>1 DEF Follow
  <1>5. OperatorsLast(todo)
    BY <1>1, StepsDiffer DEF OperatorsLast
  <1>6. Plan("return", todo)
    BY <1>1, <1>3, <1>4, <1>5, PlanOf
  <1>7. \E i \in 1..Len(todo) : todo[i].do = "expect"
    <2>1. 1 \in 1..Len(todo) /\ todo[1].do = "expect"
      BY <1>1, StepsAre
    <2> QED
      BY <2>1
  <1>8. \A i \in 1..Len(todo) : todo[i] # Decide("tail")
    BY <1>1, StepsDiffer
  <1>9. ASSUME NEW l0 \in CommaLists
        PROVE  NoneOf(todo, l0)
    <2>1. /\ ~OfList(Expect("kw_return", "kw_return"), l0)
          /\ ~OfList(Parse("expression", "value"), l0)
          /\ ~OfList(Expect(a, "semicolon"), l0)
      BY CommaListNames, StepsOutside
    <2>2. \A j \in 1..Len(todo) : ~OfList(todo[j], l0)
      BY <1>1, <2>1
    <2> QED
      BY <2>2 DEF NoneOf
  <1>10. Form(node, todo) /\ Members(node) = << >>
    BY <1>1, <1>2, <1>6, <1>7, <1>8, <1>9, FreshForm
  <1> QED
    BY <1>10 DEF node

LEMMA WhileSits ==
  /\ Sits("while", Expect("kw_while", "kw_while"), 1, 1)
  /\ Sits("while", Parse("expression", "condition"), 2, 2)
  /\ Sits("while", Parse("block", "body"), 3, 3)
  <1>1. Sits("while", Expect("kw_while", "kw_while"), 1, 1)
    BY ReadingSits, WhilePlaces, StepsAre, FunctionsAre, AnyLevelIs DEF Lists
  <1>2. Sits("while", Parse("expression", "condition"), 2, 2)
    BY ReadingSits, WhilePlaces, StepsAre, FunctionsAre, AnyLevelIs DEF Lists
  <1>3. Sits("while", Parse("block", "body"), 3, 3)
    BY ReadingSits, WhilePlaces, StepsAre, FunctionsAre, AnyLevelIs DEF Lists
  <1> QED
    BY <1>1, <1>2, <1>3

LEMMA WhileBegins ==
  ASSUME NEW todo,
         todo = <<Expect("kw_while", "kw_while"), Parse("expression", "condition"),
                  Parse("block", "body")>>
  PROVE  /\ Form([kind |-> "while"], todo)
         /\ Members([kind |-> "while"]) = << >>
  <1> DEFINE node == [kind |-> "while"]
  <1>1. IsASequence(todo) /\ Len(todo) = 3 /\ todo # << >>
    BY DEF IsASequence
  <1>2. node.kind = "while" /\ Fresh(node)
    <2>1. "while" \in DOMAIN Written /\ node.kind = "while"
      BY WhilePlaces
    <2>2. \A m \in Lists : Belongs("while", m) <=> m \in DOMAIN node
      BY WrittenOf DEF Belongs, ItemsOf, Lists
    <2> QED
      BY <2>1, <2>2 DEF Fresh, Lists
  <1> HIDE DEF node
  <1>3. \A i \in 1..Len(todo) : Sits("while", todo[i], <<1, 2, 3>>[i], <<1, 2, 3>>[i])
    BY <1>1, WhileSits
  <1>4. Follow(<<1, 2, 3>>, <<1, 2, 3>>, Len(todo))
    BY <1>1 DEF Follow
  <1>5. OperatorsLast(todo)
    BY <1>1, StepsDiffer DEF OperatorsLast
  <1>6. Plan("while", todo)
    BY <1>1, <1>3, <1>4, <1>5, PlanOf
  <1>7. \E i \in 1..Len(todo) : todo[i].do = "expect"
    <2>1. 1 \in 1..Len(todo) /\ todo[1].do = "expect"
      BY <1>1, StepsAre
    <2> QED
      BY <2>1
  <1>8. \A i \in 1..Len(todo) : todo[i] # Decide("tail")
    BY <1>1, StepsDiffer
  <1>9. ASSUME NEW l0 \in CommaLists
        PROVE  NoneOf(todo, l0)
    <2>1. /\ ~OfList(Expect("kw_while", "kw_while"), l0)
          /\ ~OfList(Parse("expression", "condition"), l0)
          /\ ~OfList(Parse("block", "body"), l0)
      BY CommaListNames, StepsOutside
    <2>2. \A j \in 1..Len(todo) : ~OfList(todo[j], l0)
      BY <1>1, <2>1
    <2> QED
      BY <2>2 DEF NoneOf
  <1>10. Form(node, todo) /\ Members(node) = << >>
    BY <1>1, <1>2, <1>6, <1>7, <1>8, <1>9, FreshForm
  <1> QED
    BY <1>10 DEF node

LEMMA ExpressionStatementSits ==
  ASSUME NEW a
  PROVE  /\ Sits("expression_statement", Parse("expression", "expression"), 1, 1)
         /\ Sits("expression_statement", Expect(a, "semicolon"), 2, 2)
  <1>1. Sits("expression_statement", Parse("expression", "expression"), 1, 1)
    BY ReadingSits, ExpressionStatementPlaces, StepsAre, FunctionsAre, AnyLevelIs DEF Lists
  <1>2. Sits("expression_statement", Expect(a, "semicolon"), 2, 2)
    BY ReadingSits, ExpressionStatementPlaces, StepsAre, FunctionsAre, AnyLevelIs DEF Lists
  <1> QED
    BY <1>1, <1>2

LEMMA ExpressionStatementBegins ==
  ASSUME NEW a, NEW todo,
         todo = <<Parse("expression", "expression"), Expect(a, "semicolon")>>
  PROVE  /\ Form([kind |-> "expression_statement"], todo)
         /\ Members([kind |-> "expression_statement"]) = << >>
  <1> DEFINE node == [kind |-> "expression_statement"]
  <1>1. IsASequence(todo) /\ Len(todo) = 2 /\ todo # << >>
    BY DEF IsASequence
  <1>2. node.kind = "expression_statement" /\ Fresh(node)
    <2>1. "expression_statement" \in DOMAIN Written /\ node.kind = "expression_statement"
      BY ExpressionStatementPlaces
    <2>2. \A m \in Lists : Belongs("expression_statement", m) <=> m \in DOMAIN node
      BY WrittenOf DEF Belongs, ItemsOf, Lists
    <2> QED
      BY <2>1, <2>2 DEF Fresh, Lists
  <1> HIDE DEF node
  <1>3. \A i \in 1..Len(todo) : Sits("expression_statement", todo[i], <<1, 2>>[i], <<1, 2>>[i])
    BY <1>1, ExpressionStatementSits
  <1>4. Follow(<<1, 2>>, <<1, 2>>, Len(todo))
    BY <1>1 DEF Follow
  <1>5. OperatorsLast(todo)
    BY <1>1, StepsDiffer DEF OperatorsLast
  <1>6. Plan("expression_statement", todo)
    BY <1>1, <1>3, <1>4, <1>5, PlanOf
  <1>7. \E i \in 1..Len(todo) : todo[i].do = "expect"
    <2>1. 2 \in 1..Len(todo) /\ todo[2].do = "expect"
      BY <1>1, StepsAre
    <2> QED
      BY <2>1
  <1>8. \A i \in 1..Len(todo) : todo[i] # Decide("tail")
    BY <1>1, StepsDiffer
  <1>9. ASSUME NEW l0 \in CommaLists
        PROVE  NoneOf(todo, l0)
    <2>1. /\ ~OfList(Parse("expression", "expression"), l0)
          /\ ~OfList(Expect(a, "semicolon"), l0)
      BY CommaListNames, StepsOutside
    <2>2. \A j \in 1..Len(todo) : ~OfList(todo[j], l0)
      BY <1>1, <2>1
    <2> QED
      BY <2>2 DEF NoneOf
  <1>10. Form(node, todo) /\ Members(node) = << >>
    BY <1>1, <1>2, <1>6, <1>7, <1>8, <1>9, FreshForm
  <1> QED
    BY <1>10 DEF node

LEMMA ParenSits ==
  /\ Sits("paren", Expect("(", "lparen"), 1, 1)
  /\ Sits("paren", Parse("expression", "inner"), 2, 2)
  /\ Sits("paren", Expect(")", "rparen"), 3, 3)
  <1>1. Sits("paren", Expect("(", "lparen"), 1, 1)
    BY ReadingSits, ParenPlaces, StepsAre, FunctionsAre, AnyLevelIs DEF Lists
  <1>2. Sits("paren", Parse("expression", "inner"), 2, 2)
    BY ReadingSits, ParenPlaces, StepsAre, FunctionsAre, AnyLevelIs DEF Lists
  <1>3. Sits("paren", Expect(")", "rparen"), 3, 3)
    BY ReadingSits, ParenPlaces, StepsAre, FunctionsAre, AnyLevelIs DEF Lists
  <1> QED
    BY <1>1, <1>2, <1>3

LEMMA ParenBegins ==
  ASSUME NEW todo,
         todo = <<Expect("(", "lparen"), Parse("expression", "inner"), Expect(")", "rparen")>>
  PROVE  /\ Form([kind |-> "paren"], todo)
         /\ Members([kind |-> "paren"]) = << >>
  <1> DEFINE node == [kind |-> "paren"]
  <1>1. IsASequence(todo) /\ Len(todo) = 3 /\ todo # << >>
    BY DEF IsASequence
  <1>2. node.kind = "paren" /\ Fresh(node)
    <2>1. "paren" \in DOMAIN Written /\ node.kind = "paren"
      BY ParenPlaces
    <2>2. \A m \in Lists : Belongs("paren", m) <=> m \in DOMAIN node
      BY WrittenOf DEF Belongs, ItemsOf, Lists
    <2> QED
      BY <2>1, <2>2 DEF Fresh, Lists
  <1> HIDE DEF node
  <1>3. \A i \in 1..Len(todo) : Sits("paren", todo[i], <<1, 2, 3>>[i], <<1, 2, 3>>[i])
    BY <1>1, ParenSits
  <1>4. Follow(<<1, 2, 3>>, <<1, 2, 3>>, Len(todo))
    BY <1>1 DEF Follow
  <1>5. OperatorsLast(todo)
    BY <1>1, StepsDiffer DEF OperatorsLast
  <1>6. Plan("paren", todo)
    BY <1>1, <1>3, <1>4, <1>5, PlanOf
  <1>7. \E i \in 1..Len(todo) : todo[i].do = "expect"
    <2>1. 1 \in 1..Len(todo) /\ todo[1].do = "expect"
      BY <1>1, StepsAre
    <2> QED
      BY <2>1
  <1>8. \A i \in 1..Len(todo) : todo[i] # Decide("tail")
    BY <1>1, StepsDiffer
  <1>9. ASSUME NEW l0 \in CommaLists
        PROVE  NoneOf(todo, l0)
    <2>1. /\ ~OfList(Expect("(", "lparen"), l0)
          /\ ~OfList(Parse("expression", "inner"), l0)
          /\ ~OfList(Expect(")", "rparen"), l0)
      BY CommaListNames, StepsOutside
    <2>2. \A j \in 1..Len(todo) : ~OfList(todo[j], l0)
      BY <1>1, <2>1
    <2> QED
      BY <2>2 DEF NoneOf
  <1>10. Form(node, todo) /\ Members(node) = << >>
    BY <1>1, <1>2, <1>6, <1>7, <1>8, <1>9, FreshForm
  <1> QED
    BY <1>10 DEF node

LEMMA BlockSits ==
  ASSUME NEW a
  PROVE  /\ Sits("block", Expect(a, "lbrace"), 1, 1)
         /\ Sits("block", Decide("item"), 3, 4)
  <1>1. Sits("block", Expect(a, "lbrace"), 1, 1)
    BY ReadingSits, BlockPlaces, StepsAre, FunctionsAre, AnyLevelIs DEF Lists
  <1>2. Sits("block", Decide("item"), 3, 4)
    BY ChoicesAre
  <1> QED
    BY <1>1, <1>2

LEMMA BlockBegins ==
  ASSUME NEW a, NEW todo,
         todo = <<Expect(a, "lbrace"), Decide("item")>>
  PROVE  /\ Form([kind |-> "block", statements |-> << >>], todo)
         /\ Members([kind |-> "block", statements |-> << >>]) = << >>
  <1> DEFINE node == [kind |-> "block", statements |-> << >>]
  <1>1. IsASequence(todo) /\ Len(todo) = 2 /\ todo # << >>
    BY DEF IsASequence
  <1>2. node.kind = "block" /\ Fresh(node)
    <2>1. "block" \in DOMAIN Written /\ node.kind = "block"
      BY BlockPlaces
    <2>2. \A m \in Lists : Belongs("block", m) <=> m \in DOMAIN node
      BY WrittenOf DEF Belongs, ItemsOf, Lists
    <2> QED
      BY <2>1, <2>2 DEF Fresh, Lists
  <1> HIDE DEF node
  <1>3. \A i \in 1..Len(todo) : Sits("block", todo[i], <<1, 3>>[i], <<1, 4>>[i])
    BY <1>1, BlockSits
  <1>4. Follow(<<1, 3>>, <<1, 4>>, Len(todo))
    BY <1>1 DEF Follow
  <1>5. OperatorsLast(todo)
    BY <1>1, StepsDiffer DEF OperatorsLast
  <1>6. Plan("block", todo)
    BY <1>1, <1>3, <1>4, <1>5, PlanOf
  <1>7. \E i \in 1..Len(todo) : todo[i].do = "expect"
    <2>1. 1 \in 1..Len(todo) /\ todo[1].do = "expect"
      BY <1>1, StepsAre
    <2> QED
      BY <2>1
  <1>8. \A i \in 1..Len(todo) : todo[i] # Decide("tail")
    BY <1>1, StepsDiffer
  <1>9. ASSUME NEW l0 \in CommaLists
        PROVE  NoneOf(todo, l0)
    <2>1. /\ ~OfList(Expect(a, "lbrace"), l0)
          /\ ~OfList(Decide("item"), l0)
      BY CommaListNames, StepsOutside
    <2>2. \A j \in 1..Len(todo) : ~OfList(todo[j], l0)
      BY <1>1, <2>1
    <2> QED
      BY <2>2 DEF NoneOf
  <1>10. Form(node, todo) /\ Members(node) = << >>
    BY <1>1, <1>2, <1>6, <1>7, <1>8, <1>9, FreshForm
  <1> QED
    BY <1>10 DEF node

LEMMA IfSits ==
  /\ Sits("if", Expect("kw_if", "kw_if"), 1, 1)
  /\ Sits("if", Parse("expression", "condition"), 2, 2)
  /\ Sits("if", Parse("block", "then_block"), 3, 3)
  /\ Sits("if", Decide("else"), 5, 4)
  <1>1. Sits("if", Expect("kw_if", "kw_if"), 1, 1)
    BY ReadingSits, IfPlaces, StepsAre, FunctionsAre, AnyLevelIs DEF Lists
  <1>2. Sits("if", Parse("expression", "condition"), 2, 2)
    BY ReadingSits, IfPlaces, StepsAre, FunctionsAre, AnyLevelIs DEF Lists
  <1>3. Sits("if", Parse("block", "then_block"), 3, 3)
    BY ReadingSits, IfPlaces, StepsAre, FunctionsAre, AnyLevelIs DEF Lists
  <1>4. Sits("if", Decide("else"), 5, 4)
    BY ChoicesAre
  <1> QED
    BY <1>1, <1>2, <1>3, <1>4

LEMMA IfBegins ==
  ASSUME NEW todo,
         todo = <<Expect("kw_if", "kw_if"), Parse("expression", "condition"),
                  Parse("block", "then_block"), Decide("else")>>
  PROVE  /\ Form([kind |-> "if", elses |-> << >>], todo)
         /\ Members([kind |-> "if", elses |-> << >>]) = << >>
  <1> DEFINE node == [kind |-> "if", elses |-> << >>]
  <1>1. IsASequence(todo) /\ Len(todo) = 4 /\ todo # << >>
    BY DEF IsASequence
  <1>2. node.kind = "if" /\ Fresh(node)
    <2>1. "if" \in DOMAIN Written /\ node.kind = "if"
      BY IfPlaces
    <2>2. \A m \in Lists : Belongs("if", m) <=> m \in DOMAIN node
      BY WrittenOf DEF Belongs, ItemsOf, Lists
    <2> QED
      BY <2>1, <2>2 DEF Fresh, Lists
  <1> HIDE DEF node
  <1>3. \A i \in 1..Len(todo) : Sits("if", todo[i], <<1, 2, 3, 5>>[i], <<1, 2, 3, 4>>[i])
    BY <1>1, IfSits
  <1>4. Follow(<<1, 2, 3, 5>>, <<1, 2, 3, 4>>, Len(todo))
    BY <1>1 DEF Follow
  <1>5. OperatorsLast(todo)
    BY <1>1, StepsDiffer DEF OperatorsLast
  <1>6. Plan("if", todo)
    BY <1>1, <1>3, <1>4, <1>5, PlanOf
  <1>7. \E i \in 1..Len(todo) : todo[i].do = "expect"
    <2>1. 1 \in 1..Len(todo) /\ todo[1].do = "expect"
      BY <1>1, StepsAre
    <2> QED
      BY <2>1
  <1>8. \A i \in 1..Len(todo) : todo[i] # Decide("tail")
    BY <1>1, StepsDiffer
  <1>9. ASSUME NEW l0 \in CommaLists
        PROVE  NoneOf(todo, l0)
    <2>1. /\ ~OfList(Expect("kw_if", "kw_if"), l0)
          /\ ~OfList(Parse("expression", "condition"), l0)
          /\ ~OfList(Parse("block", "then_block"), l0)
          /\ ~OfList(Decide("else"), l0)
      BY CommaListNames, StepsOutside
    <2>2. \A j \in 1..Len(todo) : ~OfList(todo[j], l0)
      BY <1>1, <2>1
    <2> QED
      BY <2>2 DEF NoneOf
  <1>10. Form(node, todo) /\ Members(node) = << >>
    BY <1>1, <1>2, <1>6, <1>7, <1>8, <1>9, FreshForm
  <1> QED
    BY <1>10 DEF node

LEMMA ElseSits ==
  /\ Sits("else", Expect("kw_else", "kw_else"), 1, 1)
  /\ Sits("else", Decide("else_if"), 2, 4)
  <1>1. Sits("else", Expect("kw_else", "kw_else"), 1, 1)
    BY ReadingSits, ElsePlaces, StepsAre, FunctionsAre, AnyLevelIs DEF Lists
  <1>2. Sits("else", Decide("else_if"), 2, 4)
    BY ChoicesAre
  <1> QED
    BY <1>1, <1>2

LEMMA ElseBegins ==
  ASSUME NEW todo,
         todo = <<Expect("kw_else", "kw_else"), Decide("else_if")>>
  PROVE  /\ Form([kind |-> "else"], todo)
         /\ Members([kind |-> "else"]) = << >>
  <1> DEFINE node == [kind |-> "else"]
  <1>1. IsASequence(todo) /\ Len(todo) = 2 /\ todo # << >>
    BY DEF IsASequence
  <1>2. node.kind = "else" /\ Fresh(node)
    <2>1. "else" \in DOMAIN Written /\ node.kind = "else"
      BY ElsePlaces
    <2>2. \A m \in Lists : Belongs("else", m) <=> m \in DOMAIN node
      BY WrittenOf DEF Belongs, ItemsOf, Lists
    <2> QED
      BY <2>1, <2>2 DEF Fresh, Lists
  <1> HIDE DEF node
  <1>3. \A i \in 1..Len(todo) : Sits("else", todo[i], <<1, 2>>[i], <<1, 4>>[i])
    BY <1>1, ElseSits
  <1>4. Follow(<<1, 2>>, <<1, 4>>, Len(todo))
    BY <1>1 DEF Follow
  <1>5. OperatorsLast(todo)
    BY <1>1, StepsDiffer DEF OperatorsLast
  <1>6. Plan("else", todo)
    BY <1>1, <1>3, <1>4, <1>5, PlanOf
  <1>7. \E i \in 1..Len(todo) : todo[i].do = "expect"
    <2>1. 1 \in 1..Len(todo) /\ todo[1].do = "expect"
      BY <1>1, StepsAre
    <2> QED
      BY <2>1
  <1>8. \A i \in 1..Len(todo) : todo[i] # Decide("tail")
    BY <1>1, StepsDiffer
  <1>9. ASSUME NEW l0 \in CommaLists
        PROVE  NoneOf(todo, l0)
    <2>1. /\ ~OfList(Expect("kw_else", "kw_else"), l0)
          /\ ~OfList(Decide("else_if"), l0)
      BY CommaListNames, StepsOutside
    <2>2. \A j \in 1..Len(todo) : ~OfList(todo[j], l0)
      BY <1>1, <2>1
    <2> QED
      BY <2>2 DEF NoneOf
  <1>10. Form(node, todo) /\ Members(node) = << >>
    BY <1>1, <1>2, <1>6, <1>7, <1>8, <1>9, FreshForm
  <1> QED
    BY <1>10 DEF node

LEMMA FnSits ==
  /\ Sits("fn", Expect("kw_fn", "kw_fn"), 1, 1)
  /\ Sits("fn", Accept("identifier", "name"), 2, 2)
  /\ Sits("fn", Expect("(", "lparen"), 3, 3)
  /\ Sits("fn", Decide("parameter"), 5, 4)
  /\ Sits("fn", Expect(")", "rparen"), 5, 5)
  /\ Sits("fn", Parse("return_type", "return_type"), 6, 6)
  /\ Sits("fn", Expect("=>", "arrow"), 7, 7)
  /\ Sits("fn", Parse("expression", "body"), 8, 8)
  <1>1. Sits("fn", Expect("kw_fn", "kw_fn"), 1, 1)
    BY ReadingSits, FnPlaces, StepsAre, FunctionsAre, AnyLevelIs DEF Lists
  <1>2. Sits("fn", Accept("identifier", "name"), 2, 2)
    BY ReadingSits, FnPlaces, StepsAre, FunctionsAre, AnyLevelIs DEF Lists
  <1>3. Sits("fn", Expect("(", "lparen"), 3, 3)
    BY ReadingSits, FnPlaces, StepsAre, FunctionsAre, AnyLevelIs DEF Lists
  <1>4. Sits("fn", Decide("parameter"), 5, 4)
    BY ChoicesAre
  <1>5. Sits("fn", Expect(")", "rparen"), 5, 5)
    BY ReadingSits, FnPlaces, StepsAre, FunctionsAre, AnyLevelIs DEF Lists
  <1>6. Sits("fn", Parse("return_type", "return_type"), 6, 6)
    BY ReadingSits, FnPlaces, StepsAre, FunctionsAre, AnyLevelIs DEF Lists
  <1>7. Sits("fn", Expect("=>", "arrow"), 7, 7)
    BY ReadingSits, FnPlaces, StepsAre, FunctionsAre, AnyLevelIs DEF Lists
  <1>8. Sits("fn", Parse("expression", "body"), 8, 8)
    BY ReadingSits, FnPlaces, StepsAre, FunctionsAre, AnyLevelIs DEF Lists
  <1> QED
    BY <1>1, <1>2, <1>3, <1>4, <1>5, <1>6, <1>7, <1>8

LEMMA FnBegins ==
  ASSUME NEW todo,
         todo = <<Expect("kw_fn", "kw_fn"), Accept("identifier", "name"), Expect("(", "lparen"),
                  Decide("parameter"), Expect(")", "rparen"),
                  Parse("return_type", "return_type"), Expect("=>", "arrow"),
                  Parse("expression", "body")>>
  PROVE  /\ Form([kind |-> "fn", parameters |-> << >>, parameter_commas |-> << >>], todo)
         /\ Members([kind |-> "fn", parameters |-> << >>, parameter_commas |-> << >>]) = << >>
  <1> DEFINE node == [kind |-> "fn", parameters |-> << >>, parameter_commas |-> << >>]
  <1>1. IsASequence(todo) /\ Len(todo) = 8 /\ todo # << >>
    BY DEF IsASequence
  <1>2. node.kind = "fn" /\ Fresh(node)
    <2>1. "fn" \in DOMAIN Written /\ node.kind = "fn"
      BY FnPlaces
    <2>2. \A m \in Lists : Belongs("fn", m) <=> m \in DOMAIN node
      BY WrittenOf DEF Belongs, ItemsOf, Lists
    <2> QED
      BY <2>1, <2>2 DEF Fresh, Lists
  <1> HIDE DEF node
  <1>3. \A i \in 1..Len(todo) : Sits("fn", todo[i], <<1, 2, 3, 5, 5, 6, 7, 8>>[i], <<1, 2, 3, 4, 5, 6, 7, 8>>[i])
    BY <1>1, FnSits
  <1>4. Follow(<<1, 2, 3, 5, 5, 6, 7, 8>>, <<1, 2, 3, 4, 5, 6, 7, 8>>, Len(todo))
    BY <1>1 DEF Follow
  <1>5. OperatorsLast(todo)
    BY <1>1, StepsDiffer DEF OperatorsLast
  <1>6. Plan("fn", todo)
    BY <1>1, <1>3, <1>4, <1>5, PlanOf
  <1>7. \E i \in 1..Len(todo) : todo[i].do = "expect"
    <2>1. 1 \in 1..Len(todo) /\ todo[1].do = "expect"
      BY <1>1, StepsAre
    <2> QED
      BY <2>1
  <1>8. \A i \in 1..Len(todo) : todo[i] # Decide("tail")
    BY <1>1, StepsDiffer
  <1>9. ASSUME NEW l0 \in CommaLists
        PROVE  \/ NoneOf(todo, l0)
               \/ /\ l0.items \in DOMAIN node
                  /\ \E i \in 1..Len(todo) :
                       /\ todo[i] = Decide(l0.item)
                       /\ \A j \in 1..Len(todo) : j # i => ~OfList(todo[j], l0)
    <2>1. CASE l0.item = "parameter"
      <3>1. l0.items = "parameters" /\ l0.comma = "parameter_comma"
        BY <2>1, CommaListNames
      <3>2. "parameters" \in DOMAIN node
        BY DEF node
      <3>3. 4 \in 1..Len(todo) /\ todo[4] = Decide(l0.item)
        BY <1>1, <2>1
      <3>4. /\ ~OfList(Expect("kw_fn", "kw_fn"), l0)
            /\ ~OfList(Accept("identifier", "name"), l0)
            /\ ~OfList(Expect("(", "lparen"), l0)
            /\ ~OfList(Expect(")", "rparen"), l0)
            /\ ~OfList(Parse("return_type", "return_type"), l0)
            /\ ~OfList(Expect("=>", "arrow"), l0)
            /\ ~OfList(Parse("expression", "body"), l0)
        BY <2>1, <3>1, StepsOutside
      <3>5. \A j \in 1..Len(todo) : j # 4 => ~OfList(todo[j], l0)
        BY <1>1, <3>4
      <3> QED
        BY <3>1, <3>2, <3>3, <3>5
    <2>2. CASE l0.item # "parameter"
      <3>1. l0.item = "argument" /\ l0.items = "arguments" /\ l0.comma = "argument_comma"
        BY <2>2, CommaListNames
      <3>2. /\ ~OfList(Expect("kw_fn", "kw_fn"), l0)
            /\ ~OfList(Accept("identifier", "name"), l0)
            /\ ~OfList(Expect("(", "lparen"), l0)
            /\ ~OfList(Decide("parameter"), l0)
            /\ ~OfList(Expect(")", "rparen"), l0)
            /\ ~OfList(Parse("return_type", "return_type"), l0)
            /\ ~OfList(Expect("=>", "arrow"), l0)
            /\ ~OfList(Parse("expression", "body"), l0)
        BY <2>2, <3>1, StepsOutside
      <3>3. \A j \in 1..Len(todo) : ~OfList(todo[j], l0)
        BY <1>1, <3>2
      <3> QED
        BY <3>3 DEF NoneOf
    <2> QED
      BY <2>1, <2>2
  <1>10. Form(node, todo) /\ Members(node) = << >>
    BY <1>1, <1>2, <1>6, <1>7, <1>8, <1>9, FreshForm
  <1> QED
    BY <1>10 DEF node

LEMMA ParameterSits ==
  /\ Sits("parameter", Accept("kw_mut", "kw_mut"), 1, 1)
  /\ Sits("parameter", Expect("identifier", "name"), 2, 2)
  /\ Sits("parameter", Expect(":", "colon"), 3, 3)
  /\ Sits("parameter", Parse("expression", "type"), 4, 4)
  <1>1. Sits("parameter", Accept("kw_mut", "kw_mut"), 1, 1)
    BY ReadingSits, ParameterPlaces, StepsAre, FunctionsAre, AnyLevelIs DEF Lists
  <1>2. Sits("parameter", Expect("identifier", "name"), 2, 2)
    BY ReadingSits, ParameterPlaces, StepsAre, FunctionsAre, AnyLevelIs DEF Lists
  <1>3. Sits("parameter", Expect(":", "colon"), 3, 3)
    BY ReadingSits, ParameterPlaces, StepsAre, FunctionsAre, AnyLevelIs DEF Lists
  <1>4. Sits("parameter", Parse("expression", "type"), 4, 4)
    BY ReadingSits, ParameterPlaces, StepsAre, FunctionsAre, AnyLevelIs DEF Lists
  <1> QED
    BY <1>1, <1>2, <1>3, <1>4

LEMMA ParameterBegins ==
  ASSUME NEW todo,
         todo = <<Accept("kw_mut", "kw_mut"), Expect("identifier", "name"), Expect(":", "colon"),
                  Parse("expression", "type")>>
  PROVE  /\ Form([kind |-> "parameter"], todo)
         /\ Members([kind |-> "parameter"]) = << >>
  <1> DEFINE node == [kind |-> "parameter"]
  <1>1. IsASequence(todo) /\ Len(todo) = 4 /\ todo # << >>
    BY DEF IsASequence
  <1>2. node.kind = "parameter" /\ Fresh(node)
    <2>1. "parameter" \in DOMAIN Written /\ node.kind = "parameter"
      BY ParameterPlaces
    <2>2. \A m \in Lists : Belongs("parameter", m) <=> m \in DOMAIN node
      BY WrittenOf DEF Belongs, ItemsOf, Lists
    <2> QED
      BY <2>1, <2>2 DEF Fresh, Lists
  <1> HIDE DEF node
  <1>3. \A i \in 1..Len(todo) : Sits("parameter", todo[i], <<1, 2, 3, 4>>[i], <<1, 2, 3, 4>>[i])
    BY <1>1, ParameterSits
  <1>4. Follow(<<1, 2, 3, 4>>, <<1, 2, 3, 4>>, Len(todo))
    BY <1>1 DEF Follow
  <1>5. OperatorsLast(todo)
    BY <1>1, StepsDiffer DEF OperatorsLast
  <1>6. Plan("parameter", todo)
    BY <1>1, <1>3, <1>4, <1>5, PlanOf
  <1>7. \E i \in 1..Len(todo) : todo[i].do = "expect"
    <2>1. 2 \in 1..Len(todo) /\ todo[2].do = "expect"
      BY <1>1, StepsAre
    <2> QED
      BY <2>1
  <1>8. \A i \in 1..Len(todo) : todo[i] # Decide("tail")
    BY <1>1, StepsDiffer
  <1>9. ASSUME NEW l0 \in CommaLists
        PROVE  NoneOf(todo, l0)
    <2>1. /\ ~OfList(Accept("kw_mut", "kw_mut"), l0)
          /\ ~OfList(Expect("identifier", "name"), l0)
          /\ ~OfList(Expect(":", "colon"), l0)
          /\ ~OfList(Parse("expression", "type"), l0)
      BY CommaListNames, StepsOutside
    <2>2. \A j \in 1..Len(todo) : ~OfList(todo[j], l0)
      BY <1>1, <2>1
    <2> QED
      BY <2>2 DEF NoneOf
  <1>10. Form(node, todo) /\ Members(node) = << >>
    BY <1>1, <1>2, <1>6, <1>7, <1>8, <1>9, FreshForm
  <1> QED
    BY <1>10 DEF node

LEMMA ReturnTypeSits ==
  /\ Sits("return_type", Expect(":", "colon"), 1, 1)
  /\ Sits("return_type", Parse("expression", "type"), 2, 2)
  <1>1. Sits("return_type", Expect(":", "colon"), 1, 1)
    BY ReadingSits, ReturnTypePlaces, StepsAre, FunctionsAre, AnyLevelIs DEF Lists
  <1>2. Sits("return_type", Parse("expression", "type"), 2, 2)
    BY ReadingSits, ReturnTypePlaces, StepsAre, FunctionsAre, AnyLevelIs DEF Lists
  <1> QED
    BY <1>1, <1>2

LEMMA ReturnTypeBegins ==
  ASSUME NEW todo,
         todo = <<Expect(":", "colon"), Parse("expression", "type")>>
  PROVE  /\ Form([kind |-> "return_type"], todo)
         /\ Members([kind |-> "return_type"]) = << >>
  <1> DEFINE node == [kind |-> "return_type"]
  <1>1. IsASequence(todo) /\ Len(todo) = 2 /\ todo # << >>
    BY DEF IsASequence
  <1>2. node.kind = "return_type" /\ Fresh(node)
    <2>1. "return_type" \in DOMAIN Written /\ node.kind = "return_type"
      BY ReturnTypePlaces
    <2>2. \A m \in Lists : Belongs("return_type", m) <=> m \in DOMAIN node
      BY WrittenOf DEF Belongs, ItemsOf, Lists
    <2> QED
      BY <2>1, <2>2 DEF Fresh, Lists
  <1> HIDE DEF node
  <1>3. \A i \in 1..Len(todo) : Sits("return_type", todo[i], <<1, 2>>[i], <<1, 2>>[i])
    BY <1>1, ReturnTypeSits
  <1>4. Follow(<<1, 2>>, <<1, 2>>, Len(todo))
    BY <1>1 DEF Follow
  <1>5. OperatorsLast(todo)
    BY <1>1, StepsDiffer DEF OperatorsLast
  <1>6. Plan("return_type", todo)
    BY <1>1, <1>3, <1>4, <1>5, PlanOf
  <1>7. \E i \in 1..Len(todo) : todo[i].do = "expect"
    <2>1. 1 \in 1..Len(todo) /\ todo[1].do = "expect"
      BY <1>1, StepsAre
    <2> QED
      BY <2>1
  <1>8. \A i \in 1..Len(todo) : todo[i] # Decide("tail")
    BY <1>1, StepsDiffer
  <1>9. ASSUME NEW l0 \in CommaLists
        PROVE  NoneOf(todo, l0)
    <2>1. /\ ~OfList(Expect(":", "colon"), l0)
          /\ ~OfList(Parse("expression", "type"), l0)
      BY CommaListNames, StepsOutside
    <2>2. \A j \in 1..Len(todo) : ~OfList(todo[j], l0)
      BY <1>1, <2>1
    <2> QED
      BY <2>2 DEF NoneOf
  <1>10. Form(node, todo) /\ Members(node) = << >>
    BY <1>1, <1>2, <1>6, <1>7, <1>8, <1>9, FreshForm
  <1> QED
    BY <1>10 DEF node

LEMMA AtomSits ==
  ASSUME NEW a
  PROVE  /\ Sits("atom", Expect(a, "lexeme"), 1, 1)
  <1>1. Sits("atom", Expect(a, "lexeme"), 1, 1)
    BY ReadingSits, AtomPlaces, StepsAre, FunctionsAre, AnyLevelIs DEF Lists
  <1> QED
    BY <1>1

LEMMA AtomBegins ==
  ASSUME NEW a, NEW todo,
         todo = <<Expect(a, "lexeme")>>
  PROVE  /\ Form([kind |-> "atom"], todo)
         /\ Members([kind |-> "atom"]) = << >>
  <1> DEFINE node == [kind |-> "atom"]
  <1>1. IsASequence(todo) /\ Len(todo) = 1 /\ todo # << >>
    BY DEF IsASequence
  <1>2. node.kind = "atom" /\ Fresh(node)
    <2>1. "atom" \in DOMAIN Written /\ node.kind = "atom"
      BY AtomPlaces
    <2>2. \A m \in Lists : Belongs("atom", m) <=> m \in DOMAIN node
      BY WrittenOf DEF Belongs, ItemsOf, Lists
    <2> QED
      BY <2>1, <2>2 DEF Fresh, Lists
  <1> HIDE DEF node
  <1>3. \A i \in 1..Len(todo) : Sits("atom", todo[i], <<1>>[i], <<1>>[i])
    BY <1>1, AtomSits
  <1>4. Follow(<<1>>, <<1>>, Len(todo))
    BY <1>1 DEF Follow
  <1>5. OperatorsLast(todo)
    BY <1>1, StepsDiffer DEF OperatorsLast
  <1>6. Plan("atom", todo)
    BY <1>1, <1>3, <1>4, <1>5, PlanOf
  <1>7. \E i \in 1..Len(todo) : todo[i].do = "expect"
    <2>1. 1 \in 1..Len(todo) /\ todo[1].do = "expect"
      BY <1>1, StepsAre
    <2> QED
      BY <2>1
  <1>8. \A i \in 1..Len(todo) : todo[i] # Decide("tail")
    BY <1>1, StepsDiffer
  <1>9. ASSUME NEW l0 \in CommaLists
        PROVE  NoneOf(todo, l0)
    <2>1. /\ ~OfList(Expect(a, "lexeme"), l0)
      BY CommaListNames, StepsOutside
    <2>2. \A j \in 1..Len(todo) : ~OfList(todo[j], l0)
      BY <1>1, <2>1
    <2> QED
      BY <2>2 DEF NoneOf
  <1>10. Form(node, todo) /\ Members(node) = << >>
    BY <1>1, <1>2, <1>6, <1>7, <1>8, <1>9, FreshForm
  <1> QED
    BY <1>10 DEF node

LEMMA PrefixSits ==
  ASSUME NEW a, NEW l \in 0..AnyLevel
  PROVE  /\ Sits("prefix", Expect(a, "op"), 1, 1)
         /\ Sits("prefix", Operand(l, "operand"), 2, 2)
         /\ Sits("prefix", Decide("infix"), 3, 2)
  <1>1. Sits("prefix", Expect(a, "op"), 1, 1)
    BY ReadingSits, PrefixPlaces, StepsAre, FunctionsAre, AnyLevelIs DEF Lists
  <1>2. Sits("prefix", Operand(l, "operand"), 2, 2)
    BY ReadingSits, PrefixPlaces, StepsAre, FunctionsAre, AnyLevelIs DEF Lists
  <1>3. Sits("prefix", Decide("infix"), 3, 2)
    <2>1. Len(Written["prefix"]) = 2 /\ 3 = 2 + 1
      BY PrefixPlaces
    <2> QED
      BY <2>1, OperatorsSit
  <1> QED
    BY <1>1, <1>2, <1>3

LEMMA PrefixBegins ==
  ASSUME NEW a, NEW l \in 0..AnyLevel, NEW todo,
         todo = <<Expect(a, "op"), Operand(l, "operand"), Decide("infix")>>
  PROVE  /\ Form([kind |-> "prefix"], todo)
         /\ Members([kind |-> "prefix"]) = << >>
  <1> DEFINE node == [kind |-> "prefix"]
  <1>1. IsASequence(todo) /\ Len(todo) = 3 /\ todo # << >>
    BY DEF IsASequence
  <1>2. node.kind = "prefix" /\ Fresh(node)
    <2>1. "prefix" \in DOMAIN Written /\ node.kind = "prefix"
      BY PrefixPlaces
    <2>2. \A m \in Lists : Belongs("prefix", m) <=> m \in DOMAIN node
      BY WrittenOf DEF Belongs, ItemsOf, Lists
    <2> QED
      BY <2>1, <2>2 DEF Fresh, Lists
  <1> HIDE DEF node
  <1>3. \A i \in 1..Len(todo) : Sits("prefix", todo[i], <<1, 2, 3>>[i], <<1, 2, 2>>[i])
    BY <1>1, PrefixSits
  <1>4. Follow(<<1, 2, 3>>, <<1, 2, 2>>, Len(todo))
    BY <1>1 DEF Follow
  <1>5. OperatorsLast(todo)
    BY <1>1, StepsDiffer DEF OperatorsLast
  <1>6. Plan("prefix", todo)
    BY <1>1, <1>3, <1>4, <1>5, PlanOf
  <1>7. \E i \in 1..Len(todo) : todo[i].do = "expect"
    <2>1. 1 \in 1..Len(todo) /\ todo[1].do = "expect"
      BY <1>1, StepsAre
    <2> QED
      BY <2>1
  <1>8. \A i \in 1..Len(todo) : todo[i] # Decide("tail")
    BY <1>1, StepsDiffer
  <1>9. ASSUME NEW l0 \in CommaLists
        PROVE  NoneOf(todo, l0)
    <2>1. /\ ~OfList(Expect(a, "op"), l0)
          /\ ~OfList(Operand(l, "operand"), l0)
          /\ ~OfList(Decide("infix"), l0)
      BY CommaListNames, StepsOutside
    <2>2. \A j \in 1..Len(todo) : ~OfList(todo[j], l0)
      BY <1>1, <2>1
    <2> QED
      BY <2>2 DEF NoneOf
  <1>10. Form(node, todo) /\ Members(node) = << >>
    BY <1>1, <1>2, <1>6, <1>7, <1>8, <1>9, FreshForm
  <1> QED
    BY <1>10 DEF node

LEMMA PrefixBracketSits ==
  /\ Sits("prefix_bracket", Expect("[", "lbracket"), 1, 1)
  /\ Sits("prefix_bracket", Decide("size"), 2, 2)
  /\ Sits("prefix_bracket", Expect("]", "rbracket"), 3, 3)
  /\ Sits("prefix_bracket", Operand(1, "operand"), 4, 4)
  /\ Sits("prefix_bracket", Decide("infix"), 5, 4)
  <1>1. Sits("prefix_bracket", Expect("[", "lbracket"), 1, 1)
    BY ReadingSits, PrefixBracketPlaces, StepsAre, FunctionsAre, AnyLevelIs DEF Lists
  <1>2. Sits("prefix_bracket", Decide("size"), 2, 2)
    BY ChoicesAre
  <1>3. Sits("prefix_bracket", Expect("]", "rbracket"), 3, 3)
    BY ReadingSits, PrefixBracketPlaces, StepsAre, FunctionsAre, AnyLevelIs DEF Lists
  <1>4. Sits("prefix_bracket", Operand(1, "operand"), 4, 4)
    BY ReadingSits, PrefixBracketPlaces, StepsAre, FunctionsAre, AnyLevelIs DEF Lists
  <1>5. Sits("prefix_bracket", Decide("infix"), 5, 4)
    <2>1. Len(Written["prefix_bracket"]) = 4 /\ 5 = 4 + 1
      BY PrefixBracketPlaces
    <2> QED
      BY <2>1, OperatorsSit
  <1> QED
    BY <1>1, <1>2, <1>3, <1>4, <1>5

LEMMA PrefixBracketBegins ==
  ASSUME NEW todo,
         todo = <<Expect("[", "lbracket"), Decide("size"), Expect("]", "rbracket"),
                  Operand(1, "operand"), Decide("infix")>>
  PROVE  /\ Form([kind |-> "prefix_bracket"], todo)
         /\ Members([kind |-> "prefix_bracket"]) = << >>
  <1> DEFINE node == [kind |-> "prefix_bracket"]
  <1>1. IsASequence(todo) /\ Len(todo) = 5 /\ todo # << >>
    BY DEF IsASequence
  <1>2. node.kind = "prefix_bracket" /\ Fresh(node)
    <2>1. "prefix_bracket" \in DOMAIN Written /\ node.kind = "prefix_bracket"
      BY PrefixBracketPlaces
    <2>2. \A m \in Lists : Belongs("prefix_bracket", m) <=> m \in DOMAIN node
      BY WrittenOf DEF Belongs, ItemsOf, Lists
    <2> QED
      BY <2>1, <2>2 DEF Fresh, Lists
  <1> HIDE DEF node
  <1>3. \A i \in 1..Len(todo) : Sits("prefix_bracket", todo[i], <<1, 2, 3, 4, 5>>[i], <<1, 2, 3, 4, 4>>[i])
    BY <1>1, PrefixBracketSits
  <1>4. Follow(<<1, 2, 3, 4, 5>>, <<1, 2, 3, 4, 4>>, Len(todo))
    BY <1>1 DEF Follow
  <1>5. OperatorsLast(todo)
    BY <1>1, StepsDiffer DEF OperatorsLast
  <1>6. Plan("prefix_bracket", todo)
    BY <1>1, <1>3, <1>4, <1>5, PlanOf
  <1>7. \E i \in 1..Len(todo) : todo[i].do = "expect"
    <2>1. 1 \in 1..Len(todo) /\ todo[1].do = "expect"
      BY <1>1, StepsAre
    <2> QED
      BY <2>1
  <1>8. \A i \in 1..Len(todo) : todo[i] # Decide("tail")
    BY <1>1, StepsDiffer
  <1>9. ASSUME NEW l0 \in CommaLists
        PROVE  NoneOf(todo, l0)
    <2>1. /\ ~OfList(Expect("[", "lbracket"), l0)
          /\ ~OfList(Decide("size"), l0)
          /\ ~OfList(Expect("]", "rbracket"), l0)
          /\ ~OfList(Operand(1, "operand"), l0)
          /\ ~OfList(Decide("infix"), l0)
      BY CommaListNames, StepsOutside
    <2>2. \A j \in 1..Len(todo) : ~OfList(todo[j], l0)
      BY <1>1, <2>1
    <2> QED
      BY <2>2 DEF NoneOf
  <1>10. Form(node, todo) /\ Members(node) = << >>
    BY <1>1, <1>2, <1>6, <1>7, <1>8, <1>9, FreshForm
  <1> QED
    BY <1>10 DEF node

LEMMA CallSits ==
  /\ Sits("call", Parse("primary", "callee"), 1, 1)
  /\ Sits("call", Expect("(", "lparen"), 2, 2)
  /\ Sits("call", Decide("argument"), 4, 3)
  /\ Sits("call", Expect(")", "rparen"), 4, 4)
  /\ Sits("call", Decide("postfix"), 5, 4)
  /\ Sits("call", Decide("infix"), 5, 4)
  <1>1. Sits("call", Parse("primary", "callee"), 1, 1)
    BY ReadingSits, CallPlaces, StepsAre, FunctionsAre, AnyLevelIs DEF Lists
  <1>2. Sits("call", Expect("(", "lparen"), 2, 2)
    BY ReadingSits, CallPlaces, StepsAre, FunctionsAre, AnyLevelIs DEF Lists
  <1>3. Sits("call", Decide("argument"), 4, 3)
    BY ChoicesAre
  <1>4. Sits("call", Expect(")", "rparen"), 4, 4)
    BY ReadingSits, CallPlaces, StepsAre, FunctionsAre, AnyLevelIs DEF Lists
  <1>5. Sits("call", Decide("postfix"), 5, 4)
    <2>1. Len(Written["call"]) = 4 /\ 5 = 4 + 1
      BY CallPlaces
    <2> QED
      BY <2>1, OperatorsSit
  <1>6. Sits("call", Decide("infix"), 5, 4)
    <2>1. Len(Written["call"]) = 4 /\ 5 = 4 + 1
      BY CallPlaces
    <2> QED
      BY <2>1, OperatorsSit
  <1> QED
    BY <1>1, <1>2, <1>3, <1>4, <1>5, <1>6

LEMMA CallBegins ==
  ASSUME NEW todo,
         todo = <<Parse("primary", "callee"), Expect("(", "lparen"), Decide("argument"),
                  Expect(")", "rparen"), Decide("postfix"), Decide("infix")>>
  PROVE  /\ Form([kind |-> "call", arguments |-> << >>, argument_commas |-> << >>], todo)
         /\ Members([kind |-> "call", arguments |-> << >>, argument_commas |-> << >>]) = << >>
  <1> DEFINE node == [kind |-> "call", arguments |-> << >>, argument_commas |-> << >>]
  <1>1. IsASequence(todo) /\ Len(todo) = 6 /\ todo # << >>
    BY DEF IsASequence
  <1>2. node.kind = "call" /\ Fresh(node)
    <2>1. "call" \in DOMAIN Written /\ node.kind = "call"
      BY CallPlaces
    <2>2. \A m \in Lists : Belongs("call", m) <=> m \in DOMAIN node
      BY WrittenOf DEF Belongs, ItemsOf, Lists
    <2> QED
      BY <2>1, <2>2 DEF Fresh, Lists
  <1> HIDE DEF node
  <1>3. \A i \in 1..Len(todo) : Sits("call", todo[i], <<1, 2, 4, 4, 5, 5>>[i], <<1, 2, 3, 4, 4, 4>>[i])
    BY <1>1, CallSits
  <1>4. Follow(<<1, 2, 4, 4, 5, 5>>, <<1, 2, 3, 4, 4, 4>>, Len(todo))
    BY <1>1 DEF Follow
  <1>5. OperatorsLast(todo)
    BY <1>1, StepsDiffer DEF OperatorsLast
  <1>6. Plan("call", todo)
    BY <1>1, <1>3, <1>4, <1>5, PlanOf
  <1>7. \E i \in 1..Len(todo) : todo[i].do = "expect"
    <2>1. 2 \in 1..Len(todo) /\ todo[2].do = "expect"
      BY <1>1, StepsAre
    <2> QED
      BY <2>1
  <1>8. \A i \in 1..Len(todo) : todo[i] # Decide("tail")
    BY <1>1, StepsDiffer
  <1>9. ASSUME NEW l0 \in CommaLists
        PROVE  \/ NoneOf(todo, l0)
               \/ /\ l0.items \in DOMAIN node
                  /\ \E i \in 1..Len(todo) :
                       /\ todo[i] = Decide(l0.item)
                       /\ \A j \in 1..Len(todo) : j # i => ~OfList(todo[j], l0)
    <2>1. CASE l0.item = "argument"
      <3>1. l0.items = "arguments" /\ l0.comma = "argument_comma"
        BY <2>1, CommaListNames
      <3>2. "arguments" \in DOMAIN node
        BY DEF node
      <3>3. 3 \in 1..Len(todo) /\ todo[3] = Decide(l0.item)
        BY <1>1, <2>1
      <3>4. /\ ~OfList(Parse("primary", "callee"), l0)
            /\ ~OfList(Expect("(", "lparen"), l0)
            /\ ~OfList(Expect(")", "rparen"), l0)
            /\ ~OfList(Decide("postfix"), l0)
            /\ ~OfList(Decide("infix"), l0)
        BY <2>1, <3>1, StepsOutside
      <3>5. \A j \in 1..Len(todo) : j # 3 => ~OfList(todo[j], l0)
        BY <1>1, <3>4
      <3> QED
        BY <3>1, <3>2, <3>3, <3>5
    <2>2. CASE l0.item # "argument"
      <3>1. l0.item = "parameter" /\ l0.items = "parameters" /\ l0.comma = "parameter_comma"
        BY <2>2, CommaListNames
      <3>2. /\ ~OfList(Parse("primary", "callee"), l0)
            /\ ~OfList(Expect("(", "lparen"), l0)
            /\ ~OfList(Decide("argument"), l0)
            /\ ~OfList(Expect(")", "rparen"), l0)
            /\ ~OfList(Decide("postfix"), l0)
            /\ ~OfList(Decide("infix"), l0)
        BY <2>2, <3>1, StepsOutside
      <3>3. \A j \in 1..Len(todo) : ~OfList(todo[j], l0)
        BY <1>1, <3>2
      <3> QED
        BY <3>3 DEF NoneOf
    <2> QED
      BY <2>1, <2>2
  <1>10. Form(node, todo) /\ Members(node) = << >>
    BY <1>1, <1>2, <1>6, <1>7, <1>8, <1>9, FreshForm
  <1> QED
    BY <1>10 DEF node

LEMMA IndexSits ==
  /\ Sits("index", Parse("primary", "operand"), 1, 1)
  /\ Sits("index", Expect("[", "lbracket"), 2, 2)
  /\ Sits("index", Parse("expression", "index"), 3, 3)
  /\ Sits("index", Expect("]", "rbracket"), 4, 4)
  /\ Sits("index", Decide("postfix"), 5, 4)
  /\ Sits("index", Decide("infix"), 5, 4)
  <1>1. Sits("index", Parse("primary", "operand"), 1, 1)
    BY ReadingSits, IndexPlaces, StepsAre, FunctionsAre, AnyLevelIs DEF Lists
  <1>2. Sits("index", Expect("[", "lbracket"), 2, 2)
    BY ReadingSits, IndexPlaces, StepsAre, FunctionsAre, AnyLevelIs DEF Lists
  <1>3. Sits("index", Parse("expression", "index"), 3, 3)
    BY ReadingSits, IndexPlaces, StepsAre, FunctionsAre, AnyLevelIs DEF Lists
  <1>4. Sits("index", Expect("]", "rbracket"), 4, 4)
    BY ReadingSits, IndexPlaces, StepsAre, FunctionsAre, AnyLevelIs DEF Lists
  <1>5. Sits("index", Decide("postfix"), 5, 4)
    <2>1. Len(Written["index"]) = 4 /\ 5 = 4 + 1
      BY IndexPlaces
    <2> QED
      BY <2>1, OperatorsSit
  <1>6. Sits("index", Decide("infix"), 5, 4)
    <2>1. Len(Written["index"]) = 4 /\ 5 = 4 + 1
      BY IndexPlaces
    <2> QED
      BY <2>1, OperatorsSit
  <1> QED
    BY <1>1, <1>2, <1>3, <1>4, <1>5, <1>6

LEMMA IndexBegins ==
  ASSUME NEW todo,
         todo = <<Parse("primary", "operand"), Expect("[", "lbracket"),
                  Parse("expression", "index"), Expect("]", "rbracket"), Decide("postfix"),
                  Decide("infix")>>
  PROVE  /\ Form([kind |-> "index"], todo)
         /\ Members([kind |-> "index"]) = << >>
  <1> DEFINE node == [kind |-> "index"]
  <1>1. IsASequence(todo) /\ Len(todo) = 6 /\ todo # << >>
    BY DEF IsASequence
  <1>2. node.kind = "index" /\ Fresh(node)
    <2>1. "index" \in DOMAIN Written /\ node.kind = "index"
      BY IndexPlaces
    <2>2. \A m \in Lists : Belongs("index", m) <=> m \in DOMAIN node
      BY WrittenOf DEF Belongs, ItemsOf, Lists
    <2> QED
      BY <2>1, <2>2 DEF Fresh, Lists
  <1> HIDE DEF node
  <1>3. \A i \in 1..Len(todo) : Sits("index", todo[i], <<1, 2, 3, 4, 5, 5>>[i], <<1, 2, 3, 4, 4, 4>>[i])
    BY <1>1, IndexSits
  <1>4. Follow(<<1, 2, 3, 4, 5, 5>>, <<1, 2, 3, 4, 4, 4>>, Len(todo))
    BY <1>1 DEF Follow
  <1>5. OperatorsLast(todo)
    BY <1>1, StepsDiffer DEF OperatorsLast
  <1>6. Plan("index", todo)
    BY <1>1, <1>3, <1>4, <1>5, PlanOf
  <1>7. \E i \in 1..Len(todo) : todo[i].do = "expect"
    <2>1. 2 \in 1..Len(todo) /\ todo[2].do = "expect"
      BY <1>1, StepsAre
    <2> QED
      BY <2>1
  <1>8. \A i \in 1..Len(todo) : todo[i] # Decide("tail")
    BY <1>1, StepsDiffer
  <1>9. ASSUME NEW l0 \in CommaLists
        PROVE  NoneOf(todo, l0)
    <2>1. /\ ~OfList(Parse("primary", "operand"), l0)
          /\ ~OfList(Expect("[", "lbracket"), l0)
          /\ ~OfList(Parse("expression", "index"), l0)
          /\ ~OfList(Expect("]", "rbracket"), l0)
          /\ ~OfList(Decide("postfix"), l0)
          /\ ~OfList(Decide("infix"), l0)
      BY CommaListNames, StepsOutside
    <2>2. \A j \in 1..Len(todo) : ~OfList(todo[j], l0)
      BY <1>1, <2>1
    <2> QED
      BY <2>2 DEF NoneOf
  <1>10. Form(node, todo) /\ Members(node) = << >>
    BY <1>1, <1>2, <1>6, <1>7, <1>8, <1>9, FreshForm
  <1> QED
    BY <1>10 DEF node

LEMMA PostfixSits ==
  ASSUME NEW a
  PROVE  /\ Sits("postfix", Parse("primary", "operand"), 1, 1)
         /\ Sits("postfix", Expect(a, "op"), 2, 2)
         /\ Sits("postfix", Decide("postfix"), 3, 2)
         /\ Sits("postfix", Decide("infix"), 3, 2)
  <1>1. Sits("postfix", Parse("primary", "operand"), 1, 1)
    BY ReadingSits, PostfixPlaces, StepsAre, FunctionsAre, AnyLevelIs DEF Lists
  <1>2. Sits("postfix", Expect(a, "op"), 2, 2)
    BY ReadingSits, PostfixPlaces, StepsAre, FunctionsAre, AnyLevelIs DEF Lists
  <1>3. Sits("postfix", Decide("postfix"), 3, 2)
    <2>1. Len(Written["postfix"]) = 2 /\ 3 = 2 + 1
      BY PostfixPlaces
    <2> QED
      BY <2>1, OperatorsSit
  <1>4. Sits("postfix", Decide("infix"), 3, 2)
    <2>1. Len(Written["postfix"]) = 2 /\ 3 = 2 + 1
      BY PostfixPlaces
    <2> QED
      BY <2>1, OperatorsSit
  <1> QED
    BY <1>1, <1>2, <1>3, <1>4

LEMMA PostfixBegins ==
  ASSUME NEW a, NEW todo,
         todo = <<Parse("primary", "operand"), Expect(a, "op"), Decide("postfix"), Decide("infix")>>
  PROVE  /\ Form([kind |-> "postfix"], todo)
         /\ Members([kind |-> "postfix"]) = << >>
  <1> DEFINE node == [kind |-> "postfix"]
  <1>1. IsASequence(todo) /\ Len(todo) = 4 /\ todo # << >>
    BY DEF IsASequence
  <1>2. node.kind = "postfix" /\ Fresh(node)
    <2>1. "postfix" \in DOMAIN Written /\ node.kind = "postfix"
      BY PostfixPlaces
    <2>2. \A m \in Lists : Belongs("postfix", m) <=> m \in DOMAIN node
      BY WrittenOf DEF Belongs, ItemsOf, Lists
    <2> QED
      BY <2>1, <2>2 DEF Fresh, Lists
  <1> HIDE DEF node
  <1>3. \A i \in 1..Len(todo) : Sits("postfix", todo[i], <<1, 2, 3, 3>>[i], <<1, 2, 2, 2>>[i])
    BY <1>1, PostfixSits
  <1>4. Follow(<<1, 2, 3, 3>>, <<1, 2, 2, 2>>, Len(todo))
    BY <1>1 DEF Follow
  <1>5. OperatorsLast(todo)
    BY <1>1, StepsDiffer DEF OperatorsLast
  <1>6. Plan("postfix", todo)
    BY <1>1, <1>3, <1>4, <1>5, PlanOf
  <1>7. \E i \in 1..Len(todo) : todo[i].do = "expect"
    <2>1. 2 \in 1..Len(todo) /\ todo[2].do = "expect"
      BY <1>1, StepsAre
    <2> QED
      BY <2>1
  <1>8. \A i \in 1..Len(todo) : todo[i] # Decide("tail")
    BY <1>1, StepsDiffer
  <1>9. ASSUME NEW l0 \in CommaLists
        PROVE  NoneOf(todo, l0)
    <2>1. /\ ~OfList(Parse("primary", "operand"), l0)
          /\ ~OfList(Expect(a, "op"), l0)
          /\ ~OfList(Decide("postfix"), l0)
          /\ ~OfList(Decide("infix"), l0)
      BY CommaListNames, StepsOutside
    <2>2. \A j \in 1..Len(todo) : ~OfList(todo[j], l0)
      BY <1>1, <2>1
    <2> QED
      BY <2>2 DEF NoneOf
  <1>10. Form(node, todo) /\ Members(node) = << >>
    BY <1>1, <1>2, <1>6, <1>7, <1>8, <1>9, FreshForm
  <1> QED
    BY <1>10 DEF node

LEMMA BinarySits ==
  ASSUME NEW a, NEW l \in 0..AnyLevel
  PROVE  /\ Sits("binary", Parse("primary", "left"), 1, 1)
         /\ Sits("binary", Expect(a, "op"), 2, 2)
         /\ Sits("binary", Operand(l, "right"), 3, 3)
         /\ Sits("binary", Decide("infix"), 4, 3)
  <1>1. Sits("binary", Parse("primary", "left"), 1, 1)
    BY ReadingSits, BinaryPlaces, StepsAre, FunctionsAre, AnyLevelIs DEF Lists
  <1>2. Sits("binary", Expect(a, "op"), 2, 2)
    BY ReadingSits, BinaryPlaces, StepsAre, FunctionsAre, AnyLevelIs DEF Lists
  <1>3. Sits("binary", Operand(l, "right"), 3, 3)
    BY ReadingSits, BinaryPlaces, StepsAre, FunctionsAre, AnyLevelIs DEF Lists
  <1>4. Sits("binary", Decide("infix"), 4, 3)
    <2>1. Len(Written["binary"]) = 3 /\ 4 = 3 + 1
      BY BinaryPlaces
    <2> QED
      BY <2>1, OperatorsSit
  <1> QED
    BY <1>1, <1>2, <1>3, <1>4

LEMMA BinaryBegins ==
  ASSUME NEW a, NEW l \in 0..AnyLevel, NEW todo,
         todo = <<Parse("primary", "left"), Expect(a, "op"), Operand(l, "right"), Decide("infix")>>
  PROVE  /\ Form([kind |-> "binary"], todo)
         /\ Members([kind |-> "binary"]) = << >>
  <1> DEFINE node == [kind |-> "binary"]
  <1>1. IsASequence(todo) /\ Len(todo) = 4 /\ todo # << >>
    BY DEF IsASequence
  <1>2. node.kind = "binary" /\ Fresh(node)
    <2>1. "binary" \in DOMAIN Written /\ node.kind = "binary"
      BY BinaryPlaces
    <2>2. \A m \in Lists : Belongs("binary", m) <=> m \in DOMAIN node
      BY WrittenOf DEF Belongs, ItemsOf, Lists
    <2> QED
      BY <2>1, <2>2 DEF Fresh, Lists
  <1> HIDE DEF node
  <1>3. \A i \in 1..Len(todo) : Sits("binary", todo[i], <<1, 2, 3, 4>>[i], <<1, 2, 3, 3>>[i])
    BY <1>1, BinarySits
  <1>4. Follow(<<1, 2, 3, 4>>, <<1, 2, 3, 3>>, Len(todo))
    BY <1>1 DEF Follow
  <1>5. OperatorsLast(todo)
    BY <1>1, StepsDiffer DEF OperatorsLast
  <1>6. Plan("binary", todo)
    BY <1>1, <1>3, <1>4, <1>5, PlanOf
  <1>7. \E i \in 1..Len(todo) : todo[i].do = "expect"
    <2>1. 2 \in 1..Len(todo) /\ todo[2].do = "expect"
      BY <1>1, StepsAre
    <2> QED
      BY <2>1
  <1>8. \A i \in 1..Len(todo) : todo[i] # Decide("tail")
    BY <1>1, StepsDiffer
  <1>9. ASSUME NEW l0 \in CommaLists
        PROVE  NoneOf(todo, l0)
    <2>1. /\ ~OfList(Parse("primary", "left"), l0)
          /\ ~OfList(Expect(a, "op"), l0)
          /\ ~OfList(Operand(l, "right"), l0)
          /\ ~OfList(Decide("infix"), l0)
      BY CommaListNames, StepsOutside
    <2>2. \A j \in 1..Len(todo) : ~OfList(todo[j], l0)
      BY <1>1, <2>1
    <2> QED
      BY <2>2 DEF NoneOf
  <1>10. Form(node, todo) /\ Members(node) = << >>
    BY <1>1, <1>2, <1>6, <1>7, <1>8, <1>9, FreshForm
  <1> QED
    BY <1>10 DEF node

----------------------------------------------------------------------------
(* Where an activation is when a decision comes next.                         *)

LEMMA OneStep ==
  ASSUME NEW a
  PROVE  IsASequence(<<a>>) /\ Len(<<a>>) = 1 /\ <<a>>[1] = a /\ <<a>> # << >>
  BY DEF IsASequence

LEMMA TwoSteps ==
  ASSUME NEW a, NEW b
  PROVE  /\ IsASequence(<<a, b>>) /\ Len(<<a, b>>) = 2
         /\ <<a, b>>[1] = a /\ <<a, b>>[2] = b /\ <<a, b>> # << >>
  BY DEF IsASequence

LEMMA ThreeSteps ==
  ASSUME NEW a, NEW b, NEW c
  PROVE  /\ IsASequence(<<a, b, c>>) /\ Len(<<a, b, c>>) = 3
         /\ <<a, b, c>>[1] = a /\ <<a, b, c>>[2] = b /\ <<a, b, c>>[3] = c /\ <<a, b, c>> # << >>
  BY DEF IsASequence

LEMMA NoMembers ==
  ASSUME NEW node, node.kind = "none", ListsFormed(node)
  PROVE  Members(node) = << >>
  <1>1. "none" \in DOMAIN Written /\ Len(Written["none"]) = 0
    BY WrittenOf, WrittenKinds
  <1>2. /\ AllSequences(Places(node)) /\ Len(Places(node)) = 0
        /\ Members(node) = FlattenSeq(Places(node))
    BY <1>1, PlacesFormed
  <1>3. Places(node) = << >>
    BY <1>2, EmptySequence DEF AllSequences
  <1> QED
    BY <1>2, <1>3, FlattenedEmpty

LEMMA ChoicesOf ==
  DOMAIN Choice = {"unit", "item", "tail", "else", "else_if", "size", "argument", "argument_comma",
                   "parameter", "parameter_comma"}
  BY DEF Choice

LEMMA DecisionIs ==
  ASSUME NEW what
  PROVE  Decide(what).do = "decide" /\ Decide(what).what = what
  BY DEF Decide

LEMMA FirstFits ==
  ASSUME NEW node, NEW todo, Form(node, todo), todo # << >>
  PROVE  /\ Fits(node.kind, todo[1]) /\ 1 \in 1..Len(todo) /\ IsASequence(todo)
         /\ node.kind \in DOMAIN Written
  BY TailSteps DEF Form, StepsInTurn, NodeFormed

LEMMA AtChoice ==
  ASSUME NEW node, NEW todo, Form(node, todo), todo # << >>,
         NEW what \in DOMAIN Choice, todo[1] = Decide(what)
  PROVE  node.kind = Choice[what].of
  <1>1. Fits(node.kind, Decide(what))
    BY FirstFits
  <1>2. Decide(what).do = "decide" /\ Decide(what).what = what
    BY StepsAre
  <1>3. what \notin {"statement", "operand", "primary", "postfix", "infix"}
    BY DEF Choice
  <1> QED
    BY <1>1, <1>2, <1>3 DEF Fits

LEMMA AtWhole ==
  ASSUME NEW node, NEW todo, Form(node, todo), todo # << >>,
         \/ todo[1] \in {Decide("statement"), Decide("operand"), Decide("primary")}
         \/ todo[1].do = "parse" /\ todo[1].member = "whole"
  PROVE  node.kind = "none" /\ Members(node) = << >>
  <1>1. Fits(node.kind, todo[1]) /\ node.kind \in DOMAIN Written
    BY FirstFits
  <1>2. node.kind = "none"
    <2>1. CASE todo[1] \in {Decide("statement"), Decide("operand"), Decide("primary")}
      <3>1. /\ todo[1].do = "decide" /\ todo[1].what \in {"statement", "operand", "primary"}
        BY <2>1, DecisionIs
      <3> QED
        BY <1>1, <3>1, ChoicesOf DEF Fits
    <2>2. CASE todo[1].do = "parse" /\ todo[1].member = "whole"
      BY <1>1, <2>2, PositionOf DEF Fits
    <2> QED
      BY <2>1, <2>2
  <1> QED
    BY <1>2, NoMembers DEF Form, NodeFormed

LEMMA FirstOfEach ==
  /\ <<Decide("statement")>>[1] = Decide("statement")
  /\ <<Decide("primary")>>[1] = Decide("primary")
  /\ <<Decide("operand"), Decide("infix")>>[1] = Decide("operand")
  /\ <<Parse("primary", "whole"), Decide("postfix"), Decide("infix")>>[1] = Parse("primary", "whole")
  /\ <<Decide("unit")>>[1] = Decide("unit")
  /\ <<Parse("statement", "statements"), Decide("unit")>>[1] = Parse("statement", "statements")
  OBVIOUS

LEMMA AtOperand ==
  ASSUME NEW node, NEW todo, Form(node, todo), todo # << >>, todo[1] = Decide("operand")
  PROVE  /\ todo = <<Decide("operand"), Decide("infix")>> /\ Tail(todo) = <<Decide("infix")>>
         /\ node.kind = "none" /\ Members(node) = << >>
  <1>1. node.kind = "none" /\ Members(node) = << >>
    BY AtWhole
  <1>2. todo = <<Decide("operand"), Decide("infix")>>
    BY <1>1, FirstOfEach, StepsDiffer DEF Form, NotYetChosen
  <1> QED
    BY <1>1, <1>2

LEMMA AtStatement ==
  ASSUME NEW node, NEW todo, Form(node, todo), todo # << >>, todo[1] = Decide("statement")
  PROVE  todo = <<Decide("statement")>> /\ Tail(todo) = << >> /\ node.kind = "none" /\ Members(node) = << >>
  <1>1. node.kind = "none" /\ Members(node) = << >>
    BY AtWhole
  <1>2. todo = <<Decide("statement")>>
    BY <1>1, FirstOfEach, StepsDiffer DEF Form, NotYetChosen
  <1> QED
    BY <1>1, <1>2

LEMMA AtPrimary ==
  ASSUME NEW node, NEW todo, Form(node, todo), todo # << >>, todo[1] = Decide("primary")
  PROVE  todo = <<Decide("primary")>> /\ Tail(todo) = << >> /\ node.kind = "none" /\ Members(node) = << >>
  <1>1. node.kind = "none" /\ Members(node) = << >>
    BY AtWhole
  <1>2. todo = <<Decide("primary")>>
    BY <1>1, FirstOfEach, StepsDiffer DEF Form, NotYetChosen
  <1> QED
    BY <1>1, <1>2

LEMMA AtPrimaryCall ==
  ASSUME NEW node, NEW todo, Form(node, todo), todo # << >>,
         todo[1].do = "parse" /\ todo[1].member = "whole"
  PROVE  todo = <<Parse("primary", "whole"), Decide("postfix"), Decide("infix")>>
  <1>1. node.kind = "none"
    BY AtWhole
  <1> QED
    <2>1. /\ todo # <<Decide("statement")>> /\ todo # <<Decide("primary")>>
          /\ todo # <<Decide("operand"), Decide("infix")>>
      BY FirstOfEach, DecisionIs
    <2> QED
      BY <1>1, <2>1 DEF Form, NotYetChosen

LEMMA AtUnit ==
  ASSUME NEW node, NEW todo, Form(node, todo), todo # << >>, todo[1] = Decide("unit")
  PROVE  todo = <<Decide("unit")>> /\ Tail(todo) = << >> /\ node.kind = "unit"
  <1>1. node.kind = "unit"
    BY AtChoice DEF Choice
  <1>2. todo = <<Decide("unit")>>
    BY <1>1, FirstOfEach, StepsDiffer DEF Form, UnitGoesOn
  <1> QED
    BY <1>1, <1>2

LEMMA AtOperators ==
  ASSUME NEW node, NEW todo, Form(node, todo), todo # << >>, todo[1] \in {Decide("postfix"), Decide("infix")}
  PROVE  node.kind \notin {"none", "unit"}
  <1>1. node.kind # "none"
    BY FirstOfEach, StepsDiffer DEF Form, NotYetChosen
  <1>2. node.kind # "unit"
    BY FirstOfEach, StepsDiffer DEF Form, UnitGoesOn
  <1> QED
    BY <1>1, <1>2

LEMMA AtPostfix ==
  ASSUME NEW node, NEW todo, Form(node, todo), todo # << >>, todo[1] = Decide("postfix")
  PROVE  todo = <<Decide("postfix"), Decide("infix")>> /\ Tail(todo) = <<Decide("infix")>>
  <1>1. 1 \in 1..Len(todo) /\ IsASequence(todo)
    BY FirstFits
  <1>2. Len(todo) = 2 /\ todo[2] = Decide("infix")
    <2>1. 1 = Len(todo) - 1 /\ todo[1 + 1] = Decide("infix")
      BY <1>1 DEF Form, OperatorsLast
    <2>2. Len(todo) \in Nat
      BY <1>1, SequenceShape
    <2> QED
      BY <2>1, <2>2
  <1> DEFINE two == <<Decide("postfix"), Decide("infix")>>
  <1>3. /\ IsASequence(two) /\ Len(two) = 2 /\ two[1] = Decide("postfix") /\ two[2] = Decide("infix")
    BY TwoSteps
  <1> HIDE DEF two
  <1>5. \A i \in 1..2 : todo[i] = two[i]
    BY <1>2, <1>3
  <1>6. todo = two
    BY <1>1, <1>2, <1>3, <1>5, SameSequence
  <1>4. todo = <<Decide("postfix"), Decide("infix")>>
    BY <1>6 DEF two
  <1> QED
    BY <1>4

LEMMA AtInfix ==
  ASSUME NEW node, NEW todo, Form(node, todo), todo # << >>, todo[1] = Decide("infix")
  PROVE  todo = <<Decide("infix")>> /\ Tail(todo) = << >>
  <1>1. 1 \in 1..Len(todo) /\ IsASequence(todo)
    BY FirstFits
  <1>2. Len(todo) = 1
    BY <1>1 DEF Form, OperatorsLast
  <1>3. \A i \in 1..1 : todo[i] = <<Decide("infix")>>[i]
    OBVIOUS
  <1>4. todo = <<Decide("infix")>>
    <2> DEFINE s == <<Decide("infix")>>
    <2>1. IsASequence(s) /\ Len(s) = 1
      BY OneStep
    <2>2. \A i \in 1..Len(todo) : todo[i] = s[i]
      BY <1>2, <1>3
    <2> HIDE DEF s
    <2>3. todo = s
      BY <1>1, <1>2, <2>1, <2>2, SameSequence
    <2> QED
      BY <2>3 DEF s
  <1> QED
    BY <1>4

----------------------------------------------------------------------------
(* Nodes with nothing left to read are finished, and operators may follow.    *)

LEMMA FinishedSoFar ==
  ASSUME NEW node, NEW todo, Form(node, todo), node.kind \notin {"none", "unit"},
         \A i \in 1..Len(todo) : todo[i].do # "expect"
  PROVE  Finished(node)
  <1>1. HasLexeme(Members(node))
    BY DEF Form, Worded
  <1> QED
    BY <1>1, FinishedNode DEF Form, NodeFormed

LEMMA FinishedAtOperators ==
  ASSUME NEW node, NEW todo, Form(node, todo), todo # << >>, todo[1] \in {Decide("postfix"), Decide("infix")}
  PROVE  Finished(node) /\ node.kind \notin {"none", "unit", "lexeme"}
  <1>1. node.kind \notin {"none", "unit"}
    BY AtOperators
  <1>2. \A i \in 1..Len(todo) : todo[i].do # "expect"
    <2>1. CASE todo[1] = Decide("postfix")
      <3>1. todo = <<Decide("postfix"), Decide("infix")>>
        BY <2>1, AtPostfix
      <3> QED
        BY <3>1, StepsAre, TwoSteps
    <2>2. CASE todo[1] = Decide("infix")
      <3>1. todo = <<Decide("infix")>>
        BY <2>2, AtInfix
      <3> QED
        BY <3>1, StepsAre, OneStep
    <2> QED
      BY <2>1, <2>2
  <1>3. node.kind # "lexeme"
    BY WrittenKinds DEF Form, NodeFormed
  <1> QED
    BY <1>1, <1>2, <1>3, FinishedSoFar

LEMMA CalleeFinished ==
  ASSUME NEW node, Form(node, << >>)
  PROVE  Finished(node) /\ node.kind \notin {"none", "unit", "lexeme"}
  <1>1. node.kind \notin {"none", "unit"}
    BY OneStep, TwoSteps, ThreeSteps DEF Form, NotYetChosen, UnitGoesOn
  <1>2. \A i \in 1..Len(<< >>) : << >>[i].do # "expect"
    BY EmptySequence
  <1>3. node.kind # "lexeme"
    BY WrittenKinds DEF Form, NodeFormed
  <1> QED
    BY <1>1, <1>2, <1>3, FinishedSoFar

LEMMA OperatorsFollow ==
  ASSUME NEW node, Form(node, << >>)
  PROVE  Form(node, <<Decide("postfix"), Decide("infix")>>)
  <1> DEFINE todo == <<Decide("postfix"), Decide("infix")>>
             n == Len(Written[node.kind])
             f == n + 1
  <1>1. node.kind \notin {"none", "unit"} /\ NodeFormed(node) /\ node.kind \in DOMAIN Written
    BY CalleeFinished DEF Form, NodeFormed
  <1>2. /\ IsASequence(todo) /\ Len(todo) = 2 /\ todo # << >>
        /\ todo[1] = Decide("postfix") /\ todo[2] = Decide("infix")
    BY TwoSteps
  <1>3. Sits(node.kind, todo[1], f, n) /\ Sits(node.kind, todo[2], f, n) /\ n \in Nat
    BY <1>1, <1>2, OperatorSits, WrittenLength
  <1> HIDE DEF todo, n
  <1>4. StepsInTurn(node.kind, todo)
    BY <1>2, <1>3 DEF StepsInTurn, Sits
  <1>5. NextIsBlank(node, todo)
    BY <1>2, <1>3 DEF NextIsBlank, Blank, Sits, n
  <1>6. NotYetChosen(node.kind, todo) /\ UnitGoesOn(node.kind, todo)
    BY <1>1 DEF NotYetChosen, UnitGoesOn
  <1>7. OperatorsLast(todo)
    BY <1>2, StepsDiffer DEF OperatorsLast
  <1>8. TailRead(node, todo)
    BY <1>2, StepsDiffer DEF TailRead
  <1>9. Worded(node, todo)
    <2>1. HasLexeme(Members(node))
      BY <1>1, EmptySequence DEF Form, Worded
    <2> QED
      BY <2>1 DEF Worded
  <1>10. TurnsTaken(node, todo)
    <2>1. ASSUME NEW l0 \in CommaLists
          PROVE  NoneOf(todo, l0)
      <3>1. ~OfList(Decide("postfix"), l0) /\ ~OfList(Decide("infix"), l0)
        BY StepsOutside, CommaListNames
      <3> QED
        BY <3>1, <1>2 DEF NoneOf
    <2> QED
      BY <2>1 DEF TurnsTaken, TakesTurns, Settled
  <1>11. Form(node, todo)
    BY <1>1, <1>4, <1>5, <1>6, <1>7, <1>8, <1>9, <1>10 DEF Form
  <1> QED
    BY <1>11 DEF todo

----------------------------------------------------------------------------
(* The functions that have chosen nothing yet, and the unit.                  *)

LEMMA OthersOutside ==
  ASSUME NEW a \in {Decide("statement"), Decide("primary"), Decide("operand"), Decide("infix"),
                    Decide("postfix"), Decide("unit"), Parse("primary", "whole"),
                    Parse("statement", "statements")},
         NEW list \in CommaLists
  PROVE  ~OfList(a, list)
  BY StepsOutside, CommaListNames

LEMMA NothingChosen ==
  ASSUME NEW node, node.kind = "none", NodeFormed(node), NEW todo, NotYetChosen("none", todo)
  PROVE  Form(node, todo) /\ Members(node) = << >>
  <1>1. "none" \in DOMAIN Written /\ Len(Written["none"]) = 0
    BY WrittenOf, WrittenKinds
  <1>2. Members(node) = << >>
    BY NoMembers DEF NodeFormed
  <1>3. /\ Sits("none", Decide("statement"), 1, 0) /\ Sits("none", Decide("primary"), 1, 0)
        /\ Sits("none", Decide("operand"), 1, 0)
    <2>1. ASSUME NEW what \in {"statement", "primary", "operand"}
          PROVE  Sits("none", Decide(what), 1, 0)
      <3>1. /\ Decide(what).do = "decide" /\ Decide(what).what = what /\ what \notin DOMAIN Choice
        BY StepsAre, ChoicesOf
      <3> QED
        BY <1>1, <3>1 DEF Sits, Fits, FirstPlace, LastPlace
    <2> QED
      BY <2>1
  <1>4. Sits("none", Decide("postfix"), 1, 0) /\ Sits("none", Decide("infix"), 1, 0)
    <2>1. Len(Written["none"]) = 0 /\ 1 = 0 + 1
      BY <1>1
    <2> QED
      BY <2>1, OperatorsSit
  <1>5. Sits("none", Parse("primary", "whole"), 1, 0)
    BY <1>1, StepsAre, FunctionsAre, AnyLevelIs DEF Sits, Fits, FirstPlace, LastPlace
  <1>6. /\ IsASequence(todo)
        /\ \A i \in 1..Len(todo) :
             /\ Sits("none", todo[i], 1, 0)
             /\ todo[i] \in {Decide("statement"), Decide("primary"), Decide("operand"), Decide("infix"),
                             Decide("postfix"), Parse("primary", "whole")}
             /\ todo[i] = Decide("infix") => i = Len(todo)
             /\ todo[i] = Decide("postfix") => i = Len(todo) - 1 /\ todo[i + 1] = Decide("infix")
        /\ todo # << >>
    <2>1. CASE todo = <<Decide("statement")>>
      BY <2>1, <1>3, OneStep, StepsDiffer
    <2>2. CASE todo = <<Decide("primary")>>
      BY <2>2, <1>3, OneStep, StepsDiffer
    <2>3. CASE todo = <<Decide("operand"), Decide("infix")>>
      BY <2>3, <1>3, <1>4, TwoSteps, StepsDiffer
    <2>4. CASE todo = <<Parse("primary", "whole"), Decide("postfix"), Decide("infix")>>
      BY <2>4, <1>4, <1>5, ThreeSteps, StepsDiffer
    <2> QED
      BY <2>1, <2>2, <2>3, <2>4 DEF NotYetChosen
  <1>7. StepsInTurn("none", todo)
    BY <1>6 DEF StepsInTurn, Sits
  <1>8. NextIsBlank(node, todo)
    BY <1>1 DEF NextIsBlank, Blank
  <1>9. UnitGoesOn("none", todo) /\ Worded(node, todo)
    BY DEF UnitGoesOn, Worded
  <1>10. OperatorsLast(todo)
    BY <1>6 DEF OperatorsLast
  <1>11. TailRead(node, todo)
    <2>1. \A i \in 1..Len(todo) : todo[i] # Decide("tail")
      <3>1. /\ Decide("statement") # Decide("tail") /\ Decide("primary") # Decide("tail")
            /\ Decide("operand") # Decide("tail") /\ Decide("infix") # Decide("tail")
            /\ Decide("postfix") # Decide("tail") /\ Parse("primary", "whole") # Decide("tail")
        BY StepsDiffer
      <3> QED
        BY <1>6, <3>1
    <2> QED
      BY <2>1 DEF TailRead
  <1>12. TurnsTaken(node, todo)
    BY <1>6, OthersOutside DEF TurnsTaken, TakesTurns, Settled, NoneOf
  <1> QED
    BY <1>2, <1>7, <1>8, <1>9, <1>10, <1>11, <1>12 DEF Form

LEMMA NothingYet == NodeFormed([kind |-> "none"])
  <1>1. "none" \in DOMAIN Written
    BY WrittenKinds
  <1>2. \A m \in Lists : ~Belongs("none", m)
    BY WrittenOf DEF Belongs
  <1>3. Fresh([kind |-> "none"])
    BY <1>1, <1>2 DEF Fresh, Lists
  <1> QED
    BY <1>3, FreshNode

LEMMA UnitFormed ==
  ASSUME NEW node, node.kind = "unit", NodeFormed(node), NEW todo, UnitGoesOn("unit", todo)
  PROVE  Form(node, todo)
  <1>1. "unit" \in DOMAIN Written /\ Len(Written["unit"]) = 1
        /\ Belongs("unit", "statements") /\ Position("unit", "statements") = 1
    BY UnitPlaces
  <1>2. Sits("unit", Decide("unit"), 2, 1)
    BY ChoicesAre
  <1>3. Sits("unit", Parse("statement", "statements"), 2, 1)
    <2>1. Sits("unit", Parse("statement", "statements"), 1 + 1, 1)
      BY <1>1, ListSits, StepsAre, FunctionsAre, AnyLevelIs
    <2> QED
      BY <2>1
  <1>6. /\ IsASequence(todo)
        /\ \A i \in 1..Len(todo) :
             /\ Sits("unit", todo[i], 2, 1)
             /\ todo[i] \in {Decide("unit"), Parse("statement", "statements")}
        /\ todo # << >>
    <2>1. CASE todo = <<Decide("unit")>>
      BY <2>1, <1>2, OneStep
    <2>2. CASE todo = <<Parse("statement", "statements"), Decide("unit")>>
      BY <2>2, <1>2, <1>3, TwoSteps
    <2> QED
      BY <2>1, <2>2 DEF UnitGoesOn
  <1>7. StepsInTurn("unit", todo)
    BY <1>6 DEF StepsInTurn, Sits
  <1>8. NextIsBlank(node, todo)
    <2>1. FirstPlace("unit", todo[1]) = 2
      BY <1>6, TailSteps DEF Sits
    <2> QED
      BY <2>1, <1>1 DEF NextIsBlank, Blank
  <1>9. NotYetChosen("unit", todo) /\ Worded(node, todo)
    BY DEF NotYetChosen, Worded
  <1>10. /\ Decide("unit") \notin {Decide("infix"), Decide("postfix"), Decide("tail")}
         /\ Parse("statement", "statements") \notin {Decide("infix"), Decide("postfix"), Decide("tail")}
    BY StepsDiffer
  <1>11. OperatorsLast(todo) /\ TailRead(node, todo)
    <2>1. \A i \in 1..Len(todo) : todo[i] \notin {Decide("infix"), Decide("postfix"), Decide("tail")}
      BY <1>6, <1>10
    <2> QED
      BY <2>1 DEF OperatorsLast, TailRead
  <1>12. TurnsTaken(node, todo)
    BY <1>6, OthersOutside DEF TurnsTaken, TakesTurns, Settled, NoneOf
  <1> QED
    BY <1>7, <1>8, <1>9, <1>10, <1>11, <1>12 DEF Form

LEMMA UnitBegins ==
  /\ Form([kind |-> "unit", statements |-> << >>], <<Decide("unit")>>)
  /\ Members([kind |-> "unit", statements |-> << >>]) = << >>
  <1> DEFINE node == [kind |-> "unit", statements |-> << >>]
  <1>1. "unit" \in DOMAIN Written /\ node.kind = "unit"
    BY WrittenKinds
  <1>2. \A m \in Lists : Belongs("unit", m) <=> m \in DOMAIN node
    BY WrittenOf DEF Belongs, ItemsOf, Lists
  <1>3. Fresh(node)
    BY <1>1, <1>2 DEF Fresh, Lists
  <1> HIDE DEF node
  <1>4. NodeFormed(node) /\ Members(node) = << >>
    BY <1>3, FreshNode
  <1>5. UnitGoesOn("unit", <<Decide("unit")>>)
    BY DEF UnitGoesOn
  <1>6. Form(node, <<Decide("unit")>>)
    BY <1>1, <1>4, <1>5, UnitFormed
  <1> QED
    BY <1>4, <1>6 DEF node

----------------------------------------------------------------------------
(* What a step of an activation does to the lexemes in its node.              *)

SameText(new, old) == \A ls : ReadsAs(old, ls) => ReadsAs(new, ls)
OneMore(new, old, v) == \A ls : ReadsAs(old, ls) => ReadsAs(new, Join(ls, <<v>>))

(* The activation goes on with next and rest: the same lexemes, or one more.  *)
Keeps(node, next, rest) ==
  Form(next, rest) /\ (next.kind = "unit" <=> node.kind = "unit") /\ SameText(Members(next), Members(node))
Gains(node, next, rest, v) ==
  Form(next, rest) /\ (next.kind = "unit" <=> node.kind = "unit") /\ OneMore(Members(next), Members(node), v)

LEMMA FormText ==
  ASSUME NEW node, NEW todo, Form(node, todo)
  PROVE  AllFinished(Members(node)) /\ IsASequence(Members(node))
  <1>1. AllFinished(Members(node))
    BY DEF Form, NodeFormed
  <1> QED
    BY <1>1, AllFinishedSound DEF AllFinished, AllSound

LEMMA OneMoreJoined ==
  ASSUME NEW old, AllFinished(old), NEW v, v.kind = "lexeme"
  PROVE  OneMore(Join(old, <<v>>), old, v)
  <1>1. ReadsAs(<<v>>, <<v>>)
    BY ReadsOfLeaf
  <1>2. Finished(v)
    BY FinishedLeaf
  <1>3. AllFinished(<<v>>)
    BY <1>2, FinishedOne
  <1> QED
    BY <1>1, <1>3, ReadsJoined DEF OneMore

LEMMA NothingToJoin ==
  ASSUME NEW todo, IsASequence(todo), todo # << >>
  PROVE  Join(<< >>, Tail(todo)) = Tail(todo)
  <1>1. IsASequence(Tail(todo))
    BY TailSteps
  <1> QED
    BY <1>1, JoinEmpty

(* expect and accept. *)
LEMMA GainsMember ==
  ASSUME NEW node, NEW todo, Form(node, todo), todo # << >>, todo[1].do \in {"expect", "accept"},
         NEW v, v.kind = "lexeme"
  PROVE  Gains(node, Put(node, todo[1].member, v), Join(<< >>, Tail(todo)), v)
  <1>1. Finished(v)
    BY FinishedLeaf
  <1>2. todo[1].member # "whole"
    <2>1. Fits(node.kind, todo[1]) /\ node.kind \in DOMAIN Written
      BY FirstFits
    <2> QED
      BY <2>1, PositionOf DEF Fits
  <1>3. /\ Form(Put(node, todo[1].member, v), Tail(todo))
        /\ Members(Put(node, todo[1].member, v)) = Join(Members(node), <<v>>)
        /\ Put(node, todo[1].member, v).kind = node.kind
    BY <1>1, <1>2, FormReads
  <1>4. OneMore(Join(Members(node), <<v>>), Members(node), v)
    BY FormText, OneMoreJoined
  <1>5. Join(<< >>, Tail(todo)) = Tail(todo)
    BY FirstFits, NothingToJoin
  <1> QED
    BY <1>3, <1>4, <1>5 DEF Gains

LEMMA KeepsOn ==
  ASSUME NEW node, NEW rest, Form(node, rest)
  PROVE  Keeps(node, node, rest)
  BY DEF Keeps, SameText

(* Nothing is added. *)
LEMMA KeepsSkipping ==
  ASSUME NEW node, NEW todo, Form(node, todo), todo # << >>,
         \/ todo[1].do = "accept"
         \/ todo[1].do = "decide" /\ node.kind \notin {"none", "unit"}
  PROVE  Keeps(node, node, Join(<< >>, Tail(todo)))
  <1>1. node.kind \notin {"none", "unit"}
    <2>1. Fits(node.kind, todo[1]) /\ node.kind \in DOMAIN Written
      BY FirstFits
    <2>2. ASSUME todo[1].do = "accept"
          PROVE  Belongs(node.kind, todo[1].member) /\ todo[1].member \notin Lists
      BY <2>1, <2>2 DEF Fits
    <2>3. \A m : ~Belongs("none", m)
      BY WrittenOf DEF Belongs
    <2>4. \A m : Belongs("unit", m) => m \in Lists
      BY WrittenOf DEF Belongs, ItemsOf, Lists
    <2> QED
      BY <2>2, <2>3, <2>4
  <1>2. todo[1].do \in {"accept", "decide"}
    OBVIOUS
  <1>3. Form(node, Tail(todo)) /\ Join(<< >>, Tail(todo)) = Tail(todo)
    BY <1>1, <1>2, FormSkips
  <1> QED
    BY <1>3, KeepsOn

(* Steps are added that are about no list with commas. *)
LEMMA KeepsAdding ==
  ASSUME NEW node, NEW todo, Form(node, todo), todo # << >>, node.kind \notin {"none", "unit"},
         NEW what, todo[1] = Decide(what),
         what \notin {"argument", "argument_comma", "parameter", "parameter_comma"},
         NEW steps, Within(node.kind, todo[1], steps),
         \A i \in 1..Len(steps) :
           steps[i] = Decide("tail") => i = 2 /\ steps[1].do = "parse" /\ steps[1].member = "tail",
         \A list \in CommaLists : NoneOf(steps, list)
  PROVE  Keeps(node, node, Join(steps, Tail(todo)))
  <1>1. todo[1].do \in {"accept", "decide"}
    BY DecisionIs
  <1>2. ASSUME NEW list \in CommaLists
        PROVE  TakesTurns(node, Join(steps, Tail(todo)), list)
    <2>1. ~OfList(todo[1], list)
      BY StepsOutside, CommaListNames
    <2>2. IsASequence(steps)
      BY DEF Within, UpTo
    <2> QED
      BY <2>1, <2>2, TurnsKept
  <1>3. Form(node, Join(steps, Tail(todo)))
    BY <1>1, <1>2, FormGoesOn
  <1> QED
    BY <1>3, KeepsOn

LEMMA WithinOne ==
  ASSUME NEW kind, NEW step, NEW a \in Int, NEW b \in Int, Sits(kind, step, a, b),
         NEW s, NEW a1 \in Int, NEW b1 \in Int, Sits(kind, s, a1, b1), a1 >= a, b1 <= b,
         s \notin {Decide("infix"), Decide("postfix")}
  PROVE  Within(kind, step, <<s>>)
  BY OneStep DEF UpTo, Within, Sits

LEMMA WithinTwo ==
  ASSUME NEW kind, NEW step, NEW a \in Int, NEW b \in Int, Sits(kind, step, a, b),
         NEW s, NEW a1 \in Int, NEW b1 \in Int, Sits(kind, s, a1, b1), a1 >= a, b1 <= b,
         s \notin {Decide("infix"), Decide("postfix")},
         NEW t, NEW a2 \in Int, NEW b2 \in Int, Sits(kind, t, a2, b2), a2 >= a, b2 <= b,
         t \notin {Decide("infix"), Decide("postfix")}, b1 < a2
  PROVE  Within(kind, step, <<s, t>>)
  BY TwoSteps DEF UpTo, Within, Sits

LEMMA WithinThree ==
  ASSUME NEW kind, NEW step, NEW a \in Int, NEW b \in Int, Sits(kind, step, a, b),
         NEW s, NEW a1 \in Int, NEW b1 \in Int, Sits(kind, s, a1, b1), a1 >= a, b1 <= b,
         s \notin {Decide("infix"), Decide("postfix")},
         NEW t, NEW a2 \in Int, NEW b2 \in Int, Sits(kind, t, a2, b2), a2 >= a, b2 <= b,
         t \notin {Decide("infix"), Decide("postfix")}, b1 < a2,
         NEW u, NEW a3 \in Int, NEW b3 \in Int, Sits(kind, u, a3, b3), a3 >= a, b3 <= b,
         u \notin {Decide("infix"), Decide("postfix")}, b2 < a3, b1 < a3
  PROVE  Within(kind, step, <<s, t, u>>)
  BY ThreeSteps DEF UpTo, Within, Sits

----------------------------------------------------------------------------
(* The decisions that add steps: one lemma for each.                          *)

LEMMA StepsNoOperators ==
  ASSUME NEW a, NEW m
  PROVE  /\ Expect(a, m) \notin {Decide("infix"), Decide("postfix")}
         /\ Parse(a, m) \notin {Decide("infix"), Decide("postfix")}
  BY StepsDiffer

LEMMA OutsideOne ==
  ASSUME NEW s, \A list \in CommaLists : ~OfList(s, list), s # Decide("tail")
  PROVE  /\ \A list \in CommaLists : NoneOf(<<s>>, list)
         /\ \A i \in 1..Len(<<s>>) :
              <<s>>[i] = Decide("tail") => i = 2 /\ <<s>>[1].do = "parse" /\ <<s>>[1].member = "tail"
  BY OneStep DEF NoneOf

LEMMA OutsideTwo ==
  ASSUME NEW s, NEW t, \A list \in CommaLists : ~OfList(s, list) /\ ~OfList(t, list),
         s # Decide("tail"), t = Decide("tail") => s.do = "parse" /\ s.member = "tail"
  PROVE  /\ \A list \in CommaLists : NoneOf(<<s, t>>, list)
         /\ \A i \in 1..Len(<<s, t>>) :
              <<s, t>>[i] = Decide("tail") =>
                i = 2 /\ <<s, t>>[1].do = "parse" /\ <<s, t>>[1].member = "tail"
  BY TwoSteps DEF NoneOf

LEMMA OutsideThree ==
  ASSUME NEW s, NEW t, NEW u, \A list \in CommaLists : ~OfList(s, list) /\ ~OfList(t, list) /\ ~OfList(u, list),
         s # Decide("tail"), t # Decide("tail"), u # Decide("tail")
  PROVE  /\ \A list \in CommaLists : NoneOf(<<s, t, u>>, list)
         /\ \A i \in 1..Len(<<s, t, u>>) :
              <<s, t, u>>[i] = Decide("tail") =>
                i = 2 /\ <<s, t, u>>[1].do = "parse" /\ <<s, t, u>>[1].member = "tail"
  BY ThreeSteps DEF NoneOf

LEMMA KeepsStatement ==
  ASSUME NEW node, NEW todo, Form(node, todo), todo # << >>, todo[1] = Decide("item"),
         NEW what \in {"let", "return", "while"}
  PROVE  Keeps(node, node, Join(<<Parse(what, "statements"), Decide("item")>>, Tail(todo)))
  <1> DEFINE s == Parse(what, "statements")  t == Decide("item")
  <1>1. node.kind = "block"
    BY AtChoice, ChoicesOf DEF Choice
  <1>2. Sits("block", t, 3, 4)
    BY ChoicesAre
  <1>3. Sits("block", s, 3, 2)
    <2>1. Sits("block", s, 2 + 1, 2)
      BY BlockPlaces, ListSits, StepsAre, FunctionsAre, AnyLevelIs
    <2> QED
      BY <2>1
  <1>4. s \notin {Decide("infix"), Decide("postfix")} /\ t \notin {Decide("infix"), Decide("postfix")}
    BY StepsDiffer
  <1>5. Within("block", todo[1], <<s, t>>)
    BY <1>2, <1>3, <1>4, WithinTwo
  <1>6. \A list \in CommaLists : ~OfList(s, list) /\ ~OfList(t, list)
    BY StepsOutside, CommaListNames
  <1>7. s # Decide("tail") /\ t # Decide("tail")
    BY StepsDiffer
  <1>8. /\ \A list \in CommaLists : NoneOf(<<s, t>>, list)
        /\ \A i \in 1..Len(<<s, t>>) :
             <<s, t>>[i] = Decide("tail") =>
               i = 2 /\ <<s, t>>[1].do = "parse" /\ <<s, t>>[1].member = "tail"
    BY <1>6, <1>7, OutsideTwo
  <1> QED
    BY <1>1, <1>5, <1>8, KeepsAdding

LEMMA KeepsTailExpression ==
  ASSUME NEW node, NEW todo, Form(node, todo), todo # << >>, todo[1] = Decide("item")
  PROVE  Keeps(node, node, Join(<<Parse("expression", "tail"), Decide("tail")>>, Tail(todo)))
  <1> DEFINE s == Parse("expression", "tail")  t == Decide("tail")
  <1>1. node.kind = "block"
    BY AtChoice, ChoicesOf DEF Choice
  <1>2. Sits("block", Decide("item"), 3, 4) /\ Sits("block", t, 4, 4)
    BY ChoicesAre
  <1>3. Sits("block", s, 3, 3)
    BY ReadingSits, BlockPlaces, StepsAre, FunctionsAre, AnyLevelIs DEF Lists
  <1>4. s \notin {Decide("infix"), Decide("postfix")} /\ t \notin {Decide("infix"), Decide("postfix")}
    BY StepsDiffer
  <1>5. Within("block", todo[1], <<s, t>>)
    BY <1>2, <1>3, <1>4, WithinTwo
  <1>6. \A list \in CommaLists : ~OfList(s, list) /\ ~OfList(t, list)
    BY StepsOutside, CommaListNames
  <1>7. s # Decide("tail") /\ s.do = "parse" /\ s.member = "tail"
    BY StepsDiffer, StepsAre
  <1>8. /\ \A list \in CommaLists : NoneOf(<<s, t>>, list)
        /\ \A i \in 1..Len(<<s, t>>) :
             <<s, t>>[i] = Decide("tail") =>
               i = 2 /\ <<s, t>>[1].do = "parse" /\ <<s, t>>[1].member = "tail"
    BY <1>6, <1>7, OutsideTwo
  <1> QED
    BY <1>1, <1>5, <1>8, KeepsAdding

LEMMA KeepsEndOfBlock ==
  ASSUME NEW node, NEW todo, Form(node, todo), todo # << >>,
         NEW what \in {"item", "tail"}, todo[1] = Decide(what), NEW a
  PROVE  Keeps(node, node, Join(<<Expect(a, "rbrace")>>, Tail(todo)))
  <1> DEFINE s == Expect(a, "rbrace")
  <1>1. node.kind = "block"
    BY AtChoice, ChoicesOf DEF Choice
  <1>2. Sits("block", Decide("item"), 3, 4) /\ Sits("block", Decide("tail"), 4, 4)
    BY ChoicesAre
  <1>3. Sits("block", s, 4, 4)
    BY ReadingSits, BlockPlaces, StepsAre DEF Lists
  <1>4. s \notin {Decide("infix"), Decide("postfix")}
    BY StepsDiffer
  <1>5. Within("block", todo[1], <<s>>)
    BY <1>2, <1>3, <1>4, WithinOne
  <1>6. \A list \in CommaLists : ~OfList(s, list)
    BY StepsOutside
  <1>7. s # Decide("tail")
    BY StepsDiffer
  <1>8. /\ \A list \in CommaLists : NoneOf(<<s>>, list)
        /\ \A i \in 1..Len(<<s>>) :
             <<s>>[i] = Decide("tail") =>
               i = 2 /\ <<s>>[1].do = "parse" /\ <<s>>[1].member = "tail"
    BY <1>6, <1>7, OutsideOne
  <1> QED
    BY <1>1, <1>5, <1>8, KeepsAdding

LEMMA KeepsSize ==
  ASSUME NEW node, NEW todo, Form(node, todo), todo # << >>, todo[1] = Decide("size")
  PROVE  Keeps(node, node, Join(<<Parse("expression", "size")>>, Tail(todo)))
  <1> DEFINE s == Parse("expression", "size")
  <1>1. node.kind = "prefix_bracket"
    BY AtChoice, ChoicesOf DEF Choice
  <1>2. Sits("prefix_bracket", Decide("size"), 2, 2)
    BY ChoicesAre
  <1>3. Sits("prefix_bracket", s, 2, 2)
    BY ReadingSits, PrefixBracketPlaces, StepsAre, FunctionsAre, AnyLevelIs DEF Lists
  <1>4. s \notin {Decide("infix"), Decide("postfix")}
    BY StepsDiffer
  <1>5. Within("prefix_bracket", todo[1], <<s>>)
    BY <1>2, <1>3, <1>4, WithinOne
  <1>6. \A list \in CommaLists : ~OfList(s, list)
    BY StepsOutside, CommaListNames
  <1>7. s # Decide("tail")
    BY StepsDiffer
  <1>8. /\ \A list \in CommaLists : NoneOf(<<s>>, list)
        /\ \A i \in 1..Len(<<s>>) :
             <<s>>[i] = Decide("tail") =>
               i = 2 /\ <<s>>[1].do = "parse" /\ <<s>>[1].member = "tail"
    BY <1>6, <1>7, OutsideOne
  <1> QED
    BY <1>1, <1>5, <1>8, KeepsAdding

LEMMA KeepsElse ==
  ASSUME NEW node, NEW todo, Form(node, todo), todo # << >>, todo[1] = Decide("else")
  PROVE  Keeps(node, node, Join(<<Parse("else", "elses"), Decide("else")>>, Tail(todo)))
  <1> DEFINE s == Parse("else", "elses")  t == Decide("else")
  <1>1. node.kind = "if"
    BY AtChoice, ChoicesOf DEF Choice
  <1>2. Sits("if", t, 5, 4)
    BY ChoicesAre
  <1>3. Sits("if", s, 5, 4)
    <2>1. Sits("if", s, 4 + 1, 4)
      BY IfPlaces, ListSits, StepsAre, FunctionsAre, AnyLevelIs
    <2> QED
      BY <2>1
  <1>4. s \notin {Decide("infix"), Decide("postfix")} /\ t \notin {Decide("infix"), Decide("postfix")}
    BY StepsDiffer
  <1>5. Within("if", todo[1], <<s, t>>)
    BY <1>2, <1>3, <1>4, WithinTwo
  <1>6. \A list \in CommaLists : ~OfList(s, list) /\ ~OfList(t, list)
    BY StepsOutside, CommaListNames
  <1>7. s # Decide("tail") /\ t # Decide("tail")
    BY StepsDiffer
  <1>8. /\ \A list \in CommaLists : NoneOf(<<s, t>>, list)
        /\ \A i \in 1..Len(<<s, t>>) :
             <<s, t>>[i] = Decide("tail") =>
               i = 2 /\ <<s, t>>[1].do = "parse" /\ <<s, t>>[1].member = "tail"
    BY <1>6, <1>7, OutsideTwo
  <1> QED
    BY <1>1, <1>5, <1>8, KeepsAdding

LEMMA ElseIfSits ==
  /\ Sits("else", Decide("else_if"), 2, 4)
  /\ Sits("else", Expect("kw_if", "kw_if"), 2, 2)
  /\ Sits("else", Parse("expression", "condition"), 3, 3)
  /\ Sits("else", Parse("block", "body"), 4, 4)
  <1>1. Sits("else", Decide("else_if"), 2, 4)
    BY ChoicesAre
  <1>2. Sits("else", Expect("kw_if", "kw_if"), 2, 2)
    BY ReadingSits, ElsePlaces, StepsAre DEF Lists
  <1>3. Sits("else", Parse("expression", "condition"), 3, 3)
    BY ReadingSits, ElsePlaces, StepsAre, FunctionsAre, AnyLevelIs DEF Lists
  <1>4. Sits("else", Parse("block", "body"), 4, 4)
    BY ReadingSits, ElsePlaces, StepsAre, FunctionsAre, AnyLevelIs DEF Lists
  <1> QED
    BY <1>1, <1>2, <1>3, <1>4

LEMMA KeepsElseIf ==
  ASSUME NEW node, NEW todo, Form(node, todo), todo # << >>, todo[1] = Decide("else_if")
  PROVE  /\ Keeps(node, node, Join(<<Parse("block", "body")>>, Tail(todo)))
         /\ Keeps(node, node, Join(<<Expect("kw_if", "kw_if"), Parse("expression", "condition"),
                                     Parse("block", "body")>>, Tail(todo)))
  <1> DEFINE s == Expect("kw_if", "kw_if")  t == Parse("expression", "condition")
             u == Parse("block", "body")
  <1>1. node.kind = "else"
    BY AtChoice, ChoicesOf DEF Choice
  <1>2. /\ Sits("else", todo[1], 2, 4) /\ Sits("else", s, 2, 2) /\ Sits("else", t, 3, 3)
        /\ Sits("else", u, 4, 4)
    BY ElseIfSits
  <1>4. /\ s \notin {Decide("infix"), Decide("postfix")} /\ t \notin {Decide("infix"), Decide("postfix")}
        /\ u \notin {Decide("infix"), Decide("postfix")}
    <2>1. \A a, m, b : Expect(a, m) # Decide(b) /\ Parse(a, m) # Decide(b)
      BY StepsDiffer
    <2> QED
      BY <2>1, Zenon DEF s, t, u
  <1>6. \A list \in CommaLists : ~OfList(s, list) /\ ~OfList(t, list) /\ ~OfList(u, list)
    BY StepsOutside, CommaListNames
  <1>7. s # Decide("tail") /\ t # Decide("tail") /\ u # Decide("tail")
    BY StepsDiffer
  <1> HIDE DEF s, t, u
  <1>5. Within("else", todo[1], <<u>>) /\ Within("else", todo[1], <<s, t, u>>)
    <2>1. Within("else", todo[1], <<u>>)
      BY <1>2, <1>4, WithinOne
    <2>2. Within("else", todo[1], <<s, t, u>>)
      BY <1>2, <1>4, ThreeSteps DEF Within, UpTo, Sits
    <2> QED
      BY <2>1, <2>2
  <1>8. /\ \A list \in CommaLists : NoneOf(<<u>>, list)
        /\ \A i \in 1..Len(<<u>>) :
             <<u>>[i] = Decide("tail") =>
               i = 2 /\ <<u>>[1].do = "parse" /\ <<u>>[1].member = "tail"
    BY <1>6, <1>7, OutsideOne
  <1>9. /\ \A list \in CommaLists : NoneOf(<<s, t, u>>, list)
        /\ \A i \in 1..Len(<<s, t, u>>) :
             <<s, t, u>>[i] = Decide("tail") =>
               i = 2 /\ <<s, t, u>>[1].do = "parse" /\ <<s, t, u>>[1].member = "tail"
    BY <1>6, <1>7, OutsideThree
  <1>10. Keeps(node, node, Join(<<u>>, Tail(todo)))
    BY <1>1, <1>5, <1>8, KeepsAdding
  <1>11. Keeps(node, node, Join(<<s, t, u>>, Tail(todo)))
    BY <1>1, <1>5, <1>9, KeepsAdding
  <1> QED
    BY <1>10, <1>11 DEF s, t, u

(* Another item of a list with commas. *)
LEMMA ListPlaces ==
  ASSUME NEW list \in CommaLists
  PROVE  \E kind \in {"call", "fn"}, p \in 3..4, f \in 1..9 :
           /\ f = p + 1
           /\ Choice[list.item].of = kind /\ Choice[list.comma].of = kind
           /\ Sits(kind, Decide(list.item), f, p) /\ Sits(kind, Decide(list.comma), f, p)
           /\ Belongs(kind, list.items) /\ Position(kind, list.items) = p
           /\ Belongs(kind, list.commas) /\ Position(kind, list.commas) = p
  <1>1. CASE list.items = "arguments"
    <2>1. list.item = "argument" /\ list.comma = "argument_comma" /\ list.commas = "argument_commas"
      BY <1>1, CommaListNames
    <2>2. 4 = 3 + 1 /\ Choice["argument"].of = "call" /\ Choice["argument_comma"].of = "call"
      BY DEF Choice
    <2> QED
      BY <1>1, <2>1, <2>2, ChoicesAre, CallPlaces
  <1>2. CASE list.items = "parameters"
    <2>1. list.item = "parameter" /\ list.comma = "parameter_comma" /\ list.commas = "parameter_commas"
      BY <1>2, CommaListNames
    <2>2. 5 = 4 + 1 /\ Choice["parameter"].of = "fn" /\ Choice["parameter_comma"].of = "fn"
      BY DEF Choice
    <2> QED
      BY <1>2, <2>1, <2>2, ChoicesAre, FnPlaces
  <1> QED
    BY <1>1, <1>2, CommaListNames

LEMMA KeepsNextOf ==
  ASSUME NEW node, NEW todo, Form(node, todo), todo # << >>,
         NEW list \in CommaLists, todo[1] = Decide(list.item), NEW what \in DOMAIN Functions
  PROVE  Keeps(node, node, Join(<<Parse(what, list.items), Decide(list.comma)>>, Tail(todo)))
  <1> DEFINE s == Parse(what, list.items)  t == Decide(list.comma)
  <1>1. PICK kind \in {"call", "fn"}, p \in 3..4, f \in 1..9 :
           /\ f = p + 1
           /\ Choice[list.item].of = kind /\ Choice[list.comma].of = kind
           /\ Sits(kind, Decide(list.item), f, p) /\ Sits(kind, Decide(list.comma), f, p)
           /\ Belongs(kind, list.items) /\ Position(kind, list.items) = p
    BY ListPlaces
  <1>2. node.kind = kind /\ node.kind \notin {"none", "unit"}
    BY <1>1, AtChoice, CommaListNames, ChoicesOf
  <1>3. Sits(kind, s, f, p)
    <2>1. list.items \in {"statements", "arguments", "parameters", "elses"}
      BY CommaListNames
    <2>2. Sits(kind, s, p + 1, p)
      BY <1>1, <2>1, ListSits, StepsAre, FunctionsAre, AnyLevelIs
    <2> QED
      BY <1>1, <2>2
  <1>4. s \notin {Decide("infix"), Decide("postfix")} /\ t \notin {Decide("infix"), Decide("postfix")}
    <2>1. list.comma \notin {"infix", "postfix"}
      BY CommaListNames
    <2>2. s \notin {Decide("infix"), Decide("postfix")}
      BY StepsNoOperators
    <2>3. t # Decide("infix") /\ t # Decide("postfix")
      BY <2>1, StepsDiffer
    <2> QED
      BY <2>2, <2>3
  <1>5. Within(kind, todo[1], <<s, t>>)
    BY <1>1, <1>3, <1>4, TwoSteps DEF Within, UpTo, Sits
  <1>6. s # Decide("tail") /\ t # Decide("tail")
    BY StepsDiffer, CommaListNames
  <1>7. \A i \in 1..Len(<<s, t>>) :
          <<s, t>>[i] = Decide("tail") =>
            i = 2 /\ <<s, t>>[1].do = "parse" /\ <<s, t>>[1].member = "tail"
    BY <1>6, TwoSteps
  <1>8. IsASequence(todo) /\ IsASequence(Tail(todo)) /\ IsASequence(<<s, t>>)
    BY FirstFits, TailSteps, TwoSteps
  <1>9. ASSUME NEW other \in CommaLists
        PROVE  TakesTurns(node, Join(<<s, t>>, Tail(todo)), other)
    <2>1. CASE other = list
      <3>1. TakesTurns(node, todo, list)
        BY DEF Form, TurnsTaken
      <3>2. NoneOf(Tail(todo), list) /\ Even(node, list)
        BY <3>1, <1>8, TurnsNext
      <3>3. Fills(s, list.items)
        BY StepsAre DEF Fills
      <3> QED
        BY <2>1, <3>2, <3>3, <1>8, TurnsBegin
    <2>2. CASE other # list
      <3>1. other.item # list.item /\ other.items # list.items /\ other.comma # list.comma
            /\ other.item # list.comma /\ other.comma # list.item
        BY <2>2 DEF CommaLists
      <3>2. ~OfList(todo[1], other) /\ ~OfList(s, other) /\ ~OfList(t, other)
        BY <3>1, StepsOutside
      <3>3. NoneOf(<<s, t>>, other)
        BY <3>2, TwoSteps DEF NoneOf
      <3> QED
        BY <3>2, <3>3, <1>8, TurnsKept
    <2> QED
      BY <2>1, <2>2
  <1>10. todo[1].do \in {"accept", "decide"}
    BY DecisionIs
  <1> HIDE DEF s, t
  <1>11. Form(node, Join(<<s, t>>, Tail(todo)))
    BY <1>1, <1>2, <1>5, <1>7, <1>9, <1>10, FormGoesOn
  <1>12. Keeps(node, node, Join(<<s, t>>, Tail(todo)))
    BY <1>11, KeepsOn
  <1> QED
    BY <1>12 DEF s, t

----------------------------------------------------------------------------
(* The decisions that read, or put a node in another.                         *)

LEMMA FinishedLast ==
  ASSUME NEW s, IsASequence(s), NEW v, AllFinished(Join(s, <<v>>))
  PROVE  AllFinished(s) /\ Finished(v)
  <1>1. /\ IsASequence(Join(s, <<v>>)) /\ Len(s) \in Nat
        /\ Len(Join(s, <<v>>)) = Len(s) + 1
        /\ \A i \in 1..Len(s) : Join(s, <<v>>)[i] = s[i]
        /\ Join(s, <<v>>)[Len(s) + 1] = v
    BY JoinOne
  <1>2. \A i \in 1..Len(Join(s, <<v>>)) : Finished(Join(s, <<v>>)[i])
    BY DEF AllFinished
  <1>3. \A i \in 1..Len(s) : i \in 1..Len(Join(s, <<v>>)) /\ Len(s) + 1 \in 1..Len(Join(s, <<v>>))
    BY <1>1
  <1>4. \A i \in 1..Len(s) : Finished(s[i])
    BY <1>1, <1>2, <1>3
  <1>5. Len(s) + 1 \in 1..Len(Join(s, <<v>>))
    BY <1>1
  <1>6. Finished(v)
    BY <1>1, <1>2, <1>5
  <1> QED
    BY <1>4, <1>6 DEF AllFinished

LEMMA SomeLexeme ==
  ASSUME NEW s, IsASequence(s), NEW v
  PROVE  HasLexeme(Join(s, <<v>>)) <=> HasLexeme(s) \/ v.kind = "lexeme"
  <1>1. /\ Len(s) \in Nat
        /\ Len(Join(s, <<v>>)) = Len(s) + 1
        /\ \A i \in 1..Len(s) : Join(s, <<v>>)[i] = s[i]
        /\ Join(s, <<v>>)[Len(s) + 1] = v
    BY JoinOne
  <1>2. \A i \in 1..Len(Join(s, <<v>>)) : i \in 1..Len(s) \/ i = Len(s) + 1
    BY <1>1
  <1>3. HasLexeme(Join(s, <<v>>)) => HasLexeme(s) \/ v.kind = "lexeme"
    BY <1>1, <1>2 DEF HasLexeme
  <1> QED
    BY <1>3, LexemeJoined

(* What a sequence with one step before the rest of another is made of.       *)
LEMMA OneBefore ==
  ASSUME NEW d, NEW todo, IsASequence(todo), todo # << >>
  PROVE  /\ IsASequence(Join(<<d>>, Tail(todo))) /\ Join(<<d>>, Tail(todo)) # << >>
         /\ Join(<<d>>, Tail(todo))[1] = d
         /\ \A i \in 1..Len(Join(<<d>>, Tail(todo))) :
              \/ i = 1
              \/ i \in 1..Len(todo) /\ i > 1 /\ Join(<<d>>, Tail(todo))[i] = todo[i]
         /\ \A i \in 1..Len(todo) : i > 1 =>
              /\ i \in 1..Len(Join(<<d>>, Tail(todo)))
              /\ Join(<<d>>, Tail(todo))[i] = todo[i]
  <1> DEFINE s == <<d>>  t == Tail(todo)  u == Join(s, t)
  <1>1. IsASequence(s) /\ Len(s) = 1 /\ s[1] = d
    BY OneStep
  <1>2. /\ IsASequence(t) /\ Len(todo) \in Nat /\ Len(todo) >= 1 /\ Len(t) = Len(todo) - 1
        /\ \A i \in 1..Len(t) : i + 1 \in 1..Len(todo) /\ t[i] = todo[i + 1]
    BY TailSteps
  <1> HIDE DEF s, t
  <1>3. IsASequence(s) /\ IsASequence(t)
    BY <1>1, <1>2
  <1>4. /\ IsASequence(u) /\ Len(s) \in Nat /\ Len(t) \in Nat /\ Len(u) = Len(s) + Len(t)
        /\ \A i \in 1..Len(u) : \/ i \in 1..Len(s) /\ u[i] = s[i]
                                \/ i - Len(s) \in 1..Len(t) /\ i > Len(s) /\ u[i] = t[i - Len(s)]
    BY <1>3, JoinedSteps
  <1> HIDE DEF u
  <1>5. 1 \in 1..Len(u) /\ u[1] = d
    BY <1>1, <1>4
  <1>6. u # << >>
    BY <1>5, EmptySequence
  <1>7. ASSUME NEW i \in 1..Len(u), i # 1
        PROVE  i \in 1..Len(todo) /\ i > 1 /\ u[i] = todo[i]
    <2> DEFINE k == i - 1
    <2>1. k \in 1..Len(t) /\ u[i] = t[k]
      BY <1>7, <1>1, <1>4
    <2>2. k + 1 = i
      OBVIOUS
    <2> HIDE DEF k
    <2> QED
      BY <1>7, <2>1, <2>2, <1>2
  <1>8. ASSUME NEW i \in 1..Len(todo), i > 1
        PROVE  i \in 1..Len(u) /\ u[i] = todo[i]
    <2>1. i \in 1..Len(u)
      BY <1>8, <1>1, <1>2, <1>4
    <2> QED
      BY <1>8, <2>1, <1>7
  <1> QED
    BY <1>4, <1>5, <1>6, <1>7, <1>8 DEF u, t, s

LEMMA NoTailLater ==
  ASSUME NEW node, NEW todo, Form(node, todo), todo # << >>, todo[1].do = "decide"
  PROVE  \A i \in 1..Len(todo) : i > 1 => todo[i] # Decide("tail")
  BY DEF Form, TailRead

LEMMA OddAtComma ==
  ASSUME NEW node, NEW todo, Form(node, todo), todo # << >>,
         NEW list \in CommaLists, todo[1] = Decide(list.comma)
  PROVE  Odd(node, list)
  <1>1. TakesTurns(node, todo, list) /\ 1 \in 1..Len(todo)
    BY FirstFits DEF Form, TurnsTaken
  <1>2. OfList(todo[1], list) /\ todo[1] # Decide(list.item)
    BY CommaListNames, StepsDiffer DEF OfList
  <1>3. ~Fills(todo[1], list.items)
    BY DecisionIs DEF Fills
  <1> QED
    BY <1>1, <1>2, <1>3 DEF TakesTurns, Settled, NoneOf

LEMMA GainsComma ==
  ASSUME NEW node, NEW todo, Form(node, todo), todo # << >>,
         NEW list \in CommaLists, todo[1] = Decide(list.comma), NEW v, v.kind = "lexeme"
  PROVE  /\ Gains(node, Put(node, list.commas, v), Join(<<Decide(list.item)>>, Tail(todo)), v)
         /\ Put(node, list.commas, v).kind = node.kind
         /\ Members(Put(node, list.commas, v)) = Join(Members(node), <<v>>)
         /\ Replaced(Put(node, list.commas, v), node, list.commas, Added(node, list.commas, v))
  <1> DEFINE m == list.commas  next == Put(node, m, v)  u == Join(<<Decide(list.item)>>, Tail(todo))
             w == Written[node.kind]
  <1>1. PICK kind \in {"call", "fn"}, p \in 3..4, f \in 1..9 :
           /\ f = p + 1
           /\ Choice[list.item].of = kind /\ Choice[list.comma].of = kind
           /\ Sits(kind, Decide(list.item), f, p) /\ Sits(kind, Decide(list.comma), f, p)
           /\ Belongs(kind, list.items) /\ Position(kind, list.items) = p
           /\ Belongs(kind, list.commas) /\ Position(kind, list.commas) = p
    BY ListPlaces
  <1>2. node.kind = kind /\ node.kind \notin {"none", "unit"}
    BY <1>1, AtChoice, CommaListNames, ChoicesOf
  <1>3. /\ node.kind \in DOMAIN Written /\ ListsFormed(node) /\ AllFinished(Members(node))
        /\ \A n \in Lists : Belongs(node.kind, n) => n \in DOMAIN node
    BY DEF Form, NodeFormed
  <1>4. Blank(node, f)
    BY <1>1, <1>2 DEF Form, NextIsBlank, Sits
  <1>5. Odd(node, list)
    BY OddAtComma
  <1>6. Fillable(node, m)
    <2>1. m \in {"argument_commas", "parameter_commas"} /\ m \in Lists /\ ItemsOf(m) = list.items
      BY CommaListsAre
    <2>2. m \in DOMAIN node /\ ItemsOf(m) \in DOMAIN node
      BY <1>5, <2>1 DEF Odd
    <2>3. Belongs(node.kind, m) /\ Blank(node, Position(node.kind, m) + 1)
      BY <1>1, <1>2, <1>4
    <2>4. /\ m = "argument_commas" => Len(node.arguments) = Len(node.argument_commas) + 1
          /\ m = "parameter_commas" => Len(node.parameters) = Len(node.parameter_commas) + 1
      BY <1>5, CommaListNames DEF Odd
    <2> QED
      BY <2>1, <2>2, <2>3, <2>4 DEF Fillable
  <1>7. /\ next.kind = node.kind
        /\ ListsFormed(next)
        /\ Members(next) = Join(Members(node), <<v>>)
        /\ \A q \in 1..Len(w) : q # Position(node.kind, m) => Member(next, w[q]) = Member(node, w[q])
        /\ Replaced(next, node, m, Added(node, m, v))
    BY <1>3, <1>6, PutGrows
  <1> HIDE DEF next
  <1>8. /\ IsASequence(todo) /\ 1 \in 1..Len(todo)
    BY FirstFits
  <1>9. /\ IsASequence(u) /\ u # << >> /\ u[1] = Decide(list.item)
        /\ \A i \in 1..Len(u) : i = 1 \/ (i \in 1..Len(todo) /\ i > 1 /\ u[i] = todo[i])
    BY <1>8, OneBefore
  <1>10. NodeFormed(next)
    <2>1. AllFinished(Join(Members(node), <<v>>))
      BY <1>3, FinishedLeaf, FinishedOne, AllFinishedJoined
    <2>2. \A n \in Lists : Belongs(node.kind, n) => n \in DOMAIN next
      BY <1>3, <1>7 DEF Replaced
    <2> QED
      BY <1>3, <1>7, <2>1, <2>2 DEF NodeFormed
  <1>11. Plan(node.kind, u)
    <2>1. Plan(node.kind, todo)
      BY DEF Form, Plan
    <2>2. list.item \notin {"infix", "postfix"}
      BY CommaListNames
    <2>3. Decide(list.item) \notin {Decide("infix"), Decide("postfix")}
      BY <2>2, StepsDiffer
    <2>4. UpTo(node.kind, todo[1], <<Decide(list.item)>>)
      BY <1>1, <1>2, <2>3, OneStep DEF UpTo, Sits
    <2> QED
      BY <1>2, <1>3, <2>1, <2>4, PlanExpands
  <1>12. NextIsBlank(next, u)
    <2>1. FirstPlace(node.kind, u[1]) = f
      BY <1>1, <1>2, <1>9 DEF Sits
    <2>2. ASSUME NEW q \in 1..Len(w), q >= f
          PROVE  Member(next, w[q]) = << >>
      <3>1. q # Position(node.kind, m)
        BY <2>2, <1>1, <1>2, <1>3, WrittenLength
      <3> QED
        BY <2>2, <3>1, <1>4, <1>7 DEF Blank
    <2> QED
      BY <2>1, <2>2, <1>7 DEF NextIsBlank, Blank
  <1>13. TailRead(next, u)
    <2>1. u[1] # Decide("tail")
      BY <1>9, StepsDiffer, CommaListNames
    <2>2. \A i \in 1..Len(todo) : i > 1 => todo[i] # Decide("tail")
      BY NoTailLater, DecisionIs
    <2>3. \A i \in 1..Len(u) : u[i] # Decide("tail")
      BY <2>1, <2>2, <1>9
    <2> QED
      BY <2>3 DEF TailRead
  <1>14. Worded(next, u)
    BY <1>7, FormText, SomeLexeme DEF Worded
  <1>15. ASSUME NEW other \in CommaLists
         PROVE  TakesTurns(next, u, other)
    <2>0. TakesTurns(node, todo, other)
      BY DEF Form, TurnsTaken
    <2>1. CASE other = list
      <3>1. Replaced(next, node, list.commas, Append(node[list.commas], v))
        BY <1>7, CommaListsAre DEF Added
      <3> QED
        BY <2>0, <2>1, <3>1, <1>3, <1>8, TurnsAfterComma
    <2>2. CASE other # list
      <3>1. /\ other.item # list.item /\ other.items # list.items /\ other.comma # list.comma
            /\ other.item # list.comma /\ other.comma # list.item
            /\ other.commas # list.commas /\ other.items # list.commas
        BY <2>2 DEF CommaLists
      <3>2. ~OfList(Decide(list.comma), other) /\ ~OfList(Decide(list.item), other)
        BY <3>1, StepsOutside
      <3>3. NoneOf(<<Decide(list.item)>>, other)
        BY <3>2, OneStep DEF NoneOf
      <3>4. SameLists(next, node, other)
        BY <3>1, <1>7 DEF SameLists, Replaced
      <3>5. Settled(next, Tail(todo), other) /\ IsASequence(Tail(todo))
        BY <2>0, <3>2, <3>4, <1>8, TurnsTail, TailSteps
      <3>6. Settled(next, u, other)
        BY <3>3, <3>5, OneStep, TurnsJoin
      <3> QED
        BY <3>6 DEF TakesTurns
    <2> QED
      BY <2>1, <2>2
  <1>16. Form(next, u)
    BY <1>7, <1>10, <1>11, <1>12, <1>13, <1>14, <1>15 DEF Form, Plan, TurnsTaken
  <1>17. OneMore(Members(next), Members(node), v)
    BY <1>7, FormText, OneMoreJoined
  <1>18. Gains(node, next, u, v)
    BY <1>7, <1>16, <1>17 DEF Gains
  <1> QED
    BY <1>7, <1>18 DEF next, u

(* A node inside another: the same lexemes, then more. *)
LEMMA WrappedText ==
  ASSUME NEW node, node.kind # "lexeme", NEW next, Members(next) = Join(<< >>, <<node>>)
  PROVE  SameText(Members(next), Members(node)) /\ Members(next) = <<node>>
  <1>1. Members(next) = <<node>>
    BY JoinEmpty, OneStep
  <1> QED
    BY <1>1, ReadsOfNode DEF SameText

LEMMA WrappedMore ==
  ASSUME NEW node, node.kind # "lexeme", Finished(node), NEW v, v.kind = "lexeme"
  PROVE  OneMore(Join(<<node>>, <<v>>), Members(node), v)
  <1>1. AllFinished(<<node>>)
    BY FinishedOne
  <1>2. OneMore(Join(<<node>>, <<v>>), <<node>>, v)
    BY <1>1, OneMoreJoined
  <1> QED
    BY <1>2, ReadsOfNode DEF OneMore

LEMMA FirstOfMore ==
  ASSUME NEW v
  PROVE  Join(<< >>, <<v>>) = <<v>>
  BY JoinEmpty, OneStep

(* FormReads, for a lexeme and for a node. *)
LEMMA ReadsLexeme ==
  ASSUME NEW node, NEW todo, Form(node, todo), todo # << >>, todo[1].do \in {"expect", "accept"},
         todo[1].member # "whole", NEW v, v.kind = "lexeme"
  PROVE  /\ Form(Put(node, todo[1].member, v), Tail(todo))
         /\ Members(Put(node, todo[1].member, v)) = Join(Members(node), <<v>>)
  BY FinishedLeaf, FormReads

LEMMA ReadsNode ==
  ASSUME NEW node, NEW todo, Form(node, todo), todo # << >>, todo[1].do = "parse",
         todo[1].member # "whole", NEW v, v.kind # "lexeme", Finished(v)
  PROVE  /\ Form(Put(node, todo[1].member, v), Tail(todo))
         /\ Members(Put(node, todo[1].member, v)) = Join(Members(node), <<v>>)
  BY FormReads

LEMMA CallWraps ==
  ASSUME NEW node, NEW todo, Form(node, todo), todo # << >>, todo[1] = Decide("postfix")
  PROVE  /\ Keeps(node, [kind |-> "call", callee |-> node, arguments |-> << >>, argument_commas |-> << >>],
                  Join(<<Expect("(", "lparen"), Decide("argument"), Expect(")", "rparen"),
                         Decide("postfix")>>, Tail(todo)))
         /\ Members([kind |-> "call", callee |-> node, arguments |-> << >>, argument_commas |-> << >>])
              = <<node>>
  <1> DEFINE n0 == [kind |-> "call", arguments |-> << >>, argument_commas |-> << >>]
             s == Parse("primary", "callee")
             t0 == <<s, Expect("(", "lparen"), Decide("argument"), Expect(")", "rparen"),
                     Decide("postfix"), Decide("infix")>>
             n1 == [kind |-> "call", callee |-> node, arguments |-> << >>, argument_commas |-> << >>]
             t1 == <<Expect("(", "lparen"), Decide("argument"), Expect(")", "rparen"),
                     Decide("postfix"), Decide("infix")>>
  <1>1. Form(n0, t0) /\ Members(n0) = << >>
    BY CallBegins
  <1>2. t0[1] = s /\ Tail(t0) = t1 /\ t0 # << >>
    OBVIOUS
  <1>3. n1 = Put(n0, s.member, node)
    <2>1. s.member = "callee"
      BY StepsAre
    <2>2. n1 = Put(n0, "callee", node)
      BY DEF Put, Lists
    <2> QED
      BY <2>1, <2>2
  <1>4. Tail(todo) = <<Decide("infix")>> /\ Finished(node) /\ node.kind \notin {"none", "unit", "lexeme"}
    BY AtPostfix, FinishedAtOperators
  <1>5. Join(<<Expect("(", "lparen"), Decide("argument"), Expect(")", "rparen"),
               Decide("postfix")>>, Tail(todo)) = t1
    BY <1>4, JoinedQuintuple
  <1>6. n1.kind = "call"
    OBVIOUS
  <1>7. s.do = "parse" /\ s.member \in {"callee", "operand"} /\ s.member # "whole"
    BY StepsAre
  <1> HIDE DEF n0, s, t0, n1, t1
  <1>8. Form(n1, t1) /\ Members(n1) = Join(<< >>, <<node>>)
    <2>1. t0[1].do = s.do /\ t0[1].member = s.member /\ t0 # << >>
      BY <1>2
    <2>2. Form(n0, t0)
      BY <1>1
    <2>3. /\ Form(Put(n0, t0[1].member, node), Tail(t0))
          /\ Members(Put(n0, t0[1].member, node)) = Join(Members(n0), <<node>>)
      BY <2>1, <2>2, <1>4, <1>7, ReadsNode
    <2>4. Put(n0, t0[1].member, node) = n1 /\ Tail(t0) = t1
      BY <2>1, <1>2, <1>3
    <2> QED
      BY <2>3, <2>4, <1>1
  <1>9. SameText(Members(n1), Members(node))
    BY <1>4, <1>8, WrappedText
  <1>10. Keeps(node, n1, t1)
    BY <1>4, <1>6, <1>8, <1>9 DEF Keeps
  <1>11. Keeps(node, n1, Join(<<Expect("(", "lparen"), Decide("argument"), Expect(")", "rparen"),
                                Decide("postfix")>>, Tail(todo)))
    BY <1>5, <1>10
  <1>12. Members(n1) = <<node>>
    BY <1>4, <1>8, WrappedText
  <1> QED
    BY <1>11, <1>12 DEF n1

LEMMA IndexWraps ==
  ASSUME NEW node, NEW todo, Form(node, todo), todo # << >>, todo[1] = Decide("postfix")
  PROVE  /\ Keeps(node, [kind |-> "index", operand |-> node],
                  Join(<<Expect("[", "lbracket"), Parse("expression", "index"), Expect("]", "rbracket"),
                         Decide("postfix")>>, Tail(todo)))
         /\ Members([kind |-> "index", operand |-> node]) = <<node>>
  <1> DEFINE n0 == [kind |-> "index"]
             s == Parse("primary", "operand")
             t0 == <<s, Expect("[", "lbracket"), Parse("expression", "index"), Expect("]", "rbracket"),
                     Decide("postfix"), Decide("infix")>>
             n1 == [kind |-> "index", operand |-> node]
             t1 == <<Expect("[", "lbracket"), Parse("expression", "index"), Expect("]", "rbracket"),
                     Decide("postfix"), Decide("infix")>>
  <1>1. Form(n0, t0) /\ Members(n0) = << >>
    BY IndexBegins
  <1>2. t0[1] = s /\ Tail(t0) = t1 /\ t0 # << >>
    OBVIOUS
  <1>3. n1 = Put(n0, s.member, node)
    <2>1. s.member = "operand"
      BY StepsAre
    <2>2. n1 = Put(n0, "operand", node)
      BY DEF Put, Lists
    <2> QED
      BY <2>1, <2>2
  <1>4. Tail(todo) = <<Decide("infix")>> /\ Finished(node) /\ node.kind \notin {"none", "unit", "lexeme"}
    BY AtPostfix, FinishedAtOperators
  <1>5. Join(<<Expect("[", "lbracket"), Parse("expression", "index"), Expect("]", "rbracket"),
               Decide("postfix")>>, Tail(todo)) = t1
    BY <1>4, JoinedQuintuple
  <1>6. n1.kind = "index"
    OBVIOUS
  <1>7. s.do = "parse" /\ s.member \in {"callee", "operand"} /\ s.member # "whole"
    BY StepsAre
  <1> HIDE DEF n0, s, t0, n1, t1
  <1>8. Form(n1, t1) /\ Members(n1) = Join(<< >>, <<node>>)
    <2>1. t0[1].do = s.do /\ t0[1].member = s.member /\ t0 # << >>
      BY <1>2
    <2>2. Form(n0, t0)
      BY <1>1
    <2>3. /\ Form(Put(n0, t0[1].member, node), Tail(t0))
          /\ Members(Put(n0, t0[1].member, node)) = Join(Members(n0), <<node>>)
      BY <2>1, <2>2, <1>4, <1>7, ReadsNode
    <2>4. Put(n0, t0[1].member, node) = n1 /\ Tail(t0) = t1
      BY <2>1, <1>2, <1>3
    <2> QED
      BY <2>3, <2>4, <1>1
  <1>9. SameText(Members(n1), Members(node))
    BY <1>4, <1>8, WrappedText
  <1>10. Keeps(node, n1, t1)
    BY <1>4, <1>6, <1>8, <1>9 DEF Keeps
  <1>11. Keeps(node, n1, Join(<<Expect("[", "lbracket"), Parse("expression", "index"),
                                Expect("]", "rbracket"), Decide("postfix")>>, Tail(todo)))
    BY <1>5, <1>10
  <1>12. Members(n1) = <<node>>
    BY <1>4, <1>8, WrappedText
  <1> QED
    BY <1>11, <1>12 DEF n1

LEMMA PostfixWraps ==
  ASSUME NEW node, NEW todo, Form(node, todo), todo # << >>, todo[1] = Decide("postfix"),
         NEW v, v.kind = "lexeme"
  PROVE  /\ Gains(node, [kind |-> "postfix", operand |-> node, op |-> v],
                  Join(<<Decide("postfix")>>, Tail(todo)), v)
         /\ Members([kind |-> "postfix", operand |-> node, op |-> v]) = Join(<<node>>, <<v>>)
  <1> DEFINE n0 == [kind |-> "postfix"]
             s == Parse("primary", "operand")  e == Expect(v, "op")
             t0 == <<s, e, Decide("postfix"), Decide("infix")>>
             n1 == [kind |-> "postfix", operand |-> node]
             t1 == <<e, Decide("postfix"), Decide("infix")>>
             n2 == [kind |-> "postfix", operand |-> node, op |-> v]
             t2 == <<Decide("postfix"), Decide("infix")>>
  <1>1. Form(n0, t0) /\ Members(n0) = << >>
    BY PostfixBegins
  <1>2. /\ t0[1] = s /\ Tail(t0) = t1 /\ t0 # << >>
        /\ t1[1] = e /\ Tail(t1) = t2 /\ t1 # << >>
    OBVIOUS
  <1>3. s.member = "operand" /\ s.do = "parse" /\ e.member = "op" /\ e.do = "expect"
    BY StepsAre
  <1>4. n1 = Put(n0, "operand", node) /\ n2 = Put(n1, "op", v)
    BY DEF Put, Lists
  <1>5. Tail(todo) = <<Decide("infix")>> /\ Finished(node) /\ node.kind \notin {"none", "unit", "lexeme"}
    BY AtPostfix, FinishedAtOperators
  <1>6. Join(<<Decide("postfix")>>, Tail(todo)) = t2
    BY <1>5, JoinedPair
  <1>7. n2.kind = "postfix" /\ Finished(v)
    BY FinishedLeaf
  <1> HIDE DEF n0, s, e, t0, n1, t1, n2, t2
  <1>8. Form(n1, t1) /\ Members(n1) = Join(<< >>, <<node>>)
    <2>1. t0[1].do = s.do /\ t0[1].member = s.member /\ t0 # << >>
      BY <1>2
    <2>2. Form(n0, t0)
      BY <1>1
    <2>3. /\ Form(Put(n0, t0[1].member, node), Tail(t0))
          /\ Members(Put(n0, t0[1].member, node)) = Join(Members(n0), <<node>>)
      BY <2>1, <2>2, <1>3, <1>5, ReadsNode
    <2>4. Put(n0, t0[1].member, node) = n1 /\ Tail(t0) = t1
      BY <2>1, <1>2, <1>3, <1>4
    <2> QED
      BY <2>3, <2>4, <1>1
  <1>9. Form(n2, t2) /\ Members(n2) = Join(Members(n1), <<v>>)
    <2>1. t1[1].do = e.do /\ t1[1].member = e.member /\ t1 # << >>
      BY <1>2
    <2>2. Form(n1, t1)
      BY <1>8
    <2>3. /\ Form(Put(n1, t1[1].member, v), Tail(t1))
          /\ Members(Put(n1, t1[1].member, v)) = Join(Members(n1), <<v>>)
      BY <2>1, <2>2, <1>3, <1>5, ReadsLexeme
    <2>4. Put(n1, t1[1].member, v) = n2 /\ Tail(t1) = t2
      BY <2>1, <1>2, <1>3, <1>4
    <2> QED
      BY <2>3, <2>4, <1>1
  <1>10. Members(n2) = Join(<<node>>, <<v>>)
    BY <1>8, <1>9, FirstOfMore
  <1>11. OneMore(Members(n2), Members(node), v)
    BY <1>5, <1>10, WrappedMore
  <1>12. Gains(node, n2, t2, v)
    BY <1>5, <1>7, <1>9, <1>11 DEF Gains
  <1>13. Gains(node, n2, Join(<<Decide("postfix")>>, Tail(todo)), v)
    BY <1>6, <1>12
  <1> QED
    BY <1>10, <1>13 DEF n2

LEMMA BinaryWraps ==
  ASSUME NEW node, NEW todo, Form(node, todo), todo # << >>, todo[1] = Decide("infix"),
         NEW v, v.kind = "lexeme", NEW l \in 0..AnyLevel
  PROVE  /\ Gains(node, [kind |-> "binary", left |-> node, op |-> v],
                  Join(<<Operand(l, "right"), Decide("infix")>>, Tail(todo)), v)
         /\ Members([kind |-> "binary", left |-> node, op |-> v]) = Join(<<node>>, <<v>>)
  <1> DEFINE n0 == [kind |-> "binary"]
             s == Parse("primary", "left")  e == Expect(v, "op")
             t0 == <<s, e, Operand(l, "right"), Decide("infix")>>
             n1 == [kind |-> "binary", left |-> node]
             t1 == <<e, Operand(l, "right"), Decide("infix")>>
             n2 == [kind |-> "binary", left |-> node, op |-> v]
             t2 == <<Operand(l, "right"), Decide("infix")>>
  <1>1. Form(n0, t0) /\ Members(n0) = << >>
    BY BinaryBegins
  <1>2. /\ t0[1] = s /\ Tail(t0) = t1 /\ t0 # << >>
        /\ t1[1] = e /\ Tail(t1) = t2 /\ t1 # << >>
    OBVIOUS
  <1>3. s.member = "left" /\ s.do = "parse" /\ e.member = "op" /\ e.do = "expect"
    BY StepsAre
  <1>4. n1 = Put(n0, "left", node) /\ n2 = Put(n1, "op", v)
    BY DEF Put, Lists
  <1>5. Tail(todo) = << >> /\ Finished(node) /\ node.kind \notin {"none", "unit", "lexeme"}
    BY AtInfix, FinishedAtOperators
  <1>6. Join(<<Operand(l, "right"), Decide("infix")>>, Tail(todo)) = t2
    <2>1. IsASequence(t2)
      BY TwoSteps
    <2>2. Join(t2, << >>) = t2
      BY <2>1, JoinEmpty
    <2> QED
      BY <2>2, <1>5
  <1>7. n2.kind = "binary" /\ Finished(v)
    BY FinishedLeaf
  <1> HIDE DEF n0, s, e, t0, n1, t1, n2, t2
  <1>8. Form(n1, t1) /\ Members(n1) = Join(<< >>, <<node>>)
    <2>1. t0[1].do = s.do /\ t0[1].member = s.member /\ t0 # << >>
      BY <1>2
    <2>2. Form(n0, t0)
      BY <1>1
    <2>3. /\ Form(Put(n0, t0[1].member, node), Tail(t0))
          /\ Members(Put(n0, t0[1].member, node)) = Join(Members(n0), <<node>>)
      BY <2>1, <2>2, <1>3, <1>5, ReadsNode
    <2>4. Put(n0, t0[1].member, node) = n1 /\ Tail(t0) = t1
      BY <2>1, <1>2, <1>3, <1>4
    <2> QED
      BY <2>3, <2>4, <1>1
  <1>9. Form(n2, t2) /\ Members(n2) = Join(Members(n1), <<v>>)
    <2>1. t1[1].do = e.do /\ t1[1].member = e.member /\ t1 # << >>
      BY <1>2
    <2>2. Form(n1, t1)
      BY <1>8
    <2>3. /\ Form(Put(n1, t1[1].member, v), Tail(t1))
          /\ Members(Put(n1, t1[1].member, v)) = Join(Members(n1), <<v>>)
      BY <2>1, <2>2, <1>3, <1>5, ReadsLexeme
    <2>4. Put(n1, t1[1].member, v) = n2 /\ Tail(t1) = t2
      BY <2>1, <1>2, <1>3, <1>4
    <2> QED
      BY <2>3, <2>4, <1>1
  <1>10. Members(n2) = Join(<<node>>, <<v>>)
    BY <1>8, <1>9, FirstOfMore
  <1>11. OneMore(Members(n2), Members(node), v)
    BY <1>5, <1>10, WrappedMore
  <1>12. Gains(node, n2, t2, v)
    BY <1>5, <1>7, <1>9, <1>11 DEF Gains
  <1>13. Gains(node, n2, Join(<<Operand(l, "right"), Decide("infix")>>, Tail(todo)), v)
    BY <1>6, <1>12
  <1> QED
    BY <1>10, <1>13 DEF n2

----------------------------------------------------------------------------
(* Nodes that replace nothing. *)

LEMMA FirstText ==
  ASSUME NEW node, Members(node) = << >>, NEW v, NEW next, Members(next) = Join(<< >>, <<v>>),
         v.kind = "lexeme"
  PROVE  OneMore(Members(next), Members(node), v)
  <1>1. AllFinished(<< >>)
    BY NoTrees
  <1> QED
    BY <1>1, OneMoreJoined

LEMMA PrefixBeginning ==
  ASSUME NEW node, NEW todo, Form(node, todo), todo # << >>, todo[1] = Decide("operand"),
         NEW v, v.kind = "lexeme", NEW l \in 0..AnyLevel
  PROVE  /\ Gains(node, [kind |-> "prefix", op |-> v], Join(<<Operand(l, "operand")>>, Tail(todo)), v)
         /\ Members([kind |-> "prefix", op |-> v]) = <<v>>
  <1> DEFINE n0 == [kind |-> "prefix"]
             e == Expect(v, "op")
             t0 == <<e, Operand(l, "operand"), Decide("infix")>>
             n1 == [kind |-> "prefix", op |-> v]
             t1 == <<Operand(l, "operand"), Decide("infix")>>
  <1>1. Form(n0, t0) /\ Members(n0) = << >>
    BY PrefixBegins
  <1>2. t0[1] = e /\ Tail(t0) = t1 /\ t0 # << >>
    OBVIOUS
  <1>3. e.member = "op" /\ e.do = "expect"
    BY StepsAre
  <1>4. n1 = Put(n0, "op", v)
    BY DEF Put, Lists
  <1>5. Tail(todo) = <<Decide("infix")>> /\ node.kind = "none" /\ Members(node) = << >>
    BY AtOperand
  <1>6. Join(<<Operand(l, "operand")>>, Tail(todo)) = t1
    BY <1>5, JoinedPair
  <1>7. n1.kind = "prefix" /\ Finished(v)
    BY FinishedLeaf
  <1> HIDE DEF n0, e, t0, n1, t1
  <1>8. Form(n1, t1) /\ Members(n1) = Join(<< >>, <<v>>)
    <2>1. t0[1].do = e.do /\ t0[1].member = e.member /\ t0 # << >>
      BY <1>2
    <2>2. Form(n0, t0)
      BY <1>1
    <2>3. /\ Form(Put(n0, t0[1].member, v), Tail(t0))
          /\ Members(Put(n0, t0[1].member, v)) = Join(Members(n0), <<v>>)
      BY <2>1, <2>2, <1>3, ReadsLexeme
    <2>4. Put(n0, t0[1].member, v) = n1 /\ Tail(t0) = t1
      BY <2>1, <1>2, <1>3, <1>4
    <2> QED
      BY <2>3, <2>4, <1>1
  <1>9. OneMore(Members(n1), Members(node), v)
    BY <1>5, <1>8, FirstText
  <1>10. Gains(node, n1, t1, v)
    BY <1>5, <1>7, <1>8, <1>9 DEF Gains
  <1>11. Gains(node, n1, Join(<<Operand(l, "operand")>>, Tail(todo)), v)
    BY <1>6, <1>10
  <1>12. Members(n1) = <<v>>
    BY <1>8, FirstOfMore
  <1> QED
    BY <1>11, <1>12 DEF n1

LEMMA AtomBeginning ==
  ASSUME NEW node, NEW todo, Form(node, todo), todo # << >>, todo[1] = Decide("primary"),
         NEW v, v.kind = "lexeme"
  PROVE  /\ Gains(node, [kind |-> "atom", lexeme |-> v], Join(<< >>, Tail(todo)), v)
         /\ Members([kind |-> "atom", lexeme |-> v]) = <<v>>
  <1> DEFINE n0 == [kind |-> "atom"]
             e == Expect(v, "lexeme")
             t0 == <<e>>
             n1 == [kind |-> "atom", lexeme |-> v]
  <1>1. Form(n0, t0) /\ Members(n0) = << >>
    BY AtomBegins
  <1>2. t0[1] = e /\ Tail(t0) = << >> /\ t0 # << >>
    OBVIOUS
  <1>3. e.member = "lexeme" /\ e.do = "expect"
    BY StepsAre
  <1>4. n1 = Put(n0, "lexeme", v)
    BY DEF Put, Lists
  <1>5. Tail(todo) = << >> /\ node.kind = "none" /\ Members(node) = << >>
    BY AtPrimary
  <1>6. Join(<< >>, Tail(todo)) = << >>
    BY <1>5, JoinEmpty, EmptySequence
  <1>7. n1.kind = "atom" /\ Finished(v)
    BY FinishedLeaf
  <1> HIDE DEF n0, e, t0, n1
  <1>8. Form(n1, << >>) /\ Members(n1) = Join(<< >>, <<v>>)
    <2>1. t0[1].do = e.do /\ t0[1].member = e.member /\ t0 # << >>
      BY <1>2
    <2>2. Form(n0, t0)
      BY <1>1
    <2>3. /\ Form(Put(n0, t0[1].member, v), Tail(t0))
          /\ Members(Put(n0, t0[1].member, v)) = Join(Members(n0), <<v>>)
      BY <2>1, <2>2, <1>3, ReadsLexeme
    <2>4. Put(n0, t0[1].member, v) = n1 /\ Tail(t0) = << >>
      BY <2>1, <1>2, <1>3, <1>4
    <2> QED
      BY <2>3, <2>4, <1>1
  <1>9. OneMore(Members(n1), Members(node), v)
    BY <1>5, <1>8, FirstText
  <1>10. Gains(node, n1, << >>, v)
    BY <1>5, <1>7, <1>8, <1>9 DEF Gains
  <1>11. Gains(node, n1, Join(<< >>, Tail(todo)), v)
    BY <1>6, <1>10
  <1>12. Members(n1) = <<v>>
    BY <1>8, FirstOfMore
  <1> QED
    BY <1>11, <1>12 DEF n1

LEMMA BracketBeginning ==
  ASSUME NEW node, NEW todo, Form(node, todo), todo # << >>, todo[1] = Decide("operand")
  PROVE  /\ Keeps(node, [kind |-> "prefix_bracket"],
                  Join(<<Expect("[", "lbracket"), Decide("size"), Expect("]", "rbracket"),
                         Operand(1, "operand")>>, Tail(todo)))
         /\ Members([kind |-> "prefix_bracket"]) = << >>
  <1> DEFINE n1 == [kind |-> "prefix_bracket"]
             t1 == <<Expect("[", "lbracket"), Decide("size"), Expect("]", "rbracket"),
                     Operand(1, "operand"), Decide("infix")>>
  <1>1. Form(n1, t1) /\ Members(n1) = << >>
    BY PrefixBracketBegins
  <1>2. Tail(todo) = <<Decide("infix")>> /\ node.kind = "none" /\ Members(node) = << >>
    BY AtOperand
  <1>3. Join(<<Expect("[", "lbracket"), Decide("size"), Expect("]", "rbracket"),
               Operand(1, "operand")>>, Tail(todo)) = t1
    BY <1>2, JoinedQuintuple
  <1>4. n1.kind = "prefix_bracket"
    OBVIOUS
  <1> HIDE DEF n1, t1
  <1>5. Keeps(node, n1, t1)
    BY <1>1, <1>2, <1>4 DEF Keeps, SameText
  <1>6. Keeps(node, n1, Join(<<Expect("[", "lbracket"), Decide("size"), Expect("]", "rbracket"),
                               Operand(1, "operand")>>, Tail(todo)))
    BY <1>3, <1>5
  <1> QED
    BY <1>1, <1>6 DEF n1

LEMMA PrimaryBeginning ==
  ASSUME NEW node, NEW todo, Form(node, todo), todo # << >>, todo[1] = Decide("operand")
  PROVE  Keeps(node, node, Join(<<Parse("primary", "whole"), Decide("postfix")>>, Tail(todo)))
  <1> DEFINE t1 == <<Parse("primary", "whole"), Decide("postfix"), Decide("infix")>>
  <1>1. Tail(todo) = <<Decide("infix")>> /\ node.kind = "none"
    BY AtOperand
  <1>2. Join(<<Parse("primary", "whole"), Decide("postfix")>>, Tail(todo)) = t1
    BY <1>1, JoinedTriple
  <1>3. NotYetChosen("none", t1) /\ NodeFormed(node)
    BY DEF NotYetChosen, Form
  <1>4. Form(node, t1)
    BY <1>1, <1>3, NothingChosen
  <1> QED
    BY <1>2, <1>4, KeepsOn

LEMMA StatementBeginning ==
  ASSUME NEW node, NEW todo, Form(node, todo), todo # << >>, todo[1] = Decide("unit")
  PROVE  Keeps(node, node, Join(<<Parse("statement", "statements"), Decide("unit")>>, Tail(todo)))
  <1> DEFINE t1 == <<Parse("statement", "statements"), Decide("unit")>>
  <1>1. Tail(todo) = << >> /\ node.kind = "unit"
    BY AtUnit
  <1>2. Join(t1, Tail(todo)) = t1
    BY <1>1, JoinEmpty, TwoSteps
  <1>3. UnitGoesOn("unit", t1) /\ NodeFormed(node)
    BY DEF UnitGoesOn, Form
  <1>4. Form(node, t1)
    BY <1>1, <1>3, UnitFormed
  <1> QED
    BY <1>2, <1>4, KeepsOn

----------------------------------------------------------------------------
(* The expression in a block was a statement after all. *)

LEMMA StatementOf ==
  ASSUME NEW tree, Finished(tree), tree.kind # "lexeme", NEW v, v.kind = "lexeme", NEW made,
         made = [kind |-> "expression_statement", expression |-> tree, semicolon |-> v]
  PROVE  /\ Finished(made) /\ made.kind = "expression_statement"
         /\ Members(made) = Join(<<tree>>, <<v>>)
  <1> DEFINE n0 == [kind |-> "expression_statement"]
             s == Parse("expression", "expression")  e == Expect(v, "semicolon")
             t0 == <<s, e>>
             n1 == [kind |-> "expression_statement", expression |-> tree]
             t1 == <<e>>
  <1>1. Form(n0, t0) /\ Members(n0) = << >>
    BY ExpressionStatementBegins
  <1>2. /\ t0[1] = s /\ Tail(t0) = t1 /\ t0 # << >>
        /\ t1[1] = e /\ Tail(t1) = << >> /\ t1 # << >>
    OBVIOUS
  <1>3. s.member = "expression" /\ s.do = "parse" /\ e.member = "semicolon" /\ e.do = "expect"
    BY StepsAre
  <1>4. n1 = Put(n0, "expression", tree) /\ made = Put(n1, "semicolon", v)
    BY DEF Put, Lists
  <1>5. made.kind = "expression_statement"
    OBVIOUS
  <1> HIDE DEF n0, s, e, t0, n1, t1
  <1>6. Form(n1, t1) /\ Members(n1) = Join(<< >>, <<tree>>)
    <2>1. t0[1].do = "parse" /\ t0[1].member = "expression" /\ t0 # << >>
      BY <1>2, <1>3
    <2>2. Form(n0, t0)
      BY <1>1
    <2>3. /\ Form(Put(n0, t0[1].member, tree), Tail(t0))
          /\ Members(Put(n0, t0[1].member, tree)) = Join(Members(n0), <<tree>>)
      BY <2>1, <2>2, ReadsNode
    <2> QED
      BY <2>1, <2>3, <1>1, <1>2, <1>4
  <1>7. Form(made, << >>) /\ Members(made) = Join(Members(n1), <<v>>)
    <2>1. t1[1].do = "expect" /\ t1[1].member = "semicolon" /\ t1 # << >>
      BY <1>2, <1>3
    <2>2. Form(n1, t1)
      BY <1>6
    <2>3. /\ Form(Put(n1, t1[1].member, v), Tail(t1))
          /\ Members(Put(n1, t1[1].member, v)) = Join(Members(n1), <<v>>)
      BY <2>1, <2>2, ReadsLexeme
    <2> QED
      BY <2>1, <2>3, <1>2, <1>4
  <1>8. Finished(made)
    BY <1>7, CalleeFinished
  <1> QED
    BY <1>5, <1>6, <1>7, <1>8, FirstOfMore

LEMMA SameMembers ==
  ASSUME NEW a, NEW b, a.kind = b.kind, a.kind \in DOMAIN Written,
         \A q \in 1..Len(Written[a.kind]) : Member(a, Written[a.kind][q]) = Member(b, Written[a.kind][q])
  PROVE  Members(a) = Members(b)
  <1>1. DOMAIN Written[a.kind] = 1..Len(Written[a.kind])
    BY WrittenLength
  <1>2. [i \in DOMAIN Written[a.kind] |-> Member(a, Written[a.kind][i])]
          = [i \in DOMAIN Written[b.kind] |-> Member(b, Written[b.kind][i])]
    BY <1>1
  <1> QED
    BY <1>2 DEF Members

(* The block without its last expression. *)
LEMMA BlockWithoutTail ==
  ASSUME NEW node, node.kind = "block", NodeFormed(node), Blank(node, 4), "tail" \in DOMAIN node
  PROVE  /\ NodeFormed(WithoutTail(node)) /\ WithoutTail(node).kind = "block"
         /\ Blank(WithoutTail(node), 3)
         /\ Members(node) = Join(Members(WithoutTail(node)), <<node.tail>>)
         /\ Finished(node.tail)
  <1> DEFINE W == WithoutTail(node)  P == Put(W, "tail", node.tail)
  <1>0. /\ "block" \in DOMAIN Written /\ Len(Written["block"]) = 4
        /\ Written["block"][1] = "lbrace" /\ Written["block"][2] = "statements"
        /\ Written["block"][3] = "tail" /\ Written["block"][4] = "rbrace"
    BY WrittenOf, WrittenKinds
  <1>1. /\ ListsFormed(node) /\ AllFinished(Members(node))
        /\ \A m \in Lists : Belongs("block", m) => m \in DOMAIN node
    BY DEF NodeFormed
  <1>2. DOMAIN W = DOMAIN node \ {"tail"} /\ \A m \in DOMAIN node : m # "tail" => W[m] = node[m]
    BY DEF WithoutTail
  <1>3. "kind" \in DOMAIN node
    BY <1>1 DEF ListsFormed
  <1> HIDE DEF W
  <1>4. W.kind = "block"
    BY <1>2, <1>3
  <1>5. ListsFormed(W)
    BY <1>1, <1>2 DEF ListsFormed, Lists
  <1>6. \A x : x # "tail" => Member(W, x) = Member(node, x)
    <2>1. \A x : x # "tail" => (x \in DOMAIN W <=> x \in DOMAIN node)
      BY <1>2
    <2>2. \A x \in DOMAIN node : x # "tail" => W[x] = node[x]
      BY <1>2
    <2>3. ItemsOf("tail") = "tail"
      BY DEF ItemsOf
    <2> QED
      BY <2>1, <2>2, <2>3, <1>1, OtherMember
  <1>7. Member(W, "tail") = << >>
    BY <1>2, MemberIs
  <1>8. Blank(W, 3)
    <2>1. Member(node, "rbrace") = << >>
      BY <1>0 DEF Blank
    <2> QED
      BY <2>1, <1>0, <1>4, <1>6, <1>7 DEF Blank
  <1>9. Fillable(W, "tail")
    BY <1>4, <1>8, BlockPlaces DEF Fillable, Lists
  <1>10. /\ P.kind = "block" /\ Members(P) = Join(Members(W), <<node.tail>>)
         /\ \A q \in 1..4 : q # 3 => Member(P, Written["block"][q]) = Member(W, Written["block"][q])
         /\ Replaced(P, W, "tail", node.tail)
    <2>1. Added(W, "tail", node.tail) = node.tail
      BY DEF Added, Lists
    <2> QED
      BY <2>1, <1>0, <1>4, <1>5, <1>9, PutGrows, BlockPlaces
  <1> HIDE DEF P
  <1>11. Member(P, "tail") = Member(node, "tail")
    <2>1. "tail" \in DOMAIN P /\ P["tail"] = node["tail"] /\ "tail" \notin Lists
      BY <1>10 DEF Replaced, Lists
    <2> QED
      BY <2>1, MemberIs
  <1>12. Members(P) = Members(node)
    <2>1. ASSUME NEW q \in 1..4
          PROVE  Member(P, Written["block"][q]) = Member(node, Written["block"][q])
      <3>1. CASE q = 3
        BY <3>1, <1>0, <1>11
      <3>2. CASE q # 3
        <4>1. Written["block"][q] # "tail"
          BY <3>2, <1>0
        <4> QED
          BY <3>2, <4>1, <1>6, <1>10
      <3> QED
        BY <3>1, <3>2
    <2> QED
      BY <2>1, <1>0, <1>10, SameMembers
  <1>13. Members(node) = Join(Members(W), <<node.tail>>)
    BY <1>10, <1>12
  <1>14. AllFinished(Members(W)) /\ Finished(node.tail)
    <2>1. AllFinished(Join(Members(W), <<node.tail>>))
      BY <1>1, <1>13
    <2>2. IsASequence(Members(W))
      BY <1>0, <1>4, <1>5, PlacesFormed
    <2> QED
      BY <2>1, <2>2, FinishedLast
  <1>15. NodeFormed(W)
    <2>1. \A m \in Lists : Belongs(W.kind, m) => m \in DOMAIN W
      BY <1>1, <1>2, <1>4 DEF Lists
    <2> QED
      BY <2>1, <1>0, <1>4, <1>5, <1>14 DEF NodeFormed
  <1> QED
    BY <1>4, <1>8, <1>13, <1>14, <1>15 DEF W

(* Finished trees have lexemes, and only those.                               *)
LEMMA ReadsExist ==
  ASSUME NEW trees, AllFinished(trees)
  PROVE  \E ls : ReadsAs(trees, ls)
  <1>1. AllSound(trees) /\ Shallow(trees)
    BY AllFinishedSound
  <1>2. PICK d \in Nat : d <= Len(Levels(trees)[d]) /\ AllLeaves(Levels(trees)[d])
    BY <1>1 DEF Shallow
  <1>3. IsASequence(Levels(trees)[d])
    BY <1>1 DEF AllSound, SoundEach
  <1>4. \A e \in Nat : e >= d => Levels(trees)[e] = Levels(trees)[d]
    BY <1>2, <1>3, LeavesStay
  <1> QED
    BY <1>4 DEF ReadsAs

LEMMA ReadsUnique ==
  ASSUME NEW trees, NEW a, ReadsAs(trees, a), NEW b, ReadsAs(trees, b)
  PROVE  a = b
  <1>1. PICK d \in Nat : \A e \in Nat : e >= d => Levels(trees)[e] = a
    BY DEF ReadsAs
  <1>2. PICK c \in Nat : \A e \in Nat : e >= c => Levels(trees)[e] = b
    BY DEF ReadsAs
  <1>3. d + c \in Nat /\ d + c >= d /\ d + c >= c
    OBVIOUS
  <1> QED
    BY <1>1, <1>2, <1>3

(* The lexemes of trees put together are those of each.                       *)
LEMMA ReadsParted ==
  ASSUME NEW s, AllFinished(s), NEW t, AllFinished(t), NEW ls, ReadsAs(Join(s, t), ls)
  PROVE  \E a, b : /\ ReadsAs(s, a) /\ ReadsAs(t, b) /\ IsASequence(a) /\ IsASequence(b)
                   /\ ls = Join(a, b)
  <1>1. PICK a : ReadsAs(s, a)
    BY ReadsExist
  <1>2. PICK b : ReadsAs(t, b)
    BY ReadsExist
  <1>3. IsASequence(a)
    BY <1>1, ReadsSoon
  <1>4. IsASequence(b)
    BY <1>2, ReadsSoon
  <1>5. ReadsAs(Join(s, t), Join(a, b))
    BY <1>1, <1>2, ReadsJoined
  <1>6. ls = Join(a, b)
    BY <1>5, ReadsUnique
  <1> QED
    BY <1>1, <1>2, <1>3, <1>4, <1>6

(* Trees that come later read one lexeme more. *)
LEMMA LaterReadsMore ==
  ASSUME NEW s, AllFinished(s), NEW t, AllFinished(t), NEW u, AllFinished(u), NEW v, OneMore(u, t, v)
  PROVE  OneMore(Join(s, u), Join(s, t), v)
  <1> SUFFICES ASSUME NEW ls, ReadsAs(Join(s, t), ls)
               PROVE  ReadsAs(Join(s, u), Join(ls, <<v>>))
    BY DEF OneMore
  <1>1. PICK a, b : /\ ReadsAs(s, a) /\ ReadsAs(t, b) /\ IsASequence(a) /\ IsASequence(b)
                    /\ ls = Join(a, b)
    BY ReadsParted
  <1>2. ReadsAs(u, Join(b, <<v>>))
    BY <1>1 DEF OneMore
  <1>3. ReadsAs(Join(s, u), Join(a, Join(b, <<v>>)))
    BY <1>1, <1>2, ReadsJoined
  <1>4. Join(Join(a, b), <<v>>) = Join(a, Join(b, <<v>>))
    BY <1>1, OneStep, JoinInTurn
  <1> QED
    BY <1>1, <1>3, <1>4

LEMMA LaterReadsSame ==
  ASSUME NEW s, AllFinished(s), NEW t, AllFinished(t), NEW u, AllFinished(u), SameText(u, t)
  PROVE  SameText(Join(s, u), Join(s, t))
  <1> SUFFICES ASSUME NEW ls, ReadsAs(Join(s, t), ls)
               PROVE  ReadsAs(Join(s, u), ls)
    BY DEF SameText
  <1>1. PICK a, b : /\ ReadsAs(s, a) /\ ReadsAs(t, b) /\ ls = Join(a, b)
    BY ReadsParted
  <1>2. ReadsAs(u, b)
    BY <1>1 DEF SameText
  <1>3. ReadsAs(Join(s, u), Join(a, b))
    BY <1>1, <1>2, ReadsJoined
  <1> QED
    BY <1>1, <1>3

LEMMA StatementText ==
  ASSUME NEW tree, Finished(tree), tree.kind # "lexeme", NEW v, v.kind = "lexeme", NEW made,
         made = [kind |-> "expression_statement", expression |-> tree, semicolon |-> v]
  PROVE  OneMore(<<made>>, <<tree>>, v)
  <1>1. Members(made) = Join(<<tree>>, <<v>>) /\ made.kind # "lexeme"
    BY StatementOf
  <1>2. OneMore(Join(<<tree>>, <<v>>), <<tree>>, v)
    BY FinishedOne, OneMoreJoined
  <1> QED
    BY <1>1, <1>2, ReadsOfNode DEF OneMore

(* A block's expression has become a statement of the block. *)
SemicolonRead(node, rest, next, made) ==
  /\ node.kind = "block" /\ "tail" \in DOMAIN node /\ node.tail.kind # "lexeme"
  /\ DOMAIN rest = DOMAIN node \ {"tail"} /\ \A m \in DOMAIN node : m # "tail" => rest[m] = node[m]
  /\ NodeFormed(rest) /\ Finished(made) /\ Finished(node.tail)
  /\ Members(node) = Join(Members(rest), <<node.tail>>)
  /\ Members(next) = Join(Members(rest), <<made>>)
  /\ next.kind = "block" /\ Replaced(next, rest, "statements", Added(rest, "statements", made))

LEMMA GainsSemicolon ==
  ASSUME NEW node, NEW todo, Form(node, todo), todo # << >>, todo[1] = Decide("tail"),
         NEW v, v.kind = "lexeme", NEW made,
         made = [kind |-> "expression_statement", expression |-> node.tail, semicolon |-> v]
  PROVE  /\ Gains(node, Put(WithoutTail(node), "statements", made), Join(<<Decide("item")>>, Tail(todo)), v)
         /\ SemicolonRead(node, WithoutTail(node), Put(WithoutTail(node), "statements", made), made)
  <1> DEFINE W == WithoutTail(node)  next == Put(W, "statements", made)
             u == Join(<<Decide("item")>>, Tail(todo))
             w == Written["block"]
  <1>1. node.kind = "block" /\ NodeFormed(node)
    BY AtChoice, ChoicesOf DEF Choice, Form
  <1>2. /\ Sits("block", Decide("tail"), 4, 4) /\ Sits("block", Decide("item"), 3, 4)
        /\ "block" \in DOMAIN Written /\ Len(w) = 4 /\ w[1] = "lbrace" /\ w[2] = "statements"
        /\ w[3] = "tail" /\ w[4] = "rbrace"
        /\ Belongs("block", "statements") /\ Position("block", "statements") = 2
    BY ChoicesAre, WrittenOf, WrittenKinds, BlockPlaces
  <1>3. Blank(node, 4)
    BY <1>1, <1>2 DEF Form, NextIsBlank, Sits
  <1>4. 1 \in 1..Len(todo) /\ IsASequence(todo)
    BY FirstFits
  <1>5. "tail" \in DOMAIN node /\ node.tail.kind # "lexeme"
    BY <1>4 DEF Form, TailRead
  <1>6. /\ NodeFormed(W) /\ W.kind = "block" /\ Blank(W, 3)
        /\ Members(node) = Join(Members(W), <<node.tail>>) /\ Finished(node.tail)
    BY <1>1, <1>3, <1>5, BlockWithoutTail
  <1>7. DOMAIN W = DOMAIN node \ {"tail"} /\ \A m \in DOMAIN node : m # "tail" => W[m] = node[m]
    BY DEF WithoutTail
  <1> HIDE DEF W
  <1>8. Finished(made) /\ made.kind = "expression_statement"
    BY <1>5, <1>6, StatementOf
  <1>9. Fillable(W, "statements")
    <2>1. "statements" \in DOMAIN W
      BY <1>2, <1>6 DEF NodeFormed, Lists
    <2>2. ItemsOf("statements") = "statements"
      BY DEF ItemsOf
    <2>3. Blank(W, Position(W.kind, "statements") + 1)
      BY <1>2, <1>6
    <2> QED
      BY <1>2, <1>6, <2>1, <2>2, <2>3 DEF Fillable, Lists
  <1>10. /\ next.kind = "block" /\ ListsFormed(next)
         /\ Members(next) = Join(Members(W), <<made>>)
         /\ \A q \in 1..4 : q # 2 => Member(next, w[q]) = Member(W, w[q])
         /\ Replaced(next, W, "statements", Added(W, "statements", made))
    <2>1. ListsFormed(W)
      BY <1>6 DEF NodeFormed
    <2> QED
      BY <2>1, <1>2, <1>6, <1>9, PutGrows
  <1> HIDE DEF next
  <1>11. AllFinished(Members(W)) /\ AllFinished(<<made>>) /\ AllFinished(<<node.tail>>)
    BY <1>6, <1>8, FinishedOne DEF NodeFormed
  <1>12. NodeFormed(next)
    <2>1. AllFinished(Members(next))
      BY <1>10, <1>11, AllFinishedJoined
    <2>2. \A n \in Lists : Belongs("block", n) => n \in DOMAIN next
      BY <1>6, <1>10 DEF NodeFormed, Replaced
    <2> QED
      BY <1>2, <1>10, <2>1, <2>2 DEF NodeFormed
  <1>13. /\ IsASequence(u) /\ u # << >> /\ u[1] = Decide("item")
         /\ \A i \in 1..Len(u) : i = 1 \/ (i \in 1..Len(todo) /\ i > 1 /\ u[i] = todo[i])
         /\ \A i \in 1..Len(todo) : i > 1 => i \in 1..Len(u) /\ u[i] = todo[i]
    BY <1>4, OneBefore
  <1>14. Plan("block", u)
    <2>1. Plan("block", todo)
      BY <1>1 DEF Form, Plan
    <2>2. Decide("item") \notin {Decide("infix"), Decide("postfix")}
      BY StepsDiffer
    <2>3. UpTo("block", todo[1], <<Decide("item")>>)
      BY <1>2, <2>2, OneStep DEF UpTo, Sits
    <2> QED
      BY <1>2, <2>1, <2>3, PlanExpands
  <1>15. NextIsBlank(next, u)
    <2>1. FirstPlace("block", u[1]) = 3
      BY <1>2, <1>13 DEF Sits
    <2>2. ASSUME NEW q \in 1..Len(w), q >= 3
          PROVE  Member(next, w[q]) = << >>
      BY <2>2, <1>2, <1>6, <1>10 DEF Blank
    <2> QED
      BY <2>1, <2>2, <1>10 DEF NextIsBlank, Blank
  <1>16. TailRead(next, u)
    <2>1. u[1] # Decide("tail")
      BY <1>13, StepsDiffer
    <2>2. \A i \in 1..Len(todo) : i > 1 => todo[i] # Decide("tail")
      BY NoTailLater, DecisionIs
    <2>3. \A i \in 1..Len(u) : u[i] # Decide("tail")
      BY <2>1, <2>2, <1>13
    <2> QED
      BY <2>3 DEF TailRead
  <1>17. Worded(next, u)
    <2>1. HasLexeme(Members(node)) \/ \E i \in 1..Len(todo) : todo[i].do = "expect"
      BY <1>1 DEF Form, Worded
    <2>2. CASE HasLexeme(Members(node))
      <3>1. IsASequence(Members(W))
        BY <1>11 DEF AllFinished
      <3>2. HasLexeme(Members(W))
        BY <2>2, <3>1, <1>5, <1>6, SomeLexeme
      <3>3. HasLexeme(Members(next))
        BY <3>1, <3>2, <1>10, SomeLexeme
      <3> QED
        BY <3>3 DEF Worded
    <2>3. CASE \E i \in 1..Len(todo) : todo[i].do = "expect"
      <3>1. PICK i \in 1..Len(todo) : todo[i].do = "expect"
        BY <2>3
      <3>2. i # 1
        BY <3>1, DecisionIs
      <3>3. i \in 1..Len(u) /\ u[i].do = "expect"
        BY <3>1, <3>2, <1>13
      <3> QED
        BY <3>3 DEF Worded
    <2> QED
      BY <2>1, <2>2, <2>3
  <1>18. ASSUME NEW other \in CommaLists
         PROVE  TakesTurns(next, u, other)
    <2>0. TakesTurns(node, todo, other)
      BY DEF Form, TurnsTaken
    <2>1. ~OfList(Decide("tail"), other) /\ ~OfList(Decide("item"), other)
      BY StepsOutside, CommaListNames
    <2>2. NoneOf(<<Decide("item")>>, other)
      BY <2>1, OneStep DEF NoneOf
    <2>3. SameLists(next, node, other)
      <3>1. other.items \notin {"tail", "statements"} /\ other.commas \notin {"tail", "statements"}
        BY CommaListNames
      <3>2. SameLists(W, node, other)
        BY <3>1, <1>7 DEF SameLists
      <3>3. SameLists(next, W, other)
        BY <3>1, <1>10 DEF SameLists, Replaced
      <3> QED
        BY <3>2, <3>3 DEF SameLists
    <2>4. Settled(next, Tail(todo), other) /\ IsASequence(Tail(todo))
      BY <2>0, <2>1, <2>3, <1>4, TurnsTail, TailSteps
    <2>5. Settled(next, u, other)
      BY <2>2, <2>4, OneStep, TurnsJoin
    <2> QED
      BY <2>5 DEF TakesTurns
  <1>19. Form(next, u)
    BY <1>10, <1>12, <1>14, <1>15, <1>16, <1>17, <1>18 DEF Form, Plan, TurnsTaken
  <1>20. OneMore(Members(next), Members(node), v)
    <2>1. OneMore(<<made>>, <<node.tail>>, v)
      BY <1>5, <1>6, StatementText
    <2> QED
      BY <2>1, <1>6, <1>10, <1>11, LaterReadsMore
  <1>21. Gains(node, next, u, v)
    BY <1>1, <1>10, <1>19, <1>20 DEF Gains
  <1>22. SemicolonRead(node, W, next, made)
    BY <1>1, <1>5, <1>6, <1>7, <1>8, <1>10 DEF SemicolonRead
  <1> QED
    BY <1>21, <1>22 DEF next, W, u

----------------------------------------------------------------------------
(* Every function begins in form, with nothing read. *)

Begins(function) ==
  /\ Form(function.node, function.todo)
  /\ Members(function.node) = << >> /\ function.node.kind # "unit"

LEMMA FunctionParts ==
  ASSUME NEW n, NEW t
  PROVE  [node |-> n, todo |-> t].node = n /\ [node |-> n, todo |-> t].todo = t
  OBVIOUS

LEMMA StatementIs == Begins(Statement)
  <1>1. NodeFormed([kind |-> "none"]) /\ NotYetChosen("none", <<Decide("statement")>>)
    BY NothingYet DEF NotYetChosen
  <1>2. Form([kind |-> "none"], <<Decide("statement")>>) /\ Members([kind |-> "none"]) = << >>
    BY <1>1, NothingChosen
  <1> QED
    BY <1>2 DEF Begins, Statement

LEMMA ExpressionIs == Begins(Expression)
  <1>1. NodeFormed([kind |-> "none"]) /\ NotYetChosen("none", <<Decide("operand"), Decide("infix")>>)
    BY NothingYet DEF NotYetChosen
  <1>2. /\ Form([kind |-> "none"], <<Decide("operand"), Decide("infix")>>)
        /\ Members([kind |-> "none"]) = << >>
    BY <1>1, NothingChosen
  <1> QED
    BY <1>2 DEF Begins, Expression

LEMMA PrimaryIs == Begins(PrimaryExpression)
  <1>1. NodeFormed([kind |-> "none"]) /\ NotYetChosen("none", <<Decide("primary")>>)
    BY NothingYet DEF NotYetChosen
  <1>2. Form([kind |-> "none"], <<Decide("primary")>>) /\ Members([kind |-> "none"]) = << >>
    BY <1>1, NothingChosen
  <1> QED
    BY <1>2 DEF Begins, PrimaryExpression

LEMMA LetIs == Begins(LetStatement)
  <1> DEFINE node == [kind |-> "let"]
             todo(a) == <<Expect("kw_let", "kw_let"), Accept("kw_mut", "kw_mut"), Expect("identifier", "name"),
                          Expect("=", "eq"), Parse("expression", "initializer"), Expect(a, "semicolon")>>
  <1>1. ASSUME NEW a
        PROVE  Begins([node |-> node, todo |-> todo(a)])
    BY LetBegins DEF Begins
  <1> QED
    BY <1>1, Zenon DEF LetStatement

LEMMA ReturnIs == Begins(ReturnStatement)
  <1> DEFINE node == [kind |-> "return"]
             todo(a) == <<Expect("kw_return", "kw_return"), Parse("expression", "value"),
                          Expect(a, "semicolon")>>
  <1>1. ASSUME NEW a
        PROVE  Begins([node |-> node, todo |-> todo(a)])
    BY ReturnBegins DEF Begins
  <1> QED
    BY <1>1, Zenon DEF ReturnStatement

LEMMA WhileIs == Begins(WhileStatement)
  BY WhileBegins DEF Begins, WhileStatement

LEMMA ExpressionStatementIs == Begins(ExpressionStatement)
  <1> DEFINE node == [kind |-> "expression_statement"]
             todo(a) == <<Parse("expression", "expression"), Expect(a, "semicolon")>>
  <1>1. ASSUME NEW a
        PROVE  Begins([node |-> node, todo |-> todo(a)])
    BY ExpressionStatementBegins DEF Begins
  <1> QED
    BY <1>1, Zenon DEF ExpressionStatement

LEMMA ParenIs == Begins(ParenExpression)
  BY ParenBegins DEF Begins, ParenExpression

LEMMA BlockIs == Begins(BlockExpression)
  <1> DEFINE node == [kind |-> "block", statements |-> << >>]
             todo(a) == <<Expect(a, "lbrace"), Decide("item")>>
  <1>1. ASSUME NEW a
        PROVE  Begins([node |-> node, todo |-> todo(a)])
    BY BlockBegins DEF Begins
  <1> QED
    BY <1>1, Zenon DEF BlockExpression

LEMMA IfIs == Begins(IfExpression)
  BY IfBegins DEF Begins, IfExpression

LEMMA ElseIs == Begins(ElsePart)
  BY ElseBegins DEF Begins, ElsePart

LEMMA FnIs == Begins(FnExpression)
  BY FnBegins DEF Begins, FnExpression

LEMMA ParameterIs == Begins(Parameter)
  BY ParameterBegins DEF Begins, Parameter

LEMMA ReturnTypeIs == Begins(ReturnTypeSpecifier)
  BY ReturnTypeBegins DEF Begins, ReturnTypeSpecifier

LEMMA FunctionsBegin ==
  ASSUME NEW what \in DOMAIN Functions
  PROVE  Begins(Functions[what])
  <1>1. what \in {"statement", "expression", "primary", "let", "return", "while", "block", "else",
                  "parameter", "return_type"}
    BY FunctionsAre
  <1>2. /\ Functions["statement"] = Statement /\ Functions["expression"] = Expression
        /\ Functions["primary"] = PrimaryExpression /\ Functions["let"] = LetStatement
        /\ Functions["return"] = ReturnStatement /\ Functions["while"] = WhileStatement
        /\ Functions["block"] = BlockExpression /\ Functions["else"] = ElsePart
        /\ Functions["parameter"] = Parameter /\ Functions["return_type"] = ReturnTypeSpecifier
    BY DEF Functions
  <1> QED
    BY <1>1, <1>2, StatementIs, ExpressionIs, PrimaryIs, LetIs, ReturnIs, WhileIs, BlockIs, ElseIs,
       ParameterIs, ReturnTypeIs

(* A function that goes on as another. *)
LEMMA Becomes ==
  ASSUME NEW node, NEW todo, Form(node, todo), todo # << >>,
         todo[1] \in {Decide("statement"), Decide("primary")}, NEW function, Begins(function)
  PROVE  Keeps(node, function.node, Join(function.todo, Tail(todo)))
  <1>1. Tail(todo) = << >> /\ node.kind = "none" /\ Members(node) = << >>
    BY AtStatement, AtPrimary
  <1>2. IsASequence(function.todo)
    BY DEF Begins, Form, StepsInTurn
  <1>3. Join(function.todo, Tail(todo)) = function.todo
    BY <1>1, <1>2, JoinEmpty
  <1> QED
    BY <1>1, <1>3 DEF Begins, Keeps, SameText

(* The callee's node, in its caller. *)
LEMMA ReturnedMember ==
  ASSUME NEW node, NEW todo, Form(node, todo), todo # << >>, todo[1].do = "parse",
         todo[1].member # "whole", NEW callee, Form(callee, << >>)
  PROVE  /\ Form(Put(node, todo[1].member, callee), Tail(todo))
         /\ Put(node, todo[1].member, callee).kind = node.kind
         /\ Members(Put(node, todo[1].member, callee)) = Join(Members(node), <<callee>>)
  <1>1. Finished(callee) /\ callee.kind # "lexeme"
    BY CalleeFinished
  <1>2. todo[1].do \in {"expect", "accept", "parse"} /\ ~(todo[1].do \in {"expect", "accept"})
    OBVIOUS
  <1> QED
    BY <1>1, <1>2, FormReads

LEMMA ReturnedWhole ==
  ASSUME NEW node, NEW todo, Form(node, todo), todo # << >>, todo[1].do = "parse",
         todo[1].member = "whole", NEW callee, Form(callee, << >>)
  PROVE  /\ Form(callee, Tail(todo)) /\ Put(node, todo[1].member, callee) = callee
         /\ node.kind = "none" /\ Members(node) = << >>
  <1>1. todo = <<Parse("primary", "whole"), Decide("postfix"), Decide("infix")>>
    BY AtPrimaryCall
  <1>2. Tail(todo) = <<Decide("postfix"), Decide("infix")>>
    BY <1>1
  <1>3. Form(callee, Tail(todo))
    BY <1>2, OperatorsFollow
  <1> QED
    BY <1>3, AtWhole, PutWhole

(* A call returns: the callee's lexemes are its caller's. *)
LEMMA Returned ==
  ASSUME NEW node, NEW todo, Form(node, todo), todo # << >>, todo[1].do = "parse",
         NEW callee, Form(callee, << >>)
  PROVE  /\ Form(Put(node, todo[1].member, callee), Tail(todo))
         /\ Put(node, todo[1].member, callee).kind = "unit" <=> node.kind = "unit"
         /\ SameText(Members(Put(node, todo[1].member, callee)), Join(Members(node), Members(callee)))
  <1>1. /\ Finished(callee) /\ callee.kind \notin {"none", "unit", "lexeme"}
        /\ AllFinished(Members(callee)) /\ IsASequence(Members(callee))
    BY CalleeFinished, FormText
  <1>2. CASE todo[1].member = "whole"
    <2>1. Join(Members(node), Members(callee)) = Members(callee)
      BY <1>1, <1>2, ReturnedWhole, JoinEmpty
    <2> QED
      BY <2>1, <1>1, <1>2, ReturnedWhole DEF SameText
  <1>3. CASE todo[1].member # "whole"
    <2>1. AllFinished(Members(node)) /\ AllFinished(<<callee>>)
      BY <1>1, FormText, FinishedOne
    <2>2. SameText(<<callee>>, Members(callee))
      BY <1>1, ReadsOfNode DEF SameText
    <2>3. SameText(Join(Members(node), <<callee>>), Join(Members(node), Members(callee)))
      BY <1>1, <2>1, <2>2, LaterReadsSame
    <2> QED
      BY <2>3, <1>3, ReturnedMember
  <1> QED
    BY <1>2, <1>3

=============================================================================
