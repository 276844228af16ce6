-------------------------- MODULE Frontend_proofs --------------------------
(* Theorems about Frontend, for all programs: which blocks wait to be         *)
(* continued and which have ended, the pool of types and the registers, what  *)
(* interpret() may answer, and what has been written where it is read.        *)
EXTENDS FrontendInvariant, SequenceTheorems, FiniteSetTheorems, WellFoundedInduction, TLAPS

----------------------------------------------------------------------------

(* Sequences of anything. *)

LEMMA SequenceShape ==
  ASSUME NEW s, IsASequence(s)
  PROVE  /\ Len(s) \in Nat
         /\ DOMAIN s = 1..Len(s)
         /\ s = [i \in 1..Len(s) |-> s[i]]
  BY DEF IsASequence

LEMMA MadeASequence ==
  ASSUME NEW n \in Nat, NEW s, s = [i \in 1..n |-> s[i]]
  PROVE  /\ IsASequence(s)
         /\ Len(s) = n
         /\ DOMAIN s = 1..n
  <1> DEFINE S == {s[i] : i \in DOMAIN s}
  <1>1. DOMAIN s = 1..n
    OBVIOUS
  <1>2. \A i \in 1..n : s[i] \in S
    BY <1>1
  <1>3. s \in [1..n -> S]
    BY <1>2
  <1>4. s \in Seq(S)
    BY <1>3
  <1> QED
    BY <1>1, <1>3, <1>4 DEF IsASequence

LEMMA InWider ==
  ASSUME NEW s, IsASequence(s), NEW S, \A i \in DOMAIN s : s[i] \in S
  PROVE  s \in Seq(S)
  BY SequenceShape

LEMMA AppendedSequence ==
  ASSUME NEW s, IsASequence(s), NEW x
  PROVE  /\ IsASequence(Append(s, x))
         /\ Len(Append(s, x)) = Len(s) + 1
         /\ Append(s, x)[Len(s) + 1] = x
         /\ \A i \in 1..Len(s) : Append(s, x)[i] = s[i]
  <1> DEFINE S == {s[i] : i \in DOMAIN s} \cup {x}
             t == Append(s, x)
  <1>1. s \in Seq(S) /\ x \in S
    BY InWider
  <1>2. /\ t \in Seq(S)
        /\ Len(t) = Len(s) + 1
        /\ t[Len(s) + 1] = x
        /\ \A i \in 1..Len(s) : t[i] = s[i]
    BY <1>1
  <1> HIDE DEF t, S
  <1>3. Len(t) \in Nat /\ t = [i \in 1..Len(t) |-> t[i]]
    BY <1>2
  <1>4. IsASequence(t)
    BY <1>3, MadeASequence
  <1> QED
    BY <1>2, <1>4 DEF t

LEMMA JoinedSequence ==
  ASSUME NEW s, IsASequence(s), NEW t, IsASequence(t)
  PROVE  /\ IsASequence(s \o t)
         /\ Len(s \o t) = Len(s) + Len(t)
         /\ \A i \in 1..Len(s) : (s \o t)[i] = s[i]
         /\ \A i \in 1..Len(t) : (s \o t)[Len(s) + i] = t[i]
  <1> DEFINE S == {s[i] : i \in DOMAIN s} \cup {t[i] : i \in DOMAIN t}
             u == s \o t
  <1>1. s \in Seq(S) /\ t \in Seq(S)
    BY InWider
  <1>0. Len(s) \in Nat /\ Len(t) \in Nat
    BY SequenceShape
  <1>2. /\ u \in Seq(S)
        /\ Len(u) = Len(s) + Len(t)
        /\ \A i \in 1 .. Len(s) + Len(t) : u[i] = IF i <= Len(s) THEN s[i] ELSE t[i - Len(s)]
    BY <1>1, ConcatProperties
  <1> HIDE DEF u
  <1>3. Len(u) \in Nat /\ u = [i \in 1..Len(u) |-> u[i]]
    BY <1>2
  <1>4. IsASequence(u)
    BY <1>3, MadeASequence
  <1>5. \A i \in 1..Len(s) : u[i] = s[i]
    BY <1>0, <1>2
  <1>6. \A i \in 1..Len(t) : u[Len(s) + i] = t[i]
    BY <1>0, <1>2
  <1> QED
    BY <1>2, <1>4, <1>5, <1>6 DEF u

LEMMA TailOfSequence ==
  ASSUME NEW s, IsASequence(s), s # << >>
  PROVE  /\ IsASequence(Tail(s))
         /\ Len(s) \in Nat \ {0}
         /\ Len(Tail(s)) = Len(s) - 1
         /\ \A i \in 1..Len(s) - 1 : Tail(s)[i] = s[i + 1]
         /\ Head(s) = s[1]
  <1> DEFINE S == {s[i] : i \in DOMAIN s}
             t == Tail(s)
  <1>1. s \in Seq(S)
    BY DEF IsASequence
  <1>2. /\ t \in Seq(S) /\ Len(t) = Len(s) - 1
        /\ \A i \in 1..Len(t) : t[i] = s[i + 1]
    BY <1>1, HeadTailProperties
  <1>3. Len(s) \in Nat /\ Len(s) # 0
    BY <1>1
  <1>4. Head(s) = s[1]
    BY <1>1
  <1> HIDE DEF t, S
  <1>5. Len(t) \in Nat /\ t = [i \in 1..Len(t) |-> t[i]]
    BY <1>2
  <1>6. IsASequence(t)
    BY <1>5, MadeASequence
  <1> QED
    BY <1>2, <1>3, <1>4, <1>6 DEF t

LEMMA EmptySequence ==
  /\ IsASequence(<< >>)
  /\ Len(<< >>) = 0
  /\ \A s : IsASequence(s) => (s = << >> <=> Len(s) = 0)
  BY EmptySeq DEF IsASequence

LEMMA OneSequence ==
  ASSUME NEW x
  PROVE  /\ IsASequence(<<x>>)
         /\ Len(<<x>>) = 1
         /\ <<x>>[1] = x
  BY DEF IsASequence

----------------------------------------------------------------------------

(* Frames by their depth. *)

LEMMA PushedAt ==
  ASSUME NEW s, IsASequence(s), NEW frame
  PROVE  LET t == <<frame>> \o s
         IN  /\ IsASequence(t)
             /\ Len(t) = Len(s) + 1
             /\ t # << >> /\ Head(t) = frame
             /\ At(t, Len(t)) = frame
             /\ \A d \in 1..Len(s) : At(t, d) = At(s, d)
  <1> DEFINE t == <<frame>> \o s
  <1>1. /\ IsASequence(t)
        /\ Len(t) = 1 + Len(s)
        /\ t[1] = frame
        /\ \A i \in 1..Len(s) : t[1 + i] = s[i]
    BY JoinedSequence, OneSequence
  <1>2. Len(s) \in Nat
    BY SequenceShape
  <1> HIDE DEF t
  <1>3. t # << >>
    BY <1>1, <1>2, EmptySequence
  <1>4. Head(t) = frame
    BY <1>1, <1>3, TailOfSequence
  <1>5. At(t, Len(t)) = frame
    BY <1>1, <1>2 DEF At
  <1>6. ASSUME NEW d \in 1..Len(s)
        PROVE  At(t, d) = At(s, d)
    BY <1>1, <1>2 DEF At
  <1> QED
    BY <1>1, <1>2, <1>3, <1>4, <1>5, <1>6 DEF t

LEMMA DroppedAt ==
  ASSUME NEW s, IsASequence(s), s # << >>
  PROVE  /\ IsASequence(Tail(s))
         /\ Len(s) \in Nat \ {0}
         /\ Len(Tail(s)) = Len(s) - 1
         /\ At(s, Len(s)) = Head(s)
         /\ \A d \in 1..Len(s) - 1 : At(Tail(s), d) = At(s, d)
  <1> DEFINE t == Tail(s)
  <1>1. /\ IsASequence(t)
        /\ Len(s) \in Nat \ {0}
        /\ Len(t) = Len(s) - 1
        /\ \A i \in 1..Len(s) - 1 : t[i] = s[i + 1]
        /\ Head(s) = s[1]
    BY TailOfSequence
  <1> HIDE DEF t
  <1>2. At(s, Len(s)) = Head(s)
    BY <1>1 DEF At
  <1>3. ASSUME NEW d \in 1..Len(s) - 1
        PROVE  At(t, d) = At(s, d)
    BY <1>1 DEF At
  <1> QED
    BY <1>1, <1>2, <1>3 DEF t

LEMMA SwappedAt ==
  ASSUME NEW s, IsASequence(s), s # << >>, NEW frame
  PROVE  LET t == <<frame>> \o Tail(s)
         IN  /\ IsASequence(t)
             /\ Len(t) = Len(s)
             /\ t # << >> /\ Head(t) = frame
             /\ At(t, Len(s)) = frame
             /\ \A d \in 1..Len(s) - 1 : At(t, d) = At(s, d)
  <1> DEFINE u == Tail(s)
             t == <<frame>> \o u
  <1>1. /\ IsASequence(u)
        /\ Len(s) \in Nat \ {0}
        /\ Len(u) = Len(s) - 1
        /\ \A d \in 1..Len(s) - 1 : At(u, d) = At(s, d)
    BY DroppedAt
  <1> HIDE DEF u
  <1>2. /\ IsASequence(t)
        /\ Len(t) = Len(u) + 1
        /\ t # << >> /\ Head(t) = frame
        /\ At(t, Len(t)) = frame
        /\ \A d \in 1..Len(u) : At(t, d) = At(u, d)
    BY <1>1, PushedAt
  <1> HIDE DEF t
  <1>3. Len(t) = Len(s)
    BY <1>1, <1>2
  <1> QED
    BY <1>1, <1>2, <1>3 DEF t, u

----------------------------------------------------------------------------

(* What emission does to the open blocks. *)

LEMMA SequenceWith ==
  ASSUME NEW s, IsASequence(s), NEW i \in DOMAIN s, NEW x
  PROVE  LET t == [s EXCEPT ![i] = x]
         IN  /\ IsASequence(t)
             /\ Len(t) = Len(s)
             /\ DOMAIN t = DOMAIN s
             /\ t[i] = x
             /\ \A j \in DOMAIN s : j # i => t[j] = s[j]
  <1> DEFINE t == [s EXCEPT ![i] = x]
  <1>1. Len(s) \in Nat /\ DOMAIN s = 1..Len(s)
    BY SequenceShape
  <1>2. DOMAIN t = DOMAIN s /\ t[i] = x /\ \A j \in DOMAIN s : j # i => t[j] = s[j]
    OBVIOUS
  <1>3. t = [j \in 1..Len(s) |-> t[j]]
    BY <1>1
  <1> HIDE DEF t
  <1> QED
    BY <1>1, <1>2, <1>3, MadeASequence DEF t

(* A function replaced by one that is well formed. *)
LEMMA FunctionReplaced ==
  ASSUME NEW fs, FunctionsFormed(fs), NEW f \in DOMAIN fs, NEW code, CodeFormed(code)
  PROVE  LET gs == WithCode(fs, f, code)
         IN  /\ FunctionsFormed(gs)
             /\ DOMAIN gs = DOMAIN fs
             /\ Len(gs) = Len(fs)
             /\ gs[f] = code
             /\ \A g, c : IsOpen(gs, g, c) <=>
                  IF g = f THEN c \in DOMAIN code.blocks /\ code.blocks[c].terminator = NoTerminator
                  ELSE IsOpen(fs, g, c)
  <1> DEFINE gs == WithCode(fs, f, code)
  <1>1. /\ IsASequence(gs)
        /\ Len(gs) = Len(fs)
        /\ DOMAIN gs = DOMAIN fs
        /\ gs[f] = code
        /\ \A g \in DOMAIN fs : g # f => gs[g] = fs[g]
    BY SequenceWith DEF FunctionsFormed, WithCode
  <1> HIDE DEF gs
  <1>2. FunctionsFormed(gs)
    BY <1>1 DEF FunctionsFormed
  <1>3. ASSUME NEW g, NEW c
        PROVE  IsOpen(gs, g, c) <=>
                  IF g = f THEN c \in DOMAIN code.blocks /\ code.blocks[c].terminator = NoTerminator
                  ELSE IsOpen(fs, g, c)
    BY <1>1 DEF IsOpen
  <1> QED
    BY <1>1, <1>2, <1>3 DEF gs

LEMMA CodeWithBlocks ==
  ASSUME NEW code, CodeFormed(code), NEW blocks, IsASequence(blocks),
         \A b \in DOMAIN blocks : BlockFormed(blocks[b])
  PROVE  LET new == [code EXCEPT !.blocks = blocks]
         IN  CodeFormed(new) /\ new.blocks = blocks
  <1> DEFINE new == [code EXCEPT !.blocks = blocks]
  <1>1. code = [type |-> code.type, register_count |-> code.register_count, blocks |-> code.blocks]
    BY DEF CodeFormed
  <1>2. new = [type |-> code.type, register_count |-> code.register_count, blocks |-> blocks]
    BY <1>1
  <1> HIDE DEF new
  <1>3. /\ new.blocks = blocks
        /\ new = [type |-> new.type, register_count |-> new.register_count, blocks |-> new.blocks]
    BY <1>2
  <1> QED
    BY <1>3 DEF CodeFormed, new

(* A block replaced in a function. *)
LEMMA BlockReplaced ==
  ASSUME NEW fs, FunctionsFormed(fs), NEW f \in DOMAIN fs, NEW b \in DOMAIN fs[f].blocks,
         NEW block, BlockFormed(block)
  PROVE  LET gs == WithBlock(fs, f, b, block)
         IN  /\ FunctionsFormed(gs)
             /\ DOMAIN gs = DOMAIN fs
             /\ Len(gs) = Len(fs)
             /\ DOMAIN gs[f].blocks = DOMAIN fs[f].blocks
             /\ Len(gs[f].blocks) = Len(fs[f].blocks)
             /\ \A g, c : IsOpen(gs, g, c) <=>
                  IF g = f /\ c = b THEN block.terminator = NoTerminator ELSE IsOpen(fs, g, c)
  <1> DEFINE blocks == [fs[f].blocks EXCEPT ![b] = block]
             code == [fs[f] EXCEPT !.blocks = blocks]
             gs == WithBlock(fs, f, b, block)
  <1>0. CodeFormed(fs[f])
    BY DEF FunctionsFormed
  <1>1. /\ IsASequence(blocks)
        /\ Len(blocks) = Len(fs[f].blocks)
        /\ DOMAIN blocks = DOMAIN fs[f].blocks
        /\ blocks[b] = block
        /\ \A c \in DOMAIN fs[f].blocks : c # b => blocks[c] = fs[f].blocks[c]
    BY <1>0, SequenceWith DEF CodeFormed
  <1>2. \A c \in DOMAIN blocks : BlockFormed(blocks[c])
    BY <1>0, <1>1 DEF CodeFormed
  <1>5. gs = WithCode(fs, f, code)
    BY DEF WithBlock
  <1> HIDE DEF blocks, gs
  <1>3. CodeFormed(code) /\ code.blocks = blocks
    BY <1>0, <1>1, <1>2, CodeWithBlocks
  <1> HIDE DEF code
  <1>4. /\ FunctionsFormed(gs)
        /\ DOMAIN gs = DOMAIN fs
        /\ Len(gs) = Len(fs)
        /\ gs[f] = code
        /\ \A g, c : IsOpen(gs, g, c) <=>
             IF g = f THEN c \in DOMAIN code.blocks /\ code.blocks[c].terminator = NoTerminator
             ELSE IsOpen(fs, g, c)
    BY <1>3, <1>5, FunctionReplaced
  <1>6. ASSUME NEW g, NEW c
        PROVE  IsOpen(gs, g, c) <=>
                  IF g = f /\ c = b THEN block.terminator = NoTerminator ELSE IsOpen(fs, g, c)
    BY <1>1, <1>3, <1>4 DEF IsOpen
  <1> QED
    BY <1>1, <1>3, <1>4, <1>6 DEF gs

LEMMA TerminatorEnds ==
  ASSUME NEW fs, FunctionsFormed(fs), IsOpen(fs, current.function, current.block),
         NEW t, t # NoTerminator
  PROVE  LET gs == WithTerminator(fs, t)
         IN  /\ FunctionsFormed(gs)
             /\ DOMAIN gs = DOMAIN fs
             /\ Len(gs[current.function].blocks) = Len(fs[current.function].blocks)
             /\ \A g, c : IsOpen(gs, g, c) <=>
                  IsOpen(fs, g, c) /\ ~(g = current.function /\ c = current.block)
  <1> DEFINE f == current.function
             b == current.block
             old == fs[f].blocks[b]
             block == [old EXCEPT !.terminator = t]
             gs == WithTerminator(fs, t)
  <1>1. f \in DOMAIN fs /\ b \in DOMAIN fs[f].blocks
    BY DEF IsOpen
  <1>2. BlockFormed(old)
    BY <1>1 DEF FunctionsFormed, CodeFormed
  <1>3. gs = WithBlock(fs, f, b, block)
    BY DEF WithTerminator, WithBlock, WithCode
  <1> HIDE DEF gs, f, b, old
  <1>4. block = [parameters |-> old.parameters, instructions |-> old.instructions, terminator |-> t]
    BY <1>2 DEF BlockFormed
  <1> HIDE DEF block
  <1>5. BlockFormed(block) /\ block.terminator = t
    BY <1>4 DEF BlockFormed
  <1>6. /\ FunctionsFormed(gs)
        /\ DOMAIN gs = DOMAIN fs
        /\ Len(gs[f].blocks) = Len(fs[f].blocks)
        /\ \A g, c : IsOpen(gs, g, c) <=>
             IF g = f /\ c = b THEN block.terminator = NoTerminator ELSE IsOpen(fs, g, c)
    BY <1>1, <1>3, <1>5, BlockReplaced
  <1> QED
    BY <1>5, <1>6 DEF f, b, gs

LEMMA BlockKeepsItsEnd ==
  ASSUME NEW fs, FunctionsFormed(fs), NEW f \in DOMAIN fs, NEW b \in DOMAIN fs[f].blocks,
         NEW gs, NEW x,
         gs = Instructed(fs, f, b, x) \/ gs = Entered(fs, f, b, x)
  PROVE  /\ FunctionsFormed(gs)
         /\ DOMAIN gs = DOMAIN fs
         /\ DOMAIN gs[f].blocks = DOMAIN fs[f].blocks
         /\ Len(gs[f].blocks) = Len(fs[f].blocks)
         /\ \A g, c : IsOpen(gs, g, c) <=> IsOpen(fs, g, c)
  <1> DEFINE old == fs[f].blocks[b]
             ran == [old EXCEPT !.instructions = x]
             entered == [old EXCEPT !.parameters = x]
  <1>1. BlockFormed(old)
    BY DEF FunctionsFormed, CodeFormed
  <1>2. gs = WithBlock(fs, f, b, ran) \/ gs = WithBlock(fs, f, b, entered)
    BY DEF WithBlock, WithCode, Instructed, Entered
  <1> HIDE DEF old
  <1>3. /\ ran = [parameters |-> old.parameters, instructions |-> x, terminator |-> old.terminator]
        /\ entered = [parameters |-> x, instructions |-> old.instructions,
                      terminator |-> old.terminator]
    BY <1>1 DEF BlockFormed
  <1> HIDE DEF ran, entered
  <1>4. /\ BlockFormed(ran) /\ ran.terminator = old.terminator
        /\ BlockFormed(entered) /\ entered.terminator = old.terminator
    BY <1>3 DEF BlockFormed
  <1>5. PICK block : /\ BlockFormed(block)
                     /\ block.terminator = old.terminator
                     /\ gs = WithBlock(fs, f, b, block)
    BY <1>2, <1>4
  <1>6. /\ FunctionsFormed(gs)
        /\ DOMAIN gs = DOMAIN fs
        /\ DOMAIN gs[f].blocks = DOMAIN fs[f].blocks
        /\ Len(gs[f].blocks) = Len(fs[f].blocks)
        /\ \A g, c : IsOpen(gs, g, c) <=>
             IF g = f /\ c = b THEN block.terminator = NoTerminator ELSE IsOpen(fs, g, c)
    BY <1>5, BlockReplaced
  <1>7. IsOpen(fs, f, b) <=> old.terminator = NoTerminator
    BY DEF IsOpen, old
  <1> QED
    BY <1>5, <1>6, <1>7

LEMMA RegisterAllocated ==
  ASSUME NEW fs, FunctionsFormed(fs), current.function \in DOMAIN fs
  PROVE  LET gs == WithRegister(fs)
         IN  /\ FunctionsFormed(gs)
             /\ DOMAIN gs = DOMAIN fs
             /\ gs[current.function].blocks = fs[current.function].blocks
             /\ \A g, c : IsOpen(gs, g, c) <=> IsOpen(fs, g, c)
  <1> DEFINE f == current.function
             old == fs[f]
             code == [old EXCEPT !.register_count = @ + 1]
             gs == WithRegister(fs)
  <1>1. CodeFormed(old)
    BY DEF FunctionsFormed
  <1>2. gs = WithCode(fs, f, code)
    BY DEF WithRegister, WithCode
  <1> HIDE DEF old, gs
  <1>3. code = [type |-> old.type, register_count |-> old.register_count + 1, blocks |-> old.blocks]
    BY <1>1 DEF CodeFormed
  <1> HIDE DEF code
  <1>4. CodeFormed(code) /\ code.blocks = old.blocks
    BY <1>1, <1>3 DEF CodeFormed
  <1>5. /\ FunctionsFormed(gs)
        /\ DOMAIN gs = DOMAIN fs
        /\ gs[f] = code
        /\ \A g, c : IsOpen(gs, g, c) <=>
             IF g = f THEN c \in DOMAIN code.blocks /\ code.blocks[c].terminator = NoTerminator
             ELSE IsOpen(fs, g, c)
    BY <1>2, <1>4, FunctionReplaced
  <1>6. \A c : IsOpen(fs, f, c) <=>
             c \in DOMAIN old.blocks /\ old.blocks[c].terminator = NoTerminator
    BY DEF IsOpen, old
  <1> QED
    BY <1>4, <1>5, <1>6 DEF gs, old

(* An instruction and its register. *)
LEMMA InstructionEmitted ==
  ASSUME NEW fs, FunctionsFormed(fs), IsOpen(fs, current.function, current.block), NEW instruction
  PROVE  LET gs == WithRegister(WithInstruction(fs, instruction))
         IN  /\ FunctionsFormed(gs)
             /\ \A g, c : IsOpen(gs, g, c) <=> IsOpen(fs, g, c)
  <1> DEFINE f == current.function
             b == current.block
             hs == WithInstruction(fs, instruction)
  <1>1. f \in DOMAIN fs /\ b \in DOMAIN fs[f].blocks
    BY DEF IsOpen
  <1>2. hs = Instructed(fs, f, b, Append(fs[f].blocks[b].instructions, instruction))
    BY DEF WithInstruction, Instructed
  <1> HIDE DEF hs
  <1>3. /\ FunctionsFormed(hs) /\ DOMAIN hs = DOMAIN fs
        /\ \A g, c : IsOpen(hs, g, c) <=> IsOpen(fs, g, c)
    BY <1>1, <1>2, BlockKeepsItsEnd
  <1> QED
    BY <1>1, <1>3, RegisterAllocated DEF hs

LEMMA EmptyBlockFormed ==
  BlockFormed(EmptyBlock) /\ EmptyBlock.terminator = NoTerminator
  BY DEF BlockFormed, EmptyBlock

LEMMA BlocksAdded ==
  ASSUME NEW fs, FunctionsFormed(fs), current.function \in DOMAIN fs, NEW n \in Nat
  PROVE  LET gs == WithBlocks(fs, n)
             last == Len(fs[current.function].blocks)
         IN  /\ FunctionsFormed(gs)
             /\ last \in Nat
             /\ \A g, c : IsOpen(gs, g, c) <=>
                  IsOpen(fs, g, c) \/ (g = current.function /\ c \in last + 1..last + n)
  <1> DEFINE f == current.function
             front == fs[f].blocks
             last == Len(front)
             added == [i \in 1..n |-> EmptyBlock]
             blocks == front \o added
             code == [fs[f] EXCEPT !.blocks = blocks]
             gs == WithBlocks(fs, n)
  <1>1. /\ CodeFormed(fs[f]) /\ IsASequence(front)
        /\ \A b \in DOMAIN front : BlockFormed(front[b])
    BY DEF FunctionsFormed, CodeFormed
  <1>2. gs = WithCode(fs, f, code)
    BY DEF WithBlocks, WithCode
  <1>3. /\ IsASequence(added) /\ Len(added) = n /\ DOMAIN added = 1..n
        /\ \A i \in 1..n : added[i] = EmptyBlock
    BY MadeASequence
  <1>13. \A c : IsOpen(fs, f, c) <=> c \in DOMAIN front /\ front[c].terminator = NoTerminator
    BY DEF IsOpen
  <1> HIDE DEF added, front
  <1>4. /\ IsASequence(blocks)
        /\ Len(blocks) = last + n
        /\ last \in Nat /\ DOMAIN front = 1..last
        /\ \A i \in 1..last : blocks[i] = front[i]
        /\ \A i \in 1..n : blocks[last + i] = EmptyBlock
    <2>3. IsASequence(front) /\ IsASequence(added) /\ Len(added) = n
      BY <1>1, <1>3
    <2>4. IsASequence(blocks)
      BY <2>3, JoinedSequence
    <2>5. Len(blocks) = last + Len(added)
      BY <2>3, JoinedSequence
    <2>6. \A i \in 1..last : blocks[i] = front[i]
      BY <2>3, JoinedSequence
    <2>7. \A i \in 1..Len(added) : blocks[last + i] = added[i]
      BY <2>3, JoinedSequence
    <2>1. /\ IsASequence(blocks)
          /\ Len(blocks) = last + n
          /\ \A i \in 1..last : blocks[i] = front[i]
          /\ \A i \in 1..n : blocks[last + i] = added[i]
      BY <2>3, <2>4, <2>5, <2>6, <2>7
    <2>2. last \in Nat /\ DOMAIN front = 1..last
      BY <1>1, SequenceShape
    <2> QED
      BY <1>3, <2>1, <2>2
  <1> HIDE DEF blocks
  <1>5. DOMAIN blocks = 1..last + n
    BY <1>4, SequenceShape
  <1> HIDE DEF last
  <1>6. \A i \in last + 1..last + n : blocks[i] = EmptyBlock
    BY <1>4
  <1>7. \A i \in 1..last + n : i \in 1..last \/ i \in last + 1..last + n
    BY <1>4
  <1>8. \A b \in DOMAIN blocks : BlockFormed(blocks[b])
    BY <1>1, <1>4, <1>5, <1>6, <1>7, EmptyBlockFormed
  <1>9. CodeFormed(code) /\ code.blocks = blocks
    BY <1>1, <1>4, <1>8, CodeWithBlocks
  <1> HIDE DEF code, gs
  <1>10. /\ FunctionsFormed(gs)
         /\ \A g, c : IsOpen(gs, g, c) <=>
              IF g = f THEN c \in DOMAIN code.blocks /\ code.blocks[c].terminator = NoTerminator
              ELSE IsOpen(fs, g, c)
    BY <1>2, <1>9, FunctionReplaced
  <1>11. ASSUME NEW c
         PROVE  c \in DOMAIN blocks /\ blocks[c].terminator = NoTerminator <=>
                  IsOpen(fs, f, c) \/ c \in last + 1..last + n
    BY <1>4, <1>5, <1>13, <1>6, EmptyBlockFormed, <1>7
  <1>12. \A g, c : IsOpen(gs, g, c) <=>
           IsOpen(fs, g, c) \/ (g = f /\ c \in last + 1..last + n)
    BY <1>9, <1>10, <1>11
  <1> QED
    BY <1>4, <1>10, <1>12 DEF gs, last, front

(* A function's first block. *)
LEMMA FunctionAdded ==
  ASSUME NEW fs, FunctionsFormed(fs), NEW type, NEW count, NEW parameters
  PROVE  LET block == [EmptyBlock EXCEPT !.parameters = parameters]
             gs == Append(fs, [type |-> type, register_count |-> count, blocks |-> <<block>>])
             last == Len(fs)
         IN  /\ FunctionsFormed(gs)
             /\ last \in Nat
             /\ \A g, c : IsOpen(gs, g, c) <=> IsOpen(fs, g, c) \/ (g = last + 1 /\ c = 1)
             /\ \A c : ~IsOpen(fs, last + 1, c)
  <1> DEFINE block == [EmptyBlock EXCEPT !.parameters = parameters]
             code == [type |-> type, register_count |-> count, blocks |-> <<block>>]
             gs == Append(fs, code)
             last == Len(fs)
  <1>1. BlockFormed(block) /\ block.terminator = NoTerminator
    BY DEF BlockFormed, EmptyBlock
  <1> HIDE DEF block
  <1>2. IsASequence(<<block>>) /\ DOMAIN <<block>> = 1..1 /\ <<block>>[1] = block
    BY OneSequence, SequenceShape
  <1>3. CodeFormed(code) /\ code.blocks = <<block>>
    BY <1>1, <1>2 DEF CodeFormed
  <1> HIDE DEF code
  <1>4. /\ IsASequence(gs) /\ Len(gs) = last + 1
        /\ gs[last + 1] = code
        /\ \A i \in 1..last : gs[i] = fs[i]
        /\ last \in Nat /\ DOMAIN fs = 1..last
    BY AppendedSequence, SequenceShape DEF FunctionsFormed
  <1> HIDE DEF gs, last
  <1>5. DOMAIN gs = 1..last + 1
    BY <1>4, SequenceShape
  <1>6. \A i \in 1..last + 1 : i \in 1..last \/ i = last + 1
    BY <1>4
  <1>7. FunctionsFormed(gs)
    BY <1>3, <1>4, <1>5, <1>6 DEF FunctionsFormed
  <1>8. 1..last \subseteq 1..last + 1 /\ last + 1 \in 1..last + 1 /\ last + 1 \notin 1..last
    BY <1>4
  <1>9. \A c : ~IsOpen(fs, last + 1, c)
    BY <1>4, <1>8 DEF IsOpen
  <1>10. ASSUME NEW g, NEW c
         PROVE  IsOpen(gs, g, c) <=> IsOpen(fs, g, c) \/ (g = last + 1 /\ c = 1)
    BY <1>4, <1>5, <1>8, <1>2, <1>3, <1>1, <1>9, <1>6 DEF IsOpen
  <1> QED
    BY <1>4, <1>7, <1>9, <1>10 DEF gs, last, code, block

----------------------------------------------------------------------------

(* Frames come and go: the stack stays well formed. *)

LEMMA StackPushed ==
  ASSUME NEW s, StackFormed(s), NEW frame, FrameFormed(frame),
         frame.at \in StatementFrames => s = << >> \/ Head(s).at = "block",
         frame.at \notin StatementFrames => s # << >>
  PROVE  StackFormed(<<frame>> \o s)
  <1> DEFINE t == <<frame>> \o s
  <1>1. IsASequence(s) /\ Len(s) \in Nat
    BY SequenceShape DEF StackFormed
  <1>2. /\ IsASequence(t)
        /\ Len(t) = Len(s) + 1
        /\ At(t, Len(s) + 1) = frame
        /\ \A d \in 1..Len(s) : At(t, d) = At(s, d)
    BY <1>1, PushedAt
  <1>3. s # << >> => Len(s) # 0 /\ At(s, Len(s)) = Head(s)
    BY <1>1, DroppedAt
  <1>4. s = << >> => Len(s) = 0
    BY EmptySequence
  <1> HIDE DEF t
  <1>5. \A d \in 1..Len(t) : d \in 1..Len(s) \/ d = Len(s) + 1
    BY <1>1, <1>2
  <1>6. \A d \in 1..Len(t) : FrameFormed(At(t, d))
    BY <1>2, <1>5 DEF StackFormed
  <1>7. ASSUME NEW d \in 1..Len(t), At(t, d).at \in StatementFrames
        PROVE  d = 1 \/ At(t, d - 1).at = "block"
    BY <1>1, <1>2, <1>7, <1>4, <1>3, <1>5 DEF StackFormed
  <1>8. At(t, 1).at \in StatementFrames
    BY <1>2, <1>4, <1>1, <1>3 DEF StackFormed
  <1> QED
    BY <1>2, <1>6, <1>7, <1>8 DEF StackFormed, t

LEMMA StackSwapped ==
  ASSUME NEW s, StackFormed(s), s # << >>, Head(s).at \notin StatementFrames,
         NEW frame, FrameFormed(frame), frame.at \notin StatementFrames
  PROVE  StackFormed(<<frame>> \o Tail(s))
  <1> DEFINE t == <<frame>> \o Tail(s)
  <1>1. IsASequence(s)
    BY DEF StackFormed
  <1>2. /\ IsASequence(t)
        /\ Len(t) = Len(s)
        /\ At(t, Len(s)) = frame
        /\ \A d \in 1..Len(s) - 1 : At(t, d) = At(s, d)
    BY <1>1, SwappedAt
  <1>3. Len(s) \in Nat \ {0} /\ At(s, Len(s)) = Head(s)
    BY <1>1, DroppedAt
  <1> HIDE DEF t
  <1>5. \A d \in 1..Len(t) : d \in 1..Len(s) - 1 \/ d = Len(s)
    BY <1>2, <1>3
  <1>6. \A d \in 1..Len(s) - 1 : d \in 1..Len(s)
    BY <1>3
  <1>7. \A d \in 1..Len(t) : FrameFormed(At(t, d))
    BY <1>2, <1>5, <1>6 DEF StackFormed
  <1>8. ASSUME NEW d \in 1..Len(t), At(t, d).at \in StatementFrames
        PROVE  d = 1 \/ At(t, d - 1).at = "block"
    BY <1>2, <1>5, <1>8, <1>3, <1>6 DEF StackFormed
  <1>9. At(t, 1).at \in StatementFrames
    BY <1>3, <1>2 DEF StackFormed
  <1> QED
    BY <1>2, <1>7, <1>8, <1>9 DEF StackFormed, t

(* Under a statement's frame is a block's, under any other is something. *)
LEMMA StackDropped ==
  ASSUME NEW s, StackFormed(s), s # << >>
  PROVE  LET t == Tail(s)
         IN  /\ StackFormed(t)
             /\ Head(s).at \in StatementFrames => t = << >> \/ Head(t).at = "block"
             /\ Head(s).at \notin StatementFrames => t # << >>
  <1> DEFINE t == Tail(s)
  <1>1. IsASequence(s)
    BY DEF StackFormed
  <1>2. /\ IsASequence(t)
        /\ Len(s) \in Nat \ {0}
        /\ Len(t) = Len(s) - 1
        /\ At(s, Len(s)) = Head(s)
        /\ \A d \in 1..Len(s) - 1 : At(t, d) = At(s, d)
    BY <1>1, DroppedAt
  <1> HIDE DEF t
  <1>3. t # << >> => Len(t) # 0 /\ At(t, Len(t)) = Head(t)
    BY <1>2, DroppedAt
  <1>4. t = << >> => Len(t) = 0
    BY EmptySequence
  <1>5. \A d \in 1..Len(t) : d \in 1..Len(s) - 1 /\ d \in 1..Len(s)
    BY <1>2
  <1>6. \A d \in 1..Len(t) : FrameFormed(At(t, d))
    BY <1>2, <1>5 DEF StackFormed
  <1>7. ASSUME NEW d \in 1..Len(t), At(t, d).at \in StatementFrames
        PROVE  d = 1 \/ At(t, d - 1).at = "block"
    BY <1>2, <1>5, <1>7 DEF StackFormed
  <1>8. At(s, 1).at \in StatementFrames
    BY DEF StackFormed
  <1>9. t # << >> => At(t, 1).at \in StatementFrames
    BY <1>2, <1>3, <1>8
  <1>10. ASSUME Head(s).at \in StatementFrames, t # << >>
         PROVE  Head(t).at = "block"
    BY <1>2, <1>3, <1>10 DEF StackFormed
  <1>11. ASSUME Head(s).at \notin StatementFrames
         PROVE  t # << >>
    BY <1>2, <1>8, <1>11, <1>4
  <1> QED
    BY <1>2, <1>6, <1>7, <1>9, <1>10, <1>11 DEF StackFormed, t

----------------------------------------------------------------------------

(* Frames come and go: the functions that are being compiled. *)

(* A frame's place among the functions depends on the frames under it only.   *)
LEMMA LevelFitsStill ==
  ASSUME NEW s, NEW t, NEW level, NEW other, NEW n \in Nat,
         \A d \in 1..n : At(t, d) = At(s, d),
         \A d \in 0..n : other[d] = level[d],
         NEW d \in 1..n, LevelFits(level, s, d)
  PROVE  LevelFits(other, t, d)
  BY DEF LevelFits

LEMMA LevelsPushed ==
  ASSUME NEW s, IsASequence(s), NEW level, NEW function, Levelled(level, s, function),
         NEW frame, Ordinary(frame)
  PROVE  Levelled([level EXCEPT ![Len(s) + 1] = function.function], <<frame>> \o s, function)
  <1> DEFINE t == <<frame>> \o s
             other == [level EXCEPT ![Len(s) + 1] = function.function]
  <1>1. /\ Len(s) \in Nat
        /\ Len(t) = Len(s) + 1
        /\ At(t, Len(s) + 1) = frame
        /\ \A d \in 1..Len(s) : At(t, d) = At(s, d)
    BY PushedAt, SequenceShape
  <1> HIDE DEF t
  <1>2. level \in [Nat -> Nat] /\ level[Len(s)] = function.function /\ level[0] = 0
    BY DEF Levelled
  <1>3. function.function \in Nat
    BY <1>1, <1>2
  <1>4. /\ other \in [Nat -> Nat]
        /\ other[Len(s) + 1] = function.function
        /\ \A d \in 0..Len(s) : other[d] = level[d]
    BY <1>1, <1>2, <1>3
  <1> HIDE DEF other
  <1>5. \A d \in 1..Len(t) : d \in 1..Len(s) \/ d = Len(s) + 1
    BY <1>1
  <1>6. \A d \in 1..Len(s) : LevelFits(other, t, d)
    BY <1>1, <1>4, LevelFitsStill DEF Levelled
  <1>7. LevelFits(other, t, Len(s) + 1)
    <2>1. (Len(s) + 1) - 1 = Len(s) /\ Len(s) \in 0..Len(s)
      BY <1>1
    <2>2. other[Len(s) + 1] = level[Len(s)] /\ other[(Len(s) + 1) - 1] = level[Len(s)]
      BY <1>2, <1>4, <2>1
    <2>3. ASSUME level[Len(s)] # 0
          PROVE  \E e \in 1..Len(s) + 1 : At(t, e).at = "body"
      <3>1. Len(s) \in 1..Len(s)
        BY <1>1, <1>2, <2>3
      <3>2. PICK e \in 1..Len(s) : At(s, e).at = "body"
        BY <2>3, <3>1 DEF Levelled, LevelFits
      <3>3. e \in 1..Len(s) + 1 /\ At(t, e) = At(s, e)
        BY <1>1
      <3> QED
        BY <3>2, <3>3
    <2> QED
      BY <1>1, <2>2, <2>3 DEF LevelFits, Ordinary
  <1>8. \A d \in 1..Len(t) : LevelFits(other, t, d)
    BY <1>5, <1>6, <1>7
  <1>9. other[0] = 0 /\ other[Len(t)] = function.function
    BY <1>1, <1>2, <1>4
  <1> QED
    BY <1>4, <1>8, <1>9 DEF Levelled, t, other

LEMMA LevelsSwapped ==
  ASSUME NEW s, IsASequence(s), s # << >>, Head(s).at # "body",
         NEW level, NEW function, Levelled(level, s, function),
         NEW frame, frame.at # "body",
         frame.at \in {"branch", "else_if"} => function.function # 0,
         frame.at = "argument" /\ function.function = 0 =>
           \A i \in DOMAIN frame.values : ~IsRegister(frame.values[i])
  PROVE  Levelled(level, <<frame>> \o Tail(s), function)
  <1> DEFINE t == <<frame>> \o Tail(s)
             n == Len(s) - 1
  <1>1. /\ Len(t) = Len(s)
        /\ At(t, Len(s)) = frame
        /\ \A d \in 1..n : At(t, d) = At(s, d)
        /\ n \in Nat /\ Len(s) = n + 1 /\ Len(s) \in 1..Len(s)
        /\ At(s, Len(s)) = Head(s)
    BY SwappedAt, DroppedAt
  <1> HIDE DEF t
  <1>2. \A d \in 1..Len(s) : d \in 1..n \/ d = Len(s)
    BY <1>1
  <1>3. \A d \in 1..n : d \in 1..Len(s)
    BY <1>1
  <1>4. \A d \in 1..n : LevelFits(level, t, d)
    BY <1>1, <1>3, LevelFitsStill DEF Levelled
  <1>5. LevelFits(level, t, Len(s))
    BY <1>1, <1>2 DEF Levelled, LevelFits
  <1> QED
    BY <1>1, <1>2, <1>4, <1>5 DEF Levelled, t

LEMMA LevelsDropped ==
  ASSUME NEW s, IsASequence(s), s # << >>,
         NEW level, NEW function, Levelled(level, s, function),
         NEW back, FunctionFormed(back),
         back.function = 0 => back = NoFunction,
         level[Len(s) - 1] = back.function
  PROVE  Levelled(level, Tail(s), back)
  <1> DEFINE t == Tail(s)
             n == Len(s) - 1
  <1>1. /\ Len(t) = n
        /\ \A d \in 1..n : At(t, d) = At(s, d)
        /\ n \in Nat /\ Len(s) = n + 1
    BY DroppedAt
  <1> HIDE DEF t
  <1>2. \A d \in 1..n : d \in 1..Len(s)
    BY <1>1
  <1>3. \A d \in 1..n : LevelFits(level, t, d)
    BY <1>1, <1>2, LevelFitsStill DEF Levelled
  <1> QED
    BY <1>1, <1>3 DEF Levelled, t

(* A frame that starts no function leaves the current one as it goes. *)
LEMMA LevelUnderTop ==
  ASSUME NEW s, IsASequence(s), s # << >>,
         NEW level, NEW function, Levelled(level, s, function)
  PROVE  /\ Len(s) \in 1..Len(s) /\ Len(s) - 1 \in Nat /\ At(s, Len(s)) = Head(s)
         /\ LevelFits(level, s, Len(s))
         /\ Head(s).at # "body" => level[Len(s) - 1] = function.function
         /\ Head(s).at = "body" =>
              /\ function.function # 0
              /\ Head(s).saved.function = level[Len(s) - 1]
              /\ level[Len(s) - 1] = 0 => Head(s).saved = NoFunction
  <1>1. Len(s) \in 1..Len(s) /\ Len(s) - 1 \in Nat /\ At(s, Len(s)) = Head(s)
    BY DroppedAt
  <1>2. LevelFits(level, s, Len(s)) /\ level[Len(s)] = function.function
    BY <1>1 DEF Levelled
  <1> QED
    BY <1>1, <1>2 DEF LevelFits

LEMMA LevelsEntered ==
  ASSUME NEW s, IsASequence(s), s # << >>, Head(s).at # "body",
         NEW level, NEW function, Levelled(level, s, function),
         NEW frame, frame.at = "body", frame.saved = function,
         NEW inner, FunctionFormed(inner), inner.function \in Nat \ {0}
  PROVE  Levelled([level EXCEPT ![Len(s)] = inner.function], <<frame>> \o Tail(s), inner)
  <1> DEFINE t == <<frame>> \o Tail(s)
             n == Len(s) - 1
             other == [level EXCEPT ![Len(s)] = inner.function]
  <1>1. /\ Len(t) = Len(s)
        /\ At(t, Len(s)) = frame
        /\ \A d \in 1..n : At(t, d) = At(s, d)
        /\ n \in Nat /\ Len(s) = n + 1 /\ Len(s) \in 1..Len(s) /\ Len(s) \in Nat
    BY SwappedAt, DroppedAt
  <1>2. level[n] = function.function
    BY LevelUnderTop
  <1> HIDE DEF t
  <1>3. level \in [Nat -> Nat] /\ level[0] = 0
    BY DEF Levelled
  <1>4. /\ other \in [Nat -> Nat]
        /\ other[Len(s)] = inner.function
        /\ \A d \in 0..n : other[d] = level[d]
    BY <1>1, <1>3
  <1> HIDE DEF other
  <1>5. \A d \in 1..Len(s) : d \in 1..n \/ d = Len(s)
    BY <1>1
  <1>6. \A d \in 1..n : d \in 1..Len(s)
    BY <1>1
  <1>11. \A d \in 1..n : LevelFits(level, s, d)
    BY <1>6 DEF Levelled
  <1>7. \A d \in 1..n : LevelFits(other, t, d)
    BY <1>1, <1>4, <1>11, LevelFitsStill
  <1>8. LevelFits(other, t, Len(s))
    <2>1. n \in 0..n /\ Len(s) - 1 = n
      BY <1>1
    <2>2. other[Len(s) - 1] = function.function
      BY <1>2, <1>4, <2>1
    <2> QED
      BY <1>1, <1>4, <2>2 DEF LevelFits, Levelled
  <1>9. 0 \in 0..n
    BY <1>1
  <1>10. other[0] = 0
    BY <1>3, <1>4, <1>9
  <1> HIDE DEF n
  <1> QED
    BY <1>1, <1>4, <1>5, <1>7, <1>8, <1>10 DEF Levelled, t, other

----------------------------------------------------------------------------

(* Frames come and go: who waits for which open block. *)

(* Frames that wait for nothing. *)
LEMMA OwnedMoved ==
  ASSUME NEW s, NEW level, NEW function, NEW fs, NEW errors,
         Owned(level, s, function, fs, errors),
         NEW t, NEW other,
         \A d, b : Awaits(t, d, b) <=> Awaits(s, d, b),
         \A d, b : Awaits(t, d, b) => other[d - 1] = level[d - 1],
         \A d \in 1..Len(t) : Distinct(At(t, d))
  PROVE  Owned(other, t, function, fs, errors)
  BY DEF Owned

(* The open blocks are others, or the current one is, but nothing on the      *)
(* stack.                                                                     *)
LEMMA OwnedReopened ==
  ASSUME NEW s, NEW level, NEW function, NEW fs, NEW errors,
         Owned(level, s, function, fs, errors),
         NEW later, later.function = function.function, later.block = function.block,
         NEW gs, \A f, b : IsOpen(gs, f, b) <=> IsOpen(fs, f, b)
  PROVE  Owned(level, s, later, gs, errors)
  BY DEF Owned

(* One of the new blocks is the current one, the innermost frame waits for    *)
(* the others.                                                                *)
LEMMA OwnedForked ==
  ASSUME NEW s, NEW top, top = Len(s), NEW level, NEW function, NEW fs, NEW errors,
         Owned(level, s, function, fs, errors),
         function.function # 0, level[top - 1] = function.function,
         NEW gs, NEW new, EndsFor(fs, function, gs, new),
         NEW later, later.function = function.function, later.block \in new,
         NEW t, TakesOn(s, t, top, new \ {later.block})
  PROVE  Owned(level, t, later, gs, errors)
  <1> USE DEF EndsFor, TakesOn
  <1>1. \A d, b : Awaits(s, d, b) /\ level[d - 1] # 0 =>
          /\ IsOpen(fs, level[d - 1], b)
          /\ ~(level[d - 1] = function.function /\ b = function.block)
    BY DEF Owned
  <1>2. \A d, b : Awaits(s, d, b) /\ level[d - 1] = function.function => b \notin new
    BY <1>1
  <1>3. IsOpen(gs, later.function, later.block)
    OBVIOUS
  <1>4. ASSUME NEW d, NEW b, Awaits(t, d, b), level[d - 1] # 0
        PROVE  /\ IsOpen(gs, level[d - 1], b)
               /\ ~(level[d - 1] = later.function /\ b = later.block)
    BY <1>1, <1>2, <1>4
  <1>5. ASSUME NEW d, NEW e, NEW b, Awaits(t, d, b), Awaits(t, e, b), level[d - 1] # 0,
               level[d - 1] = level[e - 1]
        PROVE  d = e
    BY <1>5, <1>2 DEF Owned
  <1>6. ASSUME errors = 0, NEW f, NEW b, IsOpen(gs, f, b)
        PROVE  \/ f = later.function /\ b = later.block
               \/ \E d : Awaits(t, d, b) /\ level[d - 1] = f
    BY <1>6 DEF Owned
  <1> QED
    BY <1>3, <1>4, <1>5, <1>6 DEF Owned

(* The current block ends and one that the innermost frame waits for becomes  *)
(* the current one.                                                           *)
LEMMA OwnedReturned ==
  ASSUME NEW s, NEW top, top = Len(s), NEW level, NEW function, NEW fs, NEW errors,
         Owned(level, s, function, fs, errors),
         NEW gs, NEW later, \A b : ~IsOpen(fs, 0, b),
         later.function = level[top - 1],
         later.function # 0 => Awaits(s, top, later.block),
         EndsFor(fs, function, gs, {}),
         NEW t, LetsGo(s, t, top, later.block)
  PROVE  Owned(level, t, later, gs, errors)
  <1> USE DEF EndsFor, LetsGo
  <1>1. \A d, b : Awaits(s, d, b) /\ level[d - 1] # 0 =>
          /\ IsOpen(fs, level[d - 1], b)
          /\ ~(level[d - 1] = function.function /\ b = function.block)
    BY DEF Owned
  <1>2. \A d, e, b : Awaits(s, d, b) /\ Awaits(s, e, b) /\ level[d - 1] # 0
                       /\ level[d - 1] = level[e - 1] => d = e
    BY DEF Owned
  <1>3. later.function # 0 => IsOpen(gs, later.function, later.block)
    BY <1>1
  <1>4. ASSUME NEW d, NEW b, Awaits(t, d, b), level[d - 1] # 0
        PROVE  /\ IsOpen(gs, level[d - 1], b)
               /\ ~(level[d - 1] = later.function /\ b = later.block)
               /\ Awaits(s, d, b)
    BY <1>4, <1>1, <1>2
  <1>5. ASSUME NEW d, NEW e, NEW b, Awaits(t, d, b), Awaits(t, e, b), level[d - 1] # 0,
               level[d - 1] = level[e - 1]
        PROVE  d = e
    BY <1>2, <1>4, <1>5
  <1>6. ASSUME errors = 0, NEW f, NEW b, IsOpen(gs, f, b)
        PROVE  \/ f = later.function /\ b = later.block
               \/ \E d : Awaits(t, d, b) /\ level[d - 1] = f
    BY <1>6 DEF Owned
  <1> QED
    BY <1>3, <1>4, <1>5, <1>6 DEF Owned

(* A new function over the innermost frame, which waits for the current block.*)
LEMMA OwnedEntered ==
  ASSUME NEW s, NEW top, top = Len(s), NEW level, NEW function, NEW fs, NEW errors,
         Owned(level, s, function, fs, errors), level[top - 1] = function.function,
         NEW other, \A d, b : Awaits(s, d, b) => other[d - 1] = level[d - 1],
         other[top - 1] = level[top - 1],
         NEW gs, NEW inner, \A b : ~IsOpen(fs, inner.function, b) /\ ~IsOpen(fs, 0, b),
         inner.function # 0, inner.function # function.function,
         \A f, b : IsOpen(gs, f, b) <=>
           IsOpen(fs, f, b) \/ (f = inner.function /\ b = inner.block),
         NEW t, \A b : ~Awaits(s, top, b), TakesOn(s, t, top, {function.block})
  PROVE  Owned(other, t, inner, gs, errors)
  <1> USE DEF TakesOn
  <1>1. \A d, b : Awaits(s, d, b) /\ level[d - 1] # 0 =>
          /\ IsOpen(fs, level[d - 1], b)
          /\ ~(level[d - 1] = function.function /\ b = function.block)
    BY DEF Owned
  <1>2. ASSUME NEW d, NEW b, Awaits(t, d, b), other[d - 1] # 0
        PROVE  /\ IsOpen(gs, other[d - 1], b)
               /\ ~(other[d - 1] = inner.function /\ b = inner.block)
    BY <1>2, <1>1 DEF Owned
  <1>3. ASSUME NEW d, NEW e, NEW b, Awaits(t, d, b), Awaits(t, e, b), other[d - 1] # 0,
               other[d - 1] = other[e - 1]
        PROVE  d = e
    BY <1>3, <1>1 DEF Owned
  <1>4. ASSUME errors = 0, NEW f, NEW b, IsOpen(gs, f, b)
        PROVE  \/ f = inner.function /\ b = inner.block
               \/ \E d : Awaits(t, d, b) /\ other[d - 1] = f
    BY <1>4 DEF Owned
  <1>5. IsOpen(gs, inner.function, inner.block)
    OBVIOUS
  <1> QED
    BY <1>2, <1>3, <1>4, <1>5 DEF Owned

----------------------------------------------------------------------------

LEMMA IdleAwaitsNothing ==
  ASSUME NEW frame, Idle(frame)
  PROVE  Pending(frame) = {} /\ Distinct(frame)
  BY DEF Idle, Pending, Distinct

LEMMA WaitingPushed ==
  ASSUME NEW s, IsASequence(s), NEW function, NEW fs, NEW errors,
         Waiting(s, function, fs, errors), NEW frame, Ordinary(frame)
  PROVE  Waiting(<<frame>> \o s, function, fs, errors)
  <1> DEFINE t == <<frame>> \o s
  <1>1. PICK level : Levelled(level, s, function) /\ Owned(level, s, function, fs, errors)
    BY DEF Waiting
  <1> DEFINE other == [level EXCEPT ![Len(s) + 1] = function.function]
  <1>2. Levelled(other, t, function)
    BY <1>1, LevelsPushed
  <1>3. /\ Len(s) \in Nat
        /\ Len(t) = Len(s) + 1
        /\ At(t, Len(s) + 1) = frame
        /\ \A d \in 1..Len(s) : At(t, d) = At(s, d)
    BY PushedAt, SequenceShape
  <1>4. Pending(frame) = {} /\ Distinct(frame)
    BY IdleAwaitsNothing DEF Idle, Ordinary
  <1>5. \A d \in 1..Len(s) : other[d - 1] = level[d - 1]
    BY <1>1, <1>3 DEF Levelled
  <1> HIDE DEF t, other
  <1>6. \A d : d \in 1..Len(t) <=> d \in 1..Len(s) \/ d = Len(s) + 1
    BY <1>3
  <1>7. \A d, b : Awaits(t, d, b) <=> Awaits(s, d, b)
    BY <1>3, <1>4, <1>6 DEF Awaits
  <1>8. \A d, b : Awaits(t, d, b) => other[d - 1] = level[d - 1]
    BY <1>5, <1>7 DEF Awaits
  <1>9. \A d \in 1..Len(t) : Distinct(At(t, d))
    BY <1>1, <1>3, <1>4, <1>6 DEF Owned
  <1>10. Owned(other, t, function, fs, errors)
    BY <1>1, <1>7, <1>8, <1>9, OwnedMoved
  <1> QED
    BY <1>2, <1>10 DEF Waiting, t

LEMMA WaitingSwapped ==
  ASSUME NEW s, IsASequence(s), s # << >>, NEW function, NEW fs, NEW errors,
         Waiting(s, function, fs, errors), Idle(Head(s)), NEW frame, Idle(frame),
         frame.at = "argument" /\ function.function = 0 =>
           \A i \in DOMAIN frame.values : ~IsRegister(frame.values[i])
  PROVE  Waiting(<<frame>> \o Tail(s), function, fs, errors)
  <1> DEFINE t == <<frame>> \o Tail(s)
             n == Len(s) - 1
  <1>1. PICK level : Levelled(level, s, function) /\ Owned(level, s, function, fs, errors)
    BY DEF Waiting
  <1>2. Levelled(level, t, function)
    BY <1>1, LevelsSwapped DEF Idle
  <1>3. /\ Len(t) = Len(s)
        /\ At(t, Len(s)) = frame
        /\ \A d \in 1..n : At(t, d) = At(s, d)
        /\ n \in Nat /\ Len(s) = n + 1
        /\ At(s, Len(s)) = Head(s)
    BY SwappedAt, DroppedAt
  <1>4. /\ Pending(frame) = {} /\ Distinct(frame)
        /\ Pending(Head(s)) = {}
    BY IdleAwaitsNothing
  <1> HIDE DEF t
  <1>5. \A d \in 1..Len(s) : d \in 1..n \/ d = Len(s)
    BY <1>3
  <1> HIDE DEF n
  <1>7. \A d, b : Awaits(t, d, b) <=> Awaits(s, d, b)
    BY <1>3, <1>4, <1>5 DEF Awaits
  <1>9. \A d \in 1..Len(t) : Distinct(At(t, d))
    BY <1>1, <1>3, <1>4, <1>5 DEF Owned
  <1>10. Owned(level, t, function, fs, errors)
    BY <1>1, <1>7, <1>9, OwnedMoved
  <1> QED
    BY <1>2, <1>10 DEF Waiting, t

LEMMA WaitingDropped ==
  ASSUME NEW s, IsASequence(s), s # << >>, NEW function, NEW fs, NEW errors,
         Waiting(s, function, fs, errors), Idle(Head(s))
  PROVE  Waiting(Tail(s), function, fs, errors)
  <1> DEFINE t == Tail(s)
             n == Len(s) - 1
  <1>1. PICK level : Levelled(level, s, function) /\ Owned(level, s, function, fs, errors)
    BY DEF Waiting
  <1>2. Levelled(level, t, function)
    <2>1. FunctionFormed(function) /\ (function.function = 0 => function = NoFunction)
      BY <1>1 DEF Levelled
    <2>2. level[Len(s) - 1] = function.function
      BY <1>1, LevelUnderTop DEF Idle
    <2> QED
      BY <1>1, <2>1, <2>2, LevelsDropped
  <1>3. /\ Len(t) = n
        /\ \A d \in 1..n : At(t, d) = At(s, d)
        /\ n \in Nat /\ Len(s) = n + 1
        /\ At(s, Len(s)) = Head(s)
    BY DroppedAt
  <1>4. Pending(Head(s)) = {}
    BY IdleAwaitsNothing
  <1> HIDE DEF t
  <1>5. \A d : d \in 1..Len(s) <=> d \in 1..n \/ d = Len(s)
    BY <1>3
  <1> HIDE DEF n
  <1>7. \A d, b : Awaits(t, d, b) <=> Awaits(s, d, b)
    BY <1>3, <1>4, <1>5 DEF Awaits
  <1>9. \A d \in 1..Len(t) : Distinct(At(t, d))
    BY <1>1, <1>3, <1>5 DEF Owned
  <1>10. Owned(level, t, function, fs, errors)
    BY <1>1, <1>7, <1>9, OwnedMoved
  <1> QED
    BY <1>2, <1>10 DEF Waiting, t

LEMMA WaitingReopened ==
  ASSUME NEW s, NEW function, NEW fs, NEW errors,
         Waiting(s, function, fs, errors), function.function # 0,
         NEW later, FunctionFormed(later),
         later.function = function.function, later.block = function.block,
         NEW gs, \A f, b : IsOpen(gs, f, b) <=> IsOpen(fs, f, b)
  PROVE  Waiting(s, later, gs, errors)
  BY OwnedReopened DEF Waiting, Levelled

LEMMA NothingWaits ==
  ASSUME NEW fs, NEW errors, errors # 0 \/ \A f, b : ~IsOpen(fs, f, b)
  PROVE  Waiting(<< >>, NoFunction, fs, errors)
  <1> DEFINE level == [n \in Nat |-> 0]
  <1>1. Len(<< >>) = 0
    BY EmptySequence
  <1>2. \A d : d \notin 1..Len(<< >>)
    BY <1>1
  <1>3. NoFunction.function = 0 /\ FunctionFormed(NoFunction)
    BY DEF NoFunction, FunctionFormed
  <1>4. level \in [Nat -> Nat] /\ level[0] = 0 /\ level[Len(<< >>)] = 0
    BY <1>1
  <1> HIDE DEF level
  <1>5. Levelled(level, << >>, NoFunction)
    BY <1>2, <1>3, <1>4 DEF Levelled
  <1>6. Owned(level, << >>, NoFunction, fs, errors)
    BY <1>2, <1>3 DEF Owned, Awaits
  <1> QED
    BY <1>5, <1>6 DEF Waiting

----------------------------------------------------------------------------

(* The kinds of step. *)

(* The invariant after a step that does not end the pass. *)
LEMMA NextIInv ==
  ASSUME diagnostics' \in Nat, StackFormed(stack'), ControlFits(control', stack'),
         FunctionsFormed(functions'), outcome' = "compiling",
         Waiting(stack', current', functions', diagnostics')
  PROVE  IInv'
  BY DEF IInv, Outcomes

LEMMA CurrentIs ==
  ASSUME IInv
  PROVE  /\ IsASequence(stack)
         /\ FunctionFormed(current)
         /\ current.function = 0 => current = NoFunction
         /\ current.function # 0 => IsOpen(functions, current.function, current.block)
         /\ FunctionsFormed(functions)
         /\ StackFormed(stack)
         /\ control.do # "done" => outcome = "compiling"
  BY DEF IInv, Waiting, Levelled, Owned, StackFormed, Outcomes

LEMMA StepStays ==
  ASSUME IInv, control.do # "done", UNCHANGED <<stack, current, functions, diagnostics, outcome>>,
         ControlFits(control', stack)
  PROVE  IInv'
  BY CurrentIs, NextIInv DEF IInv

LEMMA StepHalts ==
  ASSUME IInv, NEW how, Halt(how), how = "unit" => diagnostics = 0 /\ stack = << >>
  PROVE  IInv'
  BY DEF Halt, ControlFits, Outcomes, IInv, unit

LEMMA StepPushes ==
  ASSUME IInv, control.do # "done", UNCHANGED <<current, functions, diagnostics, outcome>>,
         NEW frame, stack' = Pushed(frame), Ordinary(frame), FrameFormed(frame),
         frame.at \in StatementFrames => stack = << >> \/ Frame.at = "block",
         frame.at \notin StatementFrames => stack # << >>,
         control'.do = "expression" \/ (frame.at = "block" /\ control' = NextStatement)
  PROVE  IInv'
  <1>1. IsASequence(stack) /\ outcome' = "compiling" /\ StackFormed(stack)
    BY CurrentIs
  <1>2. StackFormed(stack')
    BY <1>1, StackPushed DEF Pushed, Frame
  <1>3. stack' # << >> /\ Head(stack') = frame
    BY <1>1, PushedAt DEF Pushed
  <1>4. ControlFits(control', stack')
    BY <1>3 DEF ControlFits, NextStatement
  <1>5. Waiting(stack', current', functions', diagnostics')
    BY <1>1, WaitingPushed DEF IInv, Pushed
  <1> QED
    BY <1>1, <1>2, <1>4, <1>5, NextIInv DEF IInv

LEMMA StepSwaps ==
  ASSUME IInv, control.do # "done", UNCHANGED <<current, functions, diagnostics, outcome>>,
         stack # << >>, Idle(Frame), Frame.at \notin StatementFrames,
         NEW frame, stack' = Replaced(frame), Idle(frame), FrameFormed(frame),
         frame.at \notin StatementFrames,
         frame.at = "argument" /\ current.function = 0 =>
           \A i \in DOMAIN frame.values : ~IsRegister(frame.values[i]),
         \/ control'.do = "expression"
         \/ frame.at = "block" /\ control'.do = "statement"
         \/ frame.at = "argument" /\ control'.do = "call"
  PROVE  IInv'
  BY CurrentIs, StackSwapped, SwappedAt, WaitingSwapped, NextIInv DEF Replaced, Frame, ControlFits,
     IInv

LEMMA FinishedFits ==
  ASSUME StackFormed(stack), stack # << >>, Finishes
  PROVE  StackFormed(stack') /\ ControlFits(control', stack')
  BY StackDropped DEF Frame, Finishes, ControlFits, NextStatement

LEMMA StepDrops ==
  ASSUME IInv, control.do # "done", UNCHANGED <<current, functions, diagnostics, outcome>>,
         stack # << >>, Idle(Frame), Finishes
  PROVE  IInv'
  BY CurrentIs, FinishedFits, WaitingDropped, NextIInv DEF IInv, Finishes, Frame

(* The register of an instruction is the frame's value. *)
LEMMA StepEmits ==
  ASSUME IInv, control.do # "done", UNCHANGED <<diagnostics, outcome>>,
         stack # << >>, Idle(Frame), Frame.at \notin StatementFrames, current.function # 0,
         NEW instruction, functions' = WithRegister(WithInstruction(functions, instruction)),
         NEW type, current' = Allocated(type), NEW operand, Give(operand)
  PROVE  IInv'
  <1>1. /\ IsASequence(stack) /\ outcome' = "compiling" /\ StackFormed(stack)
        /\ FunctionsFormed(functions) /\ FunctionFormed(current)
        /\ IsOpen(functions, current.function, current.block)
    BY CurrentIs
  <1>2. /\ FunctionsFormed(functions')
        /\ \A g, c : IsOpen(functions', g, c) <=> IsOpen(functions, g, c)
    BY <1>1, InstructionEmitted
  <1>3. /\ FunctionFormed(current')
        /\ current'.function = current.function /\ current'.block = current.block
    BY <1>1 DEF FunctionFormed, Allocated
  <1>4. Finishes
    BY DEF Finishes, Give, ValueOf
  <1>5. StackFormed(stack') /\ ControlFits(control', stack')
    BY <1>1, <1>4, FinishedFits
  <1>6. Waiting(stack, current', functions', diagnostics)
    BY <1>2, <1>3, WaitingReopened DEF IInv
  <1>7. Waiting(stack', current', functions', diagnostics')
    BY <1>1, <1>4, <1>6, WaitingDropped DEF Finishes, Frame
  <1> QED
    BY <1>1, <1>2, <1>5, <1>7, NextIInv DEF IInv

----------------------------------------------------------------------------

(* A diagnostic. *)

LEMMA LeastNatural ==
  ASSUME NEW T, T \subseteq Nat, T # {}
  PROVE  \E x \in T : \A y \in T : x <= y
  <1> DEFINE R == {pair \in Nat \X Nat : pair[1] < pair[2]}
  <1>0. IsWellFoundedOn(R, Nat)
    BY NatLessThanWellFounded, Zenon DEF OpToRel
  <1>1. PICK x \in T : \A y \in T : ~ (<<y, x>> \in R)
    BY <1>0, WFMin
  <1>2. ASSUME NEW y \in T, ~(x <= y)
        PROVE  FALSE
    <2>1. x \in Nat /\ y \in Nat
      OBVIOUS
    <2>2. y < x
      BY <1>2, <2>1
    <2>3. <<y, x>> \in R
      BY <2>1, <2>2
    <2> QED
      BY <1>1, <2>3
  <1> QED
    BY <1>2

LEMMA GreatestPosition ==
  ASSUME NEW n \in Nat, NEW S, S \subseteq 1..n, S # {}
  PROVE  \E i \in S : \A j \in S : j <= i
  <1> DEFINE T == {n - i : i \in S}
  <1>0. \A i \in S : i \in 1..n /\ i \in Nat /\ n - i \in Nat
    OBVIOUS
  <1>1. T \subseteq Nat /\ T # {}
    BY <1>0
  <1>2. PICK x \in T : \A y \in T : x <= y
    BY <1>1, LeastNatural
  <1>3. PICK i \in S : x = n - i
    OBVIOUS
  <1>4. ASSUME NEW j \in S
        PROVE  j <= i
    <2>1. x <= n - j
      BY <1>2
    <2>2. i \in Nat /\ j \in Nat
      BY <1>0
    <2> QED
      BY <1>3, <2>1, <2>2
  <1> QED
    BY <1>4

(* Whatever function the statement is given up in, none is current then.      *)
LEMMA UnwoundToTop ==
  ASSUME IInv
  PROVE  Unwound = NoFunction
  <1> DEFINE bodies == {i \in DOMAIN stack : stack[i].at = "body"}
             n == Len(stack)
  <1>1. /\ IsASequence(stack) /\ n \in Nat /\ DOMAIN stack = 1..n
    BY CurrentIs, SequenceShape
  <1>2. PICK level : Levelled(level, stack, current)
    BY DEF IInv, Waiting
  <1>3. ASSUME NEW e \in 1..n, At(stack, e).at = "body"
        PROVE  n - e + 1 \in bodies
    BY <1>1, <1>3 DEF At
  <1>4. CASE bodies = {}
    <2>1. ASSUME current.function # 0
          PROVE  FALSE
      <3>1. n # 0
        BY <1>2, <2>1 DEF Levelled
      <3>2. n \in 1..n
        BY <1>1, <3>1
      <3>3. level[n] # 0 /\ LevelFits(level, stack, n)
        BY <1>2, <2>1, <3>2 DEF Levelled
      <3> HIDE DEF n, bodies
      <3>4. PICK e \in 1..n : At(stack, e).at = "body"
        BY <3>3 DEF LevelFits
      <3> QED
        BY <1>3, <1>4, <3>4
    <2>2. current = NoFunction
      BY <1>2, <2>1 DEF Levelled
    <2> QED
      BY <1>4, <2>2 DEF Unwound
  <1>5. CASE bodies # {}
    <2> DEFINE i == CHOOSE k \in bodies : \A j \in bodies : j <= k
               d == n - i + 1
    <2>1. \E k \in bodies : \A j \in bodies : j <= k
      BY <1>1, <1>5, GreatestPosition
    <2>2. i \in bodies /\ \A j \in bodies : j <= i
      BY <2>1
    <2>3. i \in 1..n /\ stack[i].at = "body"
      BY <1>1, <2>2
    <2> HIDE DEF i
    <2>4. d \in 1..n /\ n - d + 1 = i
      BY <1>1, <2>3
    <2>5. At(stack, d) = stack[i]
      BY <2>4 DEF At
    <2> HIDE DEF d
    <2>6. LevelFits(level, stack, d)
      BY <1>2, <2>4 DEF Levelled
    <2>7. ASSUME level[d - 1] # 0
          PROVE  FALSE
      <3>1. d - 1 \in 1..n
        <4>1. d # 1
          BY <1>2, <2>7 DEF Levelled
        <4> QED
          BY <1>1, <2>4, <4>1
      <3>2. LevelFits(level, stack, d - 1)
        BY <1>2, <3>1 DEF Levelled
      <3>3. PICK e \in 1..d - 1 : At(stack, e).at = "body"
        BY <2>7, <3>2 DEF LevelFits
      <3>4. e \in 1..n
        BY <1>1, <2>4
      <3>5. n - e + 1 <= i
        BY <1>3, <2>2, <3>3, <3>4
      <3> QED
        BY <1>1, <2>3, <2>4, <3>4, <3>5
    <2>8. stack[i].saved = NoFunction
      BY <2>3, <2>5, <2>6, <2>7 DEF LevelFits
    <2>9. Unwound = stack[i].saved
      BY <1>5 DEF Unwound, i
    <2> QED
      BY <2>8, <2>9
  <1> QED
    BY <1>4, <1>5

LEMMA EmptyStackFormed ==
  StackFormed(<< >>)
  BY EmptySequence DEF StackFormed

LEMMA StepFails ==
  ASSUME IInv, control.do # "done", Fail
  PROVE  IInv'
  BY CurrentIs, UnwoundToTop, NothingWaits, EmptyStackFormed, NextIInv DEF Fail, unit, IInv,
     ControlFits, NextStatement

----------------------------------------------------------------------------

(* The steps. *)

LEMMA StepStarts ==
  ASSUME IInv, control.do # "done", NEW frame, NEW expression, Start(frame, expression),
         Ordinary(frame), FrameFormed(frame),
         frame.at \in StatementFrames => control.do = "statement",
         frame.at \notin StatementFrames => control.do = "expression"
  PROVE  IInv'
  BY StepPushes DEF Start, tally, unit, EvaluateOf, IInv, ControlFits, Frame

LEMMA TopFormed ==
  ASSUME IInv, stack # << >>
  PROVE  FrameFormed(Frame)
  BY CurrentIs, DroppedAt DEF Frame, StackFormed

(* Of the frame of a returned operand. *)
LEMMA ReturnedTo ==
  ASSUME IInv, NEW at, Returning(at)
  PROVE  /\ control.do = "value" /\ control.do # "done" /\ stack # << >> /\ Frame.at = at
         /\ FrameFormed(Frame)
         /\ \A operand \in Asked : Known(operand)
  BY TopFormed DEF Returning, IInv, ControlFits

LEMMA NextOfBlock ==
  ASSUME IInv, control = NextStatement, stack # << >>
  PROVE  control.do # "done" /\ Frame.at = "block" /\ FrameFormed(Frame)
  BY TopFormed DEF NextStatement, IInv, ControlFits, Frame

LEMMA CallOfArguments ==
  ASSUME IInv, control.do = "call"
  PROVE  stack # << >> /\ Frame.at = "argument" /\ FrameFormed(Frame)
  BY TopFormed DEF IInv, ControlFits, Frame

(* At top level no register is known. *)
LEMMA TopKnowsConstants ==
  ASSUME IInv, current.function = 0, NEW operand, Known(operand)
  PROVE  ~IsRegister(operand)
  BY CurrentIs DEF NoFunction, Known

LEMMA StepGives ==
  ASSUME IInv, control.do # "done", UNCHANGED <<current, functions, diagnostics, outcome>>,
         stack # << >>, Idle(Frame), Frame.at \notin StatementFrames, NEW operand, Give(operand)
  PROVE  IInv'
  BY StepDrops DEF Finishes, Give, ValueOf

LEMMA StepYields ==
  ASSUME IInv, control.do = "expression", NEW operand, Yield(operand)
  PROVE  IInv'
  BY StepStays DEF Yield, tally, unit, ValueOf, IInv, ControlFits

LEMMA StepResumes ==
  ASSUME IInv, control.do # "done", UNCHANGED <<current, functions, diagnostics, outcome>>,
         stack # << >>, Ordinary(Frame), Frame.at \notin StatementFrames,
         NEW frame, NEW expression, Resume(frame, expression),
         Ordinary(frame), FrameFormed(frame), frame.at \notin StatementFrames
  PROVE  IInv'
  BY StepSwaps DEF Resume, EvaluateOf, Ordinary, Idle

(* Statements. *)
LEMMA TopLevelStatementKeeps ==
  ASSUME IInv, TopLevelStatement
  PROVE  IInv'
  BY StepStays DEF TopLevelStatement, unit, NextStatement, ControlFits

LEMMA EndOfUnitKeeps ==
  ASSUME IInv, EndOfUnit
  PROVE  IInv'
  <1> DEFINE how == IF diagnostics = 0 THEN "unit" ELSE "failure"
  <1>1. Halt(how) /\ stack = << >> /\ (how = "unit" => diagnostics = 0)
    BY DEF EndOfUnit
  <1> HIDE DEF how
  <1> QED
    BY <1>1, StepHalts

LEMMA LetStatementKeeps ==
  ASSUME IInv, LetStatement
  PROVE  IInv'
  <1> DEFINE let == control.statement
             frame == [at |-> "let", name |-> let.name, mutable |-> let.mutable]
  <1>1. control.do = "statement" /\ (Fail \/ Start(frame, let.initializer))
    BY DEF LetStatement, Statement
  <1>2. frame.at = "let" /\ Ordinary(frame) /\ FrameFormed(frame)
    BY DEF Ordinary, FrameFormed
  <1> HIDE DEF frame
  <1>3. frame.at \in StatementFrames
    BY <1>2 DEF StatementFrames
  <1> QED
    BY <1>1, <1>2, <1>3, StepFails, StepStarts

LEMMA LetBindingKeeps ==
  ASSUME IInv, LetBinding
  PROVE  IInv'
  BY ReturnedTo, StepDrops, StepFails DEF LetBinding, Finishes, StatementFrames, Idle, tally

LEMMA WhileStatementKeeps ==
  ASSUME IInv, WhileStatement
  PROVE  IInv'
  BY StepFails DEF WhileStatement, Statement

LEMMA ReturnStatementKeeps ==
  ASSUME IInv, ReturnStatement
  PROVE  IInv'
  <1> DEFINE frame == [at |-> "return"]
  <1>1. control.do = "statement" /\ Start(frame, control.statement.value)
    BY DEF ReturnStatement, Statement
  <1>2. frame.at = "return" /\ Ordinary(frame) /\ FrameFormed(frame)
    BY DEF Ordinary, FrameFormed
  <1> HIDE DEF frame
  <1>3. frame.at \in StatementFrames
    BY <1>2 DEF StatementFrames
  <1> QED
    BY <1>1, <1>2, <1>3, StepStarts

LEMMA ExpressionStatementKeeps ==
  ASSUME IInv, ExpressionStatement
  PROVE  IInv'
  <1> DEFINE frame == [at |-> "expression"]
  <1>1. control.do = "statement" /\ Start(frame, control.statement.expression)
    BY DEF ExpressionStatement, Statement
  <1>2. frame.at = "expression" /\ Ordinary(frame) /\ FrameFormed(frame)
    BY DEF Ordinary, FrameFormed
  <1> HIDE DEF frame
  <1>3. frame.at \in StatementFrames
    BY <1>2 DEF StatementFrames
  <1> QED
    BY <1>1, <1>2, <1>3, StepStarts

LEMMA DiscardKeeps ==
  ASSUME IInv, Discard
  PROVE  IInv'
  BY ReturnedTo, StepDrops DEF Discard, Finishes, StatementFrames, Idle, tally, unit

(* The block a return ends and the dead one after it. *)
LEMMA ReturnValueKeeps ==
  ASSUME IInv, ReturnValue
  PROVE  IInv'
  <1> DEFINE last == Len(Blocks)
             ended == WithTerminator(functions, ReturnOf(control.value))
  <1>1. stack # << >> /\ Frame.at = "return" /\ control.do # "done"
    BY ReturnedTo DEF ReturnValue
  <1>2. \/ Fail
        \/ Halt("undefined")
        \/ /\ current.function # 0
           /\ functions' = WithBlocks(ended, 1)
           /\ current' = [current EXCEPT !.block = last + 1]
           /\ stack' = Tail(stack) /\ control' = NextStatement
           /\ UNCHANGED <<tally, table, types, function_table>>
    BY DEF ReturnValue, IsTopLevel
  <1>3. ASSUME current.function # 0, functions' = WithBlocks(ended, 1),
               current' = [current EXCEPT !.block = last + 1],
               stack' = Tail(stack), control' = NextStatement,
               UNCHANGED <<tally, table, types, function_table>>
        PROVE  IInv'
    <2>1. /\ IsASequence(stack) /\ StackFormed(stack) /\ FunctionsFormed(functions)
          /\ FunctionFormed(current) /\ outcome = "compiling"
          /\ IsOpen(functions, current.function, current.block)
      BY <1>1, <1>3, CurrentIs
    <2>2. ReturnOf(control.value) # NoTerminator
      BY DEF ReturnOf, NoTerminator
    <2>3. /\ FunctionsFormed(ended)
          /\ DOMAIN ended = DOMAIN functions
          /\ Len(ended[current.function].blocks) = last
          /\ \A g, c : IsOpen(ended, g, c) <=>
               IsOpen(functions, g, c) /\ ~(g = current.function /\ c = current.block)
      BY <2>1, <2>2, TerminatorEnds DEF Blocks
    <2> HIDE DEF ended
    <2>4. current.function \in DOMAIN ended
      BY <2>1, <2>3 DEF IsOpen
    <2>5. /\ FunctionsFormed(functions')
          /\ last \in Nat
          /\ \A g, c : IsOpen(functions', g, c) <=>
               IsOpen(ended, g, c) \/ (g = current.function /\ c \in last + 1..last + 1)
      BY <1>3, <2>3, <2>4, BlocksAdded
    <2>6. /\ FunctionFormed(current')
          /\ current'.function = current.function /\ current'.block = last + 1
      BY <1>3, <2>1 DEF FunctionFormed
    <2>7. \A c : c \in last + 1..last + 1 <=> c = last + 1
      BY <2>5
    <2>8. ~IsOpen(functions, current.function, last + 1)
      BY <2>1, <2>4, <2>3, SequenceShape, <2>5 DEF FunctionsFormed, CodeFormed, Blocks, IsOpen
    <2> HIDE DEF last
    <2>9. Waiting(stack, current', functions', diagnostics)
      <3>1. PICK level : /\ Levelled(level, stack, current)
                         /\ Owned(level, stack, current, functions, diagnostics)
        BY DEF IInv, Waiting
      <3>2. Levelled(level, stack, current')
        BY <1>3, <2>6, <3>1 DEF Levelled
      <3>3. level[Len(stack) - 1] = current.function
        BY <1>1, <2>1, <3>1, LevelUnderTop DEF Frame
      <3> DEFINE new == {last + 1}
      <3>4. EndsFor(functions, current, functions', new)
        BY <2>3, <2>5, <2>7, <2>8 DEF EndsFor
      <3>5. current'.block \in new /\ \A b \in new : b = current'.block
        BY <2>6
      <3> HIDE DEF new
      <3>6. TakesOn(stack, stack, Len(stack), new \ {current'.block})
        BY <3>1, <3>5 DEF Owned, TakesOn
      <3>7. Owned(level, stack, current', functions', diagnostics)
        BY <1>3, <2>6, <3>1, <3>3, <3>4, <3>5, <3>6, OwnedForked
      <3> QED
        BY <3>2, <3>7 DEF Waiting
    <2>10. Idle(Frame) /\ Finishes
      BY <1>1, <1>3 DEF Idle, Finishes, StatementFrames
    <2>11. Waiting(stack', current', functions', diagnostics')
      BY <1>1, <1>3, <2>1, <2>9, <2>10, WaitingDropped DEF tally, Frame
    <2>12. StackFormed(stack') /\ ControlFits(control', stack')
      BY <1>1, <2>1, <2>10, FinishedFits
    <2> QED
      BY <1>3, <2>1, <2>5, <2>11, <2>12, NextIInv DEF IInv, tally
  <1> QED
    BY <1>1, <1>2, <1>3, StepFails, StepHalts

(* Simple expressions. *)
LEMMA UnknownRegisterKeeps ==
  ASSUME IInv, UnknownRegister
  PROVE  IInv'
  BY StepHalts DEF UnknownRegister

LEMMA IntegerLiteralKeeps ==
  ASSUME IInv, control.do = "expression", NEW literal, NEW negate,
         IntegerLiteral(literal, negate)
  PROVE  IInv'
  BY StepFails, StepYields DEF IntegerLiteral

LEMMA IntLiteralKeeps ==
  ASSUME IInv, IntLiteral
  PROVE  IInv'
  BY IntegerLiteralKeeps DEF IntLiteral, Evaluating

LEMMA ParenExpressionKeeps ==
  ASSUME IInv, ParenExpression
  PROVE  IInv'
  BY StepStays DEF ParenExpression, Evaluating, EvaluateOf, tally, unit, IInv, ControlFits

LEMMA PostfixExpressionKeeps ==
  ASSUME IInv, PostfixExpression
  PROVE  IInv'
  BY StepFails DEF PostfixExpression, Evaluating

LEMMA IndexExpressionKeeps ==
  ASSUME IInv, IndexExpression
  PROVE  IInv'
  BY StepHalts DEF IndexExpression

LEMMA IdentifierKeeps ==
  ASSUME IInv, Identifier
  PROVE  IInv'
  BY StepFails, StepYields DEF Identifier, Evaluating

LEMMA RecurseExpressionKeeps ==
  ASSUME IInv, RecurseExpression
  PROVE  IInv'
  BY StepFails, StepYields DEF RecurseExpression, Evaluating

(* Expressions that wait for one of their parts. *)
LEMMA ExpressionStarts ==
  ASSUME IInv, control.do = "expression", NEW frame, NEW expression, Start(frame, expression),
         Ordinary(frame), FrameFormed(frame), frame.at \notin StatementFrames
  PROVE  IInv'
  BY StepStarts

LEMMA PrefixExpressionKeeps ==
  ASSUME IInv, PrefixExpression
  PROVE  IInv'
  <1> DEFINE frame == [at |-> "operand", op |-> control.expression.op]
  <1>1. /\ control.do = "expression"
        /\ \/ IntegerLiteral(control.expression.operand, TRUE)
           \/ Start(frame, control.expression.operand)
    BY DEF PrefixExpression, Evaluating
  <1>2. Ordinary(frame) /\ FrameFormed(frame) /\ frame.at \notin StatementFrames
    BY DEF Ordinary, FrameFormed, StatementFrames
  <1> HIDE DEF frame
  <1> QED
    BY <1>1, <1>2, IntegerLiteralKeeps, ExpressionStarts

LEMMA PrefixBracketExpressionKeeps ==
  ASSUME IInv, PrefixBracketExpression
  PROVE  IInv'
  <1> DEFINE frame == [at |-> "element", size |-> control.expression.size]
  <1>1. control.do = "expression" /\ Start(frame, control.expression.operand)
    BY DEF PrefixBracketExpression, Evaluating
  <1>2. Ordinary(frame) /\ FrameFormed(frame) /\ frame.at \notin StatementFrames
    BY DEF Ordinary, FrameFormed, StatementFrames
  <1> HIDE DEF frame
  <1> QED
    BY <1>1, <1>2, ExpressionStarts

LEMMA BinaryExpressionKeeps ==
  ASSUME IInv, BinaryExpression
  PROVE  IInv'
  <1> DEFINE frame == [at |-> "left", op |-> control.expression.op,
                       right |-> control.expression.right]
  <1>1. control.do = "expression" /\ Start(frame, control.expression.left)
    BY DEF BinaryExpression, Evaluating
  <1>2. Ordinary(frame) /\ FrameFormed(frame) /\ frame.at \notin StatementFrames
    BY DEF Ordinary, FrameFormed, StatementFrames
  <1> HIDE DEF frame
  <1> QED
    BY <1>1, <1>2, ExpressionStarts

LEMMA CallExpressionKeeps ==
  ASSUME IInv, CallExpression
  PROVE  IInv'
  <1> DEFINE frame == [at |-> "callee", rest |-> control.expression.arguments]
  <1>1. control.do = "expression" /\ Start(frame, control.expression.callee)
    BY DEF CallExpression, Evaluating
  <1>2. Ordinary(frame) /\ FrameFormed(frame) /\ frame.at \notin StatementFrames
    BY DEF Ordinary, FrameFormed, StatementFrames
  <1> HIDE DEF frame
  <1> QED
    BY <1>1, <1>2, ExpressionStarts

LEMMA IfExpressionKeeps ==
  ASSUME IInv, IfExpression
  PROVE  IInv'
  <1> DEFINE frame == [at |-> "condition", part |-> 1, parts |-> control.expression.parts,
                       else |-> control.expression.else, merge |-> 0, target |-> 0,
                       type |-> 0, parameter |-> << >>]
  <1>1. control.do = "expression" /\ Start(frame, control.expression.parts[1].condition)
    BY DEF IfExpression, Evaluating
  <1>2. Ordinary(frame) /\ FrameFormed(frame) /\ frame.at \notin StatementFrames
    BY DEF Ordinary, FrameFormed, StatementFrames
  <1> HIDE DEF frame
  <1> QED
    BY <1>1, <1>2, ExpressionStarts

LEMMA FnExpressionKeeps ==
  ASSUME IInv, FnExpression
  PROVE  IInv'
  <1> DEFINE frame == [at |-> "type", fn |-> control.expression, types |-> << >>]
  <1>1. control.do = "expression" /\ Start(frame, TypeExpressions(control.expression)[1])
    BY DEF FnExpression, Evaluating
  <1>2. Ordinary(frame) /\ FrameFormed(frame) /\ frame.at \notin StatementFrames
    BY EmptySequence DEF Ordinary, FrameFormed, StatementFrames
  <1> HIDE DEF frame
  <1> QED
    BY <1>1, <1>2, ExpressionStarts

(* Blocks. *)
LEMMA EnterBlockKeeps ==
  ASSUME IInv, EnterBlock
  PROVE  IInv'
  <1> DEFINE frame == [at |-> "block", rest |-> control.expression.statements,
                       tail |-> control.expression.tail]
  <1>1. /\ control.do = "expression" /\ stack' = Pushed(frame) /\ control' = NextStatement
        /\ UNCHANGED <<current, functions, diagnostics, outcome>>
    BY DEF EnterBlock, Evaluating, tally, unit
  <1>2. /\ Ordinary(frame) /\ FrameFormed(frame) /\ frame.at = "block"
        /\ frame.at \notin StatementFrames
    BY DEF Ordinary, FrameFormed, StatementFrames
  <1>3. stack # << >>
    BY <1>1 DEF IInv, ControlFits
  <1> HIDE DEF frame
  <1> QED
    BY <1>1, <1>2, <1>3, StepPushes

LEMMA BlockStatementKeeps ==
  ASSUME IInv, BlockStatement
  PROVE  IInv'
  <1> DEFINE frame == [Frame EXCEPT !.rest = Tail(@)]
  <1>1. /\ control.do # "done" /\ stack # << >> /\ Frame.at = "block" /\ FrameFormed(Frame)
        /\ stack' = Replaced(frame) /\ control'.do = "statement"
        /\ UNCHANGED <<current, functions, diagnostics, outcome>>
    BY NextOfBlock DEF BlockStatement, tally, unit
  <1>5. Frame = [at |-> "block", rest |-> Frame.rest, tail |-> Frame.tail]
    BY <1>1 DEF FrameFormed
  <1>2. frame = [at |-> "block", rest |-> Tail(Frame.rest), tail |-> Frame.tail]
    <2>1. ASSUME NEW old, NEW x, old = [at |-> "block", rest |-> old.rest, tail |-> old.tail]
          PROVE  [old EXCEPT !.rest = x] = [at |-> "block", rest |-> x, tail |-> old.tail]
      BY <2>1
    <2> QED
      BY <1>5, <2>1
  <1> HIDE DEF frame
  <1>3. /\ Idle(frame) /\ FrameFormed(frame) /\ frame.at = "block"
        /\ frame.at \notin StatementFrames
    BY <1>2 DEF Idle, FrameFormed, StatementFrames
  <1>4. Idle(Frame) /\ Frame.at \notin StatementFrames
    BY <1>1 DEF Idle, StatementFrames
  <1> QED
    BY <1>1, <1>3, <1>4, StepSwaps

LEMMA BlockTailKeeps ==
  ASSUME IInv, BlockTail
  PROVE  IInv'
  <1> DEFINE frame == [at |-> "tail"]
  <1>1. /\ control.do # "done" /\ stack # << >> /\ Frame.at = "block"
        /\ Resume(frame, Frame.tail[1])
        /\ UNCHANGED <<current, functions, diagnostics, outcome>>
    BY NextOfBlock DEF BlockTail, tally, unit
  <1>2. /\ Ordinary(frame) /\ FrameFormed(frame) /\ frame.at \notin StatementFrames
        /\ Ordinary(Frame) /\ Frame.at \notin StatementFrames
    BY <1>1 DEF Ordinary, FrameFormed, StatementFrames
  <1> HIDE DEF frame
  <1> QED
    BY <1>1, <1>2, StepResumes

LEMMA LeaveBlockKeeps ==
  ASSUME IInv, LeaveBlock
  PROVE  IInv'
  BY NextOfBlock, ReturnedTo, StepGives DEF LeaveBlock, tally, unit, Idle, StatementFrames

(* Operators. *)
LEMMA AskedValue ==
  ASSUME Frame.at \in {"let", "return", "callee", "argument", "branch", "body", "operand", "size"}
  PROVE  control.value \in Asked
  BY DEF Asked

LEMMA TypeGiven ==
  ASSUME IInv, control.do # "done", stack # << >>, Idle(Frame), Frame.at \notin StatementFrames,
         NEW type, GiveType(type)
  PROVE  IInv'
  BY StepGives DEF GiveType, tally

LEMMA PrefixOperandKeeps ==
  ASSUME IInv, PrefixOperand
  PROVE  IInv'
  <1> DEFINE operand == control.value
             type == TypeOf(operand)
             negate == NegateInstruction(type, NextRegister, operand)
             emitted == WithRegister(WithInstruction(functions, negate))
  <1>1. /\ control.do # "done" /\ stack # << >> /\ Frame.at = "operand"
        /\ \A asked \in Asked : Known(asked)
    BY ReturnedTo DEF PrefixOperand
  <1>2. Idle(Frame) /\ Frame.at \notin StatementFrames /\ Known(operand)
    BY <1>1, AskedValue DEF Idle, StatementFrames
  <1>3. \/ Halt("assertion")
        \/ (\E given : Give(given)) /\ UNCHANGED <<tally, table, current, unit>>
        \/ /\ IsRegister(operand)
           /\ functions' = emitted /\ current' = Allocated(type) /\ Give(Register(NextRegister))
           /\ UNCHANGED <<tally, table, types, function_table>>
        \/ \E element : GiveType(element)
    BY DEF PrefixOperand
  <1>4. ASSUME IsRegister(operand), functions' = emitted, current' = Allocated(type),
               Give(Register(NextRegister)), UNCHANGED <<tally, table, types, function_table>>
        PROVE  IInv'
    BY <1>2, <1>4, TopKnowsConstants, <1>1, StepEmits DEF tally, emitted
  <1>5. ASSUME NEW given, Give(given), UNCHANGED <<tally, table, current, unit>>
        PROVE  IInv'
    BY <1>5, <1>1, <1>2, StepGives DEF tally, unit
  <1>6. "assertion" # "unit"
    OBVIOUS
  <1> HIDE DEF operand, type, emitted
  <1> QED
    BY <1>1, <1>2, <1>3, <1>4, <1>5, <1>6, StepHalts, TypeGiven

LEMMA ElementTypeKeeps ==
  ASSUME IInv, ElementType
  PROVE  IInv'
  <1> DEFINE frame == [at |-> "size", element |-> control.value.value]
  <1>1. control.do # "done" /\ stack # << >> /\ Frame.at = "element"
    BY ReturnedTo DEF ElementType
  <1>2. /\ Ordinary(frame) /\ FrameFormed(frame) /\ frame.at \notin StatementFrames
        /\ Ordinary(Frame) /\ Idle(Frame) /\ Frame.at \notin StatementFrames
    BY <1>1 DEF Ordinary, Idle, FrameFormed, StatementFrames
  <1>3. \/ Fail
        \/ \E type : GiveType(type)
        \/ Resume(frame, Frame.size[1]) /\ UNCHANGED <<tally, table, current, unit>>
    BY DEF ElementType
  <1> HIDE DEF frame
  <1>4. ASSUME Resume(frame, Frame.size[1]), UNCHANGED <<tally, table, current, unit>>
        PROVE  IInv'
    BY <1>4, <1>1, <1>2, StepResumes DEF tally, unit
  <1> QED
    BY <1>1, <1>2, <1>3, <1>4, StepFails, TypeGiven

LEMMA ArraySizeKeeps ==
  ASSUME IInv, ArraySize
  PROVE  IInv'
  BY ReturnedTo, StepFails, TypeGiven DEF ArraySize, Idle, StatementFrames

LEMMA RightOperandKeeps ==
  ASSUME IInv, RightOperand
  PROVE  IInv'
  <1> DEFINE frame == [at |-> "right", op |-> Frame.op, lhs |-> control.value]
  <1>1. /\ control.do # "done" /\ stack # << >> /\ Frame.at = "left"
        /\ Resume(frame, Frame.right)
        /\ UNCHANGED <<current, functions, diagnostics, outcome>>
    BY ReturnedTo DEF RightOperand, tally, unit
  <1>2. /\ Ordinary(frame) /\ FrameFormed(frame) /\ frame.at \notin StatementFrames
        /\ Ordinary(Frame) /\ Frame.at \notin StatementFrames
    BY <1>1 DEF Ordinary, FrameFormed, StatementFrames
  <1> HIDE DEF frame
  <1> QED
    BY <1>1, <1>2, StepResumes

LEMMA OperateKeeps ==
  ASSUME IInv, Operate
  PROVE  IInv'
  <1> DEFINE lhs == Frame.lhs
             rhs == control.value
             overload == CHOOSE o \in Fitting(Frame.op, lhs, rhs) : TRUE
             type == overload.result
             binary == BinaryInstruction(overload, NextRegister, lhs, rhs)
             emitted == WithRegister(WithInstruction(functions, binary))
  <1>1. /\ control.do # "done" /\ stack # << >> /\ Frame.at = "right"
        /\ \A asked \in Asked : Known(asked)
    BY ReturnedTo DEF Operate
  <1>2. Idle(Frame) /\ Frame.at \notin StatementFrames /\ Known(lhs) /\ Known(rhs)
    BY <1>1 DEF Idle, StatementFrames, Asked
  <1>3. \/ Halt("assertion")
        \/ (\E given : Give(given)) /\ UNCHANGED <<tally, table, current, unit>>
        \/ /\ IsRegister(lhs) \/ IsRegister(rhs)
           /\ functions' = emitted /\ current' = Allocated(type) /\ Give(Register(NextRegister))
           /\ UNCHANGED <<tally, table, types, function_table>>
    BY DEF Operate
  <1>4. ASSUME IsRegister(lhs) \/ IsRegister(rhs), functions' = emitted, current' = Allocated(type),
               Give(Register(NextRegister)), UNCHANGED <<tally, table, types, function_table>>
        PROVE  IInv'
    BY <1>2, <1>4, TopKnowsConstants, <1>1, StepEmits DEF tally, emitted
  <1>5. ASSUME NEW given, Give(given), UNCHANGED <<tally, table, current, unit>>
        PROVE  IInv'
    BY <1>5, <1>1, <1>2, StepGives DEF tally, unit
  <1>6. "assertion" # "unit"
    OBVIOUS
  <1> HIDE DEF lhs, rhs, type, emitted
  <1> QED
    BY <1>3, <1>4, <1>5, <1>6, StepHalts

(* Calls. *)
LEMMA CalleeKeeps ==
  ASSUME IInv, Callee
  PROVE  IInv'
  <1> DEFINE frame == [at |-> "argument", callee |-> control.value.value, values |-> << >>,
                       rest |-> Frame.rest]
  <1>1. control.do # "done" /\ stack # << >> /\ Frame.at = "callee"
    BY ReturnedTo DEF Callee
  <1>2. \/ Fail
        \/ /\ stack' = Replaced(frame) /\ control' = [do |-> "call"]
           /\ UNCHANGED <<tally, table, current, unit>>
    BY DEF Callee
  <1>3. /\ frame.at = "argument" /\ Idle(frame) /\ FrameFormed(frame)
        /\ \A i \in DOMAIN frame.values : ~IsRegister(frame.values[i])
    BY EmptySequence DEF Idle, FrameFormed
  <1>4. Idle(Frame) /\ Frame.at \notin StatementFrames /\ frame.at \notin StatementFrames
    BY <1>1, <1>3 DEF Idle, StatementFrames
  <1> HIDE DEF frame
  <1>5. ASSUME stack' = Replaced(frame), control' = [do |-> "call"],
               UNCHANGED <<tally, table, current, unit>>
        PROVE  IInv'
    BY <1>5, <1>1, <1>3, <1>4, StepSwaps DEF tally, unit
  <1> QED
    BY <1>1, <1>2, <1>5, StepFails

LEMMA ArgumentKeeps ==
  ASSUME IInv, Argument
  PROVE  IInv'
  BY StepStays DEF Argument, EvaluateOf, tally, unit, IInv, ControlFits

(* At top level the arguments are constants. *)
LEMMA ArgumentsAtTop ==
  ASSUME IInv, stack # << >>, Frame.at = "argument", current.function = 0
  PROVE  \A i \in DOMAIN Frame.values : ~IsRegister(Frame.values[i])
  <1>1. IsASequence(stack)
    BY CurrentIs
  <1>2. PICK level : Levelled(level, stack, current)
    BY DEF IInv, Waiting
  <1>3. /\ LevelFits(level, stack, Len(stack))
        /\ Len(stack) \in 1..Len(stack)
        /\ At(stack, Len(stack)) = Frame
    BY <1>1, <1>2, LevelUnderTop DEF Frame
  <1>4. level[Len(stack)] = 0
    BY <1>2 DEF Levelled
  <1> QED
    BY <1>3, <1>4 DEF LevelFits

LEMMA ArgumentValueKeeps ==
  ASSUME IInv, ArgumentValue
  PROVE  IInv'
  <1> DEFINE values == Append(Frame.values, control.value)
             frame == [Frame EXCEPT !.values = Append(@, control.value), !.rest = Tail(@)]
  <1>1. /\ control.do # "done" /\ stack # << >> /\ Frame.at = "argument" /\ FrameFormed(Frame)
        /\ \A operand \in Asked : Known(operand)
    BY ReturnedTo DEF ArgumentValue
  <1>2. \/ Fail
        \/ /\ stack' = Replaced(frame) /\ control' = [do |-> "call"]
           /\ UNCHANGED <<tally, table, current, unit>>
    BY DEF ArgumentValue
  <1>3. /\ Frame = [at |-> "argument", callee |-> Frame.callee, values |-> Frame.values,
                    rest |-> Frame.rest]
        /\ IsASequence(Frame.values)
    BY <1>1 DEF FrameFormed
  <1>4. frame = [at |-> "argument", callee |-> Frame.callee, values |-> values,
                 rest |-> Tail(Frame.rest)]
    <2> DEFINE half == [Frame EXCEPT !.values = values]
    <2>1. frame = [half EXCEPT !.rest = Tail(Frame.rest)]
      OBVIOUS
    <2>2. half = [at |-> "argument", callee |-> Frame.callee, values |-> values,
                  rest |-> Frame.rest]
      BY <1>3
    <2> HIDE DEF half, frame, values
    <2> QED
      BY <2>1, <2>2
  <1>5. /\ IsASequence(values)
        /\ Len(values) = Len(Frame.values) + 1
        /\ values[Len(Frame.values) + 1] = control.value
        /\ \A i \in 1..Len(Frame.values) : values[i] = Frame.values[i]
    BY <1>3, AppendedSequence
  <1> HIDE DEF frame, values
  <1>6. frame.at = "argument" /\ Idle(frame) /\ FrameFormed(frame) /\ frame.values = values
    BY <1>4, <1>5 DEF Idle, FrameFormed
  <1>7. ASSUME current.function = 0
        PROVE  \A i \in DOMAIN frame.values : ~IsRegister(frame.values[i])
    BY <1>1, <1>7, ArgumentsAtTop, AskedValue, TopKnowsConstants, <1>3, <1>5, SequenceShape, <1>6
  <1>8. Idle(Frame) /\ Frame.at \notin StatementFrames /\ frame.at \notin StatementFrames
    BY <1>1, <1>6 DEF Idle, StatementFrames
  <1>9. ASSUME stack' = Replaced(frame), control' = [do |-> "call"],
               UNCHANGED <<tally, table, current, unit>>
        PROVE  IInv'
    BY <1>9, <1>1, <1>6, <1>7, <1>8, StepSwaps DEF tally, unit
  <1> QED
    BY <1>1, <1>2, <1>9, StepFails

LEMMA CallNowKeeps ==
  ASSUME IInv, CallNow
  PROVE  IInv'
  BY CallOfArguments, StepGives, StepFails, StepHalts DEF CallNow, Idle, StatementFrames, tally,
     unit

LEMMA EmitCallKeeps ==
  ASSUME IInv, EmitCall
  PROVE  IInv'
  <1> DEFINE call == CallInstruction(NextRegister, Frame.callee, Frame.values)
             type == types[functions[Frame.callee].type].result
  <1>1. control.do = "call" /\ stack # << >> /\ Frame.at = "argument"
    BY CallOfArguments DEF EmitCall
  <1>2. Idle(Frame) /\ Frame.at \notin StatementFrames
    BY <1>1 DEF Idle, StatementFrames
  <1>3. /\ functions' = WithRegister(WithInstruction(functions, call))
        /\ current' = Allocated(type) /\ Give(Register(NextRegister))
        /\ UNCHANGED <<diagnostics, outcome>>
        /\ \E i \in DOMAIN Frame.values : IsRegister(Frame.values[i])
    BY DEF EmitCall, tally
  <1>4. current.function # 0
    BY <1>1, <1>3, ArgumentsAtTop
  <1> HIDE DEF call, type
  <1> QED
    BY <1>1, <1>2, <1>3, <1>4, StepEmits

(* Conditions. *)
LEMMA ConditionRefusedKeeps ==
  ASSUME IInv, ConditionRefused
  PROVE  IInv'
  BY ReturnedTo, StepFails, StepHalts DEF ConditionRefused

LEMMA ConditionFoldedKeeps ==
  ASSUME IInv, ConditionFolded
  PROVE  IInv'
  <1> DEFINE frame == [Frame EXCEPT !.part = @ + 1]
  <1>1. /\ control.do # "done" /\ stack # << >> /\ Frame.at = "condition" /\ FrameFormed(Frame)
        /\ UNCHANGED <<current, functions, diagnostics, outcome>>
    BY ReturnedTo DEF ConditionFolded, tally, unit
  <1>2. /\ Ordinary(Frame) /\ Idle(Frame) /\ Frame.at \notin StatementFrames
        /\ IfFrame(Frame)
    BY <1>1 DEF Ordinary, Idle, StatementFrames, FrameFormed, IfFrame
  <1>3. frame = [at |-> "condition", part |-> Frame.part + 1, parts |-> Frame.parts,
                 else |-> Frame.else, merge |-> Frame.merge, target |-> Frame.target,
                 type |-> Frame.type, parameter |-> Frame.parameter]
    BY <1>1, <1>2 DEF IfFrame
  <1>7. \/ /\ stack' = Tail(stack)
           /\ \E e : control' = EvaluateOf(e) \/ control' = ValueOf(e)
        \/ \E expression : Resume(frame, expression)
    BY DEF ConditionFolded
  <1>8. \A e : EvaluateOf(e).do = "expression" /\ ValueOf(e).do = "value"
    BY DEF EvaluateOf, ValueOf
  <1>4. \/ stack' = Tail(stack) /\ control'.do \in {"value", "expression"}
        \/ \E expression : Resume(frame, expression)
    BY <1>7, <1>8
  <1> HIDE DEF frame
  <1>5. Ordinary(frame) /\ FrameFormed(frame) /\ frame.at \notin StatementFrames
    BY <1>3 DEF Ordinary, FrameFormed, StatementFrames
  <1>6. ASSUME stack' = Tail(stack), control'.do \in {"value", "expression"}
        PROVE  IInv'
    BY <1>2, <1>6, <1>1, StepDrops DEF Finishes
  <1> QED
    BY <1>1, <1>2, <1>4, <1>5, <1>6, StepResumes

----------------------------------------------------------------------------

(* Branches. *)

LEMMA AwaitsSwapped ==
  ASSUME NEW s, IsASequence(s), s # << >>, NEW frame, Distinct(frame),
         \A d \in 1..Len(s) : Distinct(At(s, d))
  PROVE  LET t == <<frame>> \o Tail(s)
         IN  /\ \A d, b : d # Len(s) => (Awaits(t, d, b) <=> Awaits(s, d, b))
             /\ \A b : Awaits(t, Len(s), b) <=> b \in Pending(frame)
             /\ \A b : Awaits(s, Len(s), b) <=> b \in Pending(Head(s))
             /\ \A d \in 1..Len(t) : Distinct(At(t, d))
  <1> DEFINE t == <<frame>> \o Tail(s)
             n == Len(s) - 1
  <1>1. /\ Len(t) = Len(s)
        /\ At(t, Len(s)) = frame
        /\ \A d \in 1..n : At(t, d) = At(s, d)
        /\ n \in Nat /\ Len(s) = n + 1
        /\ At(s, Len(s)) = Head(s)
    BY SwappedAt, DroppedAt
  <1> HIDE DEF t
  <1>2. \A d : d \in 1..Len(s) <=> d \in 1..n \/ d = Len(s)
    BY <1>1
  <1> HIDE DEF n
  <1>3. \A d, b : d # Len(s) => (Awaits(t, d, b) <=> Awaits(s, d, b))
    BY <1>1, <1>2 DEF Awaits
  <1>4. \A b : /\ Awaits(t, Len(s), b) <=> b \in Pending(frame)
               /\ Awaits(s, Len(s), b) <=> b \in Pending(Head(s))
    BY <1>1, <1>2 DEF Awaits
  <1>5. \A d \in 1..Len(t) : Distinct(At(t, d))
    BY <1>1, <1>2
  <1> QED
    BY <1>3, <1>4, <1>5 DEF t

LEMMA AwaitsDropped ==
  ASSUME NEW s, IsASequence(s), s # << >>, \A d \in 1..Len(s) : Distinct(At(s, d))
  PROVE  LET t == Tail(s)
         IN  /\ \A d, b : d # Len(s) => (Awaits(t, d, b) <=> Awaits(s, d, b))
             /\ \A b : ~Awaits(t, Len(s), b)
             /\ \A b : Awaits(s, Len(s), b) <=> b \in Pending(Head(s))
             /\ \A d \in 1..Len(t) : Distinct(At(t, d))
  <1> DEFINE t == Tail(s)
             n == Len(s) - 1
  <1>1. /\ Len(t) = n
        /\ \A d \in 1..n : At(t, d) = At(s, d)
        /\ n \in Nat /\ Len(s) = n + 1 /\ Len(s) \notin 1..n
        /\ At(s, Len(s)) = Head(s)
    BY DroppedAt
  <1> HIDE DEF t
  <1>2. \A d : d \in 1..Len(s) <=> d \in 1..n \/ d = Len(s)
    BY <1>1
  <1> HIDE DEF n
  <1>3. \A d, b : d # Len(s) => (Awaits(t, d, b) <=> Awaits(s, d, b))
    BY <1>1, <1>2 DEF Awaits
  <1>4. \A b : /\ ~Awaits(t, Len(s), b)
               /\ Awaits(s, Len(s), b) <=> b \in Pending(Head(s))
    BY <1>1, <1>2 DEF Awaits
  <1>5. \A d \in 1..Len(t) : Distinct(At(t, d))
    BY <1>1, <1>2
  <1> QED
    BY <1>3, <1>4, <1>5 DEF t

LEMMA NoFunctionIsZero ==
  ASSUME NEW fs, FunctionsFormed(fs)
  PROVE  \A b : ~IsOpen(fs, 0, b)
  BY SequenceShape DEF FunctionsFormed, IsOpen

LEMMA ForkPending ==
  ASSUME NEW old, NEW frame, NEW count \in Nat, NEW merge, NEW last, NEW other, NEW created,
         NEW new,
         Forks(old, frame, count, merge, last, other, created, new)
  PROVE  /\ created \in Nat
         /\ last + 1 \in new
         /\ Distinct(frame)
         /\ \A b : b \in Pending(frame) <=> b \in Pending(old) \/ (b \in new /\ b # last + 1)
  <1>0. /\ \/ old.at = "condition" /\ merge = count + 1 /\ last = count + 1
           \/ old.at = "else_if" /\ merge = old.merge /\ last = count /\ merge \in 1..count
        /\ other = IF Follows(old) THEN last + 2 ELSE merge
        /\ created = (IF other = merge THEN last + 1 ELSE last + 2) - count
        /\ new = count + 1..count + created
        /\ frame.at = "branch" /\ frame.merge = merge /\ frame.target = other
        /\ Follows(frame) <=> Follows(old)
    BY DEF Forks
  <1>1. CASE old.at = "condition" /\ merge = count + 1 /\ last = count + 1 /\ Follows(old)
    BY <1>0, <1>1 DEF Pending, Distinct
  <1>2. CASE old.at = "condition" /\ merge = count + 1 /\ last = count + 1 /\ ~Follows(old)
    BY <1>0, <1>2 DEF Pending, Distinct
  <1>3. CASE old.at = "else_if" /\ merge = old.merge /\ last = count /\ merge \in 1..count
               /\ Follows(old)
    BY <1>0, <1>3 DEF Pending, Distinct
  <1>4. CASE old.at = "else_if" /\ merge = old.merge /\ last = count /\ merge \in 1..count
               /\ ~Follows(old)
    <2>1. other = merge /\ created = 1 /\ last + 1 = count + 1
      BY <1>0, <1>4
    <2>2. Pending(old) = {merge} /\ Pending(frame) = {merge}
      BY <1>0, <1>4 DEF Pending
    <2>3. \A b : b \in count + 1..count + 1 <=> b = count + 1
      OBVIOUS
    <2>4. Distinct(frame)
      BY <1>0, <1>4 DEF Distinct
    <2> QED
      BY <1>0, <2>1, <2>2, <2>3, <2>4
  <1> QED
    BY <1>0, <1>1, <1>2, <1>3, <1>4

LEMMA ForkedFrame ==
  ASSUME NEW old, IfFrame(old), NEW merge, NEW target
  PROVE  LET frame == Forked(old, merge, target)
         IN  /\ IfFrame(frame) /\ frame.at = "branch"
             /\ frame.merge = merge /\ frame.target = target
             /\ frame.parameter = old.parameter
             /\ Follows(frame) <=> Follows(old)
  <1> DEFINE frame == Forked(old, merge, target)
              first == [old EXCEPT !.at = "branch"]
             second == [first EXCEPT !.merge = merge]
  <1>1. first = [at |-> "branch", part |-> old.part, parts |-> old.parts, else |-> old.else,
                 merge |-> old.merge, target |-> old.target, type |-> old.type,
                 parameter |-> old.parameter]
    BY DEF IfFrame
  <1>2. frame = [second EXCEPT !.target = target]
    BY DEF Forked
  <1> HIDE DEF first, frame
  <1>3. second = [at |-> "branch", part |-> old.part, parts |-> old.parts, else |-> old.else,
                  merge |-> merge, target |-> old.target, type |-> old.type,
                  parameter |-> old.parameter]
    BY <1>1
  <1> HIDE DEF second
  <1>4. frame = [at |-> "branch", part |-> old.part, parts |-> old.parts, else |-> old.else,
                 merge |-> merge, target |-> target, type |-> old.type,
                 parameter |-> old.parameter]
    BY <1>2, <1>3
  <1> QED
    BY <1>4 DEF IfFrame, Follows, frame

(* The current block ends in a branch and the body's is the current one.      *)
LEMMA ForkKeeps ==
  ASSUME IInv, control.do # "done", stack # << >>, Frame.at \in {"condition", "else_if"},
         current.function # 0, NEW merge, NEW last, Fork(merge, last),
         \/ Frame.at = "condition" /\ merge = Len(Blocks) + 1 /\ last = Len(Blocks) + 1
         \/ Frame.at = "else_if" /\ merge = Frame.merge /\ last = Len(Blocks)
  PROVE  IInv'
  <1> DEFINE count == Len(Blocks)
             other == IF Follows(Frame) THEN last + 2 ELSE merge
             created == (IF other = merge THEN last + 1 ELSE last + 2) - count
             ended == WithTerminator(functions, BranchTo(control.value, last + 1, other))
             frame == [Frame EXCEPT !.at = "branch", !.merge = merge, !.target = other]
             new == count + 1..count + created
             top == Len(stack)
  <1>1. /\ functions' = WithBlocks(ended, created)
        /\ current' = [current EXCEPT !.block = last + 1]
        /\ stack' = Replaced(frame) /\ control'.do = "expression"
        /\ UNCHANGED <<diagnostics, outcome>>
    BY DEF Fork, Resume, EvaluateOf, tally
  <1>2. /\ IsASequence(stack) /\ StackFormed(stack) /\ FunctionsFormed(functions)
        /\ FunctionFormed(current) /\ outcome = "compiling"
        /\ IsOpen(functions, current.function, current.block)
    BY CurrentIs
  <1>3. IfFrame(Frame) /\ Frame.at \notin StatementFrames /\ Frame.at # "body"
    BY TopFormed DEF FrameFormed, IfFrame, StatementFrames
  <1>4. /\ IfFrame(frame) /\ frame.at = "branch" /\ frame.merge = merge /\ frame.target = other
        /\ Follows(frame) <=> Follows(Frame)
    <2>1. frame = Forked(Frame, merge, other)
      BY DEF Forked
    <2> HIDE DEF frame, other
    <2> QED
      BY <1>3, <2>1, ForkedFrame
  <1>5. PICK level : /\ Levelled(level, stack, current)
                     /\ Owned(level, stack, current, functions, diagnostics)
    BY DEF IInv, Waiting
  <1>6. level[top - 1] = current.function /\ top \in 1..top /\ At(stack, top) = Frame
    BY <1>2, <1>3, <1>5, LevelUnderTop DEF Frame
  <1>7. count \in Nat /\ DOMAIN Blocks = 1..count
    BY <1>2, SequenceShape DEF FunctionsFormed, CodeFormed, IsOpen, Blocks
  <1>8. Frame.at = "else_if" => Frame.merge \in 1..count
    BY <1>6, <1>5, <1>7 DEF Awaits, Pending, Owned, IsOpen, Blocks
  <1> HIDE DEF frame, top
  <1>9. /\ created \in Nat /\ last + 1 \in new
        /\ Distinct(frame)
        /\ \A b : b \in Pending(frame) <=> b \in Pending(Frame) \/ (b \in new /\ b # last + 1)
    <2> HIDE DEF count
    <2>1. \/ Frame.at = "condition" /\ merge = count + 1 /\ last = count + 1
          \/ Frame.at = "else_if" /\ merge = Frame.merge /\ last = count /\ merge \in 1..count
      BY <1>8 DEF count
    <2>2. Forks(Frame, frame, count, merge, last, other, created, new)
      BY <1>4, <2>1 DEF Forks
    <2> HIDE DEF other, created, new
    <2> QED
      BY <1>7, <2>2, ForkPending
  <1>10. BranchTo(control.value, last + 1, other) # NoTerminator
    BY DEF BranchTo, NoTerminator
  <1>11. /\ FunctionsFormed(ended)
         /\ DOMAIN ended = DOMAIN functions
         /\ Len(ended[current.function].blocks) = count
         /\ \A g, c : IsOpen(ended, g, c) <=>
              IsOpen(functions, g, c) /\ ~(g = current.function /\ c = current.block)
    BY <1>2, <1>10, TerminatorEnds DEF Blocks
  <1> HIDE DEF ended, created
  <1>12. current.function \in DOMAIN ended
    BY <1>2, <1>11 DEF IsOpen
  <1>13. /\ FunctionsFormed(functions')
         /\ \A g, c : IsOpen(functions', g, c) <=>
              IsOpen(ended, g, c) \/ (g = current.function /\ c \in new)
    BY <1>1, <1>9, <1>11, <1>12, BlocksAdded
  <1>14. \A b \in new : ~IsOpen(functions, current.function, b)
    BY <1>7, <1>9 DEF IsOpen, Blocks
  <1> HIDE DEF new, count
  <1>15. /\ FunctionFormed(current')
         /\ current'.function = current.function /\ current'.block = last + 1
    BY <1>1, <1>2 DEF FunctionFormed
  <1> DEFINE t == <<frame>> \o Tail(stack)
  <1>16. stack' = t
    BY <1>1 DEF Replaced
  <1>17. /\ \A d, b : d # top => (Awaits(t, d, b) <=> Awaits(stack, d, b))
         /\ \A b : Awaits(t, top, b) <=> b \in Pending(frame)
         /\ \A b : Awaits(stack, top, b) <=> b \in Pending(Frame)
         /\ \A d \in 1..Len(t) : Distinct(At(t, d))
    BY <1>2, <1>5, <1>9, AwaitsSwapped DEF Owned, Frame, top
  <1>18. Levelled(level, t, current)
    BY <1>2, <1>3, <1>4, <1>5, LevelsSwapped DEF Frame
  <1>19. StackFormed(t) /\ t # << >>
    BY <1>4, <1>2, <1>3, StackSwapped, SwappedAt DEF FrameFormed, IfFrame, StatementFrames, Frame
  <1> HIDE DEF t
  <1>20. Levelled(level, t, current')
    BY <1>15, <1>18 DEF Levelled
  <1>21. Owned(level, t, current', functions', diagnostics)
    <2>1. EndsFor(functions, current, functions', new)
      BY <1>11, <1>13, <1>14 DEF EndsFor
    <2>2. current'.block \in new
      BY <1>9, <1>15
    <2>3. TakesOn(stack, t, top, new \ {current'.block})
      BY <1>9, <1>15, <1>17 DEF TakesOn
    <2>4. top = Len(stack)
      BY DEF top
    <2> QED
      BY <1>5, <1>6, <1>15, <2>1, <2>2, <2>3, <2>4, OwnedForked
  <1>22. ControlFits(control', stack')
    BY <1>1, <1>16, <1>19 DEF ControlFits
  <1>23. Waiting(stack', current', functions', diagnostics')
    BY <1>1, <1>16, <1>20, <1>21 DEF Waiting
  <1> QED
    BY <1>1, <1>2, <1>13, <1>16, <1>19, <1>22, <1>23, NextIInv DEF IInv

LEMMA ConditionForksKeeps ==
  ASSUME IInv, ConditionForks
  PROVE  IInv'
  BY ReturnedTo, StepHalts, ForkKeeps DEF ConditionForks, IsTopLevel

LEMMA ElseIfConditionKeeps ==
  ASSUME IInv, ElseIfCondition
  PROVE  IInv'
  <1>1. /\ control.do # "done" /\ stack # << >> /\ Frame.at = "else_if"
        /\ Fork(Frame.merge, Len(Blocks))
    BY ReturnedTo DEF ElseIfCondition
  <1>2. current.function # 0
    BY CurrentIs, <1>1, LevelUnderTop DEF IInv, Waiting, Frame, LevelFits, Levelled
  <1> QED
    BY <1>1, <1>2, ForkKeeps

LEMMA FrameWithResult ==
  ASSUME NEW old, IfFrame(old), NEW type, NEW parameter
  PROVE  LET frame == WithResult(old, type, parameter)
         IN  /\ IfFrame(frame) /\ frame.at = old.at
             /\ frame.merge = old.merge /\ frame.part = old.part /\ frame.parts = old.parts
             /\ frame.else = old.else /\ frame.target = old.target
             /\ frame.parameter = parameter
  <1> DEFINE frame == WithResult(old, type, parameter)
             half == [old EXCEPT !.type = type]
  <1>1. half = [at |-> old.at, part |-> old.part, parts |-> old.parts, else |-> old.else,
                merge |-> old.merge, target |-> old.target, type |-> type,
                parameter |-> old.parameter]
    BY DEF IfFrame
  <1>2. frame = [half EXCEPT !.parameter = parameter]
    BY DEF WithResult
  <1> HIDE DEF half, frame
  <1>3. frame = [at |-> old.at, part |-> old.part, parts |-> old.parts, else |-> old.else,
                 merge |-> old.merge, target |-> old.target, type |-> type,
                 parameter |-> parameter]
    BY <1>1, <1>2
  <1> QED
    BY <1>3 DEF IfFrame, frame

LEMMA FrameToCondition ==
  ASSUME NEW old, IfFrame(old)
  PROVE  LET frame == ToCondition(old)
         IN  /\ IfFrame(frame) /\ frame.at = "else_if" /\ frame.merge = old.merge
             /\ frame.parameter = old.parameter
  <1> DEFINE frame == ToCondition(old)
             half == [old EXCEPT !.at = "else_if"]
             n == old.part + 1
  <1>1. half = [at |-> "else_if", part |-> old.part, parts |-> old.parts, else |-> old.else,
                merge |-> old.merge, target |-> old.target, type |-> old.type,
                parameter |-> old.parameter]
    BY DEF IfFrame
  <1>2. frame = [half EXCEPT !.part = n]
    BY <1>1 DEF ToCondition
  <1> HIDE DEF half, frame, n
  <1>3. frame = [at |-> "else_if", part |-> n, parts |-> old.parts, else |-> old.else,
                 merge |-> old.merge, target |-> old.target, type |-> old.type,
                 parameter |-> old.parameter]
    BY <1>1, <1>2
  <1> QED
    BY <1>3 DEF IfFrame, frame

LEMMA FrameToElse ==
  ASSUME NEW old, IfFrame(old)
  PROVE  LET frame == ToElse(old)
         IN  /\ IfFrame(frame) /\ frame.at = old.at /\ frame.merge = old.merge
             /\ frame.part = old.part /\ frame.parts = old.parts /\ frame.else = << >>
             /\ frame.parameter = old.parameter
  <1> DEFINE frame == ToElse(old)
  <1>1. frame = [at |-> old.at, part |-> old.part, parts |-> old.parts, else |-> << >>,
                 merge |-> old.merge, target |-> old.target, type |-> old.type,
                 parameter |-> old.parameter]
    BY DEF IfFrame, ToElse
  <1> HIDE DEF frame
  <1> QED
    BY <1>1 DEF IfFrame, frame

(* The block of a branch ends in a jump. *)
LEMMA BranchEnds ==
  ASSUME IInv, current.function # 0, IsOpen(functions, current.function, Frame.merge),
         NEW allocates \in BOOLEAN, NEW parameter, NEW arguments
  PROVE  LET base == IF allocates
                     THEN [WithRegister(functions) EXCEPT
                             ![current.function].blocks[Frame.merge].parameters = parameter]
                     ELSE functions
             ended == WithTerminator(base, JumpTo(Frame.merge, arguments))
         IN  FunctionsFormed(ended) /\ EndsFor(functions, current, ended, {})
  <1> DEFINE f == current.function
             registered == WithRegister(functions)
             base == IF allocates
                     THEN [WithRegister(functions) EXCEPT
                             ![current.function].blocks[Frame.merge].parameters = parameter]
                     ELSE functions
             jump == JumpTo(Frame.merge, arguments)
             ended == WithTerminator(base, jump)
  <1>1. FunctionsFormed(functions) /\ IsOpen(functions, f, current.block) /\ f \in DOMAIN functions
    BY CurrentIs DEF IsOpen
  <1>2. /\ FunctionsFormed(registered)
        /\ DOMAIN registered = DOMAIN functions
        /\ registered[f].blocks = functions[f].blocks
        /\ \A g, c : IsOpen(registered, g, c) <=> IsOpen(functions, g, c)
    BY <1>1, RegisterAllocated
  <1>3. allocates => base = Entered(registered, f, Frame.merge, parameter)
    BY DEF Entered
  <1>4. ~allocates => base = functions
    OBVIOUS
  <1> HIDE DEF registered, base
  <1>5. FunctionsFormed(base) /\ \A g, c : IsOpen(base, g, c) <=> IsOpen(functions, g, c)
    <2>1. CASE allocates
      <3>1. f \in DOMAIN registered /\ Frame.merge \in DOMAIN registered[f].blocks
        BY <1>1, <1>2 DEF IsOpen
      <3>2. FunctionsFormed(base) /\ \A g, c : IsOpen(base, g, c) <=> IsOpen(registered, g, c)
        BY <1>2, <1>3, <2>1, <3>1, BlockKeepsItsEnd
      <3> QED
        BY <1>2, <3>2
    <2>2. CASE ~allocates
      BY <1>1, <1>4, <2>2
    <2> QED
      BY <2>1, <2>2
  <1>6. jump # NoTerminator
    BY DEF JumpTo, NoTerminator
  <1> HIDE DEF jump
  <1>7. /\ FunctionsFormed(ended)
        /\ \A g, c : IsOpen(ended, g, c) <=>
             IsOpen(base, g, c) /\ ~(g = current.function /\ c = current.block)
    BY <1>1, <1>5, <1>6, TerminatorEnds
  <1> HIDE DEF ended
  <1>8. FunctionsFormed(ended) /\ EndsFor(functions, current, ended, {})
    BY <1>5, <1>7 DEF EndsFor
  <1> QED
    BY <1>8 DEF ended, base, jump, registered

(* The frame of an if stays, and its next block becomes the current one. *)
LEMMA BranchGoesOn ==
  ASSUME IInv, control.do # "done", stack # << >>, Frame.at = "branch", Follows(Frame),
         NEW ended, BranchDoneTo(Frame.target, ended),
         NEW frame, frame.at \in {"branch", "else_if"}, FrameFormed(frame),
         Pending(frame) = {Frame.merge}, Distinct(frame),
         stack' = Replaced(frame), control'.do = "expression"
  PROVE  IInv'
  <1> DEFINE top == Len(stack)
             t == <<frame>> \o Tail(stack)
  <1>1. IsASequence(stack) /\ StackFormed(stack) /\ FunctionsFormed(functions)
        /\ outcome = "compiling"
    BY CurrentIs
  <1>2. PICK level : /\ Levelled(level, stack, current)
                     /\ Owned(level, stack, current, functions, diagnostics)
    BY DEF IInv, Waiting
  <1>3. /\ level[top - 1] = current.function
        /\ top \in 1..top
        /\ At(stack, top) = Frame
        /\ LevelFits(level, stack, top)
    BY <1>1, <1>2, LevelUnderTop DEF Frame
  <1>4. current.function # 0
    BY <1>2, <1>3 DEF LevelFits, Levelled
  <1>5. /\ Pending(Frame) = {Frame.merge, Frame.target}
        /\ Frame.merge # Frame.target
    BY <1>2, <1>3 DEF Owned, Pending, Distinct
  <1>6. /\ \A d, b : d # top => (Awaits(t, d, b) <=> Awaits(stack, d, b))
        /\ \A b : Awaits(t, top, b) <=> b \in Pending(frame)
        /\ \A b : Awaits(stack, top, b) <=> b \in Pending(Frame)
        /\ \A d \in 1..Len(t) : Distinct(At(t, d))
    BY <1>1, <1>2, AwaitsSwapped DEF Owned, Frame
  <1>7. Levelled(level, t, current)
    BY <1>1, <1>2, <1>4, LevelsSwapped DEF Frame
  <1>8. StackFormed(t) /\ t # << >>
    BY <1>1, StackSwapped, SwappedAt DEF StatementFrames, Frame
  <1>9. stack' = t
    BY DEF Replaced
  <1> HIDE DEF t, top
  <1>10. Levelled(level, t, current')
    BY <1>4, <1>7 DEF Levelled, BranchDoneTo
  <1>11. Owned(level, t, current', functions', diagnostics)
    <2>1. /\ current'.function = level[top - 1] /\ current'.block = Frame.target
          /\ EndsFor(functions, current, functions', {})
      BY <1>3 DEF BranchDoneTo
    <2>2. LetsGo(stack, t, top, current'.block) /\ Awaits(stack, top, current'.block)
      BY <1>5, <1>6, <2>1 DEF LetsGo
    <2>3. \A b : ~IsOpen(functions, 0, b)
      BY <1>1, NoFunctionIsZero
    <2> QED
      BY <1>2, <2>1, <2>2, <2>3, OwnedReturned DEF top
  <1>12. ControlFits(control', stack')
    BY <1>8, <1>9 DEF ControlFits
  <1>13. Waiting(stack', current', functions', diagnostics')
    BY <1>9, <1>10, <1>11 DEF Waiting, BranchDoneTo
  <1> QED
    BY <1>1, <1>8, <1>9, <1>12, <1>13, NextIInv DEF IInv, BranchDoneTo

(* The frame of an if is done, and the merge block becomes the current one. *)
LEMMA BranchMerges ==
  ASSUME IInv, control.do # "done", stack # << >>, Frame.at = "branch", ~Follows(Frame),
         NEW ended, BranchDoneTo(Frame.merge, ended), NEW operand, Give(operand)
  PROVE  IInv'
  <1> DEFINE top == Len(stack)
             t == Tail(stack)
  <1>1. IsASequence(stack) /\ StackFormed(stack) /\ FunctionsFormed(functions)
        /\ outcome = "compiling"
    BY CurrentIs
  <1>2. PICK level : /\ Levelled(level, stack, current)
                     /\ Owned(level, stack, current, functions, diagnostics)
    BY DEF IInv, Waiting
  <1>3. /\ level[top - 1] = current.function
        /\ top \in 1..top
        /\ At(stack, top) = Frame
        /\ LevelFits(level, stack, top)
    BY <1>1, <1>2, LevelUnderTop DEF Frame
  <1>4. current.function # 0
    BY <1>2, <1>3 DEF LevelFits, Levelled
  <1>5. Pending(Frame) = {Frame.merge}
    BY DEF Pending
  <1>6. /\ \A d, b : d # top => (Awaits(t, d, b) <=> Awaits(stack, d, b))
        /\ \A b : ~Awaits(t, top, b)
        /\ \A b : Awaits(stack, top, b) <=> b \in Pending(Frame)
        /\ \A d \in 1..Len(t) : Distinct(At(t, d))
    BY <1>1, <1>2, AwaitsDropped DEF Owned, Frame
  <1>7. Levelled(level, t, current')
    BY <1>3, <1>4, <1>1, <1>2, LevelsDropped DEF BranchDoneTo
  <1>8. Finishes /\ stack' = t
    BY DEF Finishes, Give, ValueOf, StatementFrames
  <1>9. StackFormed(stack') /\ ControlFits(control', stack')
    BY <1>1, <1>8, FinishedFits
  <1> HIDE DEF t, top
  <1>11. Owned(level, t, current', functions', diagnostics)
    BY <1>5, <1>6, <1>3, <1>1, NoFunctionIsZero, <1>2, OwnedReturned DEF LetsGo, BranchDoneTo, top
  <1>13. Waiting(stack', current', functions', diagnostics')
    BY <1>7, <1>8, <1>11 DEF Waiting, BranchDoneTo
  <1> QED
    BY <1>1, <1>9, <1>13, NextIInv DEF IInv, BranchDoneTo

LEMMA BranchDoneKeeps ==
  ASSUME IInv, BranchDone
  PROVE  IInv'
  <1> DEFINE type == TypeOf(control.value)
             allocates == Frame.type = 0 /\ type # Void
             parameter == IF allocates THEN <<NextRegister>> ELSE Frame.parameter
             arguments == IF parameter = << >> THEN << >> ELSE <<control.value>>
             frame == [Frame EXCEPT !.type = type, !.parameter = parameter]
             base == IF allocates
                     THEN [WithRegister(functions) EXCEPT
                             ![current.function].blocks[Frame.merge].parameters = parameter]
                     ELSE functions
             ended == WithTerminator(base, JumpTo(Frame.merge, arguments))
             holder == IF allocates THEN Allocated(type) ELSE current
             later == IF ~Follows(Frame) THEN Frame.merge ELSE Frame.target
  <1>1. control.do # "done" /\ stack # << >> /\ Frame.at = "branch" /\ FrameFormed(Frame)
    BY ReturnedTo DEF BranchDone
  <1>2. \/ Fail
        \/ /\ functions' = ended
           /\ current' = [holder EXCEPT !.block = later]
           /\ UNCHANGED <<tally, table, types, function_table>>
           /\ \/ ~Follows(Frame) /\ \E operand : Give(operand)
              \/ /\ Follows(Frame)
                 /\ \E e : Resume([frame EXCEPT !.at = "else_if", !.part = @ + 1], e)
              \/ /\ Follows(Frame) /\ ~(Frame.part < Len(Frame.parts))
                 /\ \E e : Resume([frame EXCEPT !.else = << >>], e)
    BY DEF BranchDone
  <1>3. IfFrame(Frame)
    BY <1>1 DEF FrameFormed, IfFrame
  <1>4. frame = WithResult(Frame, type, parameter)
    BY DEF WithResult
  <1>5. /\ [frame EXCEPT !.at = "else_if", !.part = @ + 1] = ToCondition(frame)
        /\ [frame EXCEPT !.else = << >>] = ToElse(frame)
    BY DEF ToCondition, ToElse
  <1>6. allocates \in BOOLEAN
    OBVIOUS
  <1>7. FunctionFormed(current)
    BY CurrentIs
  <1>8. /\ FunctionFormed(holder) /\ holder.function = current.function
    BY <1>7 DEF FunctionFormed, Allocated
  <1> DEFINE condition == ToCondition(frame)
             else == ToElse(frame)
  <1>9. ASSUME functions' = ended, current' = [holder EXCEPT !.block = later],
               UNCHANGED <<tally, table, types, function_table>>,
               \/ ~Follows(Frame) /\ \E operand : Give(operand)
               \/ Follows(Frame) /\ \E e : Resume(condition, e)
               \/ /\ Follows(Frame) /\ ~(Frame.part < Len(Frame.parts))
                  /\ \E e : Resume(else, e)
        PROVE  IInv'
    <2>1. current.function # 0 /\ IsOpen(functions, current.function, Frame.merge)
      <3>1. IsASequence(stack)
        BY CurrentIs
      <3>2. PICK level : /\ Levelled(level, stack, current)
                         /\ Owned(level, stack, current, functions, diagnostics)
        BY DEF IInv, Waiting
      <3>3. /\ level[Len(stack) - 1] = current.function
            /\ Len(stack) \in 1..Len(stack)
            /\ At(stack, Len(stack)) = Frame
            /\ LevelFits(level, stack, Len(stack))
        BY <1>1, <3>1, <3>2, LevelUnderTop DEF Frame
      <3>4. current.function # 0
        BY <1>1, <3>2, <3>3 DEF LevelFits, Levelled
      <3>5. Awaits(stack, Len(stack), Frame.merge)
        BY <1>1, <3>3 DEF Awaits, Pending
      <3> QED
        BY <3>2, <3>3, <3>4, <3>5 DEF Owned
    <2>2. FunctionsFormed(ended) /\ EndsFor(functions, current, ended, {})
      BY <1>6, <2>1, BranchEnds
    <2> HIDE DEF ended, holder, later, frame
    <2>3. BranchDoneTo(later, ended)
      BY <1>8, <1>9, <2>2 DEF BranchDoneTo, FunctionFormed, tally
    <2>4. /\ IfFrame(frame) /\ frame.at = "branch" /\ frame.merge = Frame.merge
          /\ frame.part = Frame.part /\ frame.parts = Frame.parts
      BY <1>1, <1>3, <1>4, FrameWithResult
    <2> HIDE DEF condition, else
    <2>5. CASE ~Follows(Frame) /\ \E operand : Give(operand)
      BY <2>5, <1>1, <2>3, BranchMerges DEF later
    <2>6. CASE Follows(Frame) /\ \E e : Resume(condition, e)
      BY <2>6, <2>4, FrameToCondition, <1>1, <2>3, BranchGoesOn DEF later, condition, FrameFormed,
         IfFrame, Pending, Distinct, Resume, EvaluateOf
    <2>7. CASE /\ Follows(Frame) /\ ~(Frame.part < Len(Frame.parts))
               /\ \E e : Resume(else, e)
      <3>1. later = Frame.target
        BY <2>7 DEF later
      <3>2. /\ IfFrame(else) /\ else.at = "branch" /\ else.merge = Frame.merge
            /\ else.part = Frame.part /\ else.parts = Frame.parts /\ else.else = << >>
        BY <2>4, FrameToElse DEF else
      <3>3. ~Follows(else)
        BY <2>7, <3>2 DEF Follows
      <3>4. FrameFormed(else) /\ Distinct(else) /\ Pending(else) = {Frame.merge}
        BY <3>2, <3>3 DEF FrameFormed, IfFrame, Pending, Distinct
      <3>5. stack' = Replaced(else) /\ control'.do = "expression"
        BY <2>7 DEF Resume, EvaluateOf
      <3> QED
        BY <1>1, <2>3, <2>7, <3>1, <3>2, <3>4, <3>5, BranchGoesOn
    <2> QED
      BY <1>9, <2>5, <2>6, <2>7
  <1> HIDE DEF ended, holder, later, frame
  <1> QED
    BY <1>1, <1>2, <1>5, <1>9, StepFails

----------------------------------------------------------------------------

(* Functions. *)

LEMMA TypeValueKeeps ==
  ASSUME IInv, TypeValue
  PROVE  IInv'
  <1> DEFINE known == Append(Frame.types, control.value.value)
             more == [Frame EXCEPT !.types = known]
             fn == Frame.fn
             frame == [at |-> "body", fn |-> fn, saved |-> current]
             parameter_types == Front(known)
             n == Len(parameter_types)
             type == TypeIn(Interned(types, FunctionType(parameter_types, control.value.value)),
                            FunctionType(parameter_types, control.value.value))
             parameters == [i \in 1..n |-> i - 1]
             code == [type |-> type, register_count |-> n,
                      blocks |-> <<[EmptyBlock EXCEPT !.parameters = parameters]>>]
             inner == [function |-> Len(functions) + 1, block |-> 1,
                       register_types |-> parameter_types]
  <1>1. control.do # "done" /\ stack # << >> /\ Frame.at = "type" /\ FrameFormed(Frame)
    BY ReturnedTo DEF TypeValue
  <1>2. \/ Fail
        \/ (\E e : Resume(more, e)) /\ UNCHANGED <<tally, table, current, unit>>
        \/ EnterFunction(fn, parameter_types, control.value.value) /\ UNCHANGED <<tally, function_table>>
    BY DEF TypeValue
  <1>3. Ordinary(Frame) /\ Frame.at \notin StatementFrames
    BY <1>1 DEF Ordinary, StatementFrames
  <1>4. /\ Ordinary(more) /\ FrameFormed(more) /\ more.at \notin StatementFrames
    <2>1. /\ Frame = [at |-> "type", fn |-> Frame.fn, types |-> Frame.types]
          /\ IsASequence(Frame.types)
      BY <1>1 DEF FrameFormed
    <2>2. IsASequence(Append(Frame.types, control.value.value))
      BY <2>1, AppendedSequence
    <2>3. more = [at |-> "type", fn |-> Frame.fn, types |-> Append(Frame.types, control.value.value)]
      BY <2>1
    <2> HIDE DEF more
    <2> QED
      BY <2>2, <2>3 DEF FrameFormed, Ordinary, StatementFrames
  <1>5. ASSUME NEW e, Resume(more, e), UNCHANGED <<tally, table, current, unit>>
        PROVE  IInv'
    BY <1>5, <1>1, <1>3, <1>4, StepResumes DEF tally, unit
  <1>6. ASSUME EnterFunction(fn, parameter_types, control.value.value), UNCHANGED tally
        PROVE  IInv'
    <2>1. /\ functions' = Append(functions, code)
          /\ current' = inner
          /\ stack' = Replaced(frame) /\ control'.do = "expression"
          /\ UNCHANGED <<diagnostics, outcome>>
      BY <1>6 DEF EnterFunction, Resume, EvaluateOf, tally
    <2> DEFINE last == Len(functions)
               top == Len(stack)
               t == <<frame>> \o Tail(stack)
    <2>2. /\ IsASequence(stack) /\ StackFormed(stack) /\ FunctionsFormed(functions)
          /\ FunctionFormed(current) /\ outcome = "compiling"
          /\ current.function # 0 => IsOpen(functions, current.function, current.block)
      BY <1>1, CurrentIs
    <2>3. /\ FunctionsFormed(functions')
          /\ last \in Nat
          /\ \A g, c : IsOpen(functions', g, c) <=>
               IsOpen(functions, g, c) \/ (g = last + 1 /\ c = 1)
          /\ \A c : ~IsOpen(functions, last + 1, c)
      <3> HIDE DEF type, n, parameters
      <3> QED
        BY <2>1, <2>2, FunctionAdded
    <2> HIDE DEF code
    <2>4. /\ FunctionFormed(inner) /\ inner.function = last + 1 /\ inner.block = 1
          /\ inner.function \in Nat \ {0}
      BY <2>3 DEF FunctionFormed
    <2>5. current.function # inner.function
      BY <2>2, SequenceShape, <2>3, <2>4 DEF FunctionsFormed, IsOpen
    <2> HIDE DEF inner, last
    <2>6. /\ frame.at = "body" /\ frame.saved = current /\ FrameFormed(frame)
          /\ frame.at \notin StatementFrames
          /\ Pending(frame) = {current.block} /\ Distinct(frame)
      BY <2>2 DEF FrameFormed, StatementFrames, Pending, Distinct
    <2> HIDE DEF frame
    <2>7. PICK level : /\ Levelled(level, stack, current)
                       /\ Owned(level, stack, current, functions, diagnostics)
      BY DEF IInv, Waiting
    <2>8. level[top - 1] = current.function /\ top \in 1..top /\ top - 1 \in Nat
      BY <1>1, <2>2, <2>7, LevelUnderTop DEF Frame
    <2> DEFINE other == [level EXCEPT ![top] = inner.function]
    <2>9. Levelled(other, t, inner)
      BY <1>1, <2>2, <2>4, <2>6, <2>7, LevelsEntered DEF Frame
    <2>10. /\ \A d, b : d # top => (Awaits(t, d, b) <=> Awaits(stack, d, b))
           /\ \A b : Awaits(t, top, b) <=> b \in Pending(frame)
           /\ \A b : Awaits(stack, top, b) <=> b \in Pending(Frame)
           /\ \A d \in 1..Len(t) : Distinct(At(t, d))
      BY <1>1, <2>2, <2>6, <2>7, AwaitsSwapped DEF Owned, Frame
    <2>11. Pending(Frame) = {}
      BY <1>1 DEF Pending
    <2>12. \A d \in 1..top : other[d - 1] = level[d - 1]
      BY <2>7, <2>8 DEF Levelled
    <2>13. StackFormed(t) /\ t # << >>
      BY <1>1, <1>3, <2>2, <2>6, StackSwapped, SwappedAt DEF Frame
    <2>14. stack' = t
      BY <2>1 DEF Replaced
    <2> HIDE DEF t, other
    <2>15. Owned(other, t, inner, functions', diagnostics)
      <3>1. TakesOn(stack, t, top, {current.block}) /\ \A b : ~Awaits(stack, top, b)
        BY <2>6, <2>10, <2>11 DEF TakesOn
      <3>2. \A d, b : Awaits(stack, d, b) => other[d - 1] = level[d - 1]
        BY <2>12 DEF Awaits
      <3>3. other[top - 1] = level[top - 1]
        BY <2>8, <2>12
      <3>4. /\ \A b : ~IsOpen(functions, inner.function, b) /\ ~IsOpen(functions, 0, b)
            /\ \A f, b : IsOpen(functions', f, b) <=>
                 IsOpen(functions, f, b) \/ (f = inner.function /\ b = inner.block)
            /\ inner.function # 0
        BY <2>2, <2>3, <2>4, NoFunctionIsZero
      <3>5. top = Len(stack)
        OBVIOUS
      <3> HIDE DEF top
      <3> QED
        BY <2>5, <2>7, <2>8, <3>1, <3>2, <3>3, <3>4, <3>5, OwnedEntered
    <2>16. ControlFits(control', stack')
      BY <2>1, <2>13, <2>14 DEF ControlFits
    <2>17. Waiting(stack', current', functions', diagnostics')
      BY <2>1, <2>9, <2>14, <2>15 DEF Waiting
    <2> QED
      BY <2>1, <2>2, <2>3, <2>13, <2>14, <2>16, <2>17, NextIInv DEF IInv
  <1> HIDE DEF more, parameter_types
  <1> QED
    BY <1>1, <1>2, <1>5, <1>6, StepFails

LEMMA LeaveFunctionKeeps ==
  ASSUME IInv, LeaveFunction
  PROVE  IInv'
  <1> DEFINE ended == WithTerminator(functions, ReturnOf(control.value))
             back == Frame.saved
             top == Len(stack)
             t == Tail(stack)
  <1>1. control.do # "done" /\ stack # << >> /\ Frame.at = "body" /\ FrameFormed(Frame)
    BY ReturnedTo DEF LeaveFunction
  <1>2. \/ Fail
        \/ /\ functions' = ended /\ current' = back
           /\ \E operand : Give(operand)
           /\ UNCHANGED <<diagnostics, outcome>>
    BY DEF LeaveFunction, tally
  <1>3. ASSUME functions' = ended, current' = back, NEW operand, Give(operand),
               UNCHANGED <<diagnostics, outcome>>
        PROVE  IInv'
    <2>1. /\ IsASequence(stack) /\ StackFormed(stack) /\ FunctionsFormed(functions)
          /\ outcome = "compiling"
          /\ current.function # 0 => IsOpen(functions, current.function, current.block)
      BY <1>1, CurrentIs
    <2>2. PICK level : /\ Levelled(level, stack, current)
                       /\ Owned(level, stack, current, functions, diagnostics)
      BY DEF IInv, Waiting
    <2>3. /\ current.function # 0
          /\ back.function = level[top - 1]
          /\ level[top - 1] = 0 => back = NoFunction
      BY <1>1, <2>1, <2>2, LevelUnderTop DEF Frame
    <2>4. ReturnOf(control.value) # NoTerminator
      BY DEF ReturnOf, NoTerminator
    <2>5. /\ FunctionsFormed(ended)
          /\ \A g, c : IsOpen(ended, g, c) <=>
               IsOpen(functions, g, c) /\ ~(g = current.function /\ c = current.block)
      BY <2>1, <2>3, <2>4, TerminatorEnds
    <2> HIDE DEF ended
    <2>6. EndsFor(functions, current, functions', {})
      BY <1>3, <2>5 DEF EndsFor
    <2>7. Pending(Frame) = {back.block} /\ FunctionFormed(back)
      BY <1>1 DEF Pending, FrameFormed
    <2>8. /\ \A d, b : d # top => (Awaits(t, d, b) <=> Awaits(stack, d, b))
          /\ \A b : ~Awaits(t, top, b)
          /\ \A b : Awaits(stack, top, b) <=> b \in Pending(Frame)
          /\ \A d \in 1..Len(t) : Distinct(At(t, d))
      BY <1>1, <2>1, <2>2, AwaitsDropped DEF Owned, Frame
    <2>9. Levelled(level, t, back)
      BY <1>1, <2>1, <2>2, <2>3, <2>7, LevelsDropped
    <2>10. Finishes /\ stack' = t
      BY <1>1, <1>3 DEF Finishes, Give, ValueOf, StatementFrames
    <2>11. StackFormed(stack') /\ ControlFits(control', stack')
      BY <1>1, <2>1, <2>10, FinishedFits
    <2>12. top = Len(stack) /\ \A b : ~IsOpen(functions, 0, b)
      BY <2>1, NoFunctionIsZero
    <2> HIDE DEF t, top, back
    <2>13. Owned(level, t, back, functions', diagnostics)
      BY <2>7, <2>8, <2>2, <2>3, <2>6, <2>12, OwnedReturned DEF LetsGo
    <2>14. Waiting(stack', current', functions', diagnostics')
      BY <1>3, <2>9, <2>10, <2>13 DEF Waiting
    <2> QED
      BY <1>3, <2>1, <2>5, <2>11, <2>14, NextIInv DEF IInv
  <1> QED
    BY <1>1, <1>2, <1>3, StepFails

----------------------------------------------------------------------------

(* The theorems. *)

LEMMA InitIInv ==
  ASSUME Init
  PROVE  IInv
  BY EmptySequence, NothingWaits, EmptyStackFormed DEF Init, NextStatement, FunctionsFormed, IsOpen,
     ControlFits, IInv, Outcomes

LEMMA NextKeepsIInv ==
  ASSUME IInv, [Next]_vars
  PROVE  IInv'
  <1>1. CASE UNCHANGED vars
    BY <1>1 DEF IInv, Outcomes, vars
  <1>2. CASE TopLevelStatement \/ EndOfUnit \/ UnknownRegister
    BY <1>2, TopLevelStatementKeeps, EndOfUnitKeeps, UnknownRegisterKeeps
  <1>3. CASE LetStatement \/ LetBinding \/ WhileStatement \/ ReturnStatement \/ ReturnValue
    BY <1>3, LetStatementKeeps, LetBindingKeeps, WhileStatementKeeps, ReturnStatementKeeps,
       ReturnValueKeeps
  <1>4. CASE ExpressionStatement \/ Discard
    BY <1>4, ExpressionStatementKeeps, DiscardKeeps
  <1>5. CASE IntLiteral \/ ParenExpression \/ PrefixExpression \/ PrefixOperand \/ PostfixExpression
    BY <1>5, IntLiteralKeeps, ParenExpressionKeeps, PrefixExpressionKeeps, PrefixOperandKeeps,
       PostfixExpressionKeeps
  <1>6. CASE IndexExpression \/ PrefixBracketExpression \/ ElementType \/ ArraySize
    BY <1>6, IndexExpressionKeeps, PrefixBracketExpressionKeeps, ElementTypeKeeps, ArraySizeKeeps
  <1>7. CASE Identifier \/ RecurseExpression \/ EnterBlock \/ BlockStatement \/ BlockTail \/ LeaveBlock
    BY <1>7, IdentifierKeeps, RecurseExpressionKeeps, EnterBlockKeeps, BlockStatementKeeps,
       BlockTailKeeps, LeaveBlockKeeps
  <1>8. CASE BinaryExpression \/ RightOperand \/ Operate
    BY <1>8, BinaryExpressionKeeps, RightOperandKeeps, OperateKeeps
  <1>9. CASE CallExpression \/ Callee \/ Argument \/ ArgumentValue \/ CallNow \/ EmitCall
    BY <1>9, CallExpressionKeeps, CalleeKeeps, ArgumentKeeps, ArgumentValueKeeps, CallNowKeeps,
       EmitCallKeeps
  <1>10. CASE IfExpression \/ ConditionRefused \/ ConditionFolded \/ ConditionForks
    BY <1>10, IfExpressionKeeps, ConditionRefusedKeeps, ConditionFoldedKeeps, ConditionForksKeeps
  <1>11. CASE ElseIfCondition \/ BranchDone
    BY <1>11, ElseIfConditionKeeps, BranchDoneKeeps
  <1>12. CASE FnExpression \/ TypeValue \/ LeaveFunction
    BY <1>12, FnExpressionKeeps, TypeValueKeeps, LeaveFunctionKeeps
  <1> QED
    BY <1>1, <1>2, <1>3, <1>4, <1>5, <1>6, <1>7, <1>8, <1>9, <1>10, <1>11, <1>12 DEF Next

(* Every frame on the stack and every open block has its place, whatever the  *)
(* program: the invariant the theorems below follow from.                     *)
THEOREM Invariant ==
  Spec => []IInv
  BY InitIInv, NextKeepsIInv, PTL DEF Spec

(* However deep in nested functions a statement is given up, the next one at  *)
(* top level finds no function being compiled: is_top_level() is right about  *)
(* it (Scoped_assign, compile.cpp:22).                                        *)
THEOREM NextStatementIsAtTopLevel ==
  Spec => []TopLevelIsTopLevel
  <1>1. IInv => TopLevelIsTopLevel
    BY EmptySequence DEF TopLevelIsTopLevel, IInv, Waiting, Levelled
  <1> QED
    BY <1>1, Invariant, PTL

(* Emission never finds its block ended, and when a unit is done no block of  *)
(* it is left without a terminator (the asserts at compile.cpp:587, :599,     *)
(* :619 and :1210).                                                           *)
THEOREM EveryBlockEndsOnce ==
  Spec => []BlocksEndOnce
  <1>1. ASSUME IInv, current.function # 0
        PROVE  Blocks[current.block].terminator = NoTerminator
    BY <1>1, CurrentIs DEF IsOpen, Blocks
  <1>2. ASSUME IInv, outcome = "unit", NEW f \in DOMAIN functions,
               NEW b \in DOMAIN functions[f].blocks,
               functions[f].blocks[b].terminator = NoTerminator
        PROVE  FALSE
    BY <1>2, EmptySequence, NoFunctionIsZero DEF IInv, Outcomes, Waiting, Levelled, IsOpen, Owned,
       Awaits
  <1>3. IInv => BlocksEndOnce
    BY <1>1, <1>2 DEF BlocksEndOnce
  <1> QED
    BY <1>3, Invariant, PTL

----------------------------------------------------------------------------

LEMMA InternedGrows ==
  ASSUME NEW pool, OfDifferentTypes(pool), NEW type
  PROVE  /\ Grown(pool, Interned(pool, type))
         /\ TypeIn(Interned(pool, type), type) \in DOMAIN Interned(pool, type)
         /\ Interned(pool, type)[TypeIn(Interned(pool, type), type)] = type
  <1>1. Grown(pool, Interned(pool, type)) /\ \E t \in DOMAIN Interned(pool, type) :
                                               Interned(pool, type)[t] = type
    <2>1. CASE \E t \in DOMAIN pool : pool[t] = type
      BY <2>1 DEF Interned, Grown, OfDifferentTypes
    <2>2. CASE ~\E t \in DOMAIN pool : pool[t] = type
      <3> DEFINE new == Append(pool, type)
                 n == Len(pool)
      <3>1. Interned(pool, type) = new
        BY <2>2 DEF Interned
      <3>2. /\ IsASequence(new) /\ Len(new) = n + 1 /\ new[n + 1] = type
            /\ \A i \in 1..n : new[i] = pool[i]
            /\ n \in Nat /\ DOMAIN pool = 1..n
        BY AppendedSequence, SequenceShape DEF OfDifferentTypes
      <3> HIDE DEF new
      <3>3. DOMAIN new = 1..n + 1
        BY <3>2, SequenceShape
      <3> HIDE DEF n
      <3>4. \A i \in 1..n + 1 : i \in 1..n \/ i = n + 1
        BY <3>2
      <3>5. \A i \in 1..n : i \in 1..n + 1
        BY <3>2
      <3>6. n + 1 \in 1..n + 1
        BY <3>2
      <3>7. \A t, u \in DOMAIN new : new[t] = new[u] => t = u
        BY <2>2, <3>2, <3>3, <3>4 DEF OfDifferentTypes
      <3> QED
        BY <3>1, <3>2, <3>3, <3>5, <3>6, <3>7 DEF Grown, OfDifferentTypes
    <2> QED
      BY <2>1, <2>2
  <1> QED
    BY <1>1 DEF TypeIn

LEMMA SavedStay ==
  ASSUME NEW s, NEW t, SameBodies(s, t), NEW function, NEW other,
         other.function = function.function,
         NEW fs, NEW gs, SameHeads(fs, gs, function.function),
         SavedCounted(s, function, fs)
  PROVE  SavedCounted(t, other, gs)
  <1>1. ASSUME NEW d, Saved(t, d)
        PROVE  /\ Counted(At(t, d).saved, gs)
               /\ At(t, d).saved.function < other.function
    <2> DEFINE saved == At(s, d).saved
    <2>1. At(t, d).saved = saved /\ Counted(saved, fs) /\ saved.function < function.function
      BY <1>1 DEF SameBodies, SavedCounted
    <2>2. saved.function # function.function
      BY <2>1 DEF Counted
    <2> QED
      BY <2>1, <2>2 DEF Counted, SameHeads
  <1>2. ASSUME NEW d, NEW e, Saved(t, d), Saved(t, e), d < e
        PROVE  At(t, d).saved.function < At(t, e).saved.function
    BY <1>2 DEF SameBodies, SavedCounted
  <1> QED
    BY <1>1, <1>2 DEF SavedCounted

(* A step inside a function. *)
LEMMA StepInside ==
  ASSUME TypesHold, Grown(types, types'), SameHeads(functions, functions', current.function),
         SameBodies(stack, stack'), current'.function = current.function,
         Counted(current', functions')
  PROVE  TypesHold'
  BY SavedStay DEF TypesHold, FunctionsHaveTypes, SameHeads, Grown

----------------------------------------------------------------------------

LEMMA BodiesStay ==
  ASSUME IsASequence(stack), MovesOne
  PROVE  SameBodies(stack, stack')
  <1> DEFINE n == Len(stack)
  <1>0. n \in Nat
    BY SequenceShape
  <1>1. CASE stack' = stack
    BY <1>1 DEF SameBodies
  <1>2. CASE PushesOne
    <2>1. PICK frame : frame.at # "body" /\ stack' = Pushed(frame)
      BY <1>2 DEF PushesOne
    <2>2. /\ Len(stack') = n + 1 /\ At(stack', Len(stack')) = frame
          /\ \A d \in 1..n : At(stack', d) = At(stack, d)
      BY <2>1, PushedAt DEF Pushed
    <2>3. \A d \in 1..n + 1 : d = n + 1 \/ d \in 1..n
      BY <1>0
    <2> HIDE DEF n
    <2> QED
      BY <2>1, <2>2, <2>3 DEF SameBodies, Saved, n
  <1>3. CASE SwapsOne
    BY <1>3, SwappedAt, <1>0 DEF SwapsOne, Replaced, SameBodies, Saved, n
  <1>4. CASE DropsOne
    BY <1>4, DroppedAt, <1>0 DEF DropsOne, SameBodies, Saved, n
  <1> QED
    BY <1>1, <1>2, <1>3, <1>4 DEF MovesOne

LEMMA QuietKeepsTypes ==
  ASSUME IInv, TypesHold, Quiet
  PROVE  TypesHold'
  <1>1. CASE MovesOne /\ UNCHANGED <<types, functions, current>>
    BY <1>1, CurrentIs, BodiesStay, StepInside DEF TypesHold, Grown, SameHeads
  <1>2. CASE Fail
    BY <1>2, UnwoundToTop, EmptySequence DEF Fail, unit, SavedCounted, Saved, Counted, NoFunction,
       TypesHold, FunctionsHaveTypes
  <1> QED
    BY <1>1, <1>2 DEF Quiet

LEMMA HaltIsQuiet ==
  ASSUME NEW how, Halt(how)
  PROVE  Quiet
  BY DEF Halt, Quiet, MovesOne, unit

LEMMA StartIsQuiet ==
  ASSUME NEW frame, NEW expression, Start(frame, expression), frame.at # "body"
  PROVE  Quiet
  BY DEF Start, Quiet, MovesOne, PushesOne, unit

LEMMA YieldIsQuiet ==
  ASSUME NEW operand, Yield(operand)
  PROVE  Quiet
  BY DEF Yield, Quiet, MovesOne, unit

LEMMA ResumeSwaps ==
  ASSUME NEW frame, NEW expression, Resume(frame, expression), frame.at # "body", stack # << >>
  PROVE  MovesOne
  BY DEF Resume, MovesOne, SwapsOne

LEMMA GiveDrops ==
  ASSUME NEW operand, Give(operand), stack # << >>
  PROVE  MovesOne
  BY DEF Give, MovesOne, DropsOne

----------------------------------------------------------------------------

(* The quiet steps. *)

LEMMA StatementsAreQuiet ==
  ASSUME IInv,
         TopLevelStatement \/ EndOfUnit \/ UnknownRegister \/ LetStatement \/ LetBinding
           \/ WhileStatement \/ ReturnStatement \/ ExpressionStatement \/ Discard
  PROVE  Quiet
  <1>1. CASE TopLevelStatement
    BY <1>1 DEF TopLevelStatement, Quiet, MovesOne, unit
  <1>2. CASE EndOfUnit \/ UnknownRegister
    BY <1>2, HaltIsQuiet DEF EndOfUnit, UnknownRegister
  <1>3. CASE LetStatement
    <2> DEFINE let == control.statement
               frame == [at |-> "let", name |-> let.name, mutable |-> let.mutable]
    <2>1. Fail \/ Start(frame, let.initializer)
      BY <1>3 DEF LetStatement
    <2>2. frame.at # "body"
      OBVIOUS
    <2> HIDE DEF frame
    <2> QED
      BY <2>1, <2>2, StartIsQuiet DEF Quiet
  <1>4. CASE LetBinding
    BY <1>4, ReturnedTo DEF LetBinding, Quiet, MovesOne, DropsOne
  <1>5. CASE WhileStatement
    BY <1>5 DEF WhileStatement, Quiet
  <1>6. CASE ReturnStatement \/ ExpressionStatement
    BY <1>6, StartIsQuiet DEF ReturnStatement, ExpressionStatement
  <1>7. CASE Discard
    BY <1>7, ReturnedTo DEF Discard, Quiet, MovesOne, DropsOne, unit
  <1> QED
    BY <1>1, <1>2, <1>3, <1>4, <1>5, <1>6, <1>7

LEMMA SimpleExpressionsAreQuiet ==
  ASSUME IInv,
         IntLiteral \/ ParenExpression \/ PostfixExpression \/ IndexExpression \/ Identifier
           \/ RecurseExpression
  PROVE  Quiet
  <1>1. CASE IntLiteral \/ Identifier \/ RecurseExpression
    BY <1>1, YieldIsQuiet DEF IntLiteral, IntegerLiteral, Identifier, RecurseExpression, Quiet
  <1>2. CASE ParenExpression
    BY <1>2 DEF ParenExpression, Quiet, MovesOne, unit
  <1>3. CASE PostfixExpression
    BY <1>3 DEF PostfixExpression, Quiet
  <1>4. CASE IndexExpression
    BY <1>4, HaltIsQuiet DEF IndexExpression
  <1> QED
    BY <1>1, <1>2, <1>3, <1>4

(* Expressions that begin with one of their parts. *)
LEMMA StartsAreQuiet ==
  ASSUME PrefixExpression \/ PrefixBracketExpression \/ BinaryExpression \/ CallExpression
           \/ IfExpression \/ FnExpression
  PROVE  Quiet
  <1> DEFINE e == control.expression
             prefix == [at |-> "operand", op |-> e.op]
             bracket == [at |-> "element", size |-> e.size]
             binary == [at |-> "left", op |-> e.op, right |-> e.right]
             call == [at |-> "callee", rest |-> e.arguments]
             if == [at |-> "condition", part |-> 1, parts |-> e.parts, else |-> e.else, merge |-> 0,
                    target |-> 0, type |-> 0, parameter |-> << >>]
             fn == [at |-> "type", fn |-> e, types |-> << >>]
  <1>1. \A frame \in {prefix, bracket, binary, call, if, fn} : frame.at # "body"
    OBVIOUS
  <1>2. \/ \E frame \in {prefix, bracket, binary, call, if, fn} : \E x : Start(frame, x)
        \/ Fail
        \/ \E operand : Yield(operand)
    BY DEF PrefixExpression, IntegerLiteral, PrefixBracketExpression, BinaryExpression,
       CallExpression, IfExpression, FnExpression
  <1> HIDE DEF prefix, bracket, binary, call, if, fn
  <1> QED
    BY <1>1, <1>2, StartIsQuiet, YieldIsQuiet DEF Quiet

LEMMA BlocksAreQuiet ==
  ASSUME IInv, EnterBlock \/ BlockStatement \/ BlockTail \/ LeaveBlock
  PROVE  Quiet
  <1>1. CASE EnterBlock
    <2> DEFINE frame == [at |-> "block", rest |-> control.expression.statements,
                         tail |-> control.expression.tail]
    <2>1. stack' = Pushed(frame) /\ UNCHANGED <<types, functions, current>>
      BY <1>1 DEF EnterBlock, unit
    <2>2. frame.at # "body"
      OBVIOUS
    <2> HIDE DEF frame
    <2> QED
      BY <2>1, <2>2 DEF Quiet, MovesOne, PushesOne
  <1>2. CASE BlockStatement
    <2> DEFINE frame == [Frame EXCEPT !.rest = Tail(@)]
    <2>1. /\ stack # << >> /\ Frame.at = "block" /\ FrameFormed(Frame)
          /\ stack' = Replaced(frame) /\ UNCHANGED <<types, functions, current>>
      BY <1>2, NextOfBlock DEF BlockStatement, unit
    <2>2. frame.at = Frame.at
      OBVIOUS
    <2> HIDE DEF frame
    <2> QED
      BY <2>1, <2>2 DEF Quiet, MovesOne, SwapsOne
  <1>3. CASE BlockTail
    <2> DEFINE frame == [at |-> "tail"]
    <2>1. stack # << >> /\ Resume(frame, Frame.tail[1]) /\ UNCHANGED <<types, functions, current>>
      BY <1>3 DEF BlockTail, unit
    <2>2. frame.at # "body"
      OBVIOUS
    <2> HIDE DEF frame
    <2> QED
      BY <2>1, <2>2, ResumeSwaps DEF Quiet
  <1>4. CASE LeaveBlock
    BY <1>4, ReturnedTo, GiveDrops DEF LeaveBlock, unit, Quiet
  <1> QED
    BY <1>1, <1>2, <1>3, <1>4

LEMMA CallsAreQuiet ==
  ASSUME IInv, RightOperand \/ Callee \/ Argument \/ ArgumentValue \/ CallNow
  PROVE  Quiet
  <1>1. CASE RightOperand
    <2> DEFINE frame == [at |-> "right", op |-> Frame.op, lhs |-> control.value]
    <2>1. /\ stack # << >> /\ Resume(frame, Frame.right)
          /\ UNCHANGED <<types, functions, current>>
      BY <1>1, ReturnedTo DEF RightOperand, unit
    <2>2. frame.at # "body"
      OBVIOUS
    <2> HIDE DEF frame
    <2> QED
      BY <2>1, <2>2, ResumeSwaps DEF Quiet
  <1>2. CASE Callee
    <2> DEFINE frame == [at |-> "argument", callee |-> control.value.value, values |-> << >>,
                         rest |-> Frame.rest]
    <2>1. stack # << >>
      BY <1>2, ReturnedTo DEF Callee
    <2>2. Fail \/ (stack' = Replaced(frame) /\ UNCHANGED <<types, functions, current>>)
      BY <1>2 DEF Callee, unit
    <2>3. frame.at # "body"
      OBVIOUS
    <2> HIDE DEF frame
    <2> QED
      BY <2>1, <2>2, <2>3 DEF Quiet, MovesOne, SwapsOne
  <1>3. CASE Argument
    BY <1>3 DEF Argument, Quiet, MovesOne, unit
  <1>4. CASE ArgumentValue
    <2> DEFINE frame == [Frame EXCEPT !.values = Append(@, control.value), !.rest = Tail(@)]
    <2>1. stack # << >> /\ Frame.at = "argument"
      BY <1>4, ReturnedTo DEF ArgumentValue
    <2>2. Fail \/ (stack' = Replaced(frame) /\ UNCHANGED <<types, functions, current>>)
      BY <1>4 DEF ArgumentValue, unit
    <2>3. frame.at = Frame.at
      OBVIOUS
    <2> HIDE DEF frame
    <2> QED
      BY <2>1, <2>2, <2>3 DEF Quiet, MovesOne, SwapsOne
  <1>5. CASE CallNow
    BY <1>5, CallOfArguments, GiveDrops, HaltIsQuiet DEF CallNow, unit, Quiet
  <1> QED
    BY <1>1, <1>2, <1>3, <1>4, <1>5

LEMMA ConditionsAreQuiet ==
  ASSUME IInv, ConditionRefused \/ ConditionFolded
  PROVE  Quiet
  <1>1. CASE ConditionRefused
    BY <1>1, HaltIsQuiet DEF ConditionRefused, Quiet
  <1>2. CASE ConditionFolded
    <2> DEFINE frame == [Frame EXCEPT !.part = @ + 1]
    <2>1. stack # << >> /\ Frame.at = "condition"
      BY <1>2, ReturnedTo DEF ConditionFolded
    <2>2. /\ stack' = Tail(stack) \/ \E e : Resume(frame, e)
          /\ UNCHANGED <<types, functions, current>>
      BY <1>2 DEF ConditionFolded, unit
    <2>3. frame.at = Frame.at
      OBVIOUS
    <2> HIDE DEF frame
    <2> QED
      BY <2>1, <2>2, <2>3, ResumeSwaps DEF Quiet, MovesOne, DropsOne
  <1> QED
    BY <1>1, <1>2

----------------------------------------------------------------------------

LEMMA BlocksChanged ==
  ASSUME NEW fs, Recorded(fs), NEW f, NEW gs, NEW x, gs = [fs EXCEPT ![f].blocks = x]
  PROVE  BlocksOnly(fs, gs)
  <1>1. DOMAIN gs = DOMAIN fs
    OBVIOUS
  <1>2. ASSUME NEW g \in DOMAIN fs
        PROVE  gs[g] = [type |-> fs[g].type, register_count |-> fs[g].register_count,
                        blocks |-> gs[g].blocks]
    <2> DEFINE old == fs[g]
               new == [old EXCEPT !.blocks = x]
    <2>1. old = [type |-> old.type, register_count |-> old.register_count, blocks |-> old.blocks]
      BY DEF Recorded
    <2>2. gs[g] = IF g = f THEN new ELSE old
      OBVIOUS
    <2> HIDE DEF old
    <2>3. new = [type |-> old.type, register_count |-> old.register_count, blocks |-> x]
      BY <2>1
    <2> HIDE DEF new
    <2> QED
      BY <2>1, <2>2, <2>3 DEF old
  <1> QED
    BY <1>1, <1>2 DEF BlocksOnly, Recorded

LEMMA RegisterAdded ==
  ASSUME NEW fs, Recorded(fs)
  PROVE  OneRegister(fs, WithRegister(fs))
  <1> DEFINE f == current.function
             gs == WithRegister(fs)
  <1>1. gs = [fs EXCEPT ![f].register_count = @ + 1]
    BY DEF WithRegister
  <1> HIDE DEF f, gs
  <1>2. DOMAIN gs = DOMAIN fs
    BY <1>1
  <1>3. ASSUME NEW g \in DOMAIN fs, g # f
        PROVE  gs[g] = fs[g]
    BY <1>1, <1>3
  <1>4. ASSUME f \in DOMAIN fs
        PROVE  gs[f] = [type |-> fs[f].type, register_count |-> fs[f].register_count + 1,
                        blocks |-> fs[f].blocks]
    <2> DEFINE old == fs[f]
               new == [old EXCEPT !.register_count = @ + 1]
    <2>1. old = [type |-> old.type, register_count |-> old.register_count, blocks |-> old.blocks]
      BY <1>4 DEF Recorded
    <2>2. gs[f] = new
      BY <1>1, <1>4
    <2> HIDE DEF old
    <2>3. new = [type |-> old.type, register_count |-> old.register_count + 1,
                 blocks |-> old.blocks]
      BY <2>1
    <2> QED
      BY <2>2, <2>3 DEF old
  <1>5. Recorded(gs)
    BY <1>2, <1>4, <1>3 DEF Recorded
  <1>6. SameHeads(fs, gs, f)
    BY <1>2, <1>3, <1>4 DEF SameHeads
  <1>7. f \in DOMAIN fs => gs[f].register_count = fs[f].register_count + 1
    BY <1>4
  <1> QED
    BY <1>5, <1>6, <1>7 DEF OneRegister, f, gs

LEMMA TerminatorOnly ==
  ASSUME NEW fs, Recorded(fs), NEW t
  PROVE  BlocksOnly(fs, WithTerminator(fs, t))
  <1> DEFINE x == [fs[current.function].blocks EXCEPT ![current.block].terminator = t]
  <1>1. WithTerminator(fs, t) = [fs EXCEPT ![current.function].blocks = x]
    BY DEF WithTerminator
  <1> HIDE DEF x
  <1> QED
    BY <1>1, BlocksChanged

LEMMA InstructionOnly ==
  ASSUME NEW fs, Recorded(fs), NEW instruction
  PROVE  BlocksOnly(fs, WithInstruction(fs, instruction))
  <1> DEFINE x == [fs[current.function].blocks EXCEPT
                     ![current.block].instructions = Append(@, instruction)]
  <1>1. WithInstruction(fs, instruction) = [fs EXCEPT ![current.function].blocks = x]
    BY DEF WithInstruction
  <1> HIDE DEF x
  <1> QED
    BY <1>1, BlocksChanged

LEMMA BlocksAddedOnly ==
  ASSUME NEW fs, Recorded(fs), NEW n
  PROVE  BlocksOnly(fs, WithBlocks(fs, n))
  <1> DEFINE x == fs[current.function].blocks \o [i \in 1..n |-> EmptyBlock]
  <1>1. WithBlocks(fs, n) = [fs EXCEPT ![current.function].blocks = x]
    BY DEF WithBlocks
  <1> HIDE DEF x
  <1> QED
    BY <1>1, BlocksChanged

LEMMA BlocksTwice ==
  ASSUME NEW fs, NEW gs, NEW hs
  PROVE  /\ BlocksOnly(fs, gs) /\ BlocksOnly(gs, hs) => BlocksOnly(fs, hs)
         /\ BlocksOnly(fs, gs) /\ OneRegister(gs, hs) => OneRegister(fs, hs)
         /\ OneRegister(fs, gs) /\ BlocksOnly(gs, hs) => OneRegister(fs, hs)
  BY DEF BlocksOnly, OneRegister, SameHeads

LEMMA FunctionsRecorded ==
  ASSUME IInv
  PROVE  Recorded(functions) /\ BlocksOnly(functions, functions)
  BY DEF IInv, FunctionsFormed, CodeFormed, Recorded, BlocksOnly

(* Code is emitted, and the types of the registers follow their count. *)
LEMMA StepWrites ==
  ASSUME IInv, TypesHold, types' = types, MovesOne, current'.function = current.function,
         \/ BlocksOnly(functions, functions') /\ current'.register_types = current.register_types
         \/ /\ OneRegister(functions, functions')
            /\ \E type : current'.register_types = Append(current.register_types, type)
  PROVE  TypesHold'
  <1>1. SameBodies(stack, stack')
    BY CurrentIs, BodiesStay
  <1>2. Grown(types, types')
    BY DEF TypesHold, Grown
  <1>3. SameHeads(functions, functions', current.function)
    BY DEF BlocksOnly, OneRegister, SameHeads
  <1>4. Counted(current', functions')
    <2>1. Counted(current, functions)
      BY DEF TypesHold
    <2>2. CASE BlocksOnly(functions, functions') /\ current'.register_types = current.register_types
      BY <2>1, <2>2 DEF Counted, BlocksOnly
    <2>3. CASE /\ OneRegister(functions, functions')
               /\ \E type : current'.register_types = Append(current.register_types, type)
      BY <2>3, <2>1, AppendedSequence DEF Counted, OneRegister, SameHeads
    <2> QED
      BY <2>2, <2>3
  <1> QED
    BY <1>1, <1>2, <1>3, <1>4, StepInside

(* The current function with another block or one register more. *)
LEMMA CurrentMoves ==
  ASSUME IInv, NEW b, NEW type
  PROVE  /\ LET c == [current EXCEPT !.block = b]
            IN  c.function = current.function /\ c.register_types = current.register_types
         /\ LET c == Allocated(type)
            IN  /\ c.function = current.function
                /\ c.register_types = Append(current.register_types, type)
         /\ LET c == [Allocated(type) EXCEPT !.block = b]
            IN  /\ c.function = current.function
                /\ c.register_types = Append(current.register_types, type)
  <1>1. current = [function |-> current.function, block |-> current.block,
                   register_types |-> current.register_types]
    BY CurrentIs DEF FunctionFormed
  <1> DEFINE longer == Append(current.register_types, type)
  <1>2. Allocated(type) = [function |-> current.function, block |-> current.block,
                           register_types |-> longer]
    BY <1>1 DEF Allocated, longer
  <1> HIDE DEF longer
  <1>3. LET c == Allocated(type)
        IN  c.function = current.function /\ c.register_types = longer
    BY <1>2
  <1>4. LET c == [Allocated(type) EXCEPT !.block = b]
        IN  c.function = current.function /\ c.register_types = longer
    BY <1>2
  <1>5. LET c == [current EXCEPT !.block = b]
        IN  c.function = current.function /\ c.register_types = current.register_types
    BY <1>1
  <1> QED
    BY <1>3, <1>4, <1>5 DEF longer

LEMMA EmittedKeepsTypes ==
  ASSUME IInv, TypesHold, types' = types, stack # << >>,
         NEW instruction, functions' = WithRegister(WithInstruction(functions, instruction)),
         NEW type, current' = Allocated(type), NEW operand, Give(operand)
  PROVE  TypesHold'
  <1>1. MovesOne
    BY GiveDrops
  <1> DEFINE gs == WithInstruction(functions, instruction)
  <1>2. BlocksOnly(functions, gs)
    BY FunctionsRecorded, InstructionOnly
  <1>3. OneRegister(gs, WithRegister(gs))
    BY <1>2, RegisterAdded DEF BlocksOnly
  <1>4. OneRegister(functions, functions')
    BY <1>2, <1>3, BlocksTwice
  <1>5. current'.function = current.function /\
          current'.register_types = Append(current.register_types, type)
    BY CurrentMoves
  <1> QED
    BY <1>1, <1>4, <1>5, StepWrites

LEMMA GivenTypeKeepsTypes ==
  ASSUME IInv, TypesHold, stack # << >>, NEW type, GiveType(type)
  PROVE  TypesHold'
  BY GiveDrops, CurrentIs, BodiesStay, InternedGrows, StepInside DEF GiveType, TypesHold, SameHeads

LEMMA OperatorsKeepTypes ==
  ASSUME IInv, TypesHold, PrefixOperand \/ Operate \/ EmitCall \/ ElementType \/ ArraySize
  PROVE  TypesHold'
  <1>1. stack # << >>
    BY CallOfArguments, ReturnedTo DEF EmitCall, PrefixOperand, Operate, ElementType, ArraySize
  <1> DEFINE Makes == \E instruction, type, operand :
                        /\ functions' = WithRegister(WithInstruction(functions, instruction))
                        /\ current' = Allocated(type) /\ Give(operand) /\ types' = types
             Gives == (\E operand : Give(operand)) /\ UNCHANGED <<types, functions, current>>
             Types == \E type : GiveType(type)
  <1>2. Makes \/ Gives \/ Types \/ Fail \/ (\E how : Halt(how)) \/ ElementType
    BY DEF PrefixOperand, unit, Operate, EmitCall, ArraySize
  <1>3. CASE Makes
    BY <1>1, <1>3, EmittedKeepsTypes
  <1>4. CASE Gives
    BY <1>1, <1>4, GiveDrops, QuietKeepsTypes DEF Quiet
  <1>5. CASE Types
    BY <1>1, <1>5, GivenTypeKeepsTypes
  <1>6. CASE Fail \/ \E how : Halt(how)
    BY <1>6, HaltIsQuiet, QuietKeepsTypes DEF Quiet
  <1>7. CASE ElementType
    <2> DEFINE frame == [at |-> "size", element |-> control.value.value]
    <2>1. \/ Types
          \/ Fail
          \/ (\E e : Resume(frame, e)) /\ UNCHANGED <<types, functions, current>>
      BY <1>7 DEF ElementType, unit
    <2>2. frame.at # "body"
      OBVIOUS
    <2> HIDE DEF frame
    <2>3. CASE (\E e : Resume(frame, e)) /\ UNCHANGED <<types, functions, current>>
      BY <1>1, <2>2, <2>3, ResumeSwaps, QuietKeepsTypes DEF Quiet
    <2> QED
      BY <1>5, <1>6, <2>1, <2>3
  <1> HIDE DEF Makes, Gives, Types
  <1> QED
    BY <1>2, <1>3, <1>4, <1>5, <1>6, <1>7

(* Returns and branches. *)
LEMMA ReturnKeepsTypes ==
  ASSUME IInv, TypesHold, ReturnValue
  PROVE  TypesHold'
  <1> DEFINE ended == WithTerminator(functions, ReturnOf(control.value))
             b == Len(Blocks) + 1
  <1>1. stack # << >>
    BY ReturnedTo DEF ReturnValue
  <1>2. \/ Fail
        \/ Halt("undefined")
        \/ /\ functions' = WithBlocks(ended, 1) /\ types' = types
           /\ current' = [current EXCEPT !.block = b] /\ stack' = Tail(stack)
    BY DEF ReturnValue
  <1>3. ASSUME functions' = WithBlocks(ended, 1), types' = types,
               current' = [current EXCEPT !.block = b], stack' = Tail(stack)
        PROVE  TypesHold'
    BY FunctionsRecorded, TerminatorOnly, <1>3, BlocksAddedOnly, BlocksTwice, CurrentMoves, <1>1,
       StepWrites DEF BlocksOnly, MovesOne, DropsOne
  <1> QED
    BY <1>2, <1>3, HaltIsQuiet, QuietKeepsTypes DEF Quiet

LEMMA ForkKeepsTypes ==
  ASSUME IInv, TypesHold, stack # << >>, Frame.at # "body", NEW merge, NEW last, Fork(merge, last)
  PROVE  TypesHold'
  <1> DEFINE other == IF Follows(Frame) THEN last + 2 ELSE merge
             created == (IF other = merge THEN last + 1 ELSE last + 2) - Len(Blocks)
             ended == WithTerminator(functions, BranchTo(control.value, last + 1, other))
             b == last + 1
             frame == [Frame EXCEPT !.at = "branch", !.merge = merge, !.target = other]
  <1>1. /\ functions' = WithBlocks(ended, created) /\ types' = types
        /\ current' = [current EXCEPT !.block = b]
        /\ \E e : Resume(frame, e)
    BY DEF Fork
  <1>2. BlocksOnly(functions, ended)
    BY FunctionsRecorded, TerminatorOnly
  <1>3. frame.at = "branch" \/ frame.at = Frame.at
    OBVIOUS
  <1> HIDE DEF ended, b, created, frame
  <1>4. BlocksOnly(functions, functions')
    BY <1>1, <1>2, BlocksAddedOnly, BlocksTwice DEF BlocksOnly
  <1>5. MovesOne
    BY <1>1, <1>3, ResumeSwaps
  <1>6. current'.function = current.function /\ current'.register_types = current.register_types
    BY <1>1, CurrentMoves
  <1> QED
    BY <1>1, <1>4, <1>5, <1>6, StepWrites

LEMMA BranchesKeepTypes ==
  ASSUME IInv, TypesHold, ConditionForks \/ ElseIfCondition
  PROVE  TypesHold'
  BY ReturnedTo, HaltIsQuiet, QuietKeepsTypes, ForkKeepsTypes DEF ConditionForks, ElseIfCondition

LEMMA BranchDoneKeepsTypes ==
  ASSUME IInv, TypesHold, BranchDone
  PROVE  TypesHold'
  <1> DEFINE type == TypeOf(control.value)
             first == Frame.type = 0
             allocates == first /\ type # Void
             parameter == IF allocates THEN <<NextRegister>> ELSE Frame.parameter
             frame == [Frame EXCEPT !.type = type, !.parameter = parameter]
             with == [WithRegister(functions) EXCEPT
                        ![current.function].blocks[Frame.merge].parameters = parameter]
             widened == IF allocates THEN with ELSE functions
             jump == JumpTo(Frame.merge, IF parameter = << >> THEN << >> ELSE <<control.value>>)
             known == IF allocates THEN Allocated(type) ELSE current
             b == IF ~Follows(Frame) THEN Frame.merge ELSE Frame.target
             part == [frame EXCEPT !.at = "else_if", !.part = @ + 1]
             rest == [frame EXCEPT !.else = << >>]
  <1>1. stack # << >> /\ Frame.at = "branch"
    BY ReturnedTo DEF BranchDone
  <1>2. \/ Fail
        \/ /\ functions' = WithTerminator(widened, jump) /\ types' = types
           /\ current' = [known EXCEPT !.block = b]
           /\ \/ \E operand : Give(operand)
              \/ \E e : Resume(part, e)
              \/ \E e : Resume(rest, e)
    BY DEF BranchDone
  <1>3. part.at # "body" /\ rest.at # "body"
    BY <1>1
  <1>4. CASE /\ functions' = WithTerminator(widened, jump) /\ types' = types
             /\ current' = [known EXCEPT !.block = b]
             /\ \/ \E operand : Give(operand)
                \/ \E e : Resume(part, e)
                \/ \E e : Resume(rest, e)
    <2> HIDE DEF part, rest, b, jump
    <2>1. MovesOne
      BY <1>1, <1>3, <1>4, GiveDrops, ResumeSwaps
    <2>2. \/ /\ BlocksOnly(functions, widened)
             /\ current'.function = current.function
             /\ current'.register_types = current.register_types
          \/ /\ OneRegister(functions, widened)
             /\ current'.function = current.function
             /\ current'.register_types = Append(current.register_types, type)
      <3>1. CASE allocates
        <4>1. OneRegister(functions, WithRegister(functions))
          BY FunctionsRecorded, RegisterAdded
        <4> DEFINE gs == WithRegister(functions)
                   x == [gs[current.function].blocks EXCEPT ![Frame.merge].parameters = parameter]
        <4>2. with = [gs EXCEPT ![current.function].blocks = x]
          OBVIOUS
        <4>3. Recorded(gs)
          BY <4>1 DEF OneRegister
        <4> HIDE DEF gs, x, with
        <4>4. BlocksOnly(gs, with)
          BY <4>2, <4>3, BlocksChanged
        <4>5. OneRegister(functions, with)
          BY <4>1, <4>4, BlocksTwice DEF gs
        <4>6. widened = with /\ known = Allocated(type)
          BY <3>1
        <4> HIDE DEF widened, known, type
        <4>7. /\ current'.function = current.function
              /\ current'.register_types = Append(current.register_types, type)
          BY <1>4, <4>6, CurrentMoves
        <4> QED
          BY <4>5, <4>6, <4>7
      <3>2. CASE ~allocates
        BY <3>2, <1>4, FunctionsRecorded, CurrentMoves
      <3> QED
        BY <3>1, <3>2
    <2> HIDE DEF widened, known, type
    <2>3. BlocksOnly(widened, functions')
      BY <1>4, <2>2, TerminatorOnly DEF BlocksOnly, OneRegister
    <2> QED
      BY <1>4, <2>1, <2>2, <2>3, BlocksTwice, StepWrites
  <1> HIDE DEF widened, known, part, rest, b, jump
  <1> QED
    BY <1>2, <1>4, QuietKeepsTypes DEF Quiet

(* Functions. *)
LEMMA FrontOfSequence ==
  ASSUME NEW s, IsASequence(s), Len(s) # 0
  PROVE  IsASequence(Front(s))
  <1> DEFINE n == Len(s) - 1
             front == Front(s)
  <1>1. Len(s) \in Nat
    BY SequenceShape
  <1>2. n \in Nat
    BY <1>1
  <1>3. front = SubSeq(s, 1, n)
    BY DEF Front
  <1>4. s \in Seq({s[i] : i \in DOMAIN s})
    BY DEF IsASequence
  <1>5. front = [i \in 1..n |-> s[i]]
    BY <1>1, <1>2, <1>3, <1>4
  <1> HIDE DEF n, front
  <1>6. front = [i \in 1..n |-> front[i]]
    BY <1>5
  <1> QED
    BY <1>2, <1>6, MadeASequence DEF front

LEMMA EnteredKeepsTypes ==
  ASSUME IInv, TypesHold, stack # << >>, Frame.at # "body",
         NEW fn, NEW parameter_types, IsASequence(parameter_types), NEW result,
         EnterFunction(fn, parameter_types, result)
  PROVE  TypesHold'
  <1> DEFINE type == FunctionType(parameter_types, result)
             place == TypeIn(Interned(types, type), type)
             last == Len(functions)
             n == Len(parameter_types)
             code == [type |-> place, register_count |-> n,
                      blocks |-> <<[EmptyBlock EXCEPT !.parameters = [i \in 1..n |-> i - 1]]>>]
             inner == [function |-> last + 1, block |-> 1, register_types |-> parameter_types]
             frame == [at |-> "body", fn |-> fn, saved |-> current]
             top == Len(stack)
  <1>1. /\ types' = Interned(types, type)
        /\ functions' = Append(functions, code)
        /\ current' = inner
        /\ stack' = Replaced(frame)
    BY DEF EnterFunction, Resume
  <1>2. /\ code.type = place /\ code.register_count = n
        /\ inner.function = last + 1 /\ inner.register_types = parameter_types
        /\ frame.at = "body" /\ frame.saved = current
    OBVIOUS
  <1>3. type.kind = "Function"
    BY DEF FunctionType
  <1> HIDE DEF code, inner, frame, type
  <1>4. /\ Grown(types, types')
        /\ place \in DOMAIN types' /\ types'[place] = type
    BY <1>1, InternedGrows DEF TypesHold
  <1> HIDE DEF place
  <1>5. /\ last \in Nat /\ DOMAIN functions = 1..last
        /\ DOMAIN functions' = 1..last + 1
        /\ functions'[last + 1] = code
        /\ \A g \in 1..last : functions'[g] = functions[g]
    BY SequenceShape, <1>1, AppendedSequence DEF IInv, FunctionsFormed
  <1>6. /\ top \in Nat /\ Len(stack') = top /\ At(stack', top) = frame
        /\ \A d \in 1..top - 1 : At(stack', d) = At(stack, d)
    BY CurrentIs, <1>1, SwappedAt, SequenceShape DEF Replaced
  <1> HIDE DEF last, top, n
  <1>7. FunctionsHaveTypes'
    BY <1>5, <1>2, <1>3, <1>4 DEF TypesHold, FunctionsHaveTypes, Grown
  <1>8. Counted(current', functions')
    BY <1>1, <1>2, <1>5 DEF Counted, n
  <1>9. ASSUME NEW function, Counted(function, functions)
        PROVE  Counted(function, functions') /\ function.function < last + 1
    BY <1>5, <1>9 DEF Counted
  <1>10. ASSUME NEW d, Saved(stack', d)
         PROVE  \/ d = top
                \/ d \in 1..top - 1 /\ Saved(stack, d) /\ At(stack', d) = At(stack, d)
    BY <1>6, <1>10 DEF Saved, top
  <1>11. At(stack', top).saved = current /\ Counted(current, functions)
    BY <1>2, <1>6 DEF TypesHold
  <1>12. ASSUME NEW d, Saved(stack', d)
         PROVE  /\ Counted(At(stack', d).saved, functions')
                /\ At(stack', d).saved.function < current'.function
    BY <1>10, <1>11, <1>12, <1>1, <1>2, <1>9 DEF TypesHold, SavedCounted
  <1>13. ASSUME NEW d, NEW e, Saved(stack', d), Saved(stack', e), d < e
         PROVE  At(stack', d).saved.function < At(stack', e).saved.function
    BY <1>6, <1>13, <1>10, <1>11 DEF Saved, TypesHold, SavedCounted
  <1> QED
    BY <1>4, <1>7, <1>8, <1>12, <1>13 DEF TypesHold, SavedCounted, Grown

LEMMA TypeValueKeepsTypes ==
  ASSUME IInv, TypesHold, TypeValue
  PROVE  TypesHold'
  <1> DEFINE known == Append(Frame.types, control.value.value)
             more == [Frame EXCEPT !.types = known]
             fn == Frame.fn
  <1>1. stack # << >> /\ Frame.at = "type" /\ FrameFormed(Frame)
    BY ReturnedTo DEF TypeValue
  <1>2. \/ Fail
        \/ (\E e : Resume(more, e)) /\ UNCHANGED <<types, functions, current>>
        \/ EnterFunction(fn, Front(known), control.value.value)
    BY DEF TypeValue, unit
  <1>3. more.at = Frame.at
    OBVIOUS
  <1>4. IsASequence(Front(known))
    <2>1. IsASequence(Frame.types)
      BY <1>1 DEF FrameFormed
    <2>2. IsASequence(known) /\ Len(known) = Len(Frame.types) + 1 /\ Len(Frame.types) \in Nat
      BY <2>1, AppendedSequence, SequenceShape
    <2> HIDE DEF known
    <2>3. Len(known) # 0
      BY <2>2
    <2> QED
      BY <2>2, <2>3, FrontOfSequence
  <1> HIDE DEF more, known
  <1>5. CASE Fail \/ ((\E e : Resume(more, e)) /\ UNCHANGED <<types, functions, current>>)
    BY <1>1, <1>3, <1>5, ResumeSwaps, QuietKeepsTypes DEF Quiet
  <1> QED
    BY <1>1, <1>2, <1>4, <1>5, EnteredKeepsTypes

LEMMA LeaveFunctionKeepsTypes ==
  ASSUME IInv, TypesHold, LeaveFunction
  PROVE  TypesHold'
  <1> DEFINE top == Len(stack)
  <1>1. stack # << >> /\ Frame.at = "body"
    BY ReturnedTo DEF LeaveFunction
  <1>2. \/ Fail
        \/ /\ functions' = WithTerminator(functions, ReturnOf(control.value)) /\ types' = types
           /\ current' = Frame.saved /\ stack' = Tail(stack)
    BY DEF LeaveFunction, Give
  <1>3. ASSUME functions' = WithTerminator(functions, ReturnOf(control.value)), types' = types,
               current' = Frame.saved, stack' = Tail(stack)
        PROVE  TypesHold'
    <2>1. BlocksOnly(functions, functions')
      BY <1>3, FunctionsRecorded, TerminatorOnly
    <2>2. /\ top \in Nat \ {0} /\ Len(stack') = top - 1 /\ At(stack, top) = Frame
          /\ \A d \in 1..top - 1 : At(stack', d) = At(stack, d)
      BY <1>1, <1>3, CurrentIs, DroppedAt DEF Frame
    <2>3. Saved(stack, top)
      BY <1>1, <2>2 DEF Saved
    <2> HIDE DEF top
    <2>4. \A d : Saved(stack', d) => d < top /\ Saved(stack, d) /\ At(stack', d) = At(stack, d)
      BY <2>2 DEF Saved, top
    <2>5. \A function : Counted(function, functions) => Counted(function, functions')
      BY <2>1 DEF Counted, BlocksOnly
    <2>6. SavedCounted(stack', current', functions')
      BY <1>3, <2>2, <2>3, <2>4, <2>5 DEF TypesHold, SavedCounted
    <2>7. Counted(current', functions')
      BY <1>3, <2>2, <2>3, <2>5 DEF TypesHold, SavedCounted
    <2> QED
      BY <1>3, <2>1, <2>6, <2>7 DEF TypesHold, FunctionsHaveTypes, BlocksOnly
  <1> QED
    BY <1>2, <1>3, QuietKeepsTypes DEF Quiet

LEMMA InitTypesHold ==
  ASSUME Init
  PROVE  TypesHold
  <1>1. types = ScalarPool /\ functions = << >> /\ current = NoFunction /\ stack = << >>
    BY DEF Init
  <1>2. OfDifferentTypes(ScalarPool)
    BY DEF OfDifferentTypes, IsASequence, ScalarPool
  <1>3. DOMAIN << >> = {} /\ \A d : d \notin 1..Len(<< >>)
    BY EmptySequence
  <1>4. FunctionsHaveTypes /\ SavedCounted(stack, current, functions)
    BY <1>1, <1>3 DEF FunctionsHaveTypes, SavedCounted, Saved
  <1>5. Counted(current, functions)
    BY <1>1 DEF Counted, NoFunction
  <1> QED
    BY <1>1, <1>2, <1>4, <1>5 DEF TypesHold

LEMMA NextKeepsTypes ==
  ASSUME IInv, TypesHold, [Next]_vars
  PROVE  TypesHold'
  <1>1. CASE UNCHANGED vars
    BY <1>1, QuietKeepsTypes DEF Quiet, MovesOne, vars
  <1>2. CASE TopLevelStatement \/ EndOfUnit \/ UnknownRegister \/ LetStatement \/ LetBinding
               \/ WhileStatement \/ ReturnStatement \/ ExpressionStatement \/ Discard
    BY <1>2, StatementsAreQuiet, QuietKeepsTypes
  <1>3. CASE IntLiteral \/ ParenExpression \/ PostfixExpression \/ IndexExpression \/ Identifier
               \/ RecurseExpression
    BY <1>3, SimpleExpressionsAreQuiet, QuietKeepsTypes
  <1>4. CASE PrefixExpression \/ PrefixBracketExpression \/ BinaryExpression \/ CallExpression
               \/ IfExpression \/ FnExpression
    BY <1>4, StartsAreQuiet, QuietKeepsTypes
  <1>5. CASE EnterBlock \/ BlockStatement \/ BlockTail \/ LeaveBlock
    BY <1>5, BlocksAreQuiet, QuietKeepsTypes
  <1>6. CASE RightOperand \/ Callee \/ Argument \/ ArgumentValue \/ CallNow
    BY <1>6, CallsAreQuiet, QuietKeepsTypes
  <1>7. CASE ConditionRefused \/ ConditionFolded
    BY <1>7, ConditionsAreQuiet, QuietKeepsTypes
  <1>8. CASE PrefixOperand \/ Operate \/ EmitCall \/ ElementType \/ ArraySize
    BY <1>8, OperatorsKeepTypes
  <1>9. CASE ReturnValue \/ ConditionForks \/ ElseIfCondition \/ BranchDone
    BY <1>9, ReturnKeepsTypes, BranchesKeepTypes, BranchDoneKeepsTypes
  <1>10. CASE TypeValue \/ LeaveFunction
    BY <1>10, TypeValueKeepsTypes, LeaveFunctionKeepsTypes
  <1> QED
    BY <1>1, <1>2, <1>3, <1>4, <1>5, <1>6, <1>7, <1>8, <1>9, <1>10 DEF Next

----------------------------------------------------------------------------

(* The theorems about types and registers. *)

(* Whatever functions are put aside for nested ones and taken up again, the   *)
(* pool and the registers are as the two theorems below say.                  *)
THEOREM TypesInvariant ==
  Spec => []TypesHold
  BY InitTypesHold, NextKeepsTypes, Invariant, PTL DEF Spec

(* Types are compared by their place in the pool (Type_pool's sets keep one   *)
(* of each, type.cpp:118-178), and that is equality of types; every function  *)
(* has the place of a function type.                                          *)
THEOREM EqualTypesAreOneType ==
  Spec => [](TypesDiffer /\ FunctionsHaveTypes)
  BY TypesInvariant, PTL DEF TypesHold, OfDifferentTypes, TypesDiffer

(* _register_types (compile.cpp:555-571) has one entry for each register of   *)
(* the function being compiled, also after a nested function has replaced it  *)
(* by its own and given it back: a register the function allocated has a      *)
(* type, and no type is of another function's register.                       *)
THEOREM EveryRegisterHasItsType ==
  Spec => []RegistersCounted
  BY TypesInvariant, PTL DEF TypesHold, Counted, RegistersCounted, NextRegister

(* Induction, of the set of the numbers for which something holds.            *)
LEMMA SetInduction ==
  ASSUME NEW T, 0 \in T, \A n \in Nat : n \in T => n + 1 \in T
  PROVE  Nat \subseteq T
  <1> DEFINE U == Nat \ T
  <1>1. SUFFICES ASSUME U # {}
                 PROVE  FALSE
    OBVIOUS
  <1>2. U \subseteq Nat
    OBVIOUS
  <1> HIDE DEF U
  <1>3. PICK x \in U : \A y \in U : x <= y
    BY <1>1, <1>2, LeastNatural
  <1> QED
    BY <1>3, <1>1, <1>2 DEF U

LEMMA PassedExists ==
  ASSUME NEW registers, NEW parameters, NEW arguments
  PROVE  \A n \in Nat : \E f : IsPassing(f, registers, parameters, arguments, n)
  <1> DEFINE T == {n \in Nat : \E f : IsPassing(f, registers, parameters, arguments, n)}
  <1>1. 0 \in T
    <2>1. IsPassing([d \in 0..0 |-> registers], registers, parameters, arguments, 0)
      BY DEF IsPassing
    <2> QED
      BY <2>1
  <1>2. ASSUME NEW n \in Nat, n \in T
        PROVE  n + 1 \in T
    <2>1. PICK f : IsPassing(f, registers, parameters, arguments, n)
      BY <1>2
    <2> DEFINE g == [d \in 0..n + 1 |-> IF d <= n THEN f[d] ELSE [f[d - 1] EXCEPT ![parameters[d] + 1] = Operand(arguments[d], f[d - 1])]]
    <2>2. ASSUME NEW d \in 0..n + 1
          PROVE  g[d] = IF d = 0 THEN registers ELSE [g[d - 1] EXCEPT ![parameters[d] + 1] = Operand(arguments[d], g[d - 1])]
      <3>1. CASE d = n + 1
        BY <3>1
      <3>2. CASE d # n + 1
        <4>1. d \in 0..n
          BY <3>2
        <4>2. g[d] = f[d] /\ (d # 0 => g[d - 1] = f[d - 1])
          BY <4>1
        <4> HIDE DEF g
        <4> QED
          BY <4>2, <2>1, <4>1 DEF IsPassing
      <3> QED
        BY <3>1, <3>2
    <2>3. g = [d \in 0..n + 1 |-> g[d]]
      OBVIOUS
    <2> HIDE DEF g
    <2>4. IsPassing(g, registers, parameters, arguments, n + 1)
      BY <2>2, <2>3 DEF IsPassing
    <2> QED
      BY <2>4 DEF T
  <1> HIDE DEF T
  <1> QED
    BY <1>1, <1>2, SetInduction DEF T

LEMMA PassedUnique ==
  ASSUME NEW registers, NEW parameters, NEW arguments,
         NEW n \in Nat, NEW m \in Nat, n <= m, NEW f, NEW g,
         IsPassing(f, registers, parameters, arguments, n), IsPassing(g, registers, parameters, arguments, m)
  PROVE  \A d \in 0..n : f[d] = g[d]
  <1> DEFINE T == {d \in Nat : d \in 0..n => f[d] = g[d]}
  <1>1. 0 \in T
    BY DEF IsPassing
  <1>2. ASSUME NEW d \in Nat, d \in T
        PROVE  d + 1 \in T
    <2>1. SUFFICES ASSUME d + 1 \in 0..n
                   PROVE  f[d + 1] = g[d + 1]
      OBVIOUS
    <2> DEFINE e == d + 1
    <2>2. e \in 0..n /\ e \in 0..m /\ e - 1 = d /\ e # 0 /\ d \in 0..n
      BY <2>1
    <2> HIDE DEF e
    <2>3. f[e] = [f[e - 1] EXCEPT ![parameters[e] + 1] = Operand(arguments[e], f[e - 1])]
      BY <2>2 DEF IsPassing
    <2>6. f[e] = g[e]
      BY <2>3, <2>2, <1>2 DEF IsPassing
    <2> QED
      BY <2>6 DEF e
  <1> HIDE DEF T
  <1>3. Nat \subseteq T
    BY <1>1, <1>2, SetInduction
  <1> QED
    BY <1>3 DEF T

(* The arguments of a jump, passed one after the other. *)
LEMMA PassedUnfolds ==
  ASSUME NEW registers, NEW parameters, NEW arguments
  PROVE  \E part : Passes(part, registers, parameters, arguments) /\ Passed(registers, parameters, arguments) = part[Len(arguments)]
  <1> DEFINE part[n \in Nat] == IF n = 0 THEN registers ELSE [part[n - 1] EXCEPT ![parameters[n] + 1] = Operand(arguments[n], part[n - 1])]
             up(d) == CHOOSE f : IsPassing(f, registers, parameters, arguments, d)
             h == [d \in Nat |-> up(d)[d]]
  <1>1. ASSUME NEW d \in Nat
        PROVE  IsPassing(up(d), registers, parameters, arguments, d)
    BY PassedExists
  <1> HIDE DEF up
  <1>2. ASSUME NEW d \in Nat
        PROVE  h[d] = IF d = 0 THEN registers ELSE [h[d - 1] EXCEPT ![parameters[d] + 1] = Operand(arguments[d], h[d - 1])]
    <2> DEFINE u == up(d)  v == up(d - 1)
    <2>0. d \in 0..d /\ IsPassing(u, registers, parameters, arguments, d) /\ (d # 0 => IsPassing(v, registers, parameters, arguments, d - 1))
      BY <1>1
    <2>3. h[d] = u[d] /\ (d # 0 => d - 1 \in Nat /\ h[d - 1] = v[d - 1])
      OBVIOUS
    <2> HIDE DEF h, u, v
    <2>1. u[d] = IF d = 0 THEN registers ELSE [u[d - 1] EXCEPT ![parameters[d] + 1] = Operand(arguments[d], u[d - 1])]
      BY <2>0 DEF IsPassing
    <2>2. ASSUME d # 0
          PROVE  u[d - 1] = v[d - 1]
      BY <2>2, <2>0, PassedUnique
    <2> QED
      BY <2>1, <2>2, <2>3
  <1>3. h = [d \in Nat |-> h[d]]
    OBVIOUS
  <1> HIDE DEF h
  <1>5. part = [n \in Nat |-> IF n = 0 THEN registers ELSE [part[n - 1] EXCEPT ![parameters[n] + 1] = Operand(arguments[n], part[n - 1])]]
    BY <1>2, <1>3
  <1>6. Passed(registers, parameters, arguments) = part[Len(arguments)]
    BY DEF Passed
  <1> HIDE DEF part
  <1> QED
    BY <1>6, <1>5 DEF Passes

LEMMA RunExists ==
  ASSUME NEW fs, NEW f0, NEW arguments, NEW fuel
  PROVE  \A n \in Nat : \E f : IsRun(f, fs, f0, arguments, fuel, n)
  <1> DEFINE T == {n \in Nat : \E f : IsRun(f, fs, f0, arguments, fuel, n)}
  <1>1. 0 \in T
    <2>1. IsRun([d \in 0..0 |-> Running(<<Entry(fs, f0, arguments)>>, fuel)], fs, f0, arguments, fuel, 0)
      BY DEF IsRun
    <2> QED
      BY <2>1
  <1>2. ASSUME NEW n \in Nat, n \in T
        PROVE  n + 1 \in T
    <2>1. PICK f : IsRun(f, fs, f0, arguments, fuel, n)
      BY <1>2
    <2> DEFINE g == [d \in 0..n + 1 |-> IF d <= n THEN f[d] ELSE Advanced(fs, f[d - 1])]
    <2>2. ASSUME NEW d \in 0..n + 1
          PROVE  g[d] = IF d = 0 THEN Running(<<Entry(fs, f0, arguments)>>, fuel) ELSE Advanced(fs, g[d - 1])
      BY <2>1 DEF IsRun
    <2>3. g = [d \in 0..n + 1 |-> g[d]]
      OBVIOUS
    <2> HIDE DEF g
    <2>4. IsRun(g, fs, f0, arguments, fuel, n + 1)
      BY <2>2, <2>3 DEF IsRun
    <2> QED
      BY <2>4 DEF T
  <1> HIDE DEF T
  <1> QED
    BY <1>1, <1>2, SetInduction DEF T

LEMMA RunUnique ==
  ASSUME NEW fs, NEW f0, NEW arguments, NEW fuel,
         NEW n \in Nat, NEW m \in Nat, n <= m, NEW f, NEW g,
         IsRun(f, fs, f0, arguments, fuel, n), IsRun(g, fs, f0, arguments, fuel, m)
  PROVE  \A d \in 0..n : f[d] = g[d]
  <1> DEFINE T == {d \in Nat : d \in 0..n => f[d] = g[d]}
  <1>1. 0 \in T
    BY DEF IsRun
  <1>2. ASSUME NEW d \in Nat, d \in T
        PROVE  d + 1 \in T
    <2>1. SUFFICES ASSUME d + 1 \in 0..n
                   PROVE  f[d + 1] = g[d + 1]
      OBVIOUS
    <2> DEFINE e == d + 1
    <2>2. e \in 0..n /\ e \in 0..m /\ e - 1 = d /\ e # 0 /\ d \in 0..n
      BY <2>1
    <2> HIDE DEF e
    <2> QED
      BY <2>2, <1>2 DEF e, IsRun
  <1> HIDE DEF T
  <1>3. Nat \subseteq T
    BY <1>1, <1>2, SetInduction
  <1> QED
    BY <1>3 DEF T

(* A run, step by step. *)
LEMMA RunUnfolds ==
  ASSUME NEW fs, NEW f0, NEW arguments, NEW fuel
  PROVE  \E part : Runs(part, fs, f0, arguments, fuel) /\ Interpret(fs, f0, arguments, fuel) = part[Longest(fs, fuel)]
  <1> DEFINE part[n \in Nat] == IF n = 0 THEN Running(<<Entry(fs, f0, arguments)>>, fuel) ELSE Advanced(fs, part[n - 1])
             up(d) == CHOOSE f : IsRun(f, fs, f0, arguments, fuel, d)
             h == [d \in Nat |-> up(d)[d]]
  <1>1. ASSUME NEW d \in Nat
        PROVE  IsRun(up(d), fs, f0, arguments, fuel, d)
    BY RunExists
  <1> HIDE DEF up
  <1>2. ASSUME NEW d \in Nat
        PROVE  h[d] = IF d = 0 THEN Running(<<Entry(fs, f0, arguments)>>, fuel) ELSE Advanced(fs, h[d - 1])
    <2> DEFINE u == up(d)  v == up(d - 1)
    <2>0. d \in 0..d /\ IsRun(u, fs, f0, arguments, fuel, d) /\ (d # 0 => IsRun(v, fs, f0, arguments, fuel, d - 1))
      BY <1>1
    <2>3. h[d] = u[d] /\ (d # 0 => d - 1 \in Nat /\ h[d - 1] = v[d - 1])
      OBVIOUS
    <2> HIDE DEF h, u, v
    <2>2. ASSUME d # 0
          PROVE  u[d - 1] = v[d - 1]
      BY <2>2, <2>0, RunUnique
    <2> QED
      BY <2>0, <2>2, <2>3 DEF IsRun
  <1>3. h = [d \in Nat |-> h[d]]
    OBVIOUS
  <1> HIDE DEF h
  <1>5. part = [n \in Nat |-> IF n = 0 THEN Running(<<Entry(fs, f0, arguments)>>, fuel) ELSE Advanced(fs, part[n - 1])]
    BY <1>2, <1>3
  <1>6. Interpret(fs, f0, arguments, fuel) = part[Longest(fs, fuel)]
    BY DEF Interpret
  <1> HIDE DEF part
  <1> QED
    BY <1>6, <1>5 DEF Runs

LEMMA ReachedExists ==
  ASSUME NEW blocks, NEW avoided
  PROVE  \A n \in Nat : \E f : IsReaching(f, blocks, avoided, n)
  <1> DEFINE T == {n \in Nat : \E f : IsReaching(f, blocks, avoided, n)}
  <1>1. 0 \in T
    <2>1. IsReaching([d \in 0..0 |-> {1} \ avoided], blocks, avoided, 0)
      BY DEF IsReaching
    <2> QED
      BY <2>1
  <1>2. ASSUME NEW n \in Nat, n \in T
        PROVE  n + 1 \in T
    <2>1. PICK f : IsReaching(f, blocks, avoided, n)
      BY <1>2
    <2> DEFINE g == [d \in 0..n + 1 |-> IF d <= n THEN f[d] ELSE f[d - 1] \union ((UNION {Successors(blocks[b].terminator) : b \in f[d - 1]}) \ avoided)]
    <2>2. ASSUME NEW d \in 0..n + 1
          PROVE  g[d] = IF d = 0 THEN {1} \ avoided ELSE g[d - 1] \union ((UNION {Successors(blocks[b].terminator) : b \in g[d - 1]}) \ avoided)
      <3>1. CASE d = n + 1
        <4>2. g[d - 1] = f[d - 1] /\ g[d] = f[d - 1] \union ((UNION {Successors(blocks[b].terminator) : b \in f[d - 1]}) \ avoided)
          BY <3>1
        <4> HIDE DEF g
        <4> QED
          BY <3>1, <4>2
      <3>2. CASE d # n + 1
        <4>1. d \in 0..n
          BY <3>2
        <4>2. g[d] = f[d] /\ (d # 0 => g[d - 1] = f[d - 1])
          BY <4>1
        <4> HIDE DEF g
        <4> QED
          BY <4>2, <2>1, <4>1 DEF IsReaching
      <3> QED
        BY <3>1, <3>2
    <2>3. g = [d \in 0..n + 1 |-> g[d]]
      OBVIOUS
    <2> HIDE DEF g
    <2>4. IsReaching(g, blocks, avoided, n + 1)
      BY <2>2, <2>3 DEF IsReaching
    <2> QED
      BY <2>4 DEF T
  <1> HIDE DEF T
  <1> QED
    BY <1>1, <1>2, SetInduction DEF T

LEMMA ReachedUnique ==
  ASSUME NEW blocks, NEW avoided,
         NEW n \in Nat, NEW m \in Nat, n <= m, NEW f, NEW g,
         IsReaching(f, blocks, avoided, n), IsReaching(g, blocks, avoided, m)
  PROVE  \A d \in 0..n : f[d] = g[d]
  <1> DEFINE T == {d \in Nat : d \in 0..n => f[d] = g[d]}
  <1>1. 0 \in T
    BY DEF IsReaching
  <1>2. ASSUME NEW d \in Nat, d \in T
        PROVE  d + 1 \in T
    <2>1. SUFFICES ASSUME d + 1 \in 0..n
                   PROVE  f[d + 1] = g[d + 1]
      OBVIOUS
    <2> DEFINE e == d + 1
    <2>2. e \in 0..n /\ e \in 0..m /\ e - 1 = d /\ e # 0 /\ d \in 0..n
      BY <2>1
    <2> HIDE DEF e
    <2>6. f[e] = g[e]
      BY <2>2, <1>2 DEF IsReaching
    <2> QED
      BY <2>6 DEF e
  <1> HIDE DEF T
  <1>3. Nat \subseteq T
    BY <1>1, <1>2, SetInduction
  <1> QED
    BY <1>3 DEF T

(* The blocks reached, one edge further at a time. *)
LEMMA ReachedUnfolds ==
  ASSUME NEW blocks, NEW avoided
  PROVE  \E part : Reaches(part, blocks, avoided) /\ Reached(blocks, avoided) = part[Len(blocks)]
  <1> DEFINE part[n \in Nat] == IF n = 0 THEN {1} \ avoided ELSE part[n - 1] \union ((UNION {Successors(blocks[b].terminator) : b \in part[n - 1]}) \ avoided)
             up(d) == CHOOSE f : IsReaching(f, blocks, avoided, d)
             h == [d \in Nat |-> up(d)[d]]
  <1>1. ASSUME NEW d \in Nat
        PROVE  IsReaching(up(d), blocks, avoided, d)
    BY ReachedExists
  <1> HIDE DEF up
  <1>2. ASSUME NEW d \in Nat
        PROVE  h[d] = IF d = 0 THEN {1} \ avoided ELSE h[d - 1] \union ((UNION {Successors(blocks[b].terminator) : b \in h[d - 1]}) \ avoided)
    <2> DEFINE u == up(d)  v == up(d - 1)
    <2>0. d \in 0..d /\ IsReaching(u, blocks, avoided, d) /\ (d # 0 => IsReaching(v, blocks, avoided, d - 1))
      BY <1>1
    <2>3. h[d] = u[d] /\ (d # 0 => d - 1 \in Nat /\ h[d - 1] = v[d - 1])
      OBVIOUS
    <2> HIDE DEF h, u, v
    <2>2. ASSUME d # 0
          PROVE  u[d - 1] = v[d - 1]
      BY <2>2, <2>0, ReachedUnique
    <2> QED
      BY <2>0, <2>2, <2>3 DEF IsReaching
  <1>3. h = [d \in Nat |-> h[d]]
    OBVIOUS
  <1> HIDE DEF h
  <1>4. h = [d \in Nat |-> IF d = 0 THEN {1} \ avoided ELSE h[d - 1] \union ((UNION {Successors(blocks[b].terminator) : b \in h[d - 1]}) \ avoided)]
    BY <1>2, <1>3
  <1>5. part = [n \in Nat |-> IF n = 0 THEN {1} \ avoided ELSE part[n - 1] \union ((UNION {Successors(blocks[b].terminator) : b \in part[n - 1]}) \ avoided)]
    BY <1>4
  <1>6. Reached(blocks, avoided) = part[Len(blocks)]
    BY DEF Reached
  <1> HIDE DEF part
  <1> QED
    BY <1>6, <1>5 DEF Reaches

----------------------------------------------------------------------------

LEMMA ScalarGood ==
  ASSUME NEW pool, ScalarsIn(pool), NEW fs, NEW t \in {Int32, Bool, Void, TypeType, Int8}, NEW n
  PROVE  GoodValue(Constant(t, n), pool, fs)
  <1>2. t \in DOMAIN pool /\ pool[t] = ScalarPool[t]
    BY DEF ScalarsIn, ScalarPool, Int32, Bool, Void, TypeType, Int8
  <1> QED
    BY <1>2 DEF GoodValue, Constant, ScalarPool, Int32, Bool, Void, TypeType, Int8

LEMMA AppliedGood ==
  ASSUME NEW pool, ScalarsIn(pool), NEW fs, NEW overload \in Overloads, NEW lhs, NEW rhs
  PROVE  GoodValue(Applied(overload, lhs, rhs), pool, fs)
  BY ScalarGood DEF Overloads, Difference, Equality, Applied, BoolValue

LEMMA NegatedGood ==
  ASSUME NEW pool, ScalarsIn(pool), NEW fs, NEW operand, operand.type \in IntegerTypes
  PROVE  GoodValue(Negated(operand), pool, fs)
  BY ScalarGood DEF IntegerTypes, Negated

LEMMA VoidGood ==
  ASSUME NEW pool, ScalarsIn(pool), NEW fs
  PROVE  GoodValue(VoidValue, pool, fs)
  BY ScalarGood DEF VoidValue

LEMMA OperandGood ==
  ASSUME NEW pool, NEW fs, NEW count \in Nat, NEW file, File(file, count, pool, fs),
         NEW o, GoodOperand(o, pool, fs), IsRegister(o) => o.register \in 0..count - 1
  PROVE  GoodValue(Operand(o, file), pool, fs)
  BY DEF Operand, File, GoodOperand

LEMMA ReadIsInside ==
  ASSUME NEW operands, NEW S, Registers(operands) \subseteq S, NEW o \in operands, IsRegister(o)
  PROVE  o.register \in S
  BY DEF Registers

LEMMA RangeHas ==
  ASSUME NEW s, NEW k \in DOMAIN s
  PROVE  s[k] \in Range(s)
  BY DEF Range

LEMMA PassedGood ==
  ASSUME NEW pool, NEW fs, NEW count \in Nat, NEW file, File(file, count, pool, fs),
         NEW parameters, NEW arguments, IsASequence(arguments),
         \A k \in DOMAIN arguments : GoodOperand(arguments[k], pool, fs),
         Registers(Range(arguments)) \subseteq 0..count - 1
  PROVE  File(Passed(file, parameters, arguments), count, pool, fs)
  <1>1. PICK part : /\ Passes(part, file, parameters, arguments)
                    /\ Passed(file, parameters, arguments) = part[Len(arguments)]
    BY PassedUnfolds
  <1>2. Len(arguments) \in Nat /\ DOMAIN arguments = 1..Len(arguments)
    BY SequenceShape
  <1> DEFINE T == {n \in Nat : n \in 0..Len(arguments) => File(part[n], count, pool, fs)}
  <1>3. 0 \in T
    BY <1>1 DEF Passes
  <1>4. ASSUME NEW n \in Nat, n \in T
        PROVE  n + 1 \in T
    <2> SUFFICES ASSUME n + 1 \in 0..Len(arguments)
                 PROVE  File(part[n + 1], count, pool, fs)
      OBVIOUS
    <2> DEFINE m == n + 1  v == Operand(arguments[m], part[n])
    <2>2. m \in Nat /\ m # 0 /\ m - 1 = n /\ m \in DOMAIN arguments
      BY <1>2
    <2>3. part[m] = [part[n] EXCEPT ![parameters[m] + 1] = v]
      BY <1>1, <2>2 DEF Passes
    <2>5. IsRegister(arguments[m]) => arguments[m].register \in 0..count - 1
      BY <2>2, RangeHas, ReadIsInside
    <2>6. GoodValue(v, pool, fs)
      BY <1>2, <1>4, <2>2, <2>5, OperandGood
    <2> HIDE DEF v, m
    <2> QED
      BY <1>2, <1>4, <2>6, <2>3 DEF m, File
  <1> HIDE DEF T
  <1>5. Nat \subseteq T
    BY <1>3, <1>4, SetInduction
  <1> QED
    BY <1>1, <1>2, <1>5 DEF T

LEMMA EntryGood ==
  ASSUME NEW pool, ScalarsIn(pool), NEW fs, CodeInside(fs), NEW f \in DOMAIN fs,
         NEW values, \A k \in DOMAIN values : GoodValue(values[k], pool, fs)
  PROVE  ActivationGood(Entry(fs, f, values), fs, pool)
  <1> DEFINE count == fs[f].register_count
             none == [place \in 1..count |-> VoidValue]
             parameters == fs[f].blocks[1].parameters
             file == Seeded(none, parameters, values)
             at == Entry(fs, f, values)
  <1>2. at = [function |-> f, block |-> 1, index |-> 1, registers |-> file]
    BY DEF Entry
  <1>3. DOMAIN file = 1..count
    BY DEF Seeded
  <1>4. ASSUME NEW r \in 1..count
        PROVE  GoodValue(file[r], pool, fs)
    <2>2. CASE \E i \in DOMAIN values : parameters[i] + 1 = r
      <3> DEFINE i == CHOOSE i \in DOMAIN values : parameters[i] + 1 = r
      <3>1. i \in DOMAIN values
        BY <2>2
      <3>2. file[r] = values[i]
        BY <2>2 DEF Seeded
      <3> HIDE DEF i, file
      <3> QED
        BY <3>1, <3>2
    <2>3. CASE ~\E i \in DOMAIN values : parameters[i] + 1 = r
      BY <2>3, VoidGood DEF Seeded
    <2> QED
      BY <2>2, <2>3
  <1> HIDE DEF file, at, count
  <1> QED
    BY <1>2, <1>3, <1>4 DEF at, ActivationGood, count, CodeInside, File

LEMMA ActivationPast ==
  ASSUME NEW f, NEW b, NEW i, NEW g, NEW r, NEW v,
         NEW at, at = [function |-> f, block |-> b, index |-> i, registers |-> g]
  PROVE  [at EXCEPT !.index = @ + 1, !.registers[r] = v]
           = [function |-> f, block |-> b, index |-> i + 1, registers |-> [g EXCEPT ![r] = v]]
  <1> DEFINE half == [at EXCEPT !.index = i + 1]
  <1>1. half = [function |-> f, block |-> b, index |-> i + 1, registers |-> g]
    OBVIOUS
  <1>2. [at EXCEPT !.index = @ + 1, !.registers[r] = v] = [half EXCEPT !.registers[r] = v]
    OBVIOUS
  <1> HIDE DEF half
  <1> QED
    BY <1>1, <1>2

LEMMA ActivationEnters ==
  ASSUME NEW target, NEW parameters, NEW passed, NEW at,
         at = [function |-> at.function, block |-> at.block, index |-> at.index,
               registers |-> at.registers]
  PROVE  Entering(at, target, parameters, passed)
           = [function |-> at.function, block |-> target, index |-> 1,
              registers |-> Passed(at.registers, parameters, passed)]
  <1> DEFINE f == at.function
             g == at.registers
             file == Passed(g, parameters, passed)
             first == [at EXCEPT !.block = target]
             second == [first EXCEPT !.index = 1]
             moved == [function |-> f, block |-> target, index |-> at.index, registers |-> g]
             there == [function |-> f, block |-> target, index |-> 1, registers |-> g]
  <1>4. Entering(at, target, parameters, passed) = [second EXCEPT !.registers = file]
    BY Zenon DEF Entering
  <1> QED
    BY <1>4

LEMMA OnFront ==
  ASSUME NEW s, IsASequence(s), NEW x
  PROVE  LET t == <<x>> \o s
         IN  /\ IsASequence(t) /\ Len(t) = 1 + Len(s) /\ Len(s) \in Nat
             /\ t[1] = x /\ \A i \in 1..Len(s) : t[1 + i] = s[i]
  <1> DEFINE t == <<x>> \o s
  <1>2. Len(s) \in Nat
    BY SequenceShape
  <1> QED
    BY JoinedSequence, OneSequence, <1>2

LEMMA FileWith ==
  ASSUME NEW pool, NEW fs, NEW count, NEW file, File(file, count, pool, fs),
         NEW r, NEW v, GoodValue(v, pool, fs)
  PROVE  File([file EXCEPT ![r] = v], count, pool, fs)
  <1> DEFINE new == [file EXCEPT ![r] = v]
  <1>1. DOMAIN new = DOMAIN file /\ \A x \in DOMAIN file : new[x] = v \/ new[x] = file[x]
    OBVIOUS
  <1> HIDE DEF new
  <1> QED
    BY <1>1 DEF new, File

LEMMA PastGood ==
  ASSUME NEW pool, NEW fs, NEW at, ActivationGood(at, fs, pool), NEW v, GoodValue(v, pool, fs)
  PROVE  ActivationGood(Past(fs, at, v), fs, pool)
  <1> DEFINE r == InstructionOf(fs, at).result + 1
             file == [at.registers EXCEPT ![r] = v]
             new == Past(fs, at, v)
  <1>2. new = [at EXCEPT !.index = @ + 1, !.registers[r] = v]
    BY DEF Past
  <1> HIDE DEF new, r
  <1>3. new = [function |-> at.function, block |-> at.block, index |-> at.index + 1,
               registers |-> file]
    BY <1>2, ActivationPast DEF ActivationGood
  <1>4. File(file, fs[at.function].register_count, pool, fs)
    BY FileWith DEF ActivationGood
  <1> HIDE DEF file
  <1> QED
    BY <1>3, <1>4 DEF new, ActivationGood

LEMMA CallsPushed ==
  ASSUME NEW pool, NEW fs, NEW calls, CallsGood(calls, fs, pool),
         NEW at, ActivationGood(at, fs, pool), NEW fuel
  PROVE  RunGood(Running(<<at>> \o calls, fuel), fs, pool)
  <1> DEFINE new == <<at>> \o calls
  <1>1. /\ IsASequence(new) /\ Len(new) = 1 + Len(calls) /\ Len(calls) \in Nat
        /\ new[1] = at /\ \A i \in 1..Len(calls) : new[1 + i] = calls[i]
    BY OnFront DEF CallsGood
  <1> HIDE DEF new
  <1>2. ASSUME NEW i \in 1..Len(new)
        PROVE  ActivationGood(new[i], fs, pool)
    <2>1. CASE i = 1
      BY <1>1, <2>1
    <2>2. CASE i # 1
      <3>1. i - 1 \in 1..Len(calls) /\ 1 + (i - 1) = i
        BY <1>1, <2>2
      <3> QED
        BY <1>1, <3>1 DEF CallsGood
    <2> QED
      BY <2>1, <2>2
  <1> QED
    BY <1>1, EmptySequence, <1>2 DEF new, RunGood, Running, CallsGood

LEMMA CallsPopped ==
  ASSUME NEW pool, NEW fs, NEW calls, CallsGood(calls, fs, pool), calls # << >>
  PROVE  /\ ActivationGood(Head(calls), fs, pool)
         /\ CallsGood(Tail(calls), fs, pool)
  BY TailOfSequence DEF CallsGood

LEMMA RunEnded ==
  ASSUME NEW pool, NEW fs, NEW v, NEW how \in {"fuel", "exception", "assertion"}
  PROVE  RunGood(Ended(how, v), fs, pool)
  BY DEF RunGood, Ended

LEMMA ExecutedGood ==
  ASSUME NEW pool, ScalarsIn(pool), NEW fs, CodeInside(fs), CodeGood(fs, pool),
         NEW run, CallsGood(run.calls, fs, pool), run.calls # << >>,
         Head(run.calls).index
           <= Len(fs[Head(run.calls).function].blocks[Head(run.calls).block].instructions)
  PROVE  RunGood(Executed(fs, run), fs, pool)
  <1> DEFINE at == Head(run.calls)
             block == fs[at.function].blocks[at.block]
             inst == block.instructions[at.index]
             count == fs[at.function].register_count
             value(o) == Operand(o, at.registers)
             with(v) == Running(<<Past(fs, at, v)>> \o Tail(run.calls), run.fuel - 1)
  <1>2. at.function \in DOMAIN fs /\ at.block \in DOMAIN fs[at.function].blocks
        /\ at.index \in Nat \ {0} /\ File(at.registers, count, pool, fs)
    BY CallsPopped DEF ActivationGood
  <1>3. BlockGood(block, pool, fs) /\ BlockInside(block, fs[at.function]) /\ count \in Nat
    BY <1>2 DEF CodeGood, CodeInside
  <1>4. at.index \in DOMAIN block.instructions
    <2> DEFINE list == block.instructions
    <2>1. IsASequence(list) /\ at.index <= Len(list)
      BY <1>3 DEF BlockGood
    <2> HIDE DEF list
    <2> HIDE DEF at
    <2> QED
      BY <1>2, <2>1, SequenceShape DEF list
  <1>5. InstructionGood(inst, pool, fs)
        /\ Registers(InstructionOperands(inst)) \subseteq 0..count - 1
    BY <1>3, <1>4 DEF BlockGood, BlockInside
  <1>7. ASSUME NEW v, GoodValue(v, pool, fs)
        PROVE  RunGood(with(v), fs, pool)
    BY CallsPopped, <1>7, PastGood, CallsPushed
  <1>8. Executed(fs, run) =
          IF run.fuel <= 0 THEN Ended("fuel", VoidValue)
          ELSE IF inst.does = "binary"
          THEN IF /\ value(inst.lhs).type = inst.overload.operand
                  /\ value(inst.rhs).type = inst.overload.operand
               THEN with(Applied(inst.overload, value(inst.lhs), value(inst.rhs)))
               ELSE Ended("exception", VoidValue)
          ELSE IF inst.does = "negate"
          THEN IF value(inst.operand).type = inst.type
               THEN with(Negated(value(inst.operand))) ELSE Ended("exception", VoidValue)
          ELSE Running(<<Entry(fs, inst.callee,
                               [k \in DOMAIN inst.arguments |-> value(inst.arguments[k])])>> \o run.calls,
                       run.fuel - 1)
    BY DEF Executed, InstructionOf
  <1> HIDE DEF at, block, inst, count, with
  <1>9. RunGood(Ended("fuel", VoidValue), fs, pool) /\ RunGood(Ended("exception", VoidValue), fs, pool)
    BY RunEnded
  <1>10. CASE inst.does = "binary"
    BY <1>5, <1>10, AppliedGood, <1>7, <1>8, <1>9 DEF InstructionGood
  <1>11. CASE inst.does = "negate"
    BY <1>5, <1>11, NegatedGood, <1>7, <1>8, <1>9 DEF InstructionGood
  <1>12. CASE inst.does = "call"
    <2> DEFINE values == [k \in DOMAIN inst.arguments |-> value(inst.arguments[k])]
    <2>1. /\ inst.callee \in DOMAIN fs
          /\ IsASequence(inst.arguments)
          /\ \A k \in DOMAIN inst.arguments : GoodOperand(inst.arguments[k], pool, fs)
      BY <1>5, <1>12 DEF InstructionGood
    <2>3. ASSUME NEW k \in DOMAIN values
          PROVE  GoodValue(values[k], pool, fs)
      BY RangeHas, <1>5, <1>12, ReadIsInside, <1>2, <1>3, <2>1, OperandGood DEF InstructionOperands
    <2> HIDE DEF values
    <2> QED
      BY <1>8, <1>9, <1>12, <2>1, <2>3, EntryGood, CallsPushed DEF values
  <1> QED
    BY <1>10, <1>11, <1>12, <1>5 DEF InstructionGood

LEMMA LeftGood ==
  ASSUME NEW pool, ScalarsIn(pool), NEW fs, CodeInside(fs), CodeGood(fs, pool),
         NEW run, CallsGood(run.calls, fs, pool), run.calls # << >>
  PROVE  RunGood(Left(fs, run), fs, pool)
  <1> DEFINE at == Head(run.calls)
             callers == Tail(run.calls)
             blocks == fs[at.function].blocks
             t == blocks[at.block].terminator
             count == fs[at.function].register_count
             value(o) == Operand(o, at.registers)
             entered(target, passed) ==
               [at EXCEPT !.block = target, !.index = 1,
                          !.registers = Passed(@, blocks[target].parameters, passed)]
  <1>1. ActivationGood(at, fs, pool) /\ CallsGood(callers, fs, pool)
    BY CallsPopped
  <1>2. at.function \in DOMAIN fs /\ at.block \in DOMAIN blocks
        /\ File(at.registers, count, pool, fs)
    BY <1>1 DEF ActivationGood
  <1>3. /\ TerminatorGood(t, pool, fs) /\ count \in Nat
        /\ Registers(TerminatorOperands(t)) \subseteq 0..count - 1
        /\ Successors(t) \subseteq DOMAIN blocks
    BY <1>2 DEF CodeGood, CodeInside, BlockGood, BlockInside
  <1>4. Left(fs, run) =
          CASE t.to = "none" -> Ended("assertion", VoidValue)
            [] t.to = "jump" -> Running(<<entered(t.target, t.arguments)>> \o callers, run.fuel)
            [] t.to = "branch" ->
                 IF value(t.condition).type # Bool THEN Ended("exception", VoidValue)
                 ELSE Running(<<entered(IF value(t.condition) = BoolValue(TRUE)
                                        THEN t.then ELSE t.else, << >>)>> \o callers, run.fuel)
            [] t.to = "return" ->
                 IF callers = << >> THEN Ended("value", value(t.value))
                 ELSE Running(<<Past(fs, Head(callers), value(t.value))>> \o Tail(callers), run.fuel)
    BY DEF Left
  <1>5. ASSUME NEW target \in DOMAIN blocks, NEW passed, IsASequence(passed),
               \A k \in DOMAIN passed : GoodOperand(passed[k], pool, fs),
               Registers(Range(passed)) \subseteq 0..count - 1
        PROVE  RunGood(Running(<<entered(target, passed)>> \o callers, run.fuel), fs, pool)
    <2> DEFINE file == Passed(at.registers, blocks[target].parameters, passed)
    <2>1. File(file, count, pool, fs)
      BY <1>2, <1>3, <1>5, PassedGood
    <2>2. entered(target, passed) = [function |-> at.function, block |-> target, index |-> 1,
                                     registers |-> file]
      <3> DEFINE parameters == blocks[target].parameters
      <3>2. entered(target, passed) = Entering(at, target, parameters, passed)
        BY DEF Entering
      <3> HIDE DEF parameters, at, entered
      <3> QED
        BY <3>2, <1>1, ActivationEnters DEF parameters, ActivationGood
    <2> DEFINE new == entered(target, passed)
    <2> HIDE DEF file, new
    <2>3. ActivationGood(new, fs, pool)
      <3>1. new = [function |-> at.function, block |-> target, index |-> 1, registers |-> file]
        BY <2>2 DEF new
      <3> HIDE DEF at
      <3> QED
        BY <1>2, <1>5, <2>1, <3>1 DEF ActivationGood
    <2> HIDE DEF callers
    <2> QED
      BY <1>1, <2>3, CallsPushed DEF new
  <1> HIDE DEF at, callers, count, t
  <1>6. CASE t.to = "none"
    BY <1>4, <1>6, RunEnded
  <1>7. CASE t.to = "jump"
    BY <1>3, <1>7, <1>5, <1>4 DEF TerminatorGood, TerminatorOperands, Successors
  <1>8. CASE t.to = "branch"
    <2> DEFINE target == IF value(t.condition) = BoolValue(TRUE) THEN t.then ELSE t.else
    <2>2. target \in DOMAIN blocks
      BY <1>3, <1>8 DEF Successors
    <2>3. /\ IsASequence(<< >>)
          /\ \A k \in DOMAIN << >> : GoodOperand(<< >>[k], pool, fs)
          /\ Registers(Range(<< >>)) \subseteq 0..count - 1
      BY EmptySequence DEF Registers, Range
    <2> HIDE DEF target
    <2> HIDE DEF blocks
    <2> QED
      BY <1>4, <1>8, <1>5, <2>2, <2>3, RunEnded DEF target
  <1>9. CASE t.to = "return"
    <2>4. GoodValue(value(t.value), pool, fs)
      BY <1>2, <1>3, <1>9, ReadIsInside, OperandGood DEF TerminatorGood, TerminatorOperands
    <2>5. CASE callers = << >>
      BY <2>4, <1>4, <1>9, <2>5 DEF RunGood, Ended
    <2>6. CASE callers # << >>
      BY <1>1, <2>6, CallsPopped, <2>4, PastGood, CallsPushed, <1>4, <1>9
    <2> QED
      BY <2>5, <2>6
  <1> QED
    BY <1>6, <1>7, <1>8, <1>9, <1>3 DEF TerminatorGood

LEMMA AdvancedGood ==
  ASSUME NEW pool, ScalarsIn(pool), NEW fs, CodeInside(fs), CodeGood(fs, pool),
         NEW run, RunGood(run, fs, pool)
  PROVE  RunGood(Advanced(fs, run), fs, pool)
  BY LeftGood, ExecutedGood DEF Advanced, RunGood

LEMMA LongestIsNatural ==
  ASSUME NEW fs, FunctionsFormed(fs)
  PROVE  Longest(fs, Fuel) \in Nat
  <1> DEFINE S == DOMAIN fs
             all == {{f} \X DOMAIN fs[f].blocks : f \in S}
             g == [f \in S |-> {f} \X DOMAIN fs[f].blocks]
  <1>2. IsFiniteSet(S)
    BY SequenceShape, FS_Interval DEF FunctionsFormed
  <1>3. g \in Surjection(S, all)
    BY DEF Surjection
  <1>5. ASSUME NEW T \in all
        PROVE  IsFiniteSet(T)
    <2>1. PICK f \in S : T = {f} \X DOMAIN fs[f].blocks
      OBVIOUS
    <2> DEFINE n == Len(fs[f].blocks)  blocks == DOMAIN fs[f].blocks
    <2>3. IsFiniteSet(blocks) /\ IsFiniteSet({f})
      <3>1. n \in Int /\ 1 \in Int /\ blocks = 1..n
        BY SequenceShape DEF FunctionsFormed, CodeFormed
      <3> HIDE DEF n, blocks
      <3> QED
        BY <3>1, FS_Interval, FS_Singleton
    <2> QED
      BY <2>1, <2>3, FS_Product
  <1> HIDE DEF all
  <1>7. Cardinality(UNION all) \in Nat
    BY <1>2, <1>3, FS_Surjection, <1>5, FS_UNION, FS_CardinalityType
  <1> QED
    BY <1>7, HlirAssumption DEF Longest, all

(* Whatever interpret() is given of the code compiled so far, it answers, if  *)
(* it answers, with a constant of a type of the pool.                         *)
LEMMA InterpretGood ==
  ASSUME NEW pool, ScalarsIn(pool), NEW fs, FunctionsFormed(fs), CodeInside(fs), CodeGood(fs, pool),
         NEW f \in DOMAIN fs, NEW values, \A k \in DOMAIN values : GoodValue(values[k], pool, fs),
         Interpret(fs, f, values, Fuel).ended = "value"
  PROVE  GoodValue(Interpret(fs, f, values, Fuel).value, pool, fs)
  <1>1. PICK run : /\ Runs(run, fs, f, values, Fuel)
                   /\ Interpret(fs, f, values, Fuel) = run[Longest(fs, Fuel)]
    BY RunUnfolds
  <1> DEFINE T == {n \in Nat : RunGood(run[n], fs, pool)}
  <1>2. 0 \in T
    <2> DEFINE at == Entry(fs, f, values)  calls == <<at>>
    <2>3. IsASequence(calls) /\ Len(calls) = 1 /\ calls[1] = at /\ calls # << >>
      BY OneSequence
    <2> HIDE DEF at, calls
    <2>5. RunGood(Running(calls, Fuel), fs, pool)
      BY <2>3, EntryGood DEF RunGood, Running, CallsGood, at
    <2> QED
      BY <1>1, <2>5 DEF calls, at, Runs
  <1>3. ASSUME NEW n \in Nat, n \in T
        PROVE  n + 1 \in T
    <2> DEFINE m == n + 1
    <2>1. m \in Nat /\ m # 0 /\ m - 1 = n
      OBVIOUS
    <2> HIDE DEF m
    <2> QED
      BY <1>3, <2>1, <1>1, AdvancedGood DEF m, Runs
  <1> HIDE DEF T
  <1>5. RunGood(run[Longest(fs, Fuel)], fs, pool)
    BY <1>2, <1>3, SetInduction, LongestIsNatural DEF T
  <1> HIDE DEF T
  <1> QED
    BY <1>1, <1>5 DEF RunGood, Running

----------------------------------------------------------------------------

LEMMA BlockWritten ==
  ASSUME NEW fs, FunctionsFormed(fs), NEW f \in DOMAIN fs, NEW b \in DOMAIN fs[f].blocks,
         NEW block
  PROVE  LET gs == WithBlock(fs, f, b, block)
         IN  /\ OneBlock(fs, gs, f, b, block)
             /\ gs[f].register_count = fs[f].register_count
  <1> DEFINE old == fs[f]
             blocks == [old.blocks EXCEPT ![b] = block]
             code == [old EXCEPT !.blocks = blocks]
             gs == WithBlock(fs, f, b, block)
  <1>1. CodeFormed(old)
    BY DEF FunctionsFormed
  <1>2. gs = [fs EXCEPT ![f] = code]
    BY DEF WithBlock, WithCode
  <1>3. IsASequence(old.blocks) /\ b \in DOMAIN old.blocks
    BY <1>1 DEF CodeFormed
  <1> HIDE DEF old, gs
  <1>4. /\ DOMAIN blocks = DOMAIN old.blocks /\ blocks[b] = block
        /\ \A c \in DOMAIN old.blocks : c # b => blocks[c] = old.blocks[c]
    BY <1>3
  <1> HIDE DEF blocks
  <1>5. code = [type |-> old.type, register_count |-> old.register_count, blocks |-> blocks]
    BY <1>1 DEF CodeFormed
  <1> HIDE DEF code
  <1> QED
    BY <1>4, <1>5, <1>2 DEF gs, OneBlock, OneFunction, old

LEMMA BlockParts ==
  ASSUME NEW old, BlockFormed(old), NEW x
  PROVE  /\ old = BlockOf(old.parameters, old.instructions, old.terminator)
         /\ EndingIn(old, x) = BlockOf(old.parameters, old.instructions, x)
         /\ Doing(old, x) = BlockOf(old.parameters, x, old.terminator)
         /\ Taking(old, x) = BlockOf(x, old.instructions, old.terminator)
  BY DEF BlockFormed, BlockOf, EndingIn, Doing, Taking

LEMMA BlockOfFunction ==
  ASSUME NEW fs, FunctionsFormed(fs), NEW f \in DOMAIN fs, NEW b \in DOMAIN fs[f].blocks
  PROVE  BlockFormed(fs[f].blocks[b])
  BY DEF FunctionsFormed, CodeFormed

LEMMA TerminatorWritten ==
  ASSUME NEW fs, FunctionsFormed(fs), IsOpen(fs, current.function, current.block), NEW t
  PROVE  LET f == current.function
             old == fs[f].blocks[current.block]
             gs == WithTerminator(fs, t)
         IN  /\ OneBlock(fs, gs, f, current.block, BlockOf(old.parameters, old.instructions, t))
             /\ gs[f].register_count = fs[f].register_count
  <1> DEFINE f == current.function
             b == current.block
             old == fs[f].blocks[b]
             block == EndingIn(old, t)
             gs == WithTerminator(fs, t)
  <1>1. f \in DOMAIN fs /\ b \in DOMAIN fs[f].blocks
    BY DEF IsOpen
  <1>2. gs = WithBlock(fs, f, b, block)
    BY DEF WithTerminator, WithBlock, WithCode, EndingIn
  <1>3. block = BlockOf(old.parameters, old.instructions, t)
    BY <1>1, BlockOfFunction, BlockParts
  <1> HIDE DEF gs, f, b, block
  <1> QED
    BY <1>3, <1>1, <1>2, BlockWritten DEF gs, f, b

LEMMA RegisterCounted ==
  ASSUME NEW fs, FunctionsFormed(fs), NEW f \in DOMAIN fs
  PROVE  LET gs == [fs EXCEPT ![f].register_count = @ + 1]
         IN  /\ OneFunction(fs, gs, f) /\ FunctionsFormed(gs)
             /\ gs[f].blocks = fs[f].blocks
             /\ gs[f].register_count = fs[f].register_count + 1
  <1> DEFINE old == fs[f]
             count == old.register_count + 1
             code == [old EXCEPT !.register_count = count]
             gs == [fs EXCEPT ![f].register_count = @ + 1]
  <1>1. CodeFormed(old)
    BY DEF FunctionsFormed
  <1>2. gs = WithCode(fs, f, code)
    BY DEF WithCode
  <1> HIDE DEF old, gs, count
  <1>3. code = [type |-> old.type, register_count |-> count, blocks |-> old.blocks]
    BY <1>1 DEF CodeFormed
  <1> HIDE DEF code
  <1>4. CodeFormed(code) /\ code.blocks = old.blocks /\ code.register_count = count
    BY <1>1, <1>3 DEF CodeFormed
  <1>5. FunctionsFormed(gs)
    BY <1>2, <1>4, FunctionReplaced
  <1> QED
    BY <1>4, <1>5, <1>2 DEF gs, old, count, OneFunction, WithCode

LEMMA InstructionWritten ==
  ASSUME NEW fs, FunctionsFormed(fs), IsOpen(fs, current.function, current.block), NEW instruction
  PROVE  LET f == current.function
             old == fs[f].blocks[current.block]
             gs == WithRegister(WithInstruction(fs, instruction))
         IN  /\ OneBlock(fs, gs, f, current.block,
                         BlockOf(old.parameters, Append(old.instructions, instruction), old.terminator))
             /\ gs[f].register_count = fs[f].register_count + 1
  <1> DEFINE f == current.function
             b == current.block
             old == fs[f].blocks[b]
             more == Append(old.instructions, instruction)
             block == Doing(old, more)
             hs == WithInstruction(fs, instruction)
             gs == WithRegister(hs)
  <1>1. f \in DOMAIN fs /\ b \in DOMAIN fs[f].blocks
    BY DEF IsOpen
  <1>2. hs = WithBlock(fs, f, b, block)
    BY DEF WithInstruction, WithBlock, WithCode, Doing
  <1>3. hs = Instructed(fs, f, b, more)
    BY DEF WithInstruction, Instructed
  <1> HIDE DEF more
  <1>4. block = BlockOf(old.parameters, more, old.terminator)
    BY <1>1, BlockOfFunction, BlockParts
  <1>5. gs = [hs EXCEPT ![f].register_count = @ + 1]
    BY DEF WithRegister
  <1> HIDE DEF hs, gs, f, b, block
  <1>6. FunctionsFormed(hs) /\ DOMAIN hs = DOMAIN fs
    BY <1>1, <1>3, BlockKeepsItsEnd
  <1>9. OneBlock(fs, gs, f, b, block) /\ gs[f].register_count = fs[f].register_count + 1
    BY <1>1, <1>2, BlockWritten, <1>5, <1>6, RegisterCounted DEF OneBlock, OneFunction
  <1> QED
    BY <1>4, <1>9 DEF gs, hs, f, b, more

LEMMA ParametersWritten ==
  ASSUME NEW fs, FunctionsFormed(fs), NEW f, f = current.function, f \in DOMAIN fs,
         NEW m, m \in DOMAIN fs[f].blocks, NEW x
  PROVE  MergingDone(fs, Merging(fs, f, m, x), f, m, x)
  <1> DEFINE old == fs[f].blocks[m]
             hs == WithRegister(fs)
             block == Taking(hs[f].blocks[m], x)
             gs == Merging(fs, f, m, x)
  <1>1. hs = [fs EXCEPT ![f].register_count = @ + 1]
    BY DEF WithRegister
  <1>2. gs = WithBlock(hs, f, m, block) /\ gs = Entered(hs, f, m, x)
    BY DEF WithBlock, WithCode, Entered, Taking, Merging
  <1> HIDE DEF hs
  <1>3. /\ OneFunction(fs, hs, f) /\ FunctionsFormed(hs)
        /\ hs[f].blocks = fs[f].blocks
        /\ hs[f].register_count = fs[f].register_count + 1
    BY <1>1, RegisterCounted
  <1>4. f \in DOMAIN hs /\ m \in DOMAIN hs[f].blocks /\ hs[f].blocks[m] = old
    BY <1>3 DEF OneFunction
  <1>5. block = BlockOf(x, old.instructions, old.terminator)
    BY <1>3, <1>4, BlockOfFunction, BlockParts
  <1> HIDE DEF gs, block
  <1>6. OneBlock(hs, gs, f, m, block) /\ gs[f].register_count = hs[f].register_count
    <2> DEFINE ls == WithBlock(hs, f, m, block)
    <2>1. OneBlock(hs, ls, f, m, block) /\ ls[f].register_count = hs[f].register_count
      BY <1>3, <1>4, BlockWritten
    <2> QED
      BY <1>2, <2>1
  <1>8. FunctionsFormed(gs) /\ \A g, c : IsOpen(gs, g, c) <=> IsOpen(hs, g, c)
    BY <1>2, <1>3, <1>4, BlockKeepsItsEnd
  <1> QED
    BY <1>3, <1>5, <1>6, <1>8, RegisterAllocated DEF gs, MergingDone, OneBlock, OneFunction, hs

LEMMA BlocksWritten ==
  ASSUME NEW fs, FunctionsFormed(fs), current.function \in DOMAIN fs, NEW n \in Nat
  PROVE  Extended(fs, WithBlocks(fs, n), current.function, Len(fs[current.function].blocks), n)
  <1> DEFINE f == current.function
             old == fs[f]
             front == old.blocks
             last == Len(front)
             added == [i \in 1..n |-> EmptyBlock]
             blocks == front \o added
             code == [old EXCEPT !.blocks = blocks]
             gs == WithBlocks(fs, n)
  <1>1. CodeFormed(old)
    BY DEF FunctionsFormed
  <1>2. IsASequence(front)
    BY <1>1 DEF CodeFormed
  <1>3. gs = [fs EXCEPT ![f] = code]
    BY DEF WithBlocks
  <1>4. /\ IsASequence(added) /\ Len(added) = n /\ DOMAIN added = 1..n
        /\ \A i \in 1..n : added[i] = EmptyBlock
    BY MadeASequence
  <1>5. last \in Nat /\ DOMAIN front = 1..last
    BY <1>2, SequenceShape
  <1> HIDE DEF gs, added, front
  <1>6. /\ IsASequence(blocks) /\ Len(blocks) = Len(front) + Len(added)
        /\ \A i \in 1..Len(front) : blocks[i] = front[i]
        /\ \A i \in 1..Len(added) : blocks[Len(front) + i] = added[i]
    <2>4. \A i \in 1..Len(added) : blocks[Len(front) + i] = added[i]
      BY <1>2, <1>4, JoinedSequence
    <2> QED
      BY <1>2, <1>4, JoinedSequence, <2>4
  <1> HIDE DEF blocks
  <1>8. ASSUME NEW c \in last + 1..last + n
        PROVE  blocks[c] = EmptyBlock
    BY <1>5, <1>4, <1>6 DEF last
  <1> HIDE DEF old
  <1>9. code = [type |-> old.type, register_count |-> old.register_count, blocks |-> blocks]
    BY <1>1 DEF CodeFormed
  <1> HIDE DEF code
  <1> QED
    BY <1>5, <1>6, <1>4, SequenceShape, <1>8, <1>9, <1>3 DEF gs, front, old, Extended, OneFunction

LEMMA EndWritten ==
  ASSUME NEW fs, FunctionsFormed(fs), NEW f, f = current.function,
         NEW b, b = current.block, IsOpen(fs, f, b), NEW t, t # NoTerminator, NEW n \in Nat
  PROVE  /\ EndedWith(fs, WithBlocks(WithTerminator(fs, t), n), f, b, t, n)
         /\ EndedWith(fs, WithTerminator(fs, t), f, b, t, 0)
         /\ Len(fs[f].blocks) \in Nat /\ DOMAIN fs[f].blocks = 1..Len(fs[f].blocks)
  <1> DEFINE hs == WithTerminator(fs, t)
             gs == WithBlocks(hs, n)
             last == Len(fs[f].blocks)
             old == fs[f].blocks[b]
             block == BlockOf(old.parameters, old.instructions, t)
  <1>1. f \in DOMAIN fs /\ b \in DOMAIN fs[f].blocks
    BY DEF IsOpen
  <1>3. last \in Nat /\ DOMAIN fs[f].blocks = 1..last
    BY <1>1, SequenceShape DEF FunctionsFormed, CodeFormed
  <1>4. OneBlock(fs, hs, f, b, block) /\ hs[f].register_count = fs[f].register_count
    BY TerminatorWritten
  <1>5. FunctionsFormed(hs) /\ Len(hs[f].blocks) = last
    BY TerminatorEnds
  <1> HIDE DEF hs, gs, block, last
  <1>6. f \in DOMAIN hs
    BY <1>1, <1>4 DEF OneBlock, OneFunction
  <1>7. /\ OneFunction(hs, gs, f)
        /\ gs[f].register_count = hs[f].register_count
        /\ DOMAIN gs[f].blocks = 1..last + n
        /\ \A c \in 1..last : gs[f].blocks[c] = hs[f].blocks[c]
        /\ \A c \in last + 1..last + n : gs[f].blocks[c] = EmptyBlock
    BY <1>5, <1>6, BlocksWritten DEF gs, Extended
  <1>10. EndedWith(fs, gs, f, b, t, n)
    BY <1>4, <1>7, <1>1, <1>3 DEF EndedWith, block, last, OneBlock, OneFunction
  <1> QED
    BY <1>3, <1>10, <1>4 DEF gs, hs, last, EndedWith, OneBlock, block

----------------------------------------------------------------------------

LEMMA RegistersInside ==
  ASSUME NEW fs, NEW avail, CodeFlows(fs, avail)
  PROVE  CodeInside(fs)
  <1> SUFFICES ASSUME NEW f \in DOMAIN fs
               PROVE  /\ fs[f].register_count \in Nat
                      /\ 1 \in DOMAIN fs[f].blocks
                      /\ \A b \in DOMAIN fs[f].blocks : BlockInside(fs[f].blocks[b], fs[f])
    BY DEF CodeInside
  <1>2. ASSUME NEW b \in DOMAIN fs[f].blocks
        PROVE  BlockInside(fs[f].blocks[b], fs[f])
    <2> DEFINE block == fs[f].blocks[b]
               count == fs[f].register_count
               before == avail[f][b]
    <2>1. BlockFlows(block, before, count, DOMAIN fs[f].blocks, avail[f])
      BY DEF FunctionFlows, CodeFlows
    <2> HIDE DEF block, count, before
    <2>5. ASSUME NEW i \in DOMAIN block.instructions
          PROVE  Registers(InstructionOperands(block.instructions[i])) \subseteq 0..count - 1
      <3> QED
        BY <2>1, SequenceShape DEF BlockFlows, Defines, Defined
    <2> QED
      BY <2>5, <2>1 DEF block, BlockInside, count, BlockFlows, AtEnd
  <1> QED
    BY <1>2 DEF FunctionFlows, CodeFlows

LEMMA FlowsElsewhere ==
  ASSUME NEW fs, NEW avail, CodeFlows(fs, avail), NEW f, NEW gs, OneFunction(fs, gs, f),
         NEW new, \A g \in DOMAIN fs : g # f => new[g] = avail[g],
         FunctionFlows(gs[f], new[f])
  PROVE  CodeFlows(gs, new)
  BY DEF CodeFlows, OneFunction

LEMMA FlowsInstructed ==
  ASSUME NEW fs, NEW gs, NEW avail, CodeFlows(fs, avail), NEW f, NEW b, NEW instruction,
         Instructing(fs, gs, avail, f, b, instruction)
  PROVE  /\ CodeFlows(gs, avail)
         /\ AtEnd(gs[f].blocks[b], avail[f][b])
              = AtEnd(fs[f].blocks[b], avail[f][b]) \union {fs[f].register_count}
  <1> USE DEF Instructing
  <1> DEFINE old == fs[f].blocks[b]
             list == old.instructions
             n == Len(list)
             more == Append(list, instruction)
             block == BlockOf(old.parameters, more, old.terminator)
             count == fs[f].register_count
             before == avail[f][b]
             blocks == DOMAIN fs[f].blocks
  <1>1. /\ FunctionFlows(fs[f], avail[f]) /\ count \in Nat
        /\ \A c \in blocks : BlockFlows(fs[f].blocks[c], avail[f][c], count, blocks, avail[f])
    BY DEF CodeFlows, FunctionFlows
  <1>3. IsASequence(list)
    BY <1>1 DEF BlockFlows
  <1> HIDE DEF list
  <1>4. n \in Nat /\ IsASequence(more) /\ Len(more) = n + 1 /\ more[n + 1] = instruction
        /\ \A i \in 1..n : more[i] = list[i]
    BY <1>3, AppendedSequence, SequenceShape
  <1> HIDE DEF more, n
  <1>5. /\ block.parameters = old.parameters /\ block.instructions = more
        /\ block.terminator = old.terminator
    BY DEF BlockOf
  <1> HIDE DEF block
  <1>6. ASSUME NEW i \in 0..n
        PROVE  Defines(block, i) = Defines(old, i)
    BY <1>4, <1>5 DEF Defines, list
  <1>7. Defined(block) = Defined(old) \union {count}
    <2>4. Defined(block) = Defines(block, n) \union {instruction.result}
      BY <1>4, <1>5 DEF Defined, Defines
    <2> QED
      BY <1>6, <1>4, <2>4 DEF Defined, n, list
  <1>8. /\ before \subseteq 0..count - 1 /\ Defined(old) \subseteq 0..count - 1
        /\ \A i \in 1..n : Registers(InstructionOperands(list[i]))
                             \subseteq before \union Defines(old, i - 1)
    BY <1>1 DEF BlockFlows, list, n
  <1>10. 0..(count + 1) - 1 = (0..count - 1) \union {count}
    BY <1>1
  <1>11. ASSUME NEW i \in 1..n + 1
         PROVE  Registers(InstructionOperands(more[i])) \subseteq before \union Defines(block, i - 1)
    BY <1>4, <1>6, <1>8 DEF Defined, n, list, AtEnd
  <1>14. OneBlock(fs, gs, f, b, block)
    BY DEF block, more, list
  <1>15. ASSUME NEW c \in blocks
         PROVE  BlockFlows(gs[f].blocks[c], avail[f][c], count + 1, blocks, avail[f])
    BY <1>4, <1>5, <1>7, <1>8, <1>10, <1>11, <1>14, <1>1 DEF OneBlock, BlockFlows, Registers
  <1> QED
    BY <1>7, <1>14, <1>1, <1>15, FlowsElsewhere DEF AtEnd, OneBlock, FunctionFlows

LEMMA FlowsEnded ==
  ASSUME NEW fs, NEW gs, NEW avail, NEW new, CodeFlows(fs, avail),
         NEW f, NEW b, NEW t, NEW n, NEW last, Ending(fs, gs, avail, new, f, b, t, n, last)
  PROVE  /\ CodeFlows(gs, new)
         /\ AtEnd(gs[f].blocks[b], new[f][b]) = AtEnd(fs[f].blocks[b], avail[f][b])
  <1> USE DEF Ending
  <1> DEFINE old == fs[f].blocks[b]
             block == BlockOf(old.parameters, old.instructions, t)
             count == fs[f].register_count
             before == avail[f][b]
             blocks == 1..last
             more == 1..last + n
  <1>1. /\ FunctionFlows(fs[f], avail[f]) /\ count \in Nat /\ avail[f][1] = {} /\ 1 \in blocks
        /\ \A c \in blocks : BlockFlows(fs[f].blocks[c], avail[f][c], count, blocks, avail[f])
    BY DEF CodeFlows, FunctionFlows
  <1>2. BlockFlows(old, before, count, blocks, avail[f])
    BY <1>1
  <1>3. blocks \subseteq more /\ \A c \in more : c \in blocks \/ c \in last + 1..last + n
    OBVIOUS
  <1>4. /\ gs[f].blocks[b] = block /\ gs[f].register_count = count /\ DOMAIN gs[f].blocks = more
        /\ \A c \in blocks : c # b => gs[f].blocks[c] = fs[f].blocks[c]
        /\ \A c \in last + 1..last + n : gs[f].blocks[c] = EmptyBlock
        /\ OneFunction(fs, gs, f)
    BY DEF EndedWith
  <1>5. /\ block.parameters = old.parameters /\ block.instructions = old.instructions
        /\ block.terminator = t
    BY DEF BlockOf
  <1> HIDE DEF block, old, more, blocks
  <1>6. (\A i : Defines(block, i) = Defines(old, i)) /\ Defined(block) = Defined(old)
    BY <1>5 DEF Defines, Defined
  <1>8. b \in blocks
    BY DEF blocks
  <1>11. ASSUME NEW c \in more
         PROVE  BlockFlows(gs[f].blocks[c], new[f][c], count, more, new[f])
    <2>1. CASE c = b
      BY <1>4, <1>2, <1>5, <1>6, <2>1 DEF blocks, BlockFlows, old, more, AtEnd
    <2>2. CASE c \in blocks /\ c # b
      BY <1>1, <2>2, <1>4, <1>3 DEF blocks, BlockFlows
    <2>3. CASE c \in last + 1..last + n
      <3> DEFINE empty == EmptyBlock
      <3>1. gs[f].blocks[c] = empty /\ new[f][c] \subseteq AtEnd(old, before)
        BY <1>4, <2>3 DEF old
      <3>2. /\ empty.instructions = << >> /\ empty.parameters = << >>
            /\ empty.terminator = NoTerminator
        BY DEF EmptyBlock
      <3>7. AtEnd(old, before) \subseteq 0..count - 1
        BY <1>2 DEF BlockFlows, AtEnd
      <3> HIDE DEF empty
      <3> QED
        BY <3>1, <3>2, EmptySequence, <3>7 DEF BlockFlows, Defined, Defines, Range, NoTerminator,
           TerminatorOperands, Successors, Registers
    <2> QED
      BY <1>3, <2>1, <2>2, <2>3
  <1> QED
    BY <1>4, <1>6, <1>1, <1>11, <1>3, FlowsElsewhere DEF old, blocks, AtEnd, FunctionFlows

LEMMA FlowsMerged ==
  ASSUME NEW fs, NEW gs, NEW avail, CodeFlows(fs, avail), NEW f, NEW m, Merged(fs, gs, f, m)
  PROVE  CodeFlows(gs, avail)
  <1> USE DEF Merged
  <1> DEFINE old == fs[f].blocks[m]
             count == fs[f].register_count
             block == BlockOf(<<count>>, << >>, NoTerminator)
             blocks == DOMAIN fs[f].blocks
  <1>1. /\ FunctionFlows(fs[f], avail[f]) /\ count \in Nat
        /\ \A c \in blocks : BlockFlows(fs[f].blocks[c], avail[f][c], count, blocks, avail[f])
    BY DEF CodeFlows, FunctionFlows
  <1>3. 0..(count + 1) - 1 = (0..count - 1) \union {count}
    BY <1>1
  <1>4. /\ block.parameters = <<count>> /\ block.instructions = << >>
        /\ block.terminator = NoTerminator
    BY DEF BlockOf
  <1> HIDE DEF block, count
  <1>8. TerminatorOperands(block.terminator) = {} /\ Successors(block.terminator) = {}
    BY <1>4 DEF NoTerminator, TerminatorOperands, Successors
  <1>10. BlockFlows(block, avail[f][m], count + 1, blocks, avail[f])
    BY <1>1, <1>3, <1>4, EmptySequence, <1>8 DEF BlockFlows, Defined, Defines, Range, Registers
  <1>12. ASSUME NEW c \in blocks
         PROVE  BlockFlows(gs[f].blocks[c], avail[f][c], count + 1, blocks, avail[f])
    BY <1>10, <1>1, <1>3 DEF OneBlock, BlockFlows, block, count
  <1> QED
    BY <1>1, <1>12, FlowsElsewhere DEF OneBlock, FunctionFlows, count, block

LEMMA FlowsAppended ==
  ASSUME NEW fs, NEW avail, CodeFlows(fs, avail), NEW new, NEW code,
         NEW count, NEW type, NEW parameters,
         Appending(fs, avail, new, code, count, type, parameters)
  PROVE  /\ CodeFlows(Append(fs, code), new)
         /\ Len(fs) + 1 \in DOMAIN Append(fs, code)
         /\ \A g \in DOMAIN fs : g \in DOMAIN Append(fs, code) /\ Append(fs, code)[g] = fs[g]
         /\ Append(fs, code)[Len(fs) + 1] = code
         /\ DOMAIN code.blocks = {1} /\ code.blocks[1] = BlockOf(parameters, << >>, NoTerminator)
         /\ AtEnd(code.blocks[1], {}) = Range(parameters)
  <1> USE DEF Appending
  <1> DEFINE block == [EmptyBlock EXCEPT !.parameters = parameters]
             gs == Append(fs, code)
             f == Len(fs) + 1
  <1>1. block = BlockOf(parameters, << >>, NoTerminator)
    BY DEF EmptyBlock, BlockOf
  <1> HIDE DEF block
  <1>2. IsASequence(<<block>>) /\ Len(<<block>>) = 1 /\ <<block>>[1] = block
    BY OneSequence
  <1>3. DOMAIN <<block>> = {1}
    BY <1>2, SequenceShape
  <1> HIDE DEF gs
  <1>5. IsASequence(gs) /\ Len(gs) = f /\ gs[f] = code /\ \A g \in 1..Len(fs) : gs[g] = fs[g]
    BY AppendedSequence DEF gs
  <1>6. DOMAIN gs = 1..f /\ DOMAIN fs = 1..Len(fs) /\ Len(fs) \in Nat
    BY <1>5, SequenceShape
  <1>7. f \in DOMAIN gs /\ (\A g \in DOMAIN fs : g \in DOMAIN gs /\ gs[g] = fs[g])
        /\ \A g \in DOMAIN gs : g = f \/ g \in DOMAIN fs
    BY <1>5, <1>6
  <1> HIDE DEF f
  <1>10. Defined(block) = Range(parameters)
    BY <1>1, EmptySequence DEF Defined, Defines, BlockOf
  <1>14. BlockFlows(block, {}, count, {1}, new[f])
    BY <1>1, EmptySequence, <1>10 DEF BlockFlows, NoTerminator, TerminatorOperands, Successors,
       BlockOf, Registers
  <1>15. FunctionFlows(code, new[f])
    BY <1>2, <1>3, <1>14 DEF FunctionFlows, f, block
  <1> QED
    BY <1>1, <1>2, <1>3, <1>5, <1>7, <1>15, <1>10 DEF gs, f, block, AtEnd, CodeFlows

----------------------------------------------------------------------------

LEMMA SymbolsJoined ==
  ASSUME NEW old, NEW more, NEW bindings, \A x \in DOMAIN more : more[x] \in bindings
  PROVE  Bound(old, Hiding(old, more), bindings)
  BY DEF Hiding, Bound

LEMMA OneSymbol ==
  ASSUME NEW name, NEW binding, NEW bindings, binding \in bindings
  PROVE  \A x \in DOMAIN Symbol(name, binding) : Symbol(name, binding)[x] \in bindings
  BY DEF Symbol

LEMMA SymbolsAdded ==
  ASSUME NEW t, TableFormed(t), t.scopes # << >>,
         NEW more, NEW bindings, \A x \in DOMAIN more : more[x] \in bindings
  PROVE  LET new == WithSymbols(t, more)
         IN  /\ TableFormed(new)
             /\ new.global = t.global
             /\ ScopesBound(t.scopes, new.scopes, bindings)
  <1> DEFINE n == Len(t.scopes)
             old == t.scopes[n]
             scope == [old EXCEPT !.symbols = Hiding(@, more)]
             scopes == [t.scopes EXCEPT ![n] = scope]
             new == [t EXCEPT !.scopes = scopes]
  <1>1. IsASequence(t.scopes) /\ n \in Nat /\ DOMAIN t.scopes = 1..n /\ n # 0
    BY SequenceShape, EmptySequence DEF TableFormed
  <1>2. n \in DOMAIN t.scopes /\ Scope(old)
    BY <1>1 DEF TableFormed
  <1>4. /\ IsASequence(scopes) /\ Len(scopes) = n /\ DOMAIN scopes = DOMAIN t.scopes
        /\ scopes[n] = scope
        /\ \A j \in DOMAIN t.scopes : j # n => scopes[j] = t.scopes[j]
    BY <1>1, <1>2, SequenceWith
  <1>9. new = [global |-> t.global, scopes |-> scopes]
    BY DEF TableFormed
  <1>11. TableFormed(new)
    BY <1>4, <1>2, <1>9 DEF TableFormed, Scope
  <1> QED
    BY <1>1, <1>2, <1>4, SymbolsJoined, <1>9, <1>11 DEF WithSymbols, ScopesBound, Scope, Bound

(* declare_object() and declare_value(). *)
LEMMA TableDeclared ==
  ASSUME NEW t, TableFormed(t), NEW name, NEW binding
  PROVE  LET new == Declared(t, name, binding)
         IN  /\ TableFormed(new)
             /\ ScopesBound(t.scopes, new.scopes, {binding})
             /\ Bound(t.global, new.global, {binding})
             /\ t.scopes # << >> => new.global = t.global
  <1> DEFINE new == Declared(t, name, binding)
             more == Symbol(name, binding)
  <1>2. CASE t.scopes # << >>
    BY <1>2, OneSymbol, SymbolsAdded DEF Declared, WithSymbols, Bound, new
  <1>3. CASE t.scopes = << >>
    BY <1>3, OneSymbol, SymbolsJoined, EmptySequence DEF Declared, TableFormed, ScopesBound, new
  <1> QED
    BY <1>2, <1>3

LEMMA TablePushed ==
  ASSUME NEW t, TableFormed(t), NEW is_barrier
  PROVE  LET new == PushScope(t, is_barrier)
             scope == [symbols |-> NoSymbols, is_barrier |-> is_barrier]
         IN  /\ TableFormed(new) /\ new.global = t.global
             /\ new.scopes = Append(t.scopes, scope)
             /\ IsASequence(new.scopes) /\ Len(new.scopes) = Len(t.scopes) + 1
             /\ new.scopes[Len(t.scopes) + 1] = scope
             /\ \A i \in 1..Len(t.scopes) : new.scopes[i] = t.scopes[i]
  <1> DEFINE new == PushScope(t, is_barrier)
             scope == [symbols |-> NoSymbols, is_barrier |-> is_barrier]
             scopes == Append(t.scopes, scope)
  <1>1. new = [global |-> t.global, scopes |-> scopes]
    BY DEF PushScope, TableFormed
  <1>2. Scope(scope)
    BY DEF Scope
  <1> HIDE DEF scope
  <1> HIDE DEF scopes
  <1> HIDE DEF new
  <1> QED
    BY SequenceShape, AppendedSequence, <1>1, <1>2 DEF new, scopes, scope, TableFormed

LEMMA TablePopped ==
  ASSUME NEW t, TableFormed(t), Len(t.scopes) # 0
  PROVE  LET new == PopScope(t)
         IN  /\ TableFormed(new) /\ new.global = t.global
             /\ IsASequence(new.scopes) /\ Len(new.scopes) = Len(t.scopes) - 1
             /\ \A i \in 1..Len(t.scopes) - 1 : new.scopes[i] = t.scopes[i]
  <1> DEFINE new == PopScope(t)
             scopes == Front(t.scopes)
             n == Len(t.scopes)
  <1>1. new = [global |-> t.global, scopes |-> scopes]
    BY DEF PopScope, TableFormed
  <1>2. IsASequence(t.scopes) /\ n \in Nat /\ DOMAIN t.scopes = 1..n
    BY SequenceShape DEF TableFormed
  <1>5. scopes = [i \in 1..n - 1 |-> scopes[i]] /\ \A i \in 1..n - 1 : scopes[i] = t.scopes[i]
    BY <1>2 DEF Front, IsASequence
  <1>6. new.global = t.global /\ new.scopes = scopes
    BY <1>1
  <1> HIDE DEF scopes, n
  <1> HIDE DEF new
  <1> QED
    BY <1>5, <1>6, <1>2, MadeASequence, <1>1 DEF new, scopes, n, TableFormed

(* The parameters are objects in the first registers. *)
LEMMA TableWithParameters ==
  ASSUME NEW t, TableFormed(t), t.scopes # << >>, NEW fn,
         NEW parameter_types, IsASequence(parameter_types)
  PROVE  LET new == WithParameters(t, fn, parameter_types)
             objects == {ObjectBinding(parameter_types[i], i - 1) : i \in DOMAIN parameter_types}
         IN  /\ TableFormed(new) /\ new.global = t.global
             /\ ScopesBound(t.scopes, new.scopes, objects)
  <1> DEFINE objects == {ObjectBinding(parameter_types[i], i - 1) : i \in DOMAIN parameter_types}
             named(name) == {i \in DOMAIN parameter_types : fn.parameters[i].name = name}
             binding(i) == ObjectBinding(parameter_types[i], i - 1)
             names == {fn.parameters[i].name : i \in DOMAIN parameter_types}
             last(name) == CHOOSE i \in named(name) : \A j \in named(name) : j <= i
             symbols == [name \in names |-> binding(last(name))]
             new == WithParameters(t, fn, parameter_types)
  <1>2. \A name \in names : symbols[name] \in objects
    <2> SUFFICES ASSUME NEW name \in names
                 PROVE  symbols[name] \in objects
      OBVIOUS
    <2>1. PICK i \in DOMAIN parameter_types : fn.parameters[i].name = name
      OBVIOUS
    <2>3. last(name) \in named(name)
      <3> DEFINE S == named(name)
      <3> HIDE DEF S
      <3> QED
        BY <2>1, SequenceShape, GreatestPosition DEF S
    <2> QED
      BY <2>1, <2>3
  <1>3. DOMAIN symbols = names
    OBVIOUS
  <1>4. new = WithSymbols(t, symbols)
    BY DEF WithSymbols, WithParameters
  <1> HIDE DEF objects, symbols, new
  <1> QED
    BY <1>2, <1>3, <1>4, SymbolsAdded DEF new, objects

----------------------------------------------------------------------------

LEMMA OpensRise ==
  ASSUME NEW s, IsASequence(s), NEW open, NEW scopes, Opens(open, s, scopes)
  PROVE  \A n \in 0..Len(s) :
           open[n] \in Nat /\ \A d \in 0..n : open[d] \in Nat /\ open[d] <= open[n]
  <1> DEFINE T == {n \in Nat : n <= Len(s) => open[n] \in Nat /\ \A d \in 0..n : open[d] \in Nat /\ open[d] <= open[n]}
  <1>1. 0 \in T
    BY DEF Opens
  <1>2. ASSUME NEW n \in Nat, n \in T
        PROVE  n + 1 \in T
    <2> SUFFICES ASSUME n + 1 <= Len(s)
                 PROVE  /\ open[n + 1] \in Nat
                        /\ \A d \in 0..n + 1 : open[d] \in Nat /\ open[d] <= open[n + 1]
      OBVIOUS
    <2>1. n + 1 \in 1..Len(s) /\ n <= Len(s)
      BY SequenceShape
    <2>2. open[n] \in Nat /\ \A d \in 0..n : open[d] \in Nat /\ open[d] <= open[n]
      BY <1>2, <2>1
    <2>3. open[n + 1] = open[n] + Scopes(At(s, n + 1)) /\ Scopes(At(s, n + 1)) \in Nat
      BY <2>1 DEF Opens, Scopes
    <2>4. ASSUME NEW d \in 0..n + 1
          PROVE  d \in 0..n \/ d = n + 1
      OBVIOUS
    <2> QED
      BY <2>2, <2>3, <2>4
  <1>3. Nat \subseteq T
    BY <1>1, <1>2, SetInduction
  <1> QED
    BY <1>3

LEMMA SeenStill ==
  ASSUME NEW scopes, NEW ts, NEW n \in Nat, Fewer(scopes, ts, n),
         NEW S, SeenIn(scopes, n, S), NEW T, S \subseteq T
  PROVE  SeenIn(ts, n, T)
  BY DEF SeenIn, Fewer

LEMMA SameAreFewer ==
  ASSUME NEW scopes, NEW ts, NEW n, \A i \in 1..n : ts[i] = scopes[i]
  PROVE  Fewer(scopes, ts, n)
  BY DEF Fewer

LEMMA NothingTouched ==
  ASSUME NEW level, NEW s, NEW fs, NEW avail
  PROVE  \A d : Untouched(level, s, fs, fs, avail, avail, d)
  BY DEF Untouched

LEMMA DepthKept ==
  ASSUME NEW level, NEW other, NEW known, NEW knew, NEW open, NEW opens, NEW s, NEW t,
         NEW avail, NEW new, NEW scopes, NEW ts, NEW fs, NEW gs, NEW d,
         SameDepth(level, other, known, knew, open, opens, s, t, d),
         LevelFits(level, s, d), open[d] \in Nat, Fewer(scopes, ts, open[d]),
         Untouched(level, s, fs, gs, avail, new, d),
         Depth(level, known, open, avail, s, scopes, fs, d)
  PROVE  Depth(other, knew, opens, new, t, ts, gs, d)
  <1> SUFFICES ASSUME level[d] # 0
               PROVE  Depth(other, knew, opens, new, t, ts, gs, d)
    BY DEF Depth, SameDepth
  <1> DEFINE frame == At(s, d)
             f == level[d]
  <1>1. /\ At(t, d) = frame /\ other[d] = f /\ other[d - 1] = level[d - 1]
        /\ knew[d] = known[d] /\ knew[d - 1] = known[d - 1] /\ opens[d] = open[d]
    BY DEF SameDepth
  <1>3. ASSUME frame.at \in {"branch", "else_if"}
        PROVE  MergeWaits(frame, known[d], gs[f].blocks, new[f])
    BY <1>3 DEF Depth, LevelFits, Pending, Untouched, MergeWaits
  <1>4. ASSUME frame.at = "body", level[d - 1] # 0
        PROVE  known[d - 1] \subseteq Here(new, gs, frame.saved)
    BY <1>4 DEF Depth, LevelFits, Pending, Untouched, Here
  <1>5. /\ Registers(Held(frame)) \subseteq known[d]
        /\ frame.at # "body" => known[d - 1] \subseteq known[d]
        /\ frame.at = "condition" => frame.parameter = << >>
    BY DEF Depth
  <1> HIDE DEF frame, f
  <1> QED
    BY <1>1, SeenStill, <1>3, <1>4, <1>5 DEF Depth

LEMMA RaisedAt ==
  ASSUME NEW known, NEW n \in Nat, NEW x
  PROVE  Raised(known, n, x)[n] = x /\ \A d \in Nat : d # n => Raised(known, n, x)[d] = known[d]
  BY DEF Raised

LEMMA HeldByFew ==
  ASSUME NEW frame, frame.at \notin {"right", "argument"}
  PROVE  Registers(Held(frame)) = {}
  BY DEF Registers, Held

(* What the current function sees and holds. *)
LEMMA TopFlows ==
  ASSUME NEW s, IsASequence(s), NEW level, NEW known, NEW open, NEW avail, NEW function,
         NEW scopes, NEW fs, Flows(level, known, open, avail, s, function, scopes, fs),
         function.function # 0
  PROVE  /\ s # << >> /\ Len(s) \in Nat \ {0}
         /\ level[Len(s)] = function.function
         /\ Registers(Held(Head(s))) \subseteq Here(avail, fs, function)
         /\ SeenIn(scopes, Len(scopes), Here(avail, fs, function))
         /\ Len(scopes) \in Nat \ {0}
  <1> DEFINE n == Len(s)
  <1>1. n \in Nat /\ level[n] = function.function /\ level[0] = 0
    BY SequenceShape DEF Flows, Levelled
  <1>3. n \in 1..n /\ At(s, n) = Head(s)
    BY <1>1, EmptySequence, DroppedAt
  <1>4. Depth(level, known, open, avail, s, scopes, fs, n) /\ LevelFits(level, s, n)
    BY <1>3 DEF Flows, Levelled
  <1>5. known[n] \subseteq Here(avail, fs, function) /\ Opens(open, s, scopes)
    BY DEF Flows
  <1>7. open[n] = Len(scopes) /\ open[n] \in Nat
    BY <1>1, <1>5, OpensRise DEF Opens
  <1>9. SeenIn(scopes, Len(scopes), known[n]) /\ Registers(Held(Head(s))) \subseteq known[n]
    BY <1>1, <1>3, <1>4, <1>7 DEF Depth
  <1>10. SeenIn(scopes, Len(scopes), Here(avail, fs, function))
    BY <1>5, <1>7, <1>9, SameAreFewer, SeenStill
  <1> QED
    BY <1>1, EmptySequence, <1>5, <1>7, <1>4, OpensRise, <1>9, <1>10 DEF LevelFits, Opens, Scopes

(* A frame that waits for an expression, or a block with its scope. *)
LEMMA FlowsPushed ==
  ASSUME NEW s, IsASequence(s), NEW avail, NEW function, NEW scopes, NEW fs, IsASequence(scopes),
         Flowing(avail, s, function, scopes, fs),
         NEW frame, Ordinary(frame), frame.at # "right",
         frame.at = "condition" => frame.parameter = << >>,
         NEW ts, Len(ts) = Len(scopes) + Scopes(frame),
         \A i \in 1..Len(scopes) : ts[i] = scopes[i],
         Scopes(frame) = 1 => ts[Len(scopes) + 1].symbols = NoSymbols
  PROVE  Flowing(avail, <<frame>> \o s, function, ts, fs)
  <1>1. PICK level, known, open : Flows(level, known, open, avail, s, function, scopes, fs)
    BY DEF Flowing
  <1> DEFINE n == Len(s)
             m == Len(scopes)
             t == <<frame>> \o s
             other == [level EXCEPT ![n + 1] = function.function]
             knew == Raised(known, n + 1, known[n])
             opens == Raised(open, n + 1, Len(ts))
  <1>2. n \in Nat /\ m \in Nat
    BY SequenceShape
  <1>3. Levelled(level, s, function) /\ Opens(open, s, scopes) /\ CodeFlows(fs, avail)
    BY <1>1 DEF Flows
  <1>4. Levelled(other, t, function)
    BY <1>3, LevelsPushed
  <1>5. /\ Len(t) = n + 1 /\ At(t, n + 1) = frame /\ \A d \in 1..n : At(t, d) = At(s, d)
    BY <1>2, PushedAt
  <1>6. /\ knew[n + 1] = known[n] /\ opens[n + 1] = Len(ts) /\ other[n + 1] = function.function
        /\ \A d \in 0..n : knew[d] = known[d] /\ opens[d] = open[d] /\ other[d] = level[d]
    <2>2. n + 1 \in Nat /\ \A d \in 0..n : d \in Nat /\ d # n + 1
      BY <1>2
    <2>3. /\ other[n + 1] = function.function
          /\ \A d \in Nat : d # n + 1 => other[d] = level[d]
      BY <1>3, <2>2 DEF Levelled
    <2>4. knew[n + 1] = known[n] /\ \A d \in Nat : d # n + 1 => knew[d] = known[d]
      BY <2>2, RaisedAt
    <2>5. opens[n + 1] = Len(ts) /\ \A d \in Nat : d # n + 1 => opens[d] = open[d]
      BY <2>2 DEF Raised
    <2> HIDE DEF other, knew, opens, n
    <2> QED
      BY <2>2, <2>3, <2>4, <2>5
  <1> HIDE DEF t, other, knew, opens
  <1>8. open[n] = m /\ open[0] \in Nat
    BY <1>3 DEF Opens
  <1>9. Opens(opens, t, ts)
    <2>2. ASSUME NEW d \in 1..n + 1
          PROVE  opens[d] = opens[d - 1] + Scopes(At(t, d))
      <3>1. CASE d \in 1..n
        BY <1>2, <1>3, <1>5, <1>6, <3>1 DEF Opens
      <3>2. CASE d = n + 1
        BY <1>2, <1>5, <1>6, <1>8, <3>2
      <3> QED
        BY <1>2, <3>1, <3>2
    <2> QED
      BY <1>2, <1>5, <1>6, <1>8, <2>2 DEF Opens
  <1>10. ASSUME NEW d \in 1..n
         PROVE  Depth(other, knew, opens, avail, t, ts, fs, d)
    <2>1. d \in 0..n /\ d - 1 \in 0..n
      BY <1>2
    <2>3. open[d] \in Nat /\ open[d] <= m
      <3>1. n \in 0..n
        BY <1>2
      <3> QED
        BY <1>3, OpensRise, <1>8, <2>1, <3>1
    <2>5. LevelFits(level, s, d) /\ Depth(level, known, open, avail, s, scopes, fs, d)
      BY <1>1, <1>3 DEF Flows, Levelled
    <2> QED
      BY <1>5, <1>6, <2>1, <2>3, <1>2, SameAreFewer, <2>5, NothingTouched, DepthKept DEF SameDepth
  <1>11. Depth(other, knew, opens, avail, t, ts, fs, n + 1)
    <2> SUFFICES ASSUME function.function # 0
                 PROVE  Depth(other, knew, opens, avail, t, ts, fs, n + 1)
      <3>1. other[n + 1] = function.function
        BY <1>6
      <3> QED
        BY <3>1 DEF Depth
    <2>1. n # 0 /\ n \in 1..n
      BY <1>2, <1>3 DEF Levelled
    <2>3. SeenIn(scopes, m, known[n])
      BY <1>8, <1>1, <1>3, <2>1 DEF Depth, Flows, Levelled
    <2>4. SeenIn(ts, Len(ts), known[n])
      <3>1. CASE Scopes(frame) = 0
        <4>2. Fewer(scopes, ts, m)
          BY SameAreFewer
        <4> QED
          BY <1>2, <2>3, <3>1, <4>2, SeenStill
      <3>2. CASE Scopes(frame) = 1
        BY <3>2, <1>2, <2>3 DEF SeenIn, NoSymbols
      <3> QED
        BY <3>1, <3>2 DEF Scopes
    <2> QED
      BY <1>5, <1>6, <2>4, HeldByFew, <1>2 DEF Depth, Ordinary
  <1>12. Flows(other, knew, opens, avail, t, function, ts, fs)
    BY <1>2, <1>10, <1>11, <1>1, <1>6, <1>3, <1>4, <1>5, <1>9 DEF Flows
  <1> QED
    BY <1>12 DEF Flowing, t

(* Another frame on top. *)
LEMMA FlowsTop ==
  ASSUME NEW s, IsASequence(s), s # << >>, NEW level, NEW known, NEW open, NEW avail, NEW function,
         NEW scopes, NEW fs, Flows(level, known, open, avail, s, function, scopes, fs),
         NEW t, Len(t) = Len(s), \A d \in 1..Len(s) - 1 : At(t, d) = At(s, d),
         Levelled(level, t, function), Scopes(At(t, Len(s))) = Scopes(Head(s)),
         NEW knew, \A d \in Nat : d # Len(s) => knew[d] = known[d],
         function.function # 0 => knew[Len(s)] \subseteq Here(avail, fs, function),
         Depth(level, knew, open, avail, t, scopes, fs, Len(s))
  PROVE  Flows(level, knew, open, avail, t, function, scopes, fs)
  <1> DEFINE n == Len(s)
  <1>2. Levelled(level, s, function) /\ Opens(open, s, scopes) /\ CodeFlows(fs, avail)
    BY DEF Flows
  <1>4. ASSUME NEW d \in 1..n
        PROVE  Depth(level, knew, open, avail, t, scopes, fs, d)
    <2>1. CASE d = n
      BY <2>1
    <2>2. CASE d # n
      <3>5. LevelFits(level, s, d) /\ Depth(level, known, open, avail, s, scopes, fs, d)
        BY <1>2 DEF Flows, Levelled
      <3> QED
        BY <2>2, DroppedAt, <1>2, OpensRise, SameAreFewer, <3>5, NothingTouched, DepthKept DEF
           SameDepth
    <2> QED
      BY <2>1, <2>2
  <1> QED
    BY <1>2, DroppedAt, <1>4 DEF Flows, Opens

(* The head waits for its next need: what it holds is defined here. *)
LEMMA FlowsSwapped ==
  ASSUME NEW s, IsASequence(s), s # << >>, NEW avail, NEW function, NEW scopes, NEW fs,
         Flowing(avail, s, function, scopes, fs), Head(s).at # "body",
         NEW frame, frame.at # "body", Scopes(frame) = Scopes(Head(s)),
         frame.at = "argument" /\ function.function = 0 =>
           \A i \in DOMAIN frame.values : ~IsRegister(frame.values[i]),
         frame.at = "condition" => frame.parameter = << >>,
         function.function # 0 => Registers(Held(frame)) \subseteq Here(avail, fs, function),
         frame.at \in {"branch", "else_if"} =>
           /\ function.function # 0
           /\ MergeWaits(frame, Here(avail, fs, function), fs[function.function].blocks,
                         avail[function.function])
  PROVE  Flowing(avail, <<frame>> \o Tail(s), function, scopes, fs)
  <1>1. PICK level, known, open : Flows(level, known, open, avail, s, function, scopes, fs)
    BY DEF Flowing
  <1> DEFINE n == Len(s)
             t == <<frame>> \o Tail(s)
             here == Here(avail, fs, function)
             knew == Raised(known, n, here)
  <1>2. /\ n \in Nat \ {0} /\ Len(t) = n /\ At(t, n) = frame /\ At(s, n) = Head(s)
        /\ \A d \in 1..n - 1 : At(t, d) = At(s, d)
    BY DroppedAt, SwappedAt
  <1>4. Levelled(level, t, function)
    BY <1>1, LevelsSwapped DEF Flows
  <1>5. knew[n] = here /\ \A d \in Nat : d # n => knew[d] = known[d]
    BY <1>2 DEF Raised
  <1>6. Depth(level, knew, open, avail, t, scopes, fs, n)
    <2> SUFFICES ASSUME level[n] # 0
                 PROVE  Depth(level, knew, open, avail, t, scopes, fs, n)
      BY DEF Depth
    <2>1. level[n] = function.function /\ function.function # 0
      BY <1>1 DEF Levelled, Flows
    <2>2. SeenIn(scopes, open[n], here)
      BY <1>1, <2>1, TopFlows DEF Flows, Opens
    <2>3. knew[n - 1] \subseteq here
      <3>3. knew[n - 1] = known[n - 1]
        <4>1. n - 1 \in Nat /\ n - 1 # n
          <5> HIDE DEF n, t, knew, here
          <5> QED
            BY <1>2
        <4> HIDE DEF knew, n
        <4> QED
          BY <1>5, <4>1
      <3> QED
        BY <1>1, <1>2, <2>1, <3>3 DEF Depth, Flows
    <2> HIDE DEF t, knew, here, n
    <2> QED
      BY <1>2, <1>5, <2>1, <2>2, <2>3 DEF Depth, here
  <1>7. Flows(level, knew, open, avail, t, function, scopes, fs)
    BY <1>1, <1>2, <1>4, <1>5, <1>6, FlowsTop
  <1> QED
    BY <1>7 DEF Flowing

(* An `if` goes on with its next part; the same blocks wait. *)
LEMMA FlowsBranched ==
  ASSUME NEW s, IsASequence(s), s # << >>, NEW level, NEW known, NEW open, NEW avail, NEW function,
         NEW scopes, NEW fs, Flows(level, known, open, avail, s, function, scopes, fs),
         function.function # 0, Head(s).at \in {"branch", "else_if"},
         NEW frame, frame.at \in {"branch", "else_if"}, frame.merge = Head(s).merge,
         frame.parameter # << >> =>
           frame.parameter[1] \in Range(fs[function.function].blocks[frame.merge].parameters),
         frame.at = "branch" /\ Follows(frame) =>
           known[Len(s)] \subseteq avail[function.function][frame.target]
  PROVE  Flows(level, known, open, avail, <<frame>> \o Tail(s), function, scopes, fs)
  <1> DEFINE n == Len(s)
             t == <<frame>> \o Tail(s)
  <1>2. Levelled(level, s, function) /\ level[n] = function.function
    BY DEF Flows, Levelled
  <1>9. Depth(level, known, open, avail, t, scopes, fs, n)
    BY DroppedAt, SwappedAt, <1>2, HeldByFew DEF Depth, MergeWaits, Flows
  <1> QED
    BY DroppedAt, SwappedAt, <1>2, LevelsSwapped, <1>9, FlowsTop DEF t, Scopes, Flows

(* The head is done: its caller goes on where it is. *)
LEMMA FlowsDropped ==
  ASSUME NEW s, IsASequence(s), s # << >>, NEW avail, NEW function, NEW scopes, NEW fs,
         Flowing(avail, s, function, scopes, fs), Head(s).at # "body",
         NEW ts, Len(ts) = Len(scopes) - Scopes(Head(s)), \A i \in 1..Len(ts) : ts[i] = scopes[i]
  PROVE  Flowing(avail, Tail(s), function, ts, fs)
  <1>1. PICK level, known, open : Flows(level, known, open, avail, s, function, scopes, fs)
    BY DEF Flowing
  <1> DEFINE n == Len(s)
             t == Tail(s)
  <1>2. /\ n \in Nat \ {0} /\ n - 1 \in Nat /\ Len(t) = n - 1 /\ At(s, n) = Head(s)
        /\ \A d \in 1..n - 1 : At(t, d) = At(s, d)
    BY DroppedAt
  <1>3. Levelled(level, s, function) /\ Opens(open, s, scopes) /\ CodeFlows(fs, avail)
    BY <1>1 DEF Flows
  <1>4. LevelFits(level, s, n) /\ level[n - 1] = function.function /\ level[n] = function.function
    <2>2. LevelFits(level, s, n) /\ level[n] = function.function
      BY <1>3, <1>2 DEF Levelled
    <2> QED
      BY <1>2, <2>2 DEF LevelFits
  <1>5. Levelled(level, t, function)
    BY <1>3, <1>4, LevelsDropped DEF Levelled
  <1>7. open[n - 1] = Len(ts) /\ open[n - 1] \in Nat
    <2>1. n \in 1..n /\ n - 1 \in 0..n
      BY <1>2
    <2>2. open[n] = open[n - 1] + Scopes(Head(s)) /\ open[n] = Len(scopes) /\ open[n - 1] \in Nat
      BY <1>2, <1>3, OpensRise, <2>1 DEF Opens
    <2> QED
      BY <2>2 DEF Scopes
  <1>9. ASSUME NEW d \in 1..n - 1
        PROVE  Depth(level, known, open, avail, t, ts, fs, d)
    <2>1. d \in 1..n /\ d \in 0..n - 1 /\ n - 1 \in 0..n
      BY <1>2
    <2>3. open[d] \in Nat /\ open[d] <= Len(ts)
      BY <1>3, OpensRise, <1>7, <2>1
    <2>5. Fewer(scopes, ts, open[d])
      BY <1>7, <2>3, SameAreFewer
    <2> QED
      BY <1>2, <2>3, <2>5, <1>1, <1>3, <2>1, NothingTouched, DepthKept DEF SameDepth, Flows,
         Levelled
  <1>10. function.function # 0 => known[n - 1] \subseteq Here(avail, fs, function)
    BY <1>1, <1>2, <1>4 DEF Flows, Depth
  <1> HIDE DEF t
  <1>11. Flows(level, known, open, avail, t, function, ts, fs)
    BY <1>2, <1>3, <1>5, <1>7, <1>9, <1>10 DEF Flows, Opens
  <1> QED
    BY <1>11 DEF Flowing, t

(* A let binds a name in the innermost scope, its block's: what it names is   *)
(* defined here, and the block goes on from here.                             *)
LEMMA FlowsBound ==
  ASSUME NEW s, IsASequence(s), s # << >> => Head(s).at = "block",
         NEW avail, NEW function, NEW scopes, NEW fs, Flowing(avail, s, function, scopes, fs),
         IsASequence(scopes),
         NEW ts, NEW bindings, ScopesBound(scopes, ts, bindings),
         \A binding \in bindings :
           IsObjectBinding(binding) /\ function.function # 0 =>
             binding.register \in Here(avail, fs, function)
  PROVE  Flowing(avail, s, function, ts, fs)
  <1>1. PICK level, known, open : Flows(level, known, open, avail, s, function, scopes, fs)
    BY DEF Flowing
  <1> DEFINE n == Len(s)
             m == Len(scopes)
             here == Here(avail, fs, function)
             top == IF function.function # 0 THEN here ELSE known[n]
             knew == Raised(known, n, top)
  <1>2. n \in Nat /\ m \in Nat
    BY SequenceShape
  <1>3. Levelled(level, s, function) /\ Opens(open, s, scopes) /\ CodeFlows(fs, avail)
    BY <1>1 DEF Flows
  <1>4. knew[n] = top /\ \A d \in Nat : d # n => knew[d] = known[d]
    BY <1>2 DEF Raised
  <1> HIDE DEF knew
  <1>7. ASSUME NEW d \in 1..n, d # n
        PROVE  Depth(level, knew, open, avail, s, ts, fs, d)
    <2>1. /\ d \in Nat /\ d - 1 \in Nat /\ d - 1 # n /\ d \in 0..n - 1
          /\ n \in 1..n /\ n - 1 \in 0..n /\ s # << >>
      BY <1>2, <1>7, EmptySequence
    <2>3. open[n] = open[n - 1] + 1 /\ open[n] = m
      BY <2>1, DroppedAt, <1>3 DEF Scopes, Opens
    <2>4. open[d] \in Nat /\ open[d] < m
      BY <1>3, OpensRise, <2>1, <1>2, <2>3
    <2>5. \A i \in 1..open[d] : ts[i] = scopes[i]
      BY <1>2, <2>4 DEF ScopesBound
    <2>6. LevelFits(level, s, d) /\ Depth(level, known, open, avail, s, scopes, fs, d)
      BY <1>1, <1>3 DEF Flows, Levelled
    <2> QED
      BY <1>4, <1>7, <2>1, <2>4, <2>5, <2>6, SameAreFewer, NothingTouched, DepthKept DEF SameDepth
  <1>8. ASSUME n # 0
        PROVE  Depth(level, knew, open, avail, s, ts, fs, n)
    <2> SUFFICES ASSUME level[n] # 0
                 PROVE  Depth(level, knew, open, avail, s, ts, fs, n)
      BY DEF Depth
    <2>1. level[n] = function.function /\ function.function # 0 /\ knew[n] = here
      BY <1>3, <1>4 DEF Levelled
    <2>2. n \in 1..n /\ n - 1 \in Nat /\ n - 1 # n /\ s # << >>
      BY <1>2, <1>8, EmptySequence
    <2>4. SeenIn(scopes, m, here) /\ open[n] = m
      BY <1>1, <1>3, <2>1, TopFlows DEF Opens
    <2>5. SeenIn(ts, m, here)
      BY <1>2, <2>1, <2>4 DEF SeenIn, ScopesBound, Bound
    <2> QED
      BY <2>1, <2>2, DroppedAt, <2>4, <2>5, <1>1, <1>4, HeldByFew DEF Depth, Flows
  <1>10. Flows(level, knew, open, avail, s, function, ts, fs)
    BY <1>3, <1>4, <1>2, <1>7, <1>8 DEF Flows, ScopesBound, Opens
  <1> QED
    BY <1>10 DEF Flowing

LEMMA FlowsWritten ==
  ASSUME NEW s, IsASequence(s), NEW level, NEW known, NEW open, NEW avail, NEW function,
         NEW scopes, NEW fs, Flows(level, known, open, avail, s, function, scopes, fs),
         NEW gs, NEW new, CodeFlows(gs, new),
         \A d \in 1..Len(s) : Untouched(level, s, fs, gs, avail, new, d),
         NEW later, FunctionFormed(later), later.function = function.function, later.function # 0,
         known[Len(s)] \subseteq Here(new, gs, later)
  PROVE  Flows(level, known, open, new, s, later, scopes, gs)
  <1>3. ASSUME NEW d \in 1..Len(s)
        PROVE  Depth(level, known, open, new, s, scopes, gs, d)
    BY SequenceShape, OpensRise, SameAreFewer, DepthKept DEF SameDepth, Flows, Levelled
  <1> QED
    BY <1>3 DEF Flows, Levelled

LEMMA UntouchedByOne ==
  ASSUME NEW s, NEW level, NEW function, NEW fs, Separate(level, s, function, fs),
         NEW gs, NEW avail, NEW new,
         WrittenAt(fs, gs, avail, new, function.function, function.block)
  PROVE  \A d \in 1..Len(s) : Untouched(level, s, fs, gs, avail, new, d)
  <1> SUFFICES ASSUME NEW d \in 1..Len(s), level[d - 1] # 0, NEW c \in Pending(At(s, d))
               PROVE  /\ gs[level[d - 1]].blocks[c] = fs[level[d - 1]].blocks[c]
                      /\ new[level[d - 1]][c] = avail[level[d - 1]][c]
    BY DEF Untouched
  <1> DEFINE g == level[d - 1]
             f == function.function
             b == function.block
  <1>1. /\ g \in DOMAIN fs /\ c \in DOMAIN fs[g].blocks
        /\ ~(g = f /\ c = b)
    BY DEF Separate, Awaits, IsOpen
  <1>2. CASE g = f
    BY <1>1, <1>2 DEF WrittenAt
  <1>3. CASE g # f
    BY <1>1, <1>3 DEF OneFunction, WrittenAt
  <1> QED
    BY <1>2, <1>3

LEMMA OwnedHere ==
  ASSUME IInv, NEW level, Levelled(level, stack, current)
  PROVE  /\ Owned(level, stack, current, functions, diagnostics)
         /\ Separate(level, stack, current, functions)
  <1> DEFINE n == Len(stack)
  <1>1. PICK other : Levelled(other, stack, current)
                       /\ Owned(other, stack, current, functions, diagnostics)
    BY DEF IInv, Waiting
  <1>2. n \in Nat
    BY SequenceShape DEF IInv, StackFormed
  <1> DEFINE T == {k \in Nat : k <= n => other[n - k] = level[n - k]}
  <1>3. 0 \in T
    <2>1. n - 0 = n /\ other[n] = level[n]
      BY <1>1, <1>2 DEF Levelled
    <2> QED
      BY <2>1
  <1>4. ASSUME NEW k \in Nat, k \in T
        PROVE  k + 1 \in T
    <2> SUFFICES ASSUME k + 1 <= n
                 PROVE  other[n - (k + 1)] = level[n - (k + 1)]
      OBVIOUS
    <2> DEFINE d == n - k
    <2>1. d \in 1..n /\ other[d] = level[d] /\ n - (k + 1) = d - 1
      BY <1>2, <1>4
    <2> QED
      BY <2>1, <1>1 DEF LevelFits, Levelled
  <1>5. Nat \subseteq T
    BY <1>3, <1>4, SetInduction
  <1>6. ASSUME NEW d \in 1..n
        PROVE  other[d - 1] = level[d - 1]
    BY <1>2, <1>5
  <1> QED
    BY <1>1, <1>6, OwnedMoved DEF Owned, Separate, Awaits

(* An emitted instruction reads what is defined here and defines the register *)
(* allocated for it.                                                          *)
LEMMA FlowsEmitted ==
  ASSUME IInv, current.function # 0, NEW avail, NEW scopes,
         Flowing(avail, stack, current, scopes, functions),
         NEW instruction, instruction.result = NextRegister,
         Registers(InstructionOperands(instruction)) \subseteq Here(avail, functions, current),
         NEW later, FunctionFormed(later), later.function = current.function,
         later.block = current.block
  PROVE  LET gs == WithRegister(WithInstruction(functions, instruction))
         IN  /\ Flowing(avail, stack, later, scopes, gs)
             /\ NextRegister \in Here(avail, gs, later)
  <1> DEFINE gs == WithRegister(WithInstruction(functions, instruction))
             f == current.function
             b == current.block
             old == functions[f].blocks[b]
             here == Here(avail, functions, current)
  <1>1. PICK level, known, open : Flows(level, known, open, avail, stack, current, scopes, functions)
    BY DEF Flowing
  <1>3. f \in DOMAIN functions /\ b \in DOMAIN functions[f].blocks /\ old.terminator = NoTerminator
    BY CurrentIs DEF IsOpen
  <1>4. /\ OneBlock(functions, gs, f, b,
                    BlockOf(old.parameters, Append(old.instructions, instruction), old.terminator))
        /\ gs[f].register_count = functions[f].register_count + 1
    BY CurrentIs, InstructionWritten
  <1>5. Successors(old.terminator) = {} /\ TerminatorOperands(old.terminator) = {}
    BY <1>3 DEF NoTerminator, Successors, TerminatorOperands
  <1>6. CodeFlows(functions, avail) /\ here = AtEnd(old, avail[f][b])
    BY <1>1 DEF Flows, Here
  <1> DEFINE block == BlockOf(old.parameters, Append(old.instructions, instruction), old.terminator)
  <1>20. /\ f = current.function /\ b = current.block /\ old = functions[f].blocks[b]
         /\ here = Here(avail, functions, current)
    OBVIOUS
  <1> HIDE DEF gs, old, f, b, here
  <1>8. /\ CodeFlows(gs, avail)
        /\ AtEnd(gs[f].blocks[b], avail[f][b]) = AtEnd(old, avail[f][b]) \union {functions[f].register_count}
    <2>3. CodeFlows(functions, avail)
      BY <1>6
    <2>4. Instructing(functions, gs, avail, f, b, instruction)
      BY <1>4, <1>5, <1>20, <1>6, <1>3 DEF Instructing, NextRegister
    <2>6. /\ CodeFlows(gs, avail)
          /\ AtEnd(gs[f].blocks[b], avail[f][b])
               = AtEnd(functions[f].blocks[b], avail[f][b]) \union {functions[f].register_count}
      BY ONLY <2>3, <2>4, FlowsInstructed
    <2> QED
      BY <1>20, <2>6
  <1>9. Here(avail, gs, later) = here \union {NextRegister}
    BY <1>6, <1>8, <1>20 DEF Here, NextRegister
  <1>10. \A d \in 1..Len(stack) : Untouched(level, stack, functions, gs, avail, avail, d)
    <2>1. Separate(level, stack, current, functions)
      BY <1>1, OwnedHere DEF Flows
    <2>2. WrittenAt(functions, gs, avail, avail, current.function, current.block)
      BY <1>4, <1>20 DEF OneBlock, WrittenAt
    <2> QED
      BY ONLY <2>1, <2>2, UntouchedByOne
  <1>11. known[Len(stack)] \subseteq Here(avail, gs, later)
    BY <1>1, <1>9, <1>20 DEF Flows
  <1>12. Flows(level, known, open, avail, stack, later, scopes, gs)
    <2>1. IsASequence(stack)
      BY DEF IInv, StackFormed
    <2>2. later.function = current.function /\ later.function # 0 /\ FunctionFormed(later)
      OBVIOUS
    <2>3. CodeFlows(gs, avail)
      BY <1>8
    <2> QED
      BY ONLY <1>1, <1>10, <1>11, <2>1, <2>2, <2>3, FlowsWritten
  <1> QED
    BY <1>9, <1>12 DEF Flowing, gs

LEMMA AfterwardsAt ==
  ASSUME NEW avail, NEW f \in Nat, NEW last \in Nat, NEW here
  PROVE  LET new == Afterwards(avail, f, last, here)
         IN  /\ \A g \in Nat : g # f => new[g] = avail[g]
             /\ \A c \in 1..last : new[f][c] = avail[f][c]
             /\ \A c \in Nat : c > last => new[f][c] = here
  <1> DEFINE new == Afterwards(avail, f, last, here)
  <1> HIDE DEF new
  <1> QED
    BY DEF new, Afterwards

LEMMA FlowsEnds ==
  ASSUME NEW s, IsASequence(s), NEW level, NEW known, NEW open, NEW avail, NEW function, NEW scopes,
         NEW fs, Flows(level, known, open, avail, s, function, scopes, fs),
         Separate(level, s, function, fs), FunctionsFormed(fs),
         NEW gs, NEW f, NEW b, NEW here, NEW last, NEW t, NEW n, NEW later, NEW top,
         top = known[Len(s)], Ends(function, fs, gs, avail, top, f, b, here, last, t, n, later)
  PROVE  LET new == Afterwards(avail, f, last, here)
         IN  /\ Flows(level, known, open, new, s, later, scopes, gs)
             /\ Continues(new, avail, fs, gs, later, f, b, here, last, n)
  <1>20. /\ f = function.function /\ f # 0 /\ b = function.block /\ IsOpen(fs, f, b)
         /\ here = Here(avail, fs, function)
         /\ n \in Nat /\ last \in Nat /\ last = Len(fs[f].blocks) /\ DOMAIN fs[f].blocks = 1..last
         /\ EndedWith(fs, gs, f, b, t, n)
         /\ Registers(TerminatorOperands(t)) \subseteq here
         /\ \A c \in Successors(t) : c \in last + 1..last + n \/ (c \in 1..last /\ avail[f][c] \subseteq here)
         /\ FunctionFormed(later) /\ later.function = f
         /\ \/ later.block = b
            \/ later.block \in last + 1..last + n
            \/ later.block \in 1..last /\ later.block # b /\ known[Len(s)] \subseteq avail[f][later.block]
    BY DEF Ends
  <1> DEFINE new == Afterwards(avail, f, last, here)
             old == fs[f].blocks[b]
  <1>1. f \in DOMAIN fs /\ b \in 1..last /\ DOMAIN fs \subseteq Nat
    BY <1>20, SequenceShape DEF FunctionsFormed, IsOpen
  <1>2. /\ \A g \in Nat : g # f => new[g] = avail[g]
        /\ \A c \in 1..last : new[f][c] = avail[f][c]
        /\ \A c \in Nat : c > last => new[f][c] = here
    <2>1. f \in Nat /\ last \in Nat
      BY <1>20, <1>1
    <2> QED
      BY ONLY <2>1, AfterwardsAt
  <1> HIDE DEF new
  <1>3. \A c \in last + 1..last + n : c \in Nat /\ c > last /\ new[f][c] = here /\ c \in 1..last + n
    BY <1>20, <1>2
  <1>4. CodeFlows(fs, avail) /\ here = AtEnd(old, avail[f][b])
    BY <1>20 DEF Flows, Here
  <1>6. \A g \in DOMAIN fs : g # f => new[g] = avail[g]
    BY <1>20, <1>1, <1>2
  <1>7. CodeFlows(gs, new) /\ AtEnd(gs[f].blocks[b], new[f][b]) = here
    <2>4. \A c \in Successors(t) :
            c \in 1..last + n /\ new[f][c] \subseteq AtEnd(fs[f].blocks[b], avail[f][b])
      BY <1>20, <1>4, <1>2, <1>3
    <2>6. /\ CodeFlows(gs, new)
          /\ AtEnd(gs[f].blocks[b], new[f][b]) = AtEnd(fs[f].blocks[b], avail[f][b])
      <3>1. CodeFlows(fs, avail)
        BY <1>4
      <3>2. Ending(fs, gs, avail, new, f, b, t, n, last)
        BY <1>6, <1>20, <1>1, <1>3, <1>4, <2>4, <1>2 DEF Ending
      <3> QED
        BY ONLY <3>1, <3>2, FlowsEnded
    <2> QED
      BY <1>20, <1>4, <2>6
  <1>8. /\ OneFunction(fs, gs, f)
        /\ \A c \in 1..last : c # b => gs[f].blocks[c] = fs[f].blocks[c]
        /\ \A c \in last + 1..last + n : gs[f].blocks[c] = EmptyBlock
    BY <1>20 DEF EndedWith
  <1>9. \A d \in 1..Len(s) : Untouched(level, s, fs, gs, avail, new, d)
    <2>1. WrittenAt(fs, gs, avail, new, function.function, function.block)
      BY <1>2, <1>6, <1>8, <1>20 DEF WrittenAt
    <2>2. Separate(level, s, function, fs)
      OBVIOUS
    <2> QED
      BY ONLY <2>1, <2>2, UntouchedByOne
  <1>10. Defined(EmptyBlock) = {}
    BY <1>20, EmptySequence DEF EmptyBlock, Range, Defined, Defines
  <1>11. later.block = b => Here(new, gs, later) = here
    BY <1>20, <1>7 DEF Here
  <1>12. later.block \in last + 1..last + n => Here(new, gs, later) = here
    BY <1>20, <1>3, <1>8, <1>10 DEF Here, AtEnd
  <1>13. later.block \in 1..last /\ later.block # b =>
           Here(new, gs, later) = AtEnd(fs[f].blocks[later.block], avail[f][later.block])
    BY <1>20, <1>2, <1>8 DEF Here
  <1>14. known[Len(s)] \subseteq Here(new, gs, later)
    BY <1>20, <1>11, <1>12, <1>13 DEF Flows, AtEnd
  <1>15. Flows(level, known, open, new, s, later, scopes, gs)
    <2>1. later.function = function.function /\ later.function # 0 /\ FunctionFormed(later)
      BY <1>20
    <2>2. Flows(level, known, open, avail, s, function, scopes, fs) /\ IsASequence(s)
      OBVIOUS
    <2>3. CodeFlows(gs, new)
      BY <1>20, <1>7
    <2> QED
      BY ONLY <1>9, <1>14, <2>1, <2>2, <2>3, FlowsWritten
  <1> QED
    BY <1>15, <1>11, <1>12, <1>13 DEF new, Continues

(* A scope is open as long as its block is.                                   *)
LEMMA ScopeIsOpen ==
  ASSUME NEW s, IsASequence(s), s # << >>, NEW avail, NEW function, NEW scopes, NEW fs,
         Flowing(avail, s, function, scopes, fs), Scopes(Head(s)) = 1
  PROVE  Len(scopes) \in Nat \ {0}
  <1>1. PICK level, known, open : Flows(level, known, open, avail, s, function, scopes, fs)
    BY DEF Flowing
  <1> DEFINE n == Len(s)
  <1> QED
    BY DroppedAt, <1>1, OpensRise DEF Opens, Flows

LEMMA FlowsRewritten ==
  ASSUME NEW s, IsASequence(s), s # << >>, NEW level, NEW known, NEW open, NEW avail, NEW new,
         NEW function, NEW later, NEW scopes, NEW fs, NEW gs, NEW t,
         Flows(level, known, open, avail, s, function, scopes, fs),
         Rewritten(level, known, open, avail, new, s, t, function, later, scopes, fs, gs)
  PROVE  Flows(level, known, open, new, t, later, scopes, gs)
  <1> DEFINE n == Len(s)
  <1>2. Levelled(level, s, function) /\ Opens(open, s, scopes)
    BY DEF Flows
  <1>3. /\ Len(t) = n /\ \A d \in 1..n - 1 : At(t, d) = At(s, d)
        /\ Levelled(level, t, later) /\ Scopes(At(t, n)) = Scopes(Head(s))
        /\ CodeFlows(gs, new)
        /\ \A d \in 1..n - 1 : Untouched(level, s, fs, gs, avail, new, d)
        /\ later.function # 0 => known[n] \subseteq Here(new, gs, later)
        /\ Depth(level, known, open, new, t, scopes, gs, n)
    BY DEF Rewritten
  <1>5. ASSUME NEW d \in 1..n
        PROVE  Depth(level, known, open, new, t, scopes, gs, d)
    <2>1. CASE d = n
      BY <1>3, <2>1
    <2>2. CASE d # n
      <3>5. LevelFits(level, s, d) /\ Depth(level, known, open, avail, s, scopes, fs, d)
        BY <1>2 DEF Flows, Levelled
      <3> QED
        BY <1>3, DroppedAt, <2>2, <1>2, OpensRise, SameAreFewer, <3>5, DepthKept DEF SameDepth
    <2> QED
      BY <2>1, <2>2
  <1> QED
    BY <1>3, DroppedAt, <1>2, <1>5 DEF Flows, Opens

LEMMA SeparateStill ==
  ASSUME NEW level, NEW s, NEW function, NEW fs, Separate(level, s, function, fs),
         NEW t, \A d, b : Awaits(t, d, b) => Awaits(s, d, b),
         NEW later, later.function = function.function, later.block = function.block,
         NEW gs, \A g, c : IsOpen(gs, g, c) <=> IsOpen(fs, g, c)
  PROVE  Separate(level, t, later, gs)
  BY DEF Separate

(* The first branch that has a value gives the merge block its parameter.     *)
LEMMA FlowsParameter ==
  ASSUME IInv, stack # << >>, Frame.at = "branch", current.function # 0,
         NEW level, NEW known, NEW open, NEW avail, NEW scopes,
         Flows(level, known, open, avail, stack, current, scopes, functions),
         NEW frame, frame.at = "branch", frame.merge = Frame.merge, frame.target = Frame.target,
         Follows(frame) <=> Follows(Frame), frame.parameter = <<NextRegister>>,
         NEW later, FunctionFormed(later), later.function = current.function,
         later.block = current.block,
         NEW base, base = Merging(functions, current.function, Frame.merge, <<NextRegister>>)
  PROVE  /\ Flows(level, known, open, avail, <<frame>> \o Tail(stack), later, scopes, base)
         /\ Separate(level, <<frame>> \o Tail(stack), later, base)
         /\ FunctionsFormed(base) /\ IsOpen(base, later.function, later.block)
         /\ Here(avail, base, later) = Here(avail, functions, current)
         /\ DOMAIN base[later.function].blocks = DOMAIN functions[later.function].blocks
  <1> DEFINE n == Len(stack)
             f == current.function
             m == Frame.merge
             t == <<frame>> \o Tail(stack)
             r == NextRegister
  <1>1. /\ IsASequence(stack) /\ FunctionsFormed(functions) /\ IsOpen(functions, f, current.block)
        /\ \A d \in 1..n : FrameFormed(At(stack, d))
    BY CurrentIs DEF StackFormed
  <1>2. /\ n \in Nat \ {0} /\ At(stack, n) = Frame
    BY <1>1, DroppedAt DEF Frame
  <1>3. /\ Len(t) = n /\ At(t, n) = frame /\ \A d \in 1..n - 1 : At(t, d) = At(stack, d)
    BY <1>1, SwappedAt
  <1>4. Levelled(level, stack, current) /\ CodeFlows(functions, avail)
    BY DEF Flows
  <1>5. /\ Owned(level, stack, current, functions, diagnostics)
        /\ Separate(level, stack, current, functions)
    BY <1>4, OwnedHere
  <1>6. level[n] = f /\ level[n - 1] = f
    <2>2. level[n] = f /\ LevelFits(level, stack, n)
      BY <1>4, <1>2 DEF Levelled
    <2> QED
      BY <1>2, <2>2 DEF LevelFits
  <1>7. Awaits(stack, n, m)
    BY <1>2 DEF Awaits, Pending
  <1>8. IsOpen(functions, f, m) /\ m # current.block
    BY <1>5, <1>6, <1>7 DEF Separate
  <1>9. f \in DOMAIN functions /\ m \in DOMAIN functions[f].blocks
    BY <1>8 DEF IsOpen
  <1>10. /\ OneBlock(functions, base, f, m,
                     BlockOf(<<r>>, functions[f].blocks[m].instructions, functions[f].blocks[m].terminator))
         /\ base[f].register_count = functions[f].register_count + 1
         /\ FunctionsFormed(base) /\ \A g, c : IsOpen(base, g, c) <=> IsOpen(functions, g, c)
    <2> DEFINE x == <<r>>
    <2>1. base = Merging(functions, f, m, x)
      OBVIOUS
    <2>2. f = current.function
      OBVIOUS
    <2> HIDE DEF r, x, f, m
    <2>3. MergingDone(functions, Merging(functions, f, m, x), f, m, x)
      BY ONLY <1>1, <1>9, <2>2, ParametersWritten
    <2> QED
      BY <2>1, <2>3 DEF MergingDone, x
  <1>11. MergeWaits(Frame, known[n], functions[f].blocks, avail[f])
    BY <1>2, <1>6 DEF Flows, Depth
  <1>12. functions[f].blocks[m].instructions = << >> /\ functions[f].blocks[m].terminator = NoTerminator
    BY <1>8, <1>11 DEF MergeWaits, IsOpen
  <1>13. CodeFlows(base, avail)
    BY <1>9, <1>10, <1>12, <1>4, FlowsMerged DEF Merged, NextRegister
  <1>14. ASSUME NEW d \in 1..n - 1
         PROVE  Untouched(level, stack, functions, base, avail, avail, d)
    BY <1>2, <1>5, <1>6, <1>7, <1>10 DEF Untouched, Awaits, Separate, IsOpen, Owned, OneBlock,
       OneFunction
  <1>15. Levelled(level, t, later)
    <2>1. Levelled(level, t, current)
      BY <1>1, <1>4, LevelsSwapped DEF Frame
    <2> QED
      BY <2>1 DEF Levelled
  <1>16. Here(avail, base, later) = Here(avail, functions, current)
    BY <1>1, <1>8, <1>10 DEF OneBlock, IsOpen, Here
  <1>17. Depth(level, known, open, avail, t, scopes, base, n)
    <2>2. SeenIn(scopes, open[n], known[n]) /\ known[n - 1] \subseteq known[n]
      BY <1>2, <1>6 DEF Depth, Flows
    <2>3. base[f].blocks[m].instructions = << >> /\ base[f].blocks[m].parameters = <<r>>
      <3>1. base[f].blocks[m]
              = BlockOf(<<r>>, functions[f].blocks[m].instructions, functions[f].blocks[m].terminator)
        BY <1>10 DEF OneBlock
      <3> QED
        BY ONLY <1>12, <3>1 DEF BlockOf
    <2>4. frame.parameter = <<r>>
      OBVIOUS
    <2>5. frame.parameter[1] \in Range(base[f].blocks[m].parameters)
      <3> HIDE DEF r
      <3>1. r \in Range(<<r>>) /\ <<r>>[1] = r
        BY DEF Range
      <3> QED
        BY ONLY <2>3, <2>4, <3>1
    <2> HIDE DEF t
    <2> QED
      BY <1>3, <1>6, <2>2, <1>11, <2>3, <2>5, HeldByFew DEF Depth, MergeWaits
  <1>19. Rewritten(level, known, open, avail, avail, stack, t, current, later, scopes, functions, base)
    BY <1>3, <1>13, <1>14, <1>15, <1>17, <1>16 DEF Scopes, Frame, Rewritten, Flows
  <1>21. Separate(level, t, later, base)
    <2>2. ASSUME NEW d, NEW b, Awaits(t, d, b)
          PROVE  Awaits(stack, d, b)
      BY <1>3, <2>2, <1>2 DEF Awaits, Pending
    <2> HIDE DEF t
    <2> QED
      BY <1>5, <1>10, <2>2, SeparateStill
  <1> QED
    BY <1>10, <1>16, <1>1, <1>19, FlowsRewritten, <1>21 DEF OneBlock

LEMMA FlowsEntered ==
  ASSUME NEW s, IsASequence(s), NEW level, NEW known, NEW open, NEW avail, NEW function,
         NEW scopes, IsASequence(scopes), NEW fs, IsASequence(fs),
         Flows(level, known, open, avail, s, function, scopes, fs),
         Separate(level, s, function, fs),
         function.function # 0 => IsOpen(fs, function.function, function.block),
         NEW frame, NEW inner, NEW ts, NEW count, NEW type, NEW parameters,
         Range(parameters) = 0..count - 1,
         EntersWith(s, frame, function, inner, scopes, ts, fs, count)
  PROVE  Flowing(Newest(avail, Len(fs) + 1), <<frame>> \o Tail(s), inner, ts,
                 Append(fs, Code(type, count, parameters)))
  <1> DEFINE n == Len(s)
             m == Len(scopes)
             t == <<frame>> \o Tail(s)
             g == Len(fs) + 1
             new == Newest(avail, g)
             code == Code(type, count, parameters)
             gs == Append(fs, code)
             other == [level EXCEPT ![n] = inner.function]
             knew == Raised(known, n, 0..count - 1)
             opens == Raised(open, n, m + 1)
  <1>1. /\ s # << >> /\ Idle(Head(s)) /\ Scopes(Head(s)) = 0
        /\ frame.at = "body" /\ frame.saved = function
        /\ FunctionFormed(inner) /\ inner.function = g /\ inner.block = 1 /\ count \in Nat
    BY DEF EntersWith
  <1>2. /\ Len(ts) = m + 1 /\ \A i \in 1..m : ts[i] = scopes[i]
        /\ ts[m + 1].is_barrier
        /\ \A x \in DOMAIN ts[m + 1].symbols :
             IsObjectBinding(ts[m + 1].symbols[x]) => ts[m + 1].symbols[x].register \in 0..count - 1
    BY DEF EntersWith
  <1>3. m \in Nat /\ Len(fs) \in Nat /\ DOMAIN fs = 1..Len(fs) /\ g \in Nat \ {0}
    BY SequenceShape
  <1>4. /\ n \in Nat \ {0} /\ n - 1 \in Nat /\ Len(t) = n /\ At(t, n) = frame /\ At(s, n) = Head(s)
        /\ \A d \in 1..n - 1 : At(t, d) = At(s, d)
    BY <1>1, DroppedAt, SwappedAt
  <1>19. /\ n \in Nat /\ n - 1 \in Nat /\ n - 1 # n /\ n \in 1..n /\ n - 1 \in 0..n
         /\ \A d \in 1..n : d = n \/ d \in 1..n - 1
         /\ \A d \in 1..n - 1 :
              /\ d \in 1..n /\ d \in Nat /\ d - 1 \in Nat /\ d # n /\ d - 1 # n /\ d \in 0..n - 1
    <2>1. n \in Nat \ {0}
      BY <1>4
    <2> HIDE DEF n
    <2> QED
      BY ONLY <2>1
  <1>5. Levelled(level, s, function) /\ Opens(open, s, scopes) /\ CodeFlows(fs, avail)
    BY DEF Flows
  <1>6. level \in [Nat -> Nat] /\ level[n] = function.function /\ level[n - 1] = function.function
    <2>2. level \in [Nat -> Nat] /\ level[n] = function.function /\ LevelFits(level, s, n)
      BY <1>5, <1>4 DEF Levelled
    <2> QED
      BY <1>1, <1>4, <2>2 DEF LevelFits, Idle
  <1>7. Levelled(other, t, inner)
    BY <1>1, <1>3, <1>5, LevelsEntered DEF Idle
  <1>8. /\ other[n] = g /\ knew[n] = 0..count - 1 /\ opens[n] = m + 1
        /\ \A d \in Nat : d # n => other[d] = level[d] /\ knew[d] = known[d] /\ opens[d] = open[d]
    BY <1>1, <1>6, <1>19 DEF Raised
  <1> HIDE DEF other, knew, opens
  <1>9. /\ \A f \in DOMAIN fs : new[f] = avail[f]
        /\ new[g][1] = {}
    BY <1>3 DEF Newest
  <1> HIDE DEF new
  <1>10. /\ CodeFlows(gs, new)
         /\ g \in DOMAIN gs
         /\ \A f \in DOMAIN fs : f \in DOMAIN gs /\ gs[f] = fs[f]
         /\ gs[g] = code
         /\ DOMAIN code.blocks = {1} /\ code.blocks[1] = BlockOf(parameters, << >>, NoTerminator)
         /\ AtEnd(code.blocks[1], {}) = Range(parameters)
    <2>2. code = [type |-> type, register_count |-> count,
                  blocks |-> <<[EmptyBlock EXCEPT !.parameters = parameters]>>]
      BY DEF Code
    <2> HIDE DEF code
    <2>3. Appending(fs, avail, new, code, count, type, parameters)
      BY <1>1, <1>9, <2>2 DEF Appending
    <2> QED
      BY ONLY <1>5, <2>3, FlowsAppended
  <1> HIDE DEF gs, code
  <1>11. Here(new, gs, inner) = 0..count - 1
    BY <1>1, <1>9, <1>10 DEF Here
  <1>13. open[n] = m /\ open[n - 1] = m
    BY <1>4, <1>1, <1>5, OpensRise DEF Opens
  <1>14. Opens(opens, t, ts)
    <2>2. ASSUME NEW d \in 1..n
          PROVE  opens[d] = opens[d - 1] + Scopes(At(t, d))
      BY <1>1, <1>4, <1>8, <1>13, <1>19, <1>5 DEF Scopes, Opens
    <2> HIDE DEF t
    <2> QED
      BY <1>2, <1>4, <1>8, <1>5, <2>2 DEF Opens
  <1>15. ASSUME NEW d \in 1..n - 1
         PROVE  Depth(other, knew, opens, new, t, ts, gs, d)
    <2>1. d \in 1..n /\ d \in Nat /\ d - 1 \in Nat /\ d # n /\ d - 1 # n /\ d \in 0..n - 1 /\ n - 1 \in 0..n
      BY <1>19
    <2>3. open[d] \in Nat /\ open[d] <= m
      BY <1>5, OpensRise, <1>13, <2>1
    <2>4. Fewer(scopes, ts, open[d])
      BY <1>2, <1>3, <2>3, SameAreFewer
    <2>5. Untouched(level, s, fs, gs, avail, new, d)
      BY <2>1, <1>9, <1>10 DEF Untouched, Awaits, Separate, IsOpen
    <2> QED
      BY <1>4, <1>8, <2>1, <2>3, <2>4, <2>5, <1>5, DepthKept DEF SameDepth, Flows, Levelled
  <1>16. Depth(other, knew, opens, new, t, ts, gs, n)
    <2>2. Registers(Held(frame)) = {}
      BY <1>1, HeldByFew
    <2>3. level[n - 1] # 0 => known[n - 1] \subseteq Here(new, gs, frame.saved)
      <3> SUFFICES ASSUME level[n - 1] # 0
                   PROVE  known[n - 1] \subseteq Here(new, gs, frame.saved)
        OBVIOUS
      <3>1. function.function # 0 /\ level[n] # 0
        BY <1>6
      <3>6. Here(new, gs, function) = Here(avail, fs, function)
        BY <1>9, <1>10, <3>1 DEF Here, IsOpen
      <3> QED
        BY <1>1, <3>1, <1>4, <3>6 DEF Flows, Depth, Idle
    <2>4. n - 1 # n /\ other[n - 1] = level[n - 1] /\ knew[n - 1] = known[n - 1]
      BY <1>8, <1>19
    <2> HIDE DEF t
    <2> QED
      BY <1>1, <1>4, <1>8, <1>3, <1>2, <2>2, <2>3, <2>4 DEF Depth, SeenIn
  <1> QED
    BY <1>4, <1>7, <1>8, <1>10, <1>11, <1>14, <1>15, <1>16, <1>19 DEF Flowing, new, gs, code, Flows

(* A function is left: the one it interrupted is current again.               *)
LEMMA FlowsLeft ==
  ASSUME NEW s, IsASequence(s), s # << >>, NEW avail, NEW function, NEW scopes, NEW fs,
         Flowing(avail, s, function, scopes, fs), Head(s).at = "body",
         FunctionFormed(Head(s).saved),
         NEW ts, Len(ts) = Len(scopes) - 1, Fewer(scopes, ts, Len(ts))
  PROVE  Flowing(avail, Tail(s), Head(s).saved, ts, fs)
  <1>1. PICK level, known, open : Flows(level, known, open, avail, s, function, scopes, fs)
    BY DEF Flowing
  <1> DEFINE n == Len(s)
             t == Tail(s)
             back == Head(s).saved
  <1>2. /\ n \in Nat \ {0} /\ Len(t) = n - 1 /\ At(s, n) = Head(s)
        /\ \A d \in 1..n - 1 : At(t, d) = At(s, d)
    BY DroppedAt
  <1>3. Levelled(level, s, function) /\ Opens(open, s, scopes) /\ CodeFlows(fs, avail)
    BY <1>1 DEF Flows
  <1>4. /\ n \in 1..n /\ n - 1 \in 0..n /\ n - 1 \in Nat /\ n - 1 \in 0..n - 1
        /\ \A d \in 1..n - 1 : d \in 1..n /\ d \in 0..n - 1
    <2>1. n \in Nat \ {0}
      BY <1>2
    <2> HIDE DEF n
    <2> QED
      BY ONLY <2>1
  <1>5. /\ level[n] # 0 /\ back.function = level[n - 1]
        /\ level[n - 1] = 0 => back = NoFunction
    BY <1>2, <1>3, <1>4 DEF Levelled, LevelFits
  <1>6. Levelled(level, t, back)
    BY <1>5, <1>3, LevelsDropped
  <1>7. \A k \in 0..n : open[k] \in Nat /\ \A d \in 0..k : open[d] \in Nat /\ open[d] <= open[k]
    BY <1>3, OpensRise
  <1>8. open[n - 1] = Len(ts) /\ open[n - 1] \in Nat
    BY <1>2, <1>3, <1>4, <1>7 DEF Opens, Scopes
  <1>10. ASSUME NEW d \in 1..n - 1
         PROVE  Depth(level, known, open, avail, t, ts, fs, d)
    <2>2. open[d] \in Nat /\ open[d] <= Len(ts)
      BY <1>4, <1>7, <1>8
    <2>3. Fewer(scopes, ts, open[d])
      BY <1>8, <2>2 DEF Fewer
    <2> QED
      BY <1>2, <2>2, <2>3, <1>1, <1>3, <1>4, NothingTouched, DepthKept DEF SameDepth, Flows,
         Levelled
  <1> HIDE DEF t
  <1>12. Flows(level, known, open, avail, t, back, ts, fs)
    BY <1>2, <1>3, <1>6, <1>4, <1>8, <1>10, <1>1, <1>5 DEF Flows, Opens, Depth
  <1> QED
    BY <1>12 DEF Flowing, t

(* What is left when a diagnostic has unwound the stack.                      *)
LEMMA FlowsUnwound ==
  ASSUME NEW avail, NEW scopes, IsASequence(scopes), NEW fs, CodeFlows(fs, avail)
  PROVE  Flowing(avail, << >>, NoFunction, scopes, fs)
  <1> DEFINE level == [d \in Nat |-> 0]
             open == [d \in Nat |-> Len(scopes)]
  <1>3. level \in [Nat -> Nat] /\ level[0] = 0
    OBVIOUS
  <1> HIDE DEF level
  <1>5. open[0] = Len(scopes)
    OBVIOUS
  <1> HIDE DEF open
  <1>7. Flows(level, level, open, avail, << >>, NoFunction, scopes, fs)
    BY EmptySequence, SequenceShape, <1>3, <1>5 DEF Flows, NoFunction, FunctionFormed, Opens,
       Levelled
  <1> QED
    BY <1>7 DEF Flowing

----------------------------------------------------------------------------

LEMMA OperandStaysGood ==
  ASSUME NEW pool, NEW new, NEW fs, NEW gs, Larger(pool, new, fs, gs)
  PROVE  /\ \A v : GoodValue(v, pool, fs) => GoodValue(v, new, gs)
         /\ \A o : GoodOperand(o, pool, fs) => GoodOperand(o, new, gs)
         /\ \A b : BindingGood(b, pool, fs) => BindingGood(b, new, gs)
         /\ \A frame : FrameGood(frame, pool, fs) => FrameGood(frame, new, gs)
         /\ \A c : ControlGood(c, pool, fs) => ControlGood(c, new, gs)
         /\ ScalarsIn(pool) => ScalarsIn(new)
  BY DEF GoodValue, Larger, GoodOperand, BindingGood, FrameGood, ControlGood, ScalarsIn

LEMMA BlockStaysGood ==
  ASSUME NEW pool, NEW new, NEW fs, NEW gs, Larger(pool, new, fs, gs)
  PROVE  /\ \A t : TerminatorGood(t, pool, fs) => TerminatorGood(t, new, gs)
         /\ \A i : InstructionGood(i, pool, fs) => InstructionGood(i, new, gs)
         /\ \A block : BlockGood(block, pool, fs) => BlockGood(block, new, gs)
  <1>3. \A i : InstructionGood(i, pool, fs) => InstructionGood(i, new, gs)
    BY OperandStaysGood DEF InstructionGood, Larger
  <1> QED
    BY OperandStaysGood, <1>3 DEF BlockGood, TerminatorGood

LEMMA CodeStaysGood ==
  ASSUME NEW pool, NEW new, NEW fs, NEW gs, Larger(pool, new, fs, gs), CodeGood(fs, pool),
         \A f \in DOMAIN gs : \A b \in DOMAIN gs[f].blocks :
           \/ f \in DOMAIN fs /\ b \in DOMAIN fs[f].blocks /\ gs[f].blocks[b] = fs[f].blocks[b]
           \/ BlockGood(gs[f].blocks[b], new, gs)
  PROVE  CodeGood(gs, new)
  BY BlockStaysGood DEF CodeGood

LEMMA TableStaysGood ==
  ASSUME NEW pool, NEW new, NEW fs, NEW gs, Larger(pool, new, fs, gs), NEW t, TableGood(t, pool, fs)
  PROVE  TableGood(t, new, gs)
  BY OperandStaysGood DEF TableGood

LEMMA NothingLarger ==
  ASSUME NEW pool, NEW fs
  PROVE  Larger(pool, pool, fs, fs)
  BY DEF Larger

LEMMA StackStaysGood ==
  ASSUME IsASequence(stack), NEW pool, NEW fs, StackGood(stack, pool, fs), StackMoves(pool, fs)
  PROVE  StackGood(stack', pool, fs)
  <1>1. CASE stack' = stack
    BY <1>1 DEF StackGood
  <1>2. CASE stack' = << >>
    BY <1>2, EmptySequence DEF StackGood
  <1>3. ASSUME NEW frame, FrameGood(frame, pool, fs), stack' = Pushed(frame)
        PROVE  StackGood(stack', pool, fs)
    <2>1. /\ Len(stack') = Len(stack) + 1 /\ At(stack', Len(stack) + 1) = frame
          /\ \A d \in 1..Len(stack) : At(stack', d) = At(stack, d)
      BY <1>3, PushedAt DEF Pushed
    <2> QED
      BY <1>3, <2>1, SequenceShape DEF StackGood
  <1>4. ASSUME stack # << >>, NEW frame, FrameGood(frame, pool, fs), stack' = Replaced(frame)
        PROVE  StackGood(stack', pool, fs)
    <2>2. \A d \in 1..Len(stack) : d = Len(stack) \/ d \in 1..Len(stack) - 1
      BY SequenceShape
    <2> QED
      BY <1>4, SwappedAt, <2>2 DEF StackGood, Replaced
  <1>5. CASE stack # << >> /\ stack' = Tail(stack)
    BY <1>5, DroppedAt, SequenceShape DEF StackGood
  <1> QED
    BY <1>1, <1>2, <1>3, <1>4, <1>5 DEF StackMoves

LEMMA StepMade ==
  ASSUME IInv, WellMade, Larger(types, types', functions, functions'),
         CodeGood(functions', types'),
         table' = table \/ TableGood(table', types', functions'),
         function_table' = function_table \/ NamesGood(function_table', functions'),
         StackMoves(types', functions'), ControlGood(control', types', functions')
  PROVE  WellMade'
  BY OperandStaysGood, TableStaysGood, CurrentIs, StackStaysGood DEF WellMade, NamesGood, Larger,
     StackGood

----------------------------------------------------------------------------

LEMMA ConstantIsVisible ==
  ASSUME NEW operand, ~IsRegister(operand)
  PROVE  Registers({operand}) = {} /\ Visible(operand)
  BY DEF Registers, Visible

LEMMA ValueIsVisible ==
  ASSUME control.do = "value"
  PROVE  Visible(control.value)
  BY DEF Visible, Carried

LEMMA GoodIsNoRegister ==
  ASSUME NEW v, NEW pool, NEW fs, GoodValue(v, pool, fs)
  PROVE  ~IsRegister(v) /\ ~IsObjectBinding(v)
  BY DEF GoodValue, IsRegister, IsObjectBinding

LEMMA HeldAreVisible ==
  ASSUME NEW operands, \A o \in operands : Visible(o), NEW avail,
         Flowing(avail, stack, current, table.scopes, functions),
         Carried(control, avail, functions, current), current.function # 0
  PROVE  Registers(operands) \subseteq Here(avail, functions, current)
  BY DEF Registers, Visible

LEMMA NoValueCarried ==
  ASSUME NEW c, c.do # "value", NEW avail, NEW fs, NEW function
  PROVE  Carried(c, avail, fs, function)
  BY DEF Carried

LEMMA TableIs ==
  ASSUME WellMade
  PROVE  TableFormed(table) /\ IsASequence(table.scopes)
  BY DEF WellMade, TableGood, TableFormed

LEMMA SoundHalts ==
  ASSUME IInv, Sound, NEW how, Halt(how)
  PROVE  Sound'
  BY NothingLarger, StepMade, NoValueCarried DEF Halt, unit, ControlGood, Sound, WellMade,
     StackMoves, Flow

LEMMA SoundFails ==
  ASSUME IInv, Sound, Fail
  PROVE  Sound'
  <1>1. /\ current' = NoFunction /\ stack' = << >> /\ control' = NextStatement
        /\ UNCHANGED <<table, types, functions, function_table>>
    BY UnwoundToTop DEF Fail, unit
  <1> QED
    BY <1>1, NothingLarger, StepMade, TableIs, FlowsUnwound, NoValueCarried DEF Sound, ControlGood,
       WellMade, StackMoves, NextStatement, Flow, Flowing, Flows

(* What a step that leaves the unit and the symbols alone keeps. *)
LEMMA SoundStep ==
  ASSUME IInv, Sound, UNCHANGED <<table, current, unit>>,
         StackMoves(types, functions), ControlGood(control', types, functions),
         \E avail :
           /\ Flowing(avail, stack', current, table.scopes, functions)
           /\ Carried(control', avail, functions, current)
  PROVE  Sound'
  BY NothingLarger, StepMade DEF unit, Sound, WellMade, Flow

LEMMA ReturnedCarried ==
  ASSUME Returned, NEW avail, Flowing(avail, stack, current, table.scopes, functions),
         Carried(control, avail, functions, current)
  PROVE  Carried(control', avail, functions, current)
  BY DEF Returned, Carried, Visible

LEMMA ReturnedGood ==
  ASSUME Returned
  PROVE  ControlGood(control', types, functions)
  BY DEF Returned, ControlGood

LEMMA SoundStays ==
  ASSUME IInv, Sound, UNCHANGED <<table, current, unit>>, stack' = stack, Returned
  PROVE  Sound'
  BY ReturnedCarried, ReturnedGood, SoundStep DEF Sound, Flow, StackMoves

LEMMA SoundYields ==
  ASSUME IInv, Sound, NEW operand, Yield(operand), Visible(operand),
         GoodOperand(operand, types, functions)
  PROVE  Sound'
  BY SoundStays DEF Yield, ValueOf, Returned

LEMMA EmptyHeld ==
  ASSUME NEW frame, frame.at \notin {"right", "argument"},
         frame.at = "condition" => frame.parameter = << >>, NEW pool, NEW fs
  PROVE  FrameGood(frame, pool, fs)
  BY DEF FrameGood, Held

LEMMA SoundStarts ==
  ASSUME IInv, Sound, NEW frame, NEW expression, Start(frame, expression),
         Ordinary(frame), frame.at # "right", Scopes(frame) = 0,
         frame.at = "condition" => frame.parameter = << >>
  PROVE  Sound'
  <1>2. PICK avail : Flowing(avail, stack, current, table.scopes, functions)
    BY DEF Sound, Flow
  <1>5. Flowing(avail, <<frame>> \o stack, current, table.scopes, functions)
    BY <1>2, CurrentIs, TableIs, SequenceShape, FlowsPushed DEF Sound
  <1> QED
    BY <1>5, EmptyHeld, NoValueCarried, SoundStep DEF Pushed, StackMoves, ControlGood, Ordinary,
       Start, EvaluateOf

LEMMA SoundSwaps ==
  ASSUME IInv, Sound, UNCHANGED <<table, current, unit>>, Frame.at # "body",
         NEW frame, SwapsFor(frame)
  PROVE  Sound'
  BY CurrentIs, HeldAreVisible, FlowsSwapped, NoValueCarried, SoundStep DEF SwapsFor, Sound, Flow,
     Frame, Replaced, StackMoves, ControlGood

LEMMA SoundDrops ==
  ASSUME IInv, Sound, UNCHANGED <<table, current, unit>>, stack # << >>, stack' = Tail(stack),
         Frame.at # "body", Scopes(Frame) = 0, Returned
  PROVE  Sound'
  BY CurrentIs, TableIs, SequenceShape, FlowsDropped, ReturnedCarried, ReturnedGood, SoundStep DEF
     Sound, Flow, Frame, StackMoves

LEMMA SoundGives ==
  ASSUME IInv, Sound, UNCHANGED <<table, current, unit>>, stack # << >>,
         Frame.at # "body", Scopes(Frame) = 0,
         NEW operand, Give(operand), Visible(operand), GoodOperand(operand, types, functions)
  PROVE  Sound'
  BY SoundDrops DEF Give, ValueOf, Returned

(* What is written into one block is good with it.                            *)
LEMMA WrittenIsGood ==
  ASSUME NEW fs, NEW pool, CodeGood(fs, pool), NEW gs, NEW f, NEW b, NEW block,
         OneBlock(fs, gs, f, b, block), BlockGood(block, pool, fs)
  PROVE  Larger(pool, pool, fs, gs) /\ CodeGood(gs, pool)
  <1>1. Larger(pool, pool, fs, gs)
    BY DEF Larger, OneBlock, OneFunction
  <1>2. BlockGood(block, pool, gs)
    BY <1>1, BlockStaysGood
  <1>3. ASSUME NEW g \in DOMAIN gs, NEW c \in DOMAIN gs[g].blocks
        PROVE  \/ g \in DOMAIN fs /\ c \in DOMAIN fs[g].blocks /\ gs[g].blocks[c] = fs[g].blocks[c]
               \/ BlockGood(gs[g].blocks[c], pool, gs)
    BY <1>2, <1>3 DEF OneBlock, OneFunction
  <1> QED
    BY <1>1, <1>3, CodeStaysGood

LEMMA BlockGoodWith ==
  ASSUME NEW pool, NEW fs, NEW block, BlockGood(block, pool, fs), NEW parameters
  PROVE  /\ \A i : InstructionGood(i, pool, fs) =>
              BlockGood(BlockOf(parameters, Append(block.instructions, i), block.terminator), pool, fs)
         /\ \A t : TerminatorGood(t, pool, fs) =>
              BlockGood(BlockOf(parameters, block.instructions, t), pool, fs)
  BY AppendedSequence, SequenceShape DEF BlockGood, BlockOf

LEMMA SoundEmits ==
  ASSUME IInv, Sound, NEW instruction, NEW type, Emits(instruction, type)
  PROVE  Sound'
  <1>1. /\ stack # << >> /\ Frame.at # "body" /\ Scopes(Frame) = 0 /\ current.function # 0
        /\ functions' = WithRegister(WithInstruction(functions, instruction))
        /\ current' = Allocated(type) /\ UNCHANGED <<table, types, function_table>>
        /\ InstructionGood(instruction, types, functions) /\ instruction.result = NextRegister
        /\ \A o \in InstructionOperands(instruction) : Visible(o)
    BY DEF Emits
  <1>2. stack' = Tail(stack) /\ control' = ValueOf(Register(NextRegister))
    BY DEF Emits, Give
  <1>3. /\ IsASequence(stack) /\ FunctionFormed(current)
        /\ FunctionsFormed(functions) /\ IsOpen(functions, current.function, current.block)
        /\ IsASequence(table.scopes)
    BY <1>1, CurrentIs, TableIs DEF Sound
  <1>4. PICK avail : /\ Flowing(avail, stack, current, table.scopes, functions)
                     /\ Carried(control, avail, functions, current)
    BY DEF Sound, Flow
  <1>7. /\ Flowing(avail, stack, current', table.scopes, functions')
        /\ NextRegister \in Here(avail, functions', current')
    BY <1>1, <1>4, <1>3, HeldAreVisible, FlowsEmitted DEF FunctionFormed, Allocated
  <1>8. Flow'
    <2>4. Carried(control', avail, functions', current')
      BY <1>2, <1>7 DEF Carried, ValueOf, Registers, Register, IsRegister
    <2> QED
      BY <1>1, <1>2, <1>3, <1>7, SequenceShape, FlowsDropped, <2>4 DEF Flow, Frame
  <1>9. WellMade'
    <2> DEFINE f == current.function
               b == current.block
               old == functions[f].blocks[b]
               block == BlockOf(old.parameters, Append(old.instructions, instruction), old.terminator)
    <2>1. OneBlock(functions, functions', f, b, block)
      BY <1>1, <1>3, InstructionWritten
    <2>3. BlockGood(block, types, functions)
      BY <1>1, <1>3, BlockGoodWith DEF Sound, WellMade, CodeGood, IsOpen
    <2> HIDE DEF f, b, block
    <2> QED
      BY <1>1, <2>1, <2>3, WrittenIsGood, <1>2, StepMade DEF Sound, StackMoves, ControlGood,
         ValueOf, GoodOperand, Register, IsRegister, WellMade
  <1> QED
    BY <1>8, <1>9 DEF Sound

(* A type is added to the pool.                                               *)
LEMMA SoundGivesType ==
  ASSUME IInv, TypesHold, Sound, stack # << >>, Frame.at # "body", Scopes(Frame) = 0,
         NEW type, GiveType(type)
  PROVE  Sound'
  <1> DEFINE given == Constant(TypeType, TypeIn(types', type))
  <1>1. /\ types' = Interned(types, type) /\ stack' = Tail(stack) /\ control' = ValueOf(given)
        /\ UNCHANGED <<table, current, functions, function_table>>
    BY DEF GiveType, Give
  <1>2. Larger(types, types', functions, functions')
    BY <1>1, InternedGrows DEF TypesHold, Grown, Larger
  <1>3. ~IsRegister(given) /\ GoodOperand(given, types', functions')
    BY <1>2, OperandStaysGood, ScalarGood, GoodIsNoRegister DEF Sound, WellMade, GoodOperand
  <1> HIDE DEF given
  <1>6. Flow'
    <2>1. PICK avail : Flowing(avail, stack, current, table.scopes, functions)
      BY DEF Sound, Flow
    <2>4. Flowing(avail, Tail(stack), current, table.scopes, functions)
      BY <2>1, CurrentIs, TableIs, SequenceShape, FlowsDropped DEF Frame, Sound
    <2> QED
      BY <1>1, <2>4, <1>3, ConstantIsVisible DEF Flow, Carried, ValueOf
  <1> QED
    BY <1>1, <1>2, CodeStaysGood, <1>3, StepMade, <1>6 DEF Sound, WellMade, StackMoves, ControlGood,
       ValueOf

LEMMA ValuesAreVisible ==
  ASSUME NEW v, NEW pool, NEW fs, GoodValue(v, pool, fs)
  PROVE  Visible(v) /\ GoodOperand(v, pool, fs)
  BY GoodIsNoRegister, ConstantIsVisible DEF GoodOperand

LEMMA ControlIsGood ==
  ASSUME Sound, control.do = "value"
  PROVE  /\ Visible(control.value) /\ GoodOperand(control.value, types, functions)
         /\ ~IsRegister(control.value) => GoodValue(control.value, types, functions)
  BY ValueIsVisible DEF Sound, WellMade, ControlGood, GoodOperand

----------------------------------------------------------------------------

(* The actions.                                                               *)

LEMMA StatementsAreSound ==
  ASSUME IInv, Sound,
         TopLevelStatement \/ EndOfUnit \/ UnknownRegister \/ LetStatement \/ WhileStatement
           \/ ReturnStatement \/ ExpressionStatement \/ Discard
  PROVE  Sound'
  <1>1. CASE TopLevelStatement
    BY <1>1, SoundStays DEF TopLevelStatement, Returned
  <1>2. CASE EndOfUnit \/ UnknownRegister
    BY <1>2, SoundHalts DEF EndOfUnit, UnknownRegister
  <1>3. CASE LetStatement
    <2> DEFINE let == control.statement
               frame == [at |-> "let", name |-> let.name, mutable |-> let.mutable]
    <2>1. Fail \/ Start(frame, let.initializer)
      BY <1>3 DEF LetStatement
    <2>2. frame.at = "let" /\ Ordinary(frame) /\ Scopes(frame) = 0
      BY DEF Ordinary, Scopes
    <2> HIDE DEF frame
    <2> QED
      BY <2>1, <2>2, SoundFails, SoundStarts
  <1>4. CASE WhileStatement
    BY <1>4, SoundFails DEF WhileStatement
  <1>5. CASE ReturnStatement \/ ExpressionStatement
    <2>3. PICK at \in {"return", "expression"} : \E expression : Start([at |-> at], expression)
      BY <1>5 DEF ReturnStatement, ExpressionStatement
    <2> DEFINE frame == [at |-> at]
    <2> HIDE DEF frame
    <2> QED
      BY <2>3, SoundStarts DEF Ordinary, Scopes
  <1>6. CASE Discard
    BY <1>6, ReturnedTo, SoundDrops DEF Discard, Scopes, Returned, NextStatement
  <1> QED
    BY <1>1, <1>2, <1>3, <1>4, <1>5, <1>6

LEMMA LiteralIsSound ==
  ASSUME IInv, Sound, NEW literal, NEW negate, IntegerLiteral(literal, negate)
  PROVE  Sound'
  <1> DEFINE value == Constant(literal.type, IF negate THEN -literal.digits ELSE literal.digits)
  <1>1. Fail \/ (literal.type \in IntegerTypes /\ Yield(value))
    BY DEF IntegerLiteral
  <1>2. ASSUME literal.type \in IntegerTypes
        PROVE  GoodValue(value, types, functions)
    BY <1>2, ScalarGood DEF IntegerTypes, Sound, WellMade
  <1> HIDE DEF value
  <1> QED
    BY <1>1, <1>2, ValuesAreVisible, SoundFails, SoundYields

LEMMA StartsAreSound ==
  ASSUME IInv, Sound,
         PrefixExpression \/ PrefixBracketExpression \/ BinaryExpression \/ CallExpression
           \/ IfExpression \/ FnExpression
  PROVE  Sound'
  <1> DEFINE e == control.expression
             prefix == [at |-> "operand", op |-> e.op]
             bracket == [at |-> "element", size |-> e.size]
             binary == [at |-> "left", op |-> e.op, right |-> e.right]
             call == [at |-> "callee", rest |-> e.arguments]
             if == [at |-> "condition", part |-> 1, parts |-> e.parts, else |-> e.else, merge |-> 0,
                    target |-> 0, type |-> 0, parameter |-> << >>]
             fn == [at |-> "type", fn |-> e, types |-> << >>]
             Starts(frame) == /\ Ordinary(frame) /\ frame.at # "right" /\ Scopes(frame) = 0
                              /\ frame.at = "condition" => frame.parameter = << >>
  <1>1. Starts(prefix) /\ Starts(bracket)
    BY DEF Ordinary, Scopes
  <1>2. Starts(binary) /\ Starts(call)
    BY DEF Ordinary, Scopes
  <1>3. Starts(if) /\ Starts(fn)
    BY DEF Ordinary, Scopes
  <1>4. \/ \E frame \in {prefix, bracket, binary, call, if, fn} : \E x : Start(frame, x)
        \/ \E operand : IntegerLiteral(operand, TRUE)
    BY DEF PrefixExpression, PrefixBracketExpression, BinaryExpression, CallExpression,
       IfExpression, FnExpression
  <1> HIDE DEF prefix, bracket, binary, call, if, fn
  <1> QED
    BY <1>1, <1>2, <1>3, <1>4, LiteralIsSound, SoundStarts

(* A name's binding is a constant of the unit or a register of the function.  *)
LEMMA FoundIsSound ==
  ASSUME IInv, Sound, NEW name, Lookup(table, name) # << >>,
         NEW binding, binding = Lookup(table, name)[1]
  PROVE  /\ IsObjectBinding(binding) => Visible(Register(binding.register))
         /\ ~IsObjectBinding(binding) => GoodValue(binding, types, functions)
  <1> DEFINE found == {i \in Searched(table) : name \in DOMAIN table.scopes[i].symbols}
  <1>2. CASE found = {}
    BY <1>2, GoodIsNoRegister DEF Lookup, TableGood, Sound, WellMade
  <1>3. CASE found # {}
    <2> DEFINE i == CHOOSE i \in found : \A j \in found : j <= i
    <2>4. binding = table.scopes[i].symbols[name]
      BY <1>3 DEF Lookup
    <2>5. i \in DOMAIN table.scopes /\ name \in DOMAIN table.scopes[i].symbols /\ i \in Searched(table)
      <3>1. Len(table.scopes) \in Nat /\ found \subseteq 1..Len(table.scopes)
        BY TableIs, SequenceShape DEF Searched, Sound
      <3>2. \E k \in found : \A j \in found : j <= k
        BY <3>1, <1>3, GreatestPosition
      <3>3. i \in found
        BY <3>2
      <3> QED
        BY <3>3 DEF Searched
    <2> HIDE DEF i
    <2>7. ASSUME IsObjectBinding(binding), current.function # 0, NEW avail,
                 Flowing(avail, stack, current, table.scopes, functions)
          PROVE  binding.register \in Here(avail, functions, current)
      <3>2. SeenIn(table.scopes, Len(table.scopes), Here(avail, functions, current))
        BY CurrentIs, <2>7, TopFlows DEF Flowing
      <3> QED
        BY <2>4, <2>5, <2>7, TableIs, SequenceShape, <3>2 DEF SeenIn, Searched, Sound
    <2> QED
      BY <2>4, <2>5, <2>7 DEF BindingGood, Visible, Registers, Register, IsRegister, TableGood,
         Sound, WellMade
  <1> QED
    BY <1>2, <1>3

LEMMA SimpleExpressionsAreSound ==
  ASSUME IInv, TypesHold, Sound,
         IntLiteral \/ ParenExpression \/ PostfixExpression \/ IndexExpression \/ Identifier
           \/ RecurseExpression
  PROVE  Sound'
  <1>1. CASE IntLiteral
    BY <1>1, LiteralIsSound DEF IntLiteral
  <1>2. CASE ParenExpression
    BY <1>2, SoundStays DEF ParenExpression, Returned, EvaluateOf
  <1>3. CASE PostfixExpression \/ IndexExpression
    BY <1>3, SoundFails, SoundHalts DEF PostfixExpression, IndexExpression
  <1>4. CASE Identifier
    <2> DEFINE name == control.expression.name
               binding == Lookup(table, name)[1]
    <2>1. \/ Fail
          \/ /\ Lookup(table, name) # << >>
             /\ \/ IsObjectBinding(binding) /\ Yield(Register(binding.register))
                \/ ~IsObjectBinding(binding) /\ Yield(binding)
      BY <1>4 DEF Identifier
    <2>3. Lookup(table, name) # << >> =>
            /\ IsObjectBinding(binding) => Visible(Register(binding.register))
            /\ ~IsObjectBinding(binding) => GoodValue(binding, types, functions)
      BY FoundIsSound
    <2> HIDE DEF name, binding
    <2> QED
      BY <2>1, <2>3, SoundFails, SoundYields, ValuesAreVisible DEF GoodOperand, Register, IsRegister
  <1>5. CASE RecurseExpression
    <2> DEFINE f == current.function
               value == Constant(functions[f].type, f)
    <2>1. Fail \/ (f # 0 /\ Yield(value))
      BY <1>5 DEF RecurseExpression, IsTopLevel
    <2>2. ASSUME f # 0
          PROVE  GoodValue(value, types, functions)
      BY <2>2, CurrentIs DEF TypesHold, FunctionsHaveTypes, IsOpen, GoodValue, Constant
    <2> HIDE DEF f, value
    <2> QED
      BY <2>1, <2>2, SoundFails, SoundYields, ValuesAreVisible
  <1> QED
    BY <1>1, <1>2, <1>3, <1>4, <1>5

(* Symbols added to the innermost scope or to the global one.                 *)
LEMMA TableGoodWith ==
  ASSUME NEW pool, NEW fs, NEW t, TableGood(t, pool, fs), NEW new, TableFormed(new),
         NEW bindings, \A b \in bindings : BindingGood(b, pool, fs),
         ScopesBound(t.scopes, new.scopes, bindings),
         Bound(t.global, new.global, bindings),
         new.global = t.global \/ \A b \in bindings : GoodValue(b, pool, fs)
  PROVE  TableGood(new, pool, fs)
  BY SequenceShape DEF TableGood, Bound, ScopesBound, TableFormed

LEMMA DeclaredIsGood ==
  ASSUME NEW pool, NEW fs, NEW t, TableGood(t, pool, fs), NEW name, NEW binding,
         BindingGood(binding, pool, fs),
         t.scopes = << >> => GoodValue(binding, pool, fs)
  PROVE  TableGood(Declared(t, name, binding), pool, fs)
  <1> DEFINE new == Declared(t, name, binding)
  <1>1. /\ TableFormed(new) /\ ScopesBound(t.scopes, new.scopes, {binding})
        /\ Bound(t.global, new.global, {binding})
        /\ t.scopes # << >> => new.global = t.global
    BY TableDeclared DEF TableGood
  <1> HIDE DEF new
  <1> QED
    BY <1>1, TableGoodWith DEF new

LEMMA PushedIsGood ==
  ASSUME NEW pool, NEW fs, NEW t, TableGood(t, pool, fs), NEW is_barrier
  PROVE  TableGood(PushScope(t, is_barrier), pool, fs)
  <1> DEFINE new == PushScope(t, is_barrier)
             n == Len(t.scopes)
  <1>1. /\ TableFormed(new) /\ new.global = t.global
        /\ IsASequence(new.scopes) /\ Len(new.scopes) = n + 1
        /\ new.scopes[n + 1] = [symbols |-> NoSymbols, is_barrier |-> is_barrier]
        /\ \A i \in 1..n : new.scopes[i] = t.scopes[i]
    BY TablePushed DEF TableGood
  <1>2. n \in Nat /\ DOMAIN t.scopes = 1..n /\ DOMAIN new.scopes = 1..n + 1
    BY <1>1, SequenceShape DEF TableGood, TableFormed
  <1>3. DOMAIN new.scopes[n + 1].symbols = {}
    BY <1>1 DEF NoSymbols
  <1> HIDE DEF new, n
  <1> QED
    BY <1>2, <1>1, <1>3 DEF new, TableGood

LEMMA PoppedIsGood ==
  ASSUME NEW pool, NEW fs, NEW t, TableGood(t, pool, fs), Len(t.scopes) # 0
  PROVE  TableGood(PopScope(t), pool, fs)
  <1> DEFINE new == PopScope(t)
             n == Len(t.scopes)
  <1>1. /\ TableFormed(new) /\ new.global = t.global
        /\ IsASequence(new.scopes) /\ Len(new.scopes) = n - 1
        /\ \A i \in 1..n - 1 : new.scopes[i] = t.scopes[i]
    BY TablePopped DEF TableGood
  <1>2. n \in Nat /\ DOMAIN t.scopes = 1..n /\ DOMAIN new.scopes = 1..n - 1
    BY <1>1, SequenceShape DEF TableGood, TableFormed
  <1> HIDE DEF new, n
  <1>3. TableGood(new, pool, fs)
    <2> QED
      BY <1>1, <1>2 DEF TableGood
  <1> QED
    BY <1>3 DEF new

(* What a step that changes the symbols alone keeps.                          *)
LEMMA SoundTabled ==
  ASSUME IInv, Sound, UNCHANGED <<current, types, functions>>,
         TableGood(table', types, functions),
         function_table' = function_table \/ NamesGood(function_table', functions),
         StackMoves(types, functions), ControlGood(control', types, functions),
         \E avail :
           /\ Flowing(avail, stack', current, table'.scopes, functions)
           /\ Carried(control', avail, functions, current)
  PROVE  Sound'
  BY NothingLarger, StepMade DEF Sound, WellMade, Flow

LEMMA LetBindingIsSound ==
  ASSUME IInv, Sound, LetBinding
  PROVE  Sound'
  <1> DEFINE operand == control.value
             type == TypeOf(operand)
             name == Frame.name
             binding == IF IsRegister(operand) THEN ObjectBinding(type, operand.register) ELSE operand
             constant == IsTopLevel \/ ~IsObjectType(types, type)
             table_then == IF types[type].kind = "Function"
                           THEN Hiding(function_table, Symbol(name, operand.value))
                           ELSE function_table
  <1>1. stack # << >> /\ Frame.at = "let" /\ control.do = "value"
    BY ReturnedTo DEF LetBinding
  <1>2. \/ Fail
        \/ /\ ~(constant /\ IsRegister(operand))
           /\ table' = Declared(table, name, binding) /\ function_table' = table_then
           /\ stack' = Tail(stack) /\ control' = NextStatement
           /\ UNCHANGED <<types, functions, current>>
    BY DEF LetBinding
  <1>3. /\ GoodOperand(operand, types, functions)
        /\ ~IsRegister(operand) => GoodValue(operand, types, functions)
    BY <1>1, ControlIsGood
  <1>4. ~IsRegister(operand) => type = operand.type
    BY DEF TypeOf
  <1>5. /\ IsRegister(operand) => IsObjectBinding(binding) /\ binding.register = operand.register
        /\ ~IsRegister(operand) => binding = operand
    BY DEF ObjectBinding, IsObjectBinding
  <1>6. types[type].kind = "Function" => constant
    BY DEF IsObjectType
  <1>7. constant <=> (current.function = 0 \/ ~IsObjectType(types, type))
    BY DEF IsTopLevel
  <1>8. function_table' = table_then =>
          function_table' = IF types[type].kind = "Function"
                            THEN Hiding(function_table, Symbol(name, operand.value))
                            ELSE function_table
    OBVIOUS
  <1>9. ASSUME ~(constant /\ IsRegister(operand)),
               table' = Declared(table, name, binding), function_table' = table_then,
               stack' = Tail(stack), control' = NextStatement,
               UNCHANGED <<types, functions, current>>
        PROVE  Sound'
    <2> HIDE DEF operand, type, name, binding, constant, table_then
    <2>1. PICK avail : /\ Flowing(avail, stack, current, table.scopes, functions)
                       /\ Carried(control, avail, functions, current)
      BY DEF Sound, Flow
    <2>2. /\ IsASequence(stack) /\ StackFormed(stack) /\ TableFormed(table)
          /\ IsASequence(table.scopes) /\ TableGood(table, types, functions)
          /\ NamesGood(function_table, functions)
      BY CurrentIs, TableIs DEF Sound, WellMade
    <2>4. BindingGood(binding, types, functions) /\
            (table.scopes = << >> => GoodValue(binding, types, functions))
      BY <1>3, <1>5, <1>7, <1>9, <2>1, <2>2, TopFlows, EmptySequence DEF BindingGood, Flowing
    <2>6. NamesGood(function_table', functions)
      BY <1>3, <1>4, <1>6, <1>9, <1>8, <2>2 DEF GoodValue, NamesGood, Hiding, Symbol
    <2>7. Flowing(avail, stack', current, table'.scopes, functions)
      <3>1. Len(table.scopes) = Len(table.scopes) - Scopes(Head(stack)) /\ Head(stack).at # "body"
        <4>1. Scopes(Head(stack)) = 0 /\ Head(stack).at # "body"
          BY <1>1 DEF Frame, Scopes
        <4> QED
          BY <4>1, <2>2, SequenceShape
      <3>2. Flowing(avail, Tail(stack), current, table.scopes, functions)
        BY <1>1, <2>1, <2>2, <3>1, FlowsDropped
      <3>5. \A b \in {binding} : IsObjectBinding(b) /\ current.function # 0 =>
              b.register \in Here(avail, functions, current)
        BY <1>1, <2>1, <1>3, <1>5, GoodIsNoRegister DEF Registers, Carried, operand
      <3> QED
        BY <1>9, <2>2, <3>2, <1>1, StackDropped, DroppedAt, TableDeclared, <3>5, FlowsBound DEF
           Frame, StatementFrames
    <2> QED
      BY <1>9, <2>2, <2>4, DeclaredIsGood, <2>6, <2>7, <1>1, NoValueCarried, SoundTabled DEF
         StackMoves, ControlGood, NextStatement
  <1> HIDE DEF operand, type, name, binding, constant, table_then
  <1> QED
    BY <1>2, <1>9, SoundFails

LEMMA BlocksAreSound ==
  ASSUME IInv, Sound, EnterBlock \/ BlockStatement \/ BlockTail \/ LeaveBlock
  PROVE  Sound'
  <1>1. /\ IsASequence(stack) /\ TableFormed(table) /\ IsASequence(table.scopes)
        /\ TableGood(table, types, functions)
    BY CurrentIs, TableIs DEF Sound, WellMade
  <1>2. PICK avail : /\ Flowing(avail, stack, current, table.scopes, functions)
                     /\ Carried(control, avail, functions, current)
    BY DEF Sound, Flow
  <1>3. CASE EnterBlock
    <2> DEFINE frame == [at |-> "block", rest |-> control.expression.statements,
                         tail |-> control.expression.tail]
    <2>1. /\ table' = PushScope(table, FALSE) /\ stack' = Pushed(frame) /\ control' = NextStatement
          /\ UNCHANGED <<current, types, functions, function_table>>
      BY <1>3 DEF EnterBlock, unit
    <2>2. Ordinary(frame) /\ frame.at = "block" /\ Scopes(frame) = 1
      BY DEF Ordinary, Scopes
    <2> HIDE DEF frame
    <2>3. /\ Len(table'.scopes) = Len(table.scopes) + Scopes(frame)
          /\ \A i \in 1..Len(table.scopes) : table'.scopes[i] = table.scopes[i]
          /\ table'.scopes[Len(table.scopes) + 1].symbols = NoSymbols
      <3>1. PICK is_barrier : table' = PushScope(table, is_barrier)
        BY <2>1
      <3> DEFINE scope == [symbols |-> NoSymbols, is_barrier |-> is_barrier]
      <3>2. /\ Len(table'.scopes) = Len(table.scopes) + 1
            /\ table'.scopes[Len(table.scopes) + 1] = scope
            /\ \A i \in 1..Len(table.scopes) : table'.scopes[i] = table.scopes[i]
        BY <1>1, <3>1, TablePushed
      <3>3. scope.symbols = NoSymbols
        OBVIOUS
      <3> HIDE DEF scope
      <3> QED
        BY <2>2, <3>2, <3>3
    <2>5. Flowing(avail, stack', current, table'.scopes, functions)
      BY <2>1, <1>1, <1>2, <2>2, <2>3, FlowsPushed DEF Pushed
    <2> QED
      BY <2>1, <2>5, <1>1, PushedIsGood, <2>2, EmptyHeld, NoValueCarried, SoundTabled DEF
         ControlGood, StackMoves, NextStatement
  <1>4. CASE BlockStatement \/ BlockTail
    <2> DEFINE next_frame == [Frame EXCEPT !.rest = Tail(@)]
               tail_frame == [at |-> "tail"]
    <2>1. /\ stack # << >> /\ Frame.at = "block" /\ FrameFormed(Frame)
          /\ UNCHANGED <<table, current, unit>> /\ control'.do # "value"
          /\ stack' = Replaced(next_frame) \/ stack' = Replaced(tail_frame)
      BY <1>4, NextOfBlock DEF BlockStatement, BlockTail, Resume, EvaluateOf
    <2>2. next_frame.at = "block"
      BY <2>1 DEF FrameFormed
    <2>3. tail_frame.at = "tail"
      OBVIOUS
    <2> HIDE DEF next_frame, tail_frame
    <2>4. PICK frame : frame.at \in {"block", "tail"} /\ stack' = Replaced(frame)
      BY <2>1, <2>2, <2>3
    <2> QED
      BY <2>1, <2>4, EmptyHeld, SoundSwaps DEF SwapsFor, Held, Scopes
  <1>5. CASE LeaveBlock
    <2> DEFINE given == IF control.do = "value" THEN control.value ELSE VoidValue
    <2>1. /\ (control = NextStatement /\ stack # << >>) \/ Returning("tail")
          /\ table' = PopScope(table) /\ stack' = Tail(stack) /\ control' = ValueOf(given)
          /\ UNCHANGED <<current, types, functions, function_table>>
      BY <1>5 DEF LeaveBlock, Give, unit
    <2>2. stack # << >> /\ Frame.at \in {"block", "tail"}
      BY <2>1, NextOfBlock, ReturnedTo
    <2>3. Visible(given) /\ GoodOperand(given, types, functions)
      BY ControlIsGood, VoidGood, ValuesAreVisible DEF Sound, WellMade
    <2> HIDE DEF given
    <2>4. Scopes(Head(stack)) = 1 /\ Head(stack).at # "body"
      BY <2>2 DEF Scopes, Frame
    <2>5. Len(table.scopes) \in Nat \ {0}
      BY <1>1, <1>2, <2>2, <2>4, ScopeIsOpen
    <2>6. /\ Len(table'.scopes) = Len(table.scopes) - 1
          /\ \A i \in 1..Len(table.scopes) - 1 : table'.scopes[i] = table.scopes[i]
      BY <1>1, <2>1, <2>5, TablePopped
    <2>7. Flowing(avail, Tail(stack), current, table'.scopes, functions)
      BY <1>1, <1>2, <2>2, <2>4, <2>6, FlowsDropped
    <2> QED
      BY <2>1, <2>7, <1>2, <2>3, <1>1, <2>2, <2>5, PoppedIsGood, SoundTabled DEF StackMoves,
         ControlGood, Carried, Visible, ValueOf
  <1> QED
    BY <1>3, <1>4, <1>5

LEMMA HeldIsGood ==
  ASSUME IInv, Sound, stack # << >>
  PROVE  /\ FrameGood(Frame, types, functions)
         /\ \A o \in Held(Frame) : Visible(o) /\ GoodOperand(o, types, functions)
  BY CurrentIs, DroppedAt, TopFlows DEF Frame, Sound, WellMade, StackGood, Flowing, Registers,
     Visible, FrameGood

(* Of a value's type the code may ask.                                        *)
LEMMA AskedHere ==
  ASSUME IInv, NEW operand, Known(operand), IsRegister(operand)
  PROVE  current.function # 0
  BY TopKnowsConstants

LEMMA PrefixOperandIsSound ==
  ASSUME IInv, TypesHold, Sound, PrefixOperand
  PROVE  Sound'
  <1> DEFINE operand == control.value
             type == TypeOf(operand)
             negate == NegateInstruction(type, NextRegister, operand)
             emitted == WithRegister(WithInstruction(functions, negate))
  <1>1. /\ control.do = "value" /\ stack # << >> /\ Frame.at = "operand"
        /\ \A asked \in Asked : Known(asked)
    BY ReturnedTo DEF PrefixOperand
  <1>2. Frame.at # "body" /\ Scopes(Frame) = 0 /\ Known(operand)
    BY <1>1, AskedValue DEF Scopes
  <1>3. /\ Visible(operand) /\ GoodOperand(operand, types, functions)
        /\ ScalarsIn(types)
    BY <1>1, ControlIsGood DEF Sound, WellMade
  <1>5. \/ Halt("assertion")
        \/ Give(operand) /\ UNCHANGED <<table, current, unit>>
        \/ /\ ~IsRegister(operand) /\ type \in IntegerTypes
           /\ Give(Negated(operand)) /\ UNCHANGED <<table, current, unit>>
        \/ /\ IsRegister(operand) /\ type \in IntegerTypes
           /\ functions' = emitted /\ current' = Allocated(type) /\ Give(Register(NextRegister))
           /\ UNCHANGED <<table, types, function_table>>
        \/ \E element : GiveType(element)
    BY DEF PrefixOperand
  <1>6. ASSUME IsRegister(operand), type \in IntegerTypes, functions' = emitted,
               current' = Allocated(type), Give(Register(NextRegister)),
               UNCHANGED <<table, types, function_table>>
        PROVE  Sound'
    BY <1>2, <1>6, AskedHere, <1>1, <1>3, SoundEmits DEF InstructionGood, NegateInstruction,
       InstructionOperands, Emits, emitted
  <1>7. ASSUME ~IsRegister(operand), type \in IntegerTypes,
               Give(Negated(operand)), UNCHANGED <<table, current, unit>>
        PROVE  Sound'
    BY <1>3, <1>7, NegatedGood, <1>1, <1>2, ValuesAreVisible, SoundGives DEF TypeOf
  <1> HIDE DEF operand, type, emitted
  <1> QED
    BY <1>1, <1>2, <1>3, <1>5, <1>6, <1>7, SoundHalts, SoundGives, SoundGivesType

LEMMA ArraysAreSound ==
  ASSUME IInv, TypesHold, Sound, ElementType \/ ArraySize
  PROVE  Sound'
  <1> DEFINE frame == [at |-> "size", element |-> control.value.value]
  <1>1. stack # << >> /\ Frame.at \in {"element", "size"}
    BY ReturnedTo DEF ElementType, ArraySize
  <1>3. frame.at = "size" /\ Scopes(frame) = 0 /\ Held(frame) = {}
    BY DEF Scopes, Held
  <1>4. \/ Fail
        \/ \E type : GiveType(type)
        \/ /\ stack' = Replaced(frame) /\ control'.do # "value"
           /\ UNCHANGED <<table, current, unit>>
    BY DEF ElementType, ArraySize, Resume, EvaluateOf
  <1> HIDE DEF frame
  <1>5. ASSUME stack' = Replaced(frame), control'.do # "value", UNCHANGED <<table, current, unit>>
        PROVE  Sound'
    BY <1>3, EmptyHeld, <1>1, <1>5, SoundSwaps DEF SwapsFor, Scopes
  <1> QED
    BY <1>1, <1>4, <1>5, SoundFails, SoundGivesType DEF Scopes

LEMMA OperatorsAreSound ==
  ASSUME IInv, Sound, RightOperand \/ Operate
  PROVE  Sound'
  <1>1. CASE RightOperand
    <2> DEFINE frame == [at |-> "right", op |-> Frame.op, lhs |-> control.value]
    <2>1. /\ control.do = "value" /\ stack # << >> /\ Frame.at = "left"
          /\ stack' = Replaced(frame) /\ control'.do # "value"
          /\ UNCHANGED <<table, current, unit>>
      BY <1>1, ReturnedTo DEF RightOperand, Resume, EvaluateOf
    <2>2. frame.at = "right" /\ Scopes(frame) = 0 /\ Held(frame) = {control.value}
      BY DEF Scopes, Held
    <2> HIDE DEF frame
    <2> QED
      BY <2>1, <2>2, ControlIsGood, SoundSwaps DEF Scopes, SwapsFor, FrameGood
  <1>2. CASE Operate
    <2> DEFINE lhs == Frame.lhs
               rhs == control.value
               fitting == Fitting(Frame.op, lhs, rhs)
               overload == CHOOSE o \in fitting : TRUE
               type == overload.result
               binary == BinaryInstruction(overload, NextRegister, lhs, rhs)
               emitted == WithRegister(WithInstruction(functions, binary))
    <2>1. /\ control.do = "value" /\ stack # << >> /\ Frame.at = "right"
          /\ \A asked \in Asked : Known(asked)
      BY <1>2, ReturnedTo DEF Operate
    <2>2. /\ Frame.at # "body" /\ Scopes(Frame) = 0 /\ Known(lhs) /\ Known(rhs)
          /\ lhs \in Held(Frame)
      BY <2>1 DEF Scopes, Asked, Held
    <2>3. \/ Halt("assertion")
          \/ fitting # {} /\ Give(Applied(overload, lhs, rhs)) /\ UNCHANGED <<table, current, unit>>
          \/ /\ fitting # {} /\ (IsRegister(lhs) \/ IsRegister(rhs))
             /\ functions' = emitted /\ current' = Allocated(type) /\ Give(Register(NextRegister))
             /\ UNCHANGED <<table, types, function_table>>
      BY <1>2 DEF Operate
    <2>4. fitting # {} => overload \in Overloads
      BY DEF Fitting
    <2>5. InstructionOperands(binary) = {lhs, rhs} /\ binary.result = NextRegister
      BY DEF BinaryInstruction, InstructionOperands
    <2>6. overload \in Overloads => InstructionGood(binary, types, functions)
      BY DEF BinaryInstruction, InstructionGood
    <2>7. Visible(lhs) /\ Visible(rhs)
      BY <2>1, <2>2, HeldIsGood, ControlIsGood
    <2> HIDE DEF lhs, rhs, fitting, overload, type, binary
    <2>8. ASSUME fitting # {}, Give(Applied(overload, lhs, rhs)), UNCHANGED <<table, current, unit>>
          PROVE  Sound'
      BY <2>4, <2>8, AppliedGood, <2>1, <2>2, ValuesAreVisible, SoundGives DEF Sound, WellMade
    <2>9. ASSUME fitting # {}, IsRegister(lhs) \/ IsRegister(rhs), functions' = emitted,
                 current' = Allocated(type), Give(Register(NextRegister)),
                 UNCHANGED <<table, types, function_table>>
          PROVE  Sound'
      BY <2>2, <2>9, AskedHere, <2>1, <2>4, <2>5, <2>6, <2>7, SoundEmits DEF Emits, emitted
    <2> HIDE DEF emitted
    <2> QED
      BY <2>3, <2>8, <2>9, SoundHalts
  <1> QED
    BY <1>1, <1>2

LEMMA CallsAreSound ==
  ASSUME IInv, Sound, Callee \/ Argument \/ CallNow \/ EmitCall
  PROVE  Sound'
  <1>1. CASE Callee
    <2> DEFINE callee == control.value
               frame == [at |-> "argument", callee |-> callee.value, values |-> << >>,
                         rest |-> Frame.rest]
    <2>1. /\ control.do = "value" /\ stack # << >> /\ Frame.at = "callee"
      BY <1>1, ReturnedTo DEF Callee
    <2>2. \/ Fail
          \/ /\ types[TypeOf(callee)].kind = "Function" /\ ~IsRegister(callee)
             /\ stack' = Replaced(frame) /\ control' = [do |-> "call"]
             /\ UNCHANGED <<table, current, unit>>
      BY <1>1 DEF Callee
    <2>4. ~IsRegister(callee) => GoodValue(callee, types, functions) /\ TypeOf(callee) = callee.type
      BY <2>1, ControlIsGood DEF TypeOf
    <2>5. /\ frame.at = "argument" /\ Scopes(frame) = 0 /\ frame.callee = callee.value
          /\ frame.values = << >>
      BY DEF Scopes
    <2> HIDE DEF callee, frame
    <2>7. ASSUME types[TypeOf(callee)].kind = "Function", ~IsRegister(callee),
                 stack' = Replaced(frame), control' = [do |-> "call"],
                 UNCHANGED <<table, current, unit>>
          PROVE  Sound'
      BY <2>4, <2>7, <2>5, <2>1, SoundSwaps DEF GoodValue, FrameGood, SwapsFor, Scopes, Held, Range
    <2> QED
      BY <2>2, <2>7, SoundFails
  <1>2. CASE Argument
    BY <1>2, SoundStays DEF Argument, Returned, EvaluateOf
  <1>3. ASSUME CallNow \/ EmitCall
        PROVE  /\ stack # << >> /\ Frame.at = "argument" /\ Frame.at # "body" /\ Scopes(Frame) = 0
               /\ IsASequence(Frame.values) /\ Held(Frame) = Range(Frame.values)
               /\ \A i \in DOMAIN Frame.values : GoodOperand(Frame.values[i], types, functions)
               /\ \A o \in Range(Frame.values) : Visible(o)
               /\ Frame.callee \in DOMAIN functions
    BY <1>3, CallOfArguments, HeldIsGood, RangeHas DEF CallNow, EmitCall, Held, FrameGood, Scopes,
       FrameFormed
  <1>4. CASE CallNow
    <2> DEFINE run == Interpret(functions, Frame.callee, Frame.values, Fuel)
    <2>1. \/ run.ended = "value" /\ Give(run.value) /\ UNCHANGED <<table, current, unit>>
          \/ Fail
          \/ \E how : Halt(how)
      BY <1>4 DEF CallNow
    <2>4. run.ended = "value" => GoodValue(run.value, types, functions)
      BY <1>3, <1>4, CurrentIs, RegistersInside, InterpretGood DEF CallNow, GoodOperand, Sound,
         WellMade, Flow, Flowing, Flows
    <2> HIDE DEF run
    <2> QED
      BY <1>3, <1>4, <2>1, <2>4, ValuesAreVisible, SoundGives, SoundFails, SoundHalts
  <1>5. CASE EmitCall
    <2> DEFINE call == CallInstruction(NextRegister, Frame.callee, Frame.values)
               type == types[functions[Frame.callee].type].result
    <2>1. /\ functions' = WithRegister(WithInstruction(functions, call))
          /\ current' = Allocated(type) /\ Give(Register(NextRegister))
          /\ UNCHANGED <<table, types, function_table>>
          /\ \E i \in DOMAIN Frame.values : IsRegister(Frame.values[i])
      BY <1>5 DEF EmitCall
    <2>3. /\ call.result = NextRegister /\ call.does = "call" /\ call.callee = Frame.callee
          /\ call.arguments = Frame.values
      BY DEF CallInstruction
    <2> HIDE DEF call, type
    <2> QED
      BY <1>3, <1>5, <2>1, ArgumentsAtTop, <2>3, SoundEmits DEF Emits, InstructionOperands,
         InstructionGood
  <1> QED
    BY <1>1, <1>2, <1>4, <1>5

LEMMA ArgumentValueIsSound ==
  ASSUME IInv, Sound, ArgumentValue
  PROVE  Sound'
  <1> DEFINE values == Append(Frame.values, control.value)
             frame == [Frame EXCEPT !.values = Append(@, control.value), !.rest = Tail(@)]
  <1>1. /\ control.do = "value" /\ stack # << >> /\ Frame.at = "argument" /\ FrameFormed(Frame)
        /\ \A operand \in Asked : Known(operand)
    BY ReturnedTo DEF ArgumentValue
  <1>2. \/ Fail
        \/ /\ stack' = Replaced(frame) /\ control' = [do |-> "call"]
           /\ UNCHANGED <<table, current, unit>>
    BY DEF ArgumentValue
  <1>3. /\ Frame = [at |-> "argument", callee |-> Frame.callee, values |-> Frame.values,
                    rest |-> Frame.rest]
        /\ IsASequence(Frame.values)
    BY <1>1 DEF FrameFormed
  <1>4. frame.at = "argument" /\ frame.callee = Frame.callee /\ frame.values = values
    <2> DEFINE half == [Frame EXCEPT !.values = values]
    <2>1. frame = [half EXCEPT !.rest = Tail(Frame.rest)]
      OBVIOUS
    <2>2. half = [at |-> "argument", callee |-> Frame.callee, values |-> values,
                  rest |-> Frame.rest]
      BY <1>3
    <2> HIDE DEF half, frame, values
    <2> QED
      BY <2>1, <2>2
  <1>5. /\ IsASequence(values)
        /\ Len(values) = Len(Frame.values) + 1
        /\ values[Len(Frame.values) + 1] = control.value
        /\ \A i \in 1..Len(Frame.values) : values[i] = Frame.values[i]
    BY <1>3, AppendedSequence
  <1> HIDE DEF frame, values
  <1>6. /\ \A i \in DOMAIN values : values[i] = control.value \/ i \in DOMAIN Frame.values
        /\ \A i \in DOMAIN Frame.values : values[i] = Frame.values[i]
    BY <1>3, <1>5, SequenceShape
  <1>11. ASSUME current.function = 0
         PROVE  \A i \in DOMAIN frame.values : ~IsRegister(frame.values[i])
    BY <1>1, <1>11, ArgumentsAtTop, AskedValue, TopKnowsConstants, <1>4, <1>6
  <1>13. ASSUME stack' = Replaced(frame), control' = [do |-> "call"],
                UNCHANGED <<table, current, unit>>
         PROVE  Sound'
    BY <1>1, <1>4, <1>6, HeldIsGood, ControlIsGood, <1>11, <1>13, SoundSwaps DEF SwapsFor,
       FrameGood, Scopes, Range, Held
  <1> QED
    BY <1>2, <1>13, SoundFails

LEMMA ConditionsAreSound ==
  ASSUME IInv, Sound, ConditionRefused \/ ConditionFolded
  PROVE  Sound'
  <1>1. control.do = "value" /\ stack # << >> /\ Frame.at = "condition"
    BY ReturnedTo DEF ConditionRefused, ConditionFolded
  <1>2. CASE ConditionRefused
    BY <1>2, SoundFails, SoundHalts DEF ConditionRefused
  <1>3. CASE ConditionFolded
    <2> DEFINE frame == [Frame EXCEPT !.part = @ + 1]
    <2>1. /\ Frame.at # "body" /\ Scopes(Frame) = 0 /\ FrameFormed(Frame)
          /\ UNCHANGED <<table, current, unit>>
      BY <1>1, <1>3, ReturnedTo DEF ConditionFolded, Scopes
    <2>3. frame = [at |-> "condition", part |-> Frame.part + 1, parts |-> Frame.parts,
                   else |-> Frame.else, merge |-> Frame.merge, target |-> Frame.target,
                   type |-> Frame.type, parameter |-> << >>]
      BY <1>1, <2>1, HeldIsGood DEF IfFrame, FrameFormed, FrameGood
    <2>4. \/ /\ stack' = Tail(stack)
             /\ \/ \E e : control' = EvaluateOf(e)
                \/ control' = ValueOf(VoidValue)
          \/ \E expression : Resume(frame, expression)
      BY <1>3 DEF ConditionFolded
    <2> HIDE DEF frame
    <2>5. CASE stack' = Tail(stack) /\ (\/ \E e : control' = EvaluateOf(e)
                                        \/ control' = ValueOf(VoidValue))
      BY VoidGood, ValuesAreVisible, <2>5, <1>1, <2>1, SoundDrops DEF Sound, WellMade, Returned,
         EvaluateOf, ValueOf
    <2>6. CASE \E expression : Resume(frame, expression)
      BY <2>6, <2>3, EmptyHeld, <1>1, <2>1, SoundSwaps DEF Resume, EvaluateOf, Held, Scopes,
         SwapsFor
    <2> QED
      BY <2>4, <2>5, <2>6
  <1> QED
    BY <1>2, <1>3

----------------------------------------------------------------------------

(* The current block ends.                                                    *)

LEMMA EndedIsGood ==
  ASSUME NEW fs, NEW pool, CodeGood(fs, pool), NEW gs, NEW f \in DOMAIN fs,
         NEW b, b \in DOMAIN fs[f].blocks, NEW t, TerminatorGood(t, pool, fs),
         NEW n \in Nat, NEW last \in Nat, last = Len(fs[f].blocks), DOMAIN fs[f].blocks = 1..last,
         EndedWith(fs, gs, f, b, t, n)
  PROVE  Larger(pool, pool, fs, gs) /\ CodeGood(gs, pool)
  <1> DEFINE old == fs[f].blocks[b]
             block == BlockOf(old.parameters, old.instructions, t)
  <1>1. /\ OneFunction(fs, gs, f)
        /\ DOMAIN gs[f].blocks = 1..last + n
        /\ \A c \in 1..last : c # b => gs[f].blocks[c] = fs[f].blocks[c]
        /\ gs[f].blocks[b] = block
        /\ \A c \in last + 1..last + n : gs[f].blocks[c] = EmptyBlock
    BY DEF EndedWith
  <1>2. Larger(pool, pool, fs, gs)
    BY <1>1 DEF Larger, OneFunction
  <1>3. BlockGood(block, pool, fs)
    BY BlockGoodWith DEF CodeGood
  <1> HIDE DEF block
  <1>6. ASSUME NEW g \in DOMAIN gs, NEW c \in DOMAIN gs[g].blocks
        PROVE  \/ g \in DOMAIN fs /\ c \in DOMAIN fs[g].blocks /\ gs[g].blocks[c] = fs[g].blocks[c]
               \/ BlockGood(gs[g].blocks[c], pool, gs)
    <2>1. CASE g # f
      BY <1>1, <2>1 DEF OneFunction
    <2>2. CASE g = f
      <3>2. CASE c = b
        BY <1>1, <1>2, <1>3, BlockStaysGood, <2>2, <3>2
      <3>3. CASE c \in 1..last /\ c # b
        BY <1>1, <2>2, <3>3 DEF OneFunction
      <3>4. CASE c \in last + 1..last + n
        BY <1>1, EmptySequence, <2>2, <3>4 DEF BlockGood, EmptyBlock, TerminatorGood, NoTerminator
      <3> QED
        BY <1>1, <2>2, <3>2, <3>3, <3>4
    <2> QED
      BY <2>1, <2>2
  <1> QED
    BY <1>2, <1>6, CodeStaysGood

LEMMA BlockCloses ==
  ASSUME NEW function, NEW fs, NEW gs, NEW avail, NEW top, NEW here, NEW last, NEW t, NEW n,
         NEW later, Closing(function, fs, gs, avail, top, here, last, t, n, later)
  PROVE  /\ Ends(function, fs, gs, avail, top, current.function, current.block, here, last, t, n, later)
         /\ \A pool : CodeGood(fs, pool) /\ TerminatorGood(t, pool, fs) =>
              Larger(pool, pool, fs, gs) /\ CodeGood(gs, pool)
  <1> DEFINE f == current.function
             b == current.block
  <1>1. /\ FunctionsFormed(fs) /\ IsOpen(fs, f, b) /\ f # 0
        /\ function.function = f /\ function.block = b
        /\ t # NoTerminator /\ n \in Nat
        /\ here = Here(avail, fs, function) /\ last = Len(fs[f].blocks)
        /\ Registers(TerminatorOperands(t)) \subseteq here
        /\ \A c \in Successors(t) :
             c \in last + 1..last + n \/ (c \in 1..last /\ avail[f][c] \subseteq here)
        /\ FunctionFormed(later) /\ later.function = f
        /\ \/ later.block = b
           \/ later.block \in last + 1..last + n
           \/ later.block \in 1..last /\ later.block # b /\ top \subseteq avail[f][later.block]
    BY DEF Closing
  <1>3. /\ EndedWith(fs, WithBlocks(WithTerminator(fs, t), n), f, b, t, n)
        /\ EndedWith(fs, WithTerminator(fs, t), f, b, t, 0)
        /\ Len(fs[f].blocks) \in Nat /\ DOMAIN fs[f].blocks = 1..Len(fs[f].blocks)
    BY <1>1, EndWritten
  <1>4. EndedWith(fs, gs, f, b, t, n)
    BY <1>3 DEF Closing, Closes
  <1>6. ASSUME NEW pool, CodeGood(fs, pool), TerminatorGood(t, pool, fs)
        PROVE  Larger(pool, pool, fs, gs) /\ CodeGood(gs, pool)
    <2>1. f \in DOMAIN fs /\ b \in DOMAIN fs[f].blocks /\ last \in Nat /\ DOMAIN fs[f].blocks = 1..last
      BY <1>1, <1>3 DEF IsOpen
    <2> HIDE DEF f, b
    <2> QED
      BY ONLY <1>1, <1>4, <1>6, <2>1, EndedIsGood
  <1> QED
    BY <1>1, <1>3, <1>4, <1>6 DEF Ends

LEMMA TheGhosts ==
  ASSUME IInv, Sound
  PROVE  /\ \E level, known, open, avail : Ghosts(level, known, open, avail)
         /\ IsASequence(stack) /\ IsASequence(table.scopes) /\ FunctionsFormed(functions)
         /\ FunctionFormed(current)
         /\ current.function # 0 => IsOpen(functions, current.function, current.block)
         /\ CodeGood(functions, types)
  BY OwnedHere, CurrentIs, TableIs DEF Sound, Flow, Flowing, Flows, Ghosts, WellMade

LEMMA GhostsEnd ==
  ASSUME IInv, Sound, NEW level, NEW known, NEW open, NEW avail, Ghosts(level, known, open, avail),
         NEW here, NEW last, NEW t, NEW n, NEW later,
         Closing(current, functions, functions', avail, known[Len(stack)], here, last, t, n, later)
  PROVE  /\ Flows(level, known, open, Still(avail, last, here), stack, later, table.scopes, functions')
         /\ Continues(Still(avail, last, here), avail, functions, functions', later,
                      current.function, current.block, here, last, n)
  <1>3. PICK f, b, s, gs, scopes, fs, function, top :
          /\ top = known[Len(stack)] /\ f = current.function /\ b = current.block /\ s = stack /\ gs = functions'
          /\ scopes = table.scopes /\ fs = functions /\ function = current
    OBVIOUS
  <1>4. /\ Ends(function, fs, gs, avail, top, f, b, here, last, t, n, later)
        /\ top = known[Len(s)]
        /\ Flows(level, known, open, avail, s, function, scopes, fs)
        /\ Separate(level, s, function, fs) /\ IsASequence(s) /\ FunctionsFormed(fs)
    BY BlockCloses, TheGhosts, <1>3 DEF Ghosts
  <1>5. Flows(level, known, open, Afterwards(avail, f, last, here), s, later, scopes, gs)
    BY ONLY <1>4, FlowsEnds
  <1>6. Continues(Afterwards(avail, f, last, here), avail, fs, gs, later, f, b, here, last, n)
    BY ONLY <1>4, FlowsEnds
  <1> QED
    BY <1>3, <1>5, <1>6 DEF Still

LEMMA ReturnValueIsSound ==
  ASSUME IInv, Sound, ReturnValue
  PROVE  Sound'
  <1> DEFINE last == Len(Blocks)
             t == ReturnOf(control.value)
  <1>1. control.do = "value" /\ stack # << >> /\ Frame.at = "return"
    BY ReturnedTo DEF ReturnValue
  <1> SUFFICES ASSUME current.function # 0,
                      functions' = WithBlocks(WithTerminator(functions, t), 1),
                      current' = [current EXCEPT !.block = last + 1],
                      stack' = Tail(stack), control' = NextStatement,
                      UNCHANGED <<table, types, function_table>>
               PROVE  Sound'
    BY SoundHalts, SoundFails DEF ReturnValue, IsTopLevel
  <1>3. PICK level, known, open, avail : Ghosts(level, known, open, avail)
    BY TheGhosts
  <1>4. /\ IsASequence(stack) /\ IsASequence(table.scopes) /\ FunctionsFormed(functions)
        /\ FunctionFormed(current) /\ IsOpen(functions, current.function, current.block)
        /\ CodeGood(functions, types)
    BY TheGhosts
  <1> DEFINE here == Here(avail, functions, current)
  <1>7. Registers({control.value}) \subseteq here /\ TerminatorGood(t, types, functions)
    BY <1>1, ControlIsGood, <1>3 DEF Ghosts, Carried, TerminatorGood, ReturnOf
  <1>8. last \in Nat /\ last + 1 \in last + 1..last + 1
    BY <1>4, SequenceShape DEF FunctionsFormed, CodeFormed, IsOpen, Blocks
  <1>9. Closing(current, functions, functions', avail, known[Len(stack)], here, last, t, 1, current')
    BY <1>4, <1>7, <1>8 DEF Closes, Blocks, Closing, FunctionFormed, ReturnOf, NoTerminator,
       TerminatorOperands, Successors
  <1> HIDE DEF t, last, here
  <1>10. Flow'
    <2>2. Len(table.scopes) = Len(table.scopes) - Scopes(Head(stack)) /\ Head(stack).at # "body"
      <3>1. Scopes(Head(stack)) = 0 /\ Head(stack).at # "body"
        BY <1>1 DEF Frame, Scopes
      <3> QED
        BY <1>4, <3>1, SequenceShape
    <2>5. Flowing(Still(avail, last, here), stack', current', table'.scopes, functions')
      BY <1>1, <1>4, <2>2, <1>3, <1>9, GhostsEnd, FlowsDropped DEF Flowing
    <2> QED
      BY <2>5, NoValueCarried DEF Flow, NextStatement
  <1> QED
    BY <1>10, <1>4, <1>7, <1>9, BlockCloses, <1>1, StepMade DEF Sound, StackMoves, ControlGood,
       NextStatement

(* The blocks of a branch on a condition.                                     *)
LEMMA ForkBlocks ==
  ASSUME NEW old, NEW frame, NEW count \in Nat, NEW merge, NEW last, NEW other, NEW created,
         NEW new, Forks(old, frame, count, merge, last, other, created, new)
  PROVE  /\ last + 1 \in count + 1..count + created
         /\ other \in count + 1..count + created \/ other = merge
         /\ old.at = "condition" => merge \in count + 1..count + created
         /\ old.at = "else_if" => merge \in 1..count
         /\ Follows(frame) => other \in count + 1..count + created
  BY DEF Forks

(* What the innermost if waits for, within a function.                        *)
LEMMA TheMergeWaits ==
  ASSUME IInv, stack # << >>, current.function # 0, Frame.at \in {"branch", "else_if"},
         NEW level, NEW known, NEW open, NEW avail, NEW function, NEW scopes, NEW fs,
         function.function = current.function,
         Flows(level, known, open, avail, stack, function, scopes, fs)
  PROVE  /\ level[Len(stack)] = current.function /\ level[Len(stack) - 1] = current.function
         /\ known[Len(stack)] \subseteq Here(avail, fs, function)
         /\ MergeWaits(Frame, known[Len(stack)], fs[current.function].blocks, avail[current.function])
  <1>3. Len(stack) \in 1..Len(stack) /\ At(stack, Len(stack)) = Frame /\ Frame.at # "body"
    BY CurrentIs, DroppedAt DEF Frame
  <1> QED
    BY <1>3 DEF Flows, LevelFits, Levelled, Depth

LEMMA MergeIsOpen ==
  ASSUME IInv, stack # << >>, current.function # 0, Frame.at \in {"branch", "else_if"},
         NEW level, NEW known, NEW open, NEW avail, Ghosts(level, known, open, avail)
  PROVE  /\ IsOpen(functions, current.function, Frame.merge) /\ Frame.merge # current.block
         /\ Frame.at = "branch" /\ Follows(Frame) =>
              IsOpen(functions, current.function, Frame.target) /\ Frame.target # current.block
  <1>4. \A b \in Pending(Frame) : Awaits(stack, Len(stack), b)
    BY CurrentIs, DroppedAt DEF Awaits, Frame
  <1> QED
    BY TheMergeWaits, <1>4 DEF Pending, Ghosts, Separate

LEMMA BranchInFunction ==
  ASSUME IInv, stack # << >>, Frame.at \in {"branch", "else_if"}
  PROVE  current.function # 0
  BY CurrentIs, LevelUnderTop DEF IInv, Waiting, Frame, LevelFits, Levelled

LEMMA FlowsForked ==
  ASSUME NEW s, IsASequence(s), s # << >>, NEW level, NEW known, NEW open, NEW new, NEW function,
         NEW scopes, NEW fs, Flows(level, known, open, new, s, function, scopes, fs),
         NEW here, NEW old, old = Head(s), NEW frame,
         NEW count, NEW merge, NEW last, NEW other, NEW created, NEW blocks,
         Forking(function, fs, new, here, old, frame, count, merge, last, other, created, blocks)
  PROVE  Flowing(new, <<frame>> \o Tail(s), function, scopes, fs)
  <1>0. /\ count \in Nat /\ function.function # 0 /\ here = Here(new, fs, function)
        /\ Forks(old, frame, count, merge, last, other, created, blocks)
        /\ \A c \in count + 1..count + created :
             /\ new[function.function][c] = here
             /\ fs[function.function].blocks[c] = EmptyBlock
        /\ frame.parameter = old.parameter
        /\ old.at = "condition" => frame.parameter = << >>
    BY DEF Forking
  <1>1. /\ frame.at = "branch" /\ frame.merge = merge /\ frame.target = other
        /\ old.at = "condition" \/ (old.at = "else_if" /\ merge = old.merge)
    BY <1>0 DEF Forks
  <1>3. Follows(frame) => new[function.function][frame.target] = here
    BY <1>0, <1>1, ForkBlocks
  <1>4. CASE old.at = "condition"
    <2>1. MergeWaits(frame, here, fs[function.function].blocks, new[function.function])
      BY <1>0, <1>1, ForkBlocks, <1>3, <1>4 DEF MergeWaits, EmptyBlock
    <2>2. Scopes(frame) = Scopes(Head(s)) /\ Registers(Held(frame)) = {} /\ Head(s).at # "body"
      BY <1>1, <1>4, HeldByFew DEF Scopes
    <2>3. Flowing(new, s, function, scopes, fs)
      BY DEF Flowing
    <2> QED
      BY <1>0, <1>1, <1>4, <2>1, <2>2, <2>3, FlowsSwapped
  <1>5. CASE old.at = "else_if" /\ merge = old.merge
    <2>2. frame.parameter # << >> =>
            frame.parameter[1] \in Range(fs[function.function].blocks[frame.merge].parameters)
      <3>1. Len(s) \in 1..Len(s) /\ At(s, Len(s)) = old
        BY DroppedAt
      <3>2. /\ level[Len(s)] = function.function
            /\ Depth(level, known, open, new, s, scopes, fs, Len(s))
        BY <3>1 DEF Flows, Levelled
      <3>4. MergeWaits(old, known[Len(s)], fs[function.function].blocks, new[function.function])
        BY <1>0, <1>5, <3>1, <3>2 DEF Depth
      <3> QED
        BY <1>0, <1>1, <1>5, <3>4 DEF MergeWaits
    <2> QED
      BY <1>0, <1>1, <1>5, <2>2, <1>3, FlowsBranched DEF Flowing, Flows
  <1> QED
    BY <1>1, <1>4, <1>5

LEMMA StillAt ==
  ASSUME NEW avail, NEW last, last \in Nat, NEW here, NEW c, c \in Nat, c > last,
         current.function \in Nat
  PROVE  Still(avail, last, here)[current.function][c] = here
  BY DEF Still, Afterwards

LEMMA ForkIsSound ==
  ASSUME IInv, Sound, control.do = "value", stack # << >>, Frame.at \in {"condition", "else_if"},
         current.function # 0, NEW merge, NEW last, Fork(merge, last),
         \/ Frame.at = "condition" /\ merge = Len(Blocks) + 1 /\ last = Len(Blocks) + 1
         \/ Frame.at = "else_if" /\ merge = Frame.merge /\ last = Len(Blocks)
  PROVE  Sound'
  <1> DEFINE count == Len(Blocks)
             other == IF Follows(Frame) THEN last + 2 ELSE merge
             created == (IF other = merge THEN last + 1 ELSE last + 2) - count
             t == BranchTo(control.value, last + 1, other)
             frame == [Frame EXCEPT !.at = "branch", !.merge = merge, !.target = other]
             blocks == count + 1..count + created
  <1>1. /\ functions' = WithBlocks(WithTerminator(functions, t), created)
        /\ current' = [current EXCEPT !.block = last + 1]
        /\ stack' = Replaced(frame) /\ control'.do = "expression"
        /\ UNCHANGED <<table, types, function_table>>
    BY DEF Fork, Resume, EvaluateOf
  <1>2. PICK level, known, open, avail : Ghosts(level, known, open, avail)
    BY TheGhosts
  <1> DEFINE here == Here(avail, functions, current)
  <1>3. /\ IsASequence(stack) /\ IsASequence(table.scopes) /\ FunctionsFormed(functions)
        /\ FunctionFormed(current) /\ IsOpen(functions, current.function, current.block)
        /\ CodeGood(functions, types)
    BY TheGhosts
  <1>5. /\ frame.at = "branch" /\ frame.merge = merge /\ frame.target = other
        /\ frame.parameter = Frame.parameter
        /\ Follows(frame) <=> Follows(Frame)
    <2>1. frame = Forked(Frame, merge, other)
      BY DEF Forked
    <2> HIDE DEF frame, other
    <2> QED
      BY TopFormed, CurrentIs, <2>1, ForkedFrame DEF FrameFormed, IfFrame
  <1>6. count \in Nat /\ DOMAIN Blocks = 1..count /\ Blocks = functions[current.function].blocks
    BY <1>3, SequenceShape DEF FunctionsFormed, CodeFormed, IsOpen, Blocks
  <1>7. /\ FunctionFormed(current') /\ current'.function = current.function
        /\ current'.block = last + 1
    BY <1>1, <1>3 DEF FunctionFormed
  <1>8. Frame.at = "else_if" =>
          Frame.merge \in 1..count /\ avail[current.function][Frame.merge] = known[Len(stack)]
    BY <1>2, MergeIsOpen, TheMergeWaits, <1>6 DEF Ghosts, IsOpen, MergeWaits
  <1> HIDE DEF frame
  <1>10. Forks(Frame, frame, count, merge, last, other, created, blocks)
    BY <1>8, <1>5 DEF count, Forks
  <1> HIDE DEF other, created, blocks
  <1>11. /\ created \in Nat
         /\ last + 1 \in count + 1..count + created
         /\ other \in count + 1..count + created \/ other = merge
         /\ Frame.at = "condition" => merge \in count + 1..count + created
    BY <1>6, <1>10, ForkPending, ForkBlocks
  <1>12. /\ t # NoTerminator /\ TerminatorOperands(t) = {control.value}
         /\ Successors(t) = {last + 1, other} /\ TerminatorGood(t, types, functions)
    BY DEF BranchTo, NoTerminator, TerminatorOperands, Successors, TerminatorGood
  <1> HIDE DEF t, here
  <1>15. Closing(current, functions, functions', avail, known[Len(stack)], here, count, t, created,
                 current')
    BY <1>1, <1>3, <1>7, <1>11, <1>12, <1>2, <1>8 DEF Closes, count, Blocks, here, Closing, Ghosts,
       Carried, Flows
  <1> HIDE DEF count
  <1>16. Flow'
    <2> DEFINE new == Still(avail, count, here)
    <2>1. /\ Flows(level, known, open, new, stack, current', table.scopes, functions')
          /\ Continues(new, avail, functions, functions', current', current.function, current.block,
                       here, count, created)
      BY <1>2, <1>15, GhostsEnd
    <2>3. \A c \in count + 1..count + created :
            /\ new[current.function][c] = here
            /\ functions'[current.function].blocks[c] = EmptyBlock
      <3>1. current.function \in Nat
        BY <1>3, SequenceShape DEF FunctionsFormed, IsOpen
      <3>3. \A c \in count + 1..count + created : new[current.function][c] = here
        <4> SUFFICES ASSUME NEW c \in count + 1..count + created
                     PROVE  new[current.function][c] = here
          OBVIOUS
        <4>1. count \in Nat /\ c \in Nat /\ c > count
          BY <1>6, <1>11
        <4> QED
          BY ONLY <3>1, <4>1, StillAt
      <3> QED
        BY <3>3, <1>15, BlockCloses DEF Ends, EndedWith
    <2> HIDE DEF new
    <2>4. Forking(current', functions', new, here, Frame, frame, count, merge, last, other, created,
                  blocks)
      BY <1>5, <1>6, <1>7, HeldIsGood, <1>10, <1>11, <2>1, <2>3 DEF Forking, FrameGood, Continues
    <2> QED
      BY <1>1, <1>3, <2>1, <2>4, FlowsForked, NoValueCarried DEF Flow, Replaced, Frame
  <1> QED
    BY <1>16, <1>1, <1>3, <1>12, <1>15, BlockCloses, <1>5, EmptyHeld, StepMade DEF Sound,
       StackMoves, ControlGood

LEMMA ForksAreSound ==
  ASSUME IInv, Sound, ConditionForks \/ ElseIfCondition
  PROVE  Sound'
  BY ReturnedTo, SoundHalts, ForkIsSound, BranchInFunction DEF ConditionForks, ElseIfCondition,
     IsTopLevel

----------------------------------------------------------------------------

(* The end of a branch.                                                       *)

LEMMA TailOfSwapped ==
  ASSUME NEW s, IsASequence(s), s # << >>, NEW x
  PROVE  Tail(<<x>> \o Tail(s)) = Tail(s)
  <1> DEFINE t == <<x>> \o Tail(s)
             n == Len(s) - 1
  <1>1. IsASequence(Tail(s)) /\ n \in Nat /\ Len(Tail(s)) = n
    BY TailOfSequence
  <1>2. /\ IsASequence(t) /\ Len(t) = 1 + n /\ \A i \in 1..n : t[1 + i] = Tail(s)[i]
    BY <1>1, OnFront
  <1> HIDE DEF t
  <1> HIDE DEF n
  <1> QED
    BY <1>1, <1>2, SwappedAt, TailOfSequence, SequenceShape DEF t

LEMMA ResultReady ==
  ASSUME IInv, Sound, stack # << >>, Frame.at = "branch", current.function # 0, IfFrame(Frame),
         NEW level, NEW known, NEW open, NEW avail, Ghosts(level, known, open, avail),
         NEW type, NEW frame, frame = WithResult(Frame, type, Frame.parameter)
  PROVE  Readied(frame, current, functions, level, known, open, avail)
  <1>1. /\ frame.at = "branch" /\ frame.merge = Frame.merge /\ frame.target = Frame.target
        /\ frame.parameter = Frame.parameter /\ (Follows(frame) <=> Follows(Frame))
    BY FrameWithResult DEF Follows
  <1>2. /\ IsASequence(stack) /\ FunctionsFormed(functions) /\ FunctionFormed(current)
        /\ IsOpen(functions, current.function, current.block) /\ CodeGood(functions, types)
    BY TheGhosts
  <1>6. Separate(level, <<frame>> \o Tail(stack), current, functions)
    <2>1. PICK l : Owned(l, stack, current, functions, diagnostics)
      BY DEF IInv, Waiting
    <2>2. Pending(frame) = Pending(Frame) /\ Distinct(frame)
      <3>1. Distinct(Frame)
        BY <1>2, DroppedAt, <2>1 DEF Frame, Owned
      <3> QED
        BY <1>1, <3>1 DEF Pending, Distinct
    <2> QED
      BY <1>2, <2>1, <2>2, AwaitsSwapped, SeparateStill DEF Owned, Frame, Ghosts
  <1> QED
    BY <1>2, <1>1, TheMergeWaits, FlowsBranched, <1>6, NothingLarger DEF Readied, Replaced,
       MergeWaits, Frame, Ghosts

LEMMA ParameterReady ==
  ASSUME IInv, Sound, stack # << >>, Frame.at = "branch", current.function # 0, IfFrame(Frame),
         NEW level, NEW known, NEW open, NEW avail, Ghosts(level, known, open, avail),
         NEW type, NEW frame, frame = WithResult(Frame, type, <<NextRegister>>),
         NEW base, base = Merging(functions, current.function, Frame.merge, <<NextRegister>>)
  PROVE  Readied(frame, Allocated(type), base, level, known, open, avail)
  <1> DEFINE holder == Allocated(type)
             f == current.function
             old == functions[f].blocks[Frame.merge]
  <1>2. /\ IsASequence(stack) /\ FunctionsFormed(functions) /\ FunctionFormed(current)
        /\ IsOpen(functions, f, current.block) /\ CodeGood(functions, types)
    BY TheGhosts
  <1>3. FunctionFormed(holder) /\ holder.function = f /\ holder.block = current.block
    BY <1>2 DEF FunctionFormed, Allocated
  <1> HIDE DEF holder, f
  <1>6. Larger(types, types, functions, base) /\ CodeGood(base, types)
    <2>2. f \in DOMAIN functions /\ Frame.merge \in DOMAIN functions[f].blocks
      BY MergeIsOpen DEF IsOpen, f
    <2>5. BlockGood(BlockOf(<<NextRegister>>, old.instructions, old.terminator), types, functions)
      BY <1>2, <2>2, BlockGoodWith DEF BlockGood, CodeGood
    <2> QED
      BY <1>2, <2>2, ParametersWritten, <2>5, WrittenIsGood DEF MergingDone, f
  <1> QED
    BY <1>3, FrameWithResult, FlowsParameter, <1>6 DEF Readied, Replaced, f, holder, Follows, Ghosts

LEMMA BranchIsLeft ==
  ASSUME IInv, Sound, control.do = "value", stack # << >>, Frame.at = "branch",
         current.function # 0, NEW level, NEW known, NEW open, NEW avail,
         Ghosts(level, known, open, avail),
         NEW frame, NEW holder, NEW base, Readied(frame, holder, base, level, known, open, avail),
         NEW arguments, BranchLeft(frame, base, arguments)
  PROVE  \E new : Branched(frame, level, known, open, new)
  <1> DEFINE f == current.function
             s == Replaced(frame)
             n == Len(stack)
             here == Here(avail, functions, current)
             t == JumpTo(Frame.merge, arguments)
             last == Len(base[f].blocks)
             top == known[n]
  <1>1. /\ Flows(level, known, open, avail, s, holder, table.scopes, base)
        /\ Separate(level, s, holder, base)
        /\ FunctionsFormed(base) /\ IsOpen(base, f, current.block)
        /\ Here(avail, base, holder) = here
        /\ FunctionFormed(holder) /\ holder.function = f /\ holder.block = current.block
        /\ Larger(types, types, functions, base) /\ CodeGood(base, types)
    BY DEF Readied
  <1>2. /\ frame.at = "branch" /\ frame.merge = Frame.merge /\ frame.target = Frame.target
        /\ Follows(frame) <=> Follows(Frame)
        /\ IsASequence(arguments) /\ Range(arguments) \subseteq {control.value}
        /\ functions' = WithTerminator(base, t)
        /\ FunctionFormed(current') /\ current'.function = f
        /\ current'.block = IF ~Follows(Frame) THEN Frame.merge ELSE Frame.target
        /\ types' = types
    BY DEF BranchLeft
  <1> HIDE DEF t
  <1>4. /\ IsASequence(s) /\ Len(s) = n /\ s # << >> /\ Head(s) = frame /\ At(s, n) = frame
    BY CurrentIs, DroppedAt, SwappedAt DEF Replaced
  <1> HIDE DEF s, here
  <1>5. level[n] = f /\ level[n - 1] = f /\ n \in 1..n
    BY CurrentIs, DroppedAt, TheMergeWaits DEF Ghosts
  <1>6. MergeWaits(frame, top, base[f].blocks, avail[f])
    BY <1>1, <1>4, <1>5, <1>2 DEF Flows, Depth
  <1>7. top \subseteq here /\ Registers({control.value}) \subseteq here
    BY <1>1, <1>4 DEF Flows, Ghosts, Carried, here
  <1>8. \A b \in Pending(frame) : IsOpen(base, f, b) /\ b # current.block
    BY <1>4, <1>5, <1>1 DEF Awaits, Separate
  <1>10. last \in Nat /\ \A b \in Pending(frame) : b \in 1..last
    BY <1>1, SequenceShape, <1>8 DEF FunctionsFormed, CodeFormed, IsOpen
  <1>12. /\ t # NoTerminator /\ TerminatorOperands(t) = Range(arguments)
         /\ Successors(t) = {Frame.merge}
    BY DEF t, JumpTo, NoTerminator, TerminatorOperands, Successors
  <1>13. TerminatorGood(t, types, base)
    <2> QED
      BY <1>2, <1>1, ControlIsGood, OperandStaysGood DEF t, JumpTo, TerminatorGood, Range
  <1>15. Closing(holder, base, functions', avail, top, here, last, t, 0, current')
    BY <1>2, <1>7, <1>10, <1>6, <1>12, <1>8, <1>1 DEF Closes, Closing, Pending, MergeWaits,
       Registers
  <1>16. /\ Ends(holder, base, functions', avail, top, f, current.block, here, last, t, 0, current')
         /\ Larger(types, types, base, functions') /\ CodeGood(functions', types)
    BY <1>1, <1>13, <1>15, BlockCloses
  <1> DEFINE new == Afterwards(avail, f, last, here)
  <1>17. Flows(level, known, open, new, s, current', table.scopes, functions')
    <2>1. PICK top_, f_, b_, last_ : top_ = top /\ f_ = f /\ b_ = current.block /\ last_ = last
      OBVIOUS
    <2>2. /\ Ends(holder, base, functions', avail, top_, f_, b_, here, last_, t, 0, current')
          /\ top_ = known[Len(s)]
      BY <1>4, <1>16, <2>1
    <2>3. Flows(level, known, open, Afterwards(avail, f_, last_, here), s, current', table.scopes,
                functions')
      BY ONLY <1>1, <1>4, <2>2, FlowsEnds
    <2> QED
      BY <2>1, <2>3
  <1> QED
    BY <1>17, <1>1, <1>2, <1>16, <1>8, <1>10, <1>6 DEF Branched, s, Larger, Ends, EndedWith,
       MergeWaits, Pending

(* The ways on from a branch that has ended.                                  *)
LEMMA BranchedIsSound ==
  ASSUME IInv, Sound, stack # << >>, Frame.at = "branch", current.function # 0,
         NEW frame, IfFrame(frame), frame.at = "branch", frame.merge = Frame.merge,
         Follows(frame) <=> Follows(Frame),
         NEW level, NEW known, NEW open, NEW new, Branched(frame, level, known, open, new),
         current'.function = current.function, UNCHANGED <<table, types, function_table>>,
         \/ /\ ~Follows(Frame) /\ current'.block = Frame.merge
            /\ Give(IF frame.parameter = << >> THEN VoidValue ELSE Register(frame.parameter[1]))
         \/ \E e : Resume(ToCondition(frame), e)
         \/ Follows(Frame) /\ ~(Frame.part < Len(Frame.parts)) /\ \E e : Resume(ToElse(frame), e),
         frame.part = Frame.part, frame.parts = Frame.parts
  PROVE  Sound'
  <1> DEFINE s == Replaced(frame)
             gs == functions'
  <1>1. /\ Flows(level, known, open, new, s, current', table.scopes, functions')
        /\ Larger(types, types', functions, functions') /\ CodeGood(functions', types')
        /\ frame.parameter # << >> =>
             frame.parameter[1] \in Range(gs[current'.function].blocks[frame.merge].parameters)
    BY DEF Branched
  <1>3. /\ IsASequence(s) /\ s # << >> /\ Head(s) = frame /\ Tail(s) = Tail(stack)
    BY TheGhosts, SwappedAt, TailOfSwapped DEF Replaced
  <1> HIDE DEF s
  <1>4. CASE /\ ~Follows(Frame) /\ current'.block = Frame.merge
             /\ Give(IF frame.parameter = << >> THEN VoidValue ELSE Register(frame.parameter[1]))
    <2> DEFINE operand == IF frame.parameter = << >> THEN VoidValue ELSE Register(frame.parameter[1])
    <2>1. stack' = Tail(stack) /\ control'.do = "value" /\ control'.value = operand
      BY <1>4 DEF Give, ValueOf
    <2>3. Len(table.scopes) = Len(table.scopes) - Scopes(Head(s)) /\ Head(s).at # "body"
      <3>1. Scopes(Head(s)) = 0 /\ Head(s).at # "body"
        BY <1>3 DEF Scopes
      <3> QED
        BY TheGhosts, <3>1, SequenceShape
    <2>6. Registers({operand}) \subseteq Here(new, functions', current')
          /\ GoodOperand(operand, types', functions')
      <3>1. CASE frame.parameter = << >>
        BY <3>1, VoidGood, ConstantIsVisible, GoodIsNoRegister DEF Sound, WellMade, GoodOperand
      <3>2. CASE frame.parameter # << >>
        <4>1. operand = Register(frame.parameter[1])
          BY <3>2
        <4> HIDE DEF operand
        <4> QED
          BY <4>1, <1>1, <1>4, <3>2 DEF Registers, Register, IsRegister, GoodOperand, Here, AtEnd,
             Defined, Defines
      <3> QED
        BY <3>1, <3>2
    <2> HIDE DEF operand
    <2> QED
      BY <2>1, <1>3, <1>1, <2>3, FlowsDropped, <2>6, StepMade DEF Sound, StackMoves, ControlGood,
         Flow, Carried, Flowing
  <1>5. ASSUME NEW later, later.at \in {"branch", "else_if"}, later.merge = frame.merge,
               later.parameter = frame.parameter, ~(later.at = "branch" /\ Follows(later)),
               NEW e, Resume(later, e)
        PROVE  Sound'
    <2>2. Flows(level, known, open, new, <<later>> \o Tail(s), current', table.scopes, functions')
      BY <1>1, <1>3, <1>5, FlowsBranched
    <2> QED
      BY <1>3, <1>5, <2>2, NoValueCarried, <1>1, EmptyHeld, StepMade DEF Sound, StackMoves,
         ControlGood, Flow, Flowing, Replaced, Resume, EvaluateOf
  <1>6. CASE \E e : Resume(ToCondition(frame), e)
    BY FrameToCondition, <1>5, <1>6
  <1>7. CASE Follows(Frame) /\ ~(Frame.part < Len(Frame.parts)) /\ \E e : Resume(ToElse(frame), e)
    BY FrameToElse, <1>7, <1>5 DEF Follows
  <1> QED
    BY <1>4, <1>6, <1>7

LEMMA BranchDoneIsSound ==
  ASSUME IInv, Sound, BranchDone
  PROVE  Sound'
  <1> DEFINE type == TypeOf(control.value)
             allocates == Frame.type = 0 /\ type # Void
             parameter == IF allocates THEN <<NextRegister>> ELSE Frame.parameter
             arguments == IF parameter = << >> THEN << >> ELSE <<control.value>>
             frame == [Frame EXCEPT !.type = type, !.parameter = parameter]
             base == IF allocates
                     THEN [WithRegister(functions) EXCEPT
                             ![current.function].blocks[Frame.merge].parameters = parameter]
                     ELSE functions
             ended == WithTerminator(base, JumpTo(Frame.merge, arguments))
             holder == IF allocates THEN Allocated(type) ELSE current
             later == IF ~Follows(Frame) THEN Frame.merge ELSE Frame.target
             operand == IF parameter = << >> THEN VoidValue ELSE Register(parameter[1])
  <1>1. /\ control.do = "value" /\ stack # << >> /\ Frame.at = "branch" /\ FrameFormed(Frame)
    BY ReturnedTo DEF BranchDone
  <1>3. IfFrame(Frame) /\ current.function # 0
    BY <1>1, BranchInFunction DEF FrameFormed, IfFrame
  <1>4. frame = WithResult(Frame, type, parameter)
    BY DEF WithResult
  <1> SUFFICES ASSUME functions' = ended, current' = [holder EXCEPT !.block = later],
                      UNCHANGED <<table, types, function_table>>,
                      \/ ~Follows(Frame) /\ Give(operand)
                      \/ Follows(Frame) /\ \E e : Resume(ToCondition(frame), e)
                      \/ /\ Follows(Frame) /\ ~(Frame.part < Len(Frame.parts))
                         /\ \E e : Resume(ToElse(frame), e)
               PROVE  Sound'
    BY SoundFails DEF BranchDone, ToCondition, ToElse
  <1>9. PICK level, known, open, avail : Ghosts(level, known, open, avail)
    BY TheGhosts
  <1> HIDE DEF frame
  <1>10. Readied(frame, holder, base, level, known, open, avail)
    BY <1>1, <1>3, <1>4, <1>9, ParameterReady, ResultReady DEF Merging
  <1>11. /\ IfFrame(frame) /\ frame.at = "branch" /\ frame.merge = Frame.merge
         /\ frame.target = Frame.target /\ (Follows(frame) <=> Follows(Frame))
         /\ frame.part = Frame.part /\ frame.parts = Frame.parts /\ frame.parameter = parameter
    BY <1>1, <1>3, <1>4, FrameWithResult DEF Follows
  <1> HIDE DEF base
  <1>12. /\ FunctionFormed(current') /\ current'.function = current.function
         /\ current'.block = later
    BY <1>10 DEF Readied, FunctionFormed
  <1>13. BranchLeft(frame, base, arguments)
    BY EmptySequence, OneSequence, <1>11, <1>12 DEF BranchLeft, Range
  <1> HIDE DEF holder, ended, arguments, later
  <1>14. PICK new : Branched(frame, level, known, open, new)
    BY <1>1, <1>3, <1>9, <1>10, <1>13, BranchIsLeft
  <1> HIDE DEF parameter
  <1>16. operand = IF frame.parameter = << >> THEN VoidValue ELSE Register(frame.parameter[1])
    BY <1>11
  <1> HIDE DEF operand
  <1> QED
    BY <1>1, <1>3, <1>11, <1>12, <1>14, <1>16, BranchedIsSound DEF later

LEMMA ScopeEntered ==
  ASSUME NEW pool, NEW fs, NEW t, TableGood(t, pool, fs), NEW fn,
         NEW parameter_types, IsASequence(parameter_types), NEW value, GoodValue(value, pool, fs)
  PROVE  /\ TableGood(EnteredScope(t, fn, parameter_types, value), pool, fs)
         /\ BarrierAdded(t, EnteredScope(t, fn, parameter_types, value), Len(parameter_types))
  <1> DEFINE pushed == PushScope(t, TRUE)
             named == IF fn.name = << >> THEN pushed ELSE Declared(pushed, fn.name[1], value)
             new == EnteredScope(t, fn, parameter_types, value)
             objects == {ObjectBinding(parameter_types[i], i - 1) : i \in DOMAIN parameter_types}
             m == Len(t.scopes)
             n == Len(parameter_types)
  <1>1. TableFormed(t) /\ m \in Nat
    BY SequenceShape DEF TableGood, TableFormed
  <1>2. TableGood(pushed, pool, fs) /\ TableFormed(pushed)
    BY PushedIsGood DEF TableGood
  <1>3. /\ IsASequence(pushed.scopes) /\ Len(pushed.scopes) = m + 1
        /\ \A i \in 1..m : pushed.scopes[i] = t.scopes[i]
        /\ pushed.scopes[m + 1].is_barrier /\ DOMAIN pushed.scopes[m + 1].symbols = {}
    <2>1. PICK barrier : barrier = TRUE
      OBVIOUS
    <2> DEFINE scope == [symbols |-> NoSymbols, is_barrier |-> barrier]
    <2>2. pushed = PushScope(t, barrier)
      BY <2>1
    <2> HIDE DEF pushed
    <2>3. /\ IsASequence(pushed.scopes) /\ Len(pushed.scopes) = Len(t.scopes) + 1
          /\ pushed.scopes[Len(t.scopes) + 1] = scope
          /\ \A i \in 1..Len(t.scopes) : pushed.scopes[i] = t.scopes[i]
      BY ONLY <1>1, <2>2, TablePushed
    <2>4. scope.is_barrier /\ DOMAIN scope.symbols = {}
      BY <2>1 DEF NoSymbols
    <2> HIDE DEF scope
    <2> QED
      BY <2>3, <2>4
  <1> HIDE DEF pushed
  <1>4. /\ TableGood(named, pool, fs) /\ TableFormed(named)
        /\ ScopesBound(pushed.scopes, named.scopes, {value})
    BY <1>2, <1>3, DeclaredIsGood, TableDeclared DEF ScopesBound, Bound, BindingGood
  <1>5. new = WithParameters(named, fn, parameter_types)
    BY DEF EnteredScope, pushed
  <1> HIDE DEF new, named
  <1>6. IsASequence(named.scopes) /\ Len(named.scopes) = m + 1 /\ named.scopes # << >>
    BY <1>3, <1>4, <1>1, EmptySequence DEF ScopesBound
  <1>7. /\ TableFormed(new) /\ new.global = named.global
        /\ ScopesBound(named.scopes, new.scopes, objects)
    BY <1>4, <1>5, <1>6, TableWithParameters
  <1>8. \A b \in objects : IsObjectBinding(b) /\ b.register \in 0..n - 1
    BY SequenceShape DEF ObjectBinding, IsObjectBinding
  <1> HIDE DEF objects
  <1> HIDE DEF m
  <1>10. /\ Len(new.scopes) = m + 1
         /\ \A i \in 1..m : new.scopes[i] = t.scopes[i]
         /\ new.scopes[m + 1].is_barrier
    BY <1>3, <1>4, <1>6, <1>7, <1>1 DEF ScopesBound
  <1>11. ASSUME NEW x \in DOMAIN new.scopes[m + 1].symbols,
                IsObjectBinding(new.scopes[m + 1].symbols[x])
         PROVE  new.scopes[m + 1].symbols[x].register \in 0..n - 1
    BY <1>1, <1>3, <1>4, <1>6, <1>7, GoodIsNoRegister, <1>8, <1>11 DEF ScopesBound, Bound
  <1> QED
    BY <1>8, <1>7, <1>4, TableGoodWith, <1>10, <1>11 DEF m, new, BarrierAdded, BindingGood, Bound

(* The code of the new function and its value are good.                       *)
LEMMA AppendedIsGood ==
  ASSUME NEW fs, IsASequence(fs), NEW pool, NEW new, CodeGood(fs, pool),
         \A t \in DOMAIN pool : t \in DOMAIN new /\ new[t] = pool[t],
         NEW place \in DOMAIN new, NEW count, NEW parameters
  PROVE  LET gs == Append(fs, Code(place, count, parameters))
         IN  /\ Larger(pool, new, fs, gs) /\ CodeGood(gs, new)
             /\ GoodValue(Constant(place, Len(fs) + 1), new, gs)
  <1> DEFINE code == Code(place, count, parameters)
             gs == Append(fs, code)
             last == Len(fs)
  <1>1. /\ last \in Nat /\ DOMAIN fs = 1..last
        /\ IsASequence(gs) /\ Len(gs) = last + 1
        /\ gs[last + 1] = code
        /\ \A g \in 1..last : gs[g] = fs[g]
    BY AppendedSequence, SequenceShape
  <1>2. /\ DOMAIN code.blocks = {1} /\ code.blocks[1] = BlockOf(parameters, << >>, NoTerminator)
    BY OneSequence, SequenceShape DEF Code, EmptyBlock, BlockOf
  <1> HIDE DEF gs, code
  <1> HIDE DEF last
  <1>6. BlockGood(BlockOf(parameters, << >>, NoTerminator), new, gs)
    BY EmptySequence DEF BlockGood, BlockOf, TerminatorGood, NoTerminator
  <1>7. CodeGood(gs, new)
    BY <1>1, <1>2, SequenceShape, <1>6, CodeStaysGood DEF Larger
  <1> QED
    BY <1>1, SequenceShape, <1>7 DEF gs, code, last, GoodValue, Constant, Larger

(* A function is entered.                                                     *)
LEMMA EnteredIsSound ==
  ASSUME IInv, TypesHold, Sound, stack # << >>, Frame.at = "type",
         NEW fn, NEW parameter_types, IsASequence(parameter_types), NEW result,
         EnterFunction(fn, parameter_types, result), function_table' = function_table
  PROVE  Sound'
  <1> DEFINE type == FunctionType(parameter_types, result)
             place == TypeIn(Interned(types, type), type)
             last == Len(functions)
             n == Len(parameter_types)
             parameters == [i \in 1..n |-> i - 1]
             inner == [function |-> last + 1, block |-> 1, register_types |-> parameter_types]
             frame == [at |-> "body", fn |-> fn, saved |-> current]
             value == Constant(place, last + 1)
  <1>1. /\ types' = Interned(types, type)
        /\ functions' = Append(functions, Code(place, n, parameters))
        /\ current' = inner
        /\ table' = EnteredScope(table, fn, parameter_types, value)
        /\ stack' = Replaced(frame) /\ control'.do = "expression"
    BY DEF EnterFunction, Resume, EvaluateOf, Code, EnteredScope
  <1>2. /\ FunctionFormed(inner) /\ inner.function = last + 1 /\ inner.block = 1
        /\ frame.at = "body" /\ frame.saved = current
    BY DEF FunctionFormed
  <1>3. /\ \A t \in DOMAIN types : t \in DOMAIN types' /\ types'[t] = types[t]
        /\ place \in DOMAIN types'
    BY <1>1, InternedGrows DEF TypesHold, Grown
  <1>5. n \in Nat /\ Range(parameters) = 0..n - 1
    <2>1. n \in Nat
      BY SequenceShape
    <2> HIDE DEF n
    <2>2. \A k \in 0..n - 1 : k + 1 \in 1..n /\ (k + 1) - 1 = k
      BY <2>1
    <2>4. DOMAIN parameters = 1..n /\ \A i \in 1..n : parameters[i] = i - 1
      OBVIOUS
    <2> HIDE DEF parameters
    <2>5. \A k \in 0..n - 1 : k \in Range(parameters)
      BY <2>2, <2>4 DEF Range
    <2> QED
      BY <2>1, <2>5, <2>4 DEF Range
  <1> HIDE DEF type, place, inner, frame, n, parameters
  <1>6. /\ Larger(types, types', functions, functions') /\ CodeGood(functions', types')
        /\ GoodValue(value, types', functions')
    BY TheGhosts, <1>1, <1>3, AppendedIsGood DEF FunctionsFormed
  <1> HIDE DEF value
  <1>7. TableGood(table', types', functions') /\ BarrierAdded(table, table', n)
    BY <1>6, TableStaysGood, <1>1, ScopeEntered DEF Sound, WellMade, n
  <1>8. Flow'
    <2>1. PICK level, known, open, avail : Ghosts(level, known, open, avail)
      BY TheGhosts
    <2>3. EntersWith(stack, frame, current, inner, table.scopes, table'.scopes, functions, n)
      BY <1>2, <1>5, <1>7 DEF EntersWith, BarrierAdded, Idle, Scopes, Frame
    <2>5. PICK new : Flowing(new, stack', current', table'.scopes, functions')
      BY <1>1, TheGhosts, <1>5, <2>1, <2>3, FlowsEntered DEF Replaced, Ghosts, FunctionsFormed
    <2> QED
      BY <2>5, <1>1, NoValueCarried DEF Flow
  <1> QED
    BY <1>8, <1>2, EmptyHeld, <1>1, <1>6, <1>7, StepMade DEF Sound, StackMoves, ControlGood

LEMMA TypeValueIsSound ==
  ASSUME IInv, TypesHold, Sound, TypeValue
  PROVE  Sound'
  <1> DEFINE known == Append(Frame.types, control.value.value)
             more == [Frame EXCEPT !.types = known]
             fn == Frame.fn
  <1>1. stack # << >> /\ Frame.at = "type" /\ FrameFormed(Frame)
    BY ReturnedTo DEF TypeValue
  <1>2. \/ Fail
        \/ (\E e : Resume(more, e)) /\ UNCHANGED <<table, current, unit>>
        \/ /\ EnterFunction(fn, Front(known), control.value.value)
           /\ function_table' = function_table
    BY DEF TypeValue, unit
  <1>3. more.at = Frame.at
    OBVIOUS
  <1>4. IsASequence(Front(known))
    <2>2. IsASequence(known) /\ Len(known) = Len(Frame.types) + 1 /\ Len(Frame.types) \in Nat
      BY <1>1, AppendedSequence, SequenceShape DEF FrameFormed
    <2> HIDE DEF known
    <2> QED
      BY <2>2, FrontOfSequence
  <1> HIDE DEF more, known
  <1>5. ASSUME NEW e, Resume(more, e), UNCHANGED <<table, current, unit>>
        PROVE  Sound'
    BY <1>5, <1>1, <1>3, EmptyHeld, SoundSwaps DEF Resume, EvaluateOf, Held, Scopes, SwapsFor
  <1> QED
    BY <1>1, <1>2, <1>4, <1>5, EnteredIsSound, SoundFails

LEMMA ScopeLeft ==
  ASSUME NEW pool, NEW fs, NEW t, TableGood(t, pool, fs), Len(t.scopes) # 0,
         NEW name, NEW value, GoodValue(value, pool, fs)
  PROVE  LET new == LeftScope(t, name, value)
         IN  /\ TableGood(new, pool, fs)
             /\ Len(new.scopes) = Len(t.scopes) - 1
             /\ Fewer(t.scopes, new.scopes, Len(new.scopes))
  <1> DEFINE popped == PopScope(t)
             new == LeftScope(t, name, value)
             m == Len(t.scopes) - 1
  <1>1. TableFormed(t) /\ TableGood(popped, pool, fs)
    BY PoppedIsGood DEF TableGood
  <1>2. /\ TableFormed(popped) /\ Len(popped.scopes) = m
        /\ \A i \in 1..m : popped.scopes[i] = t.scopes[i]
    BY <1>1, TablePopped
  <1> HIDE DEF popped
  <1>4. TableGood(new, pool, fs) /\ ScopesBound(popped.scopes, new.scopes, {value})
    BY <1>2, <1>1, GoodIsNoRegister, DeclaredIsGood, TableDeclared DEF LeftScope, popped,
       ScopesBound, Bound, TableFormed, BindingGood
  <1> HIDE DEF new, m
  <1> QED
    BY <1>4, <1>2, GoodIsNoRegister DEF new, m, Fewer, Bound, BindingGood, ScopesBound

LEMMA LeaveFunctionIsSound ==
  ASSUME IInv, TypesHold, Sound, LeaveFunction
  PROVE  Sound'
  <1> DEFINE last == Len(functions[current.function].blocks)
             t == ReturnOf(control.value)
             f == current.function
             value == Constant(functions[f].type, f)
             name == Frame.fn.name
  <1>1. control.do = "value" /\ stack # << >> /\ Frame.at = "body" /\ FrameFormed(Frame)
    BY ReturnedTo DEF LeaveFunction
  <1> SUFFICES ASSUME functions' = WithTerminator(functions, t),
                      current' = Frame.saved, table' = LeftScope(table, name, value),
                      function_table' = function_table
                        \/ function_table' = Hiding(function_table, Symbol(name[1], f)),
                      stack' = Tail(stack), control' = ValueOf(value), types' = types
               PROVE  Sound'
    BY SoundFails DEF LeaveFunction, Give, LeftScope
  <1>3. PICK level, known, open, avail : Ghosts(level, known, open, avail)
    BY TheGhosts
  <1>4. /\ IsASequence(stack) /\ IsASequence(table.scopes) /\ FunctionsFormed(functions)
        /\ FunctionFormed(current) /\ FunctionFormed(Frame.saved)
        /\ CodeGood(functions, types) /\ ControlGood(control, types, functions)
        /\ TableGood(table, types, functions) /\ NamesGood(function_table, functions)
    BY <1>1, TheGhosts DEF FrameFormed, Sound, WellMade
  <1>5. f # 0 /\ IsOpen(functions, f, current.block) /\ f \in DOMAIN functions
    BY <1>1, <1>3, <1>4, LevelUnderTop, TheGhosts DEF Ghosts, Flows, Frame, IsOpen
  <1> DEFINE here == Here(avail, functions, current)
  <1>7. Registers({control.value}) \subseteq here /\ TerminatorGood(t, types, functions)
    BY <1>1, <1>4, <1>3, <1>5 DEF ControlGood, Ghosts, Carried, TerminatorGood, ReturnOf
  <1>8. Closing(current, functions, functions', avail, known[Len(stack)], here, last, t, 0, current)
    BY <1>4, <1>5, <1>7 DEF Closes, Closing, ReturnOf, NoTerminator, TerminatorOperands, Successors
  <1> HIDE DEF t, last, here
  <1>9. /\ Flows(level, known, open, Still(avail, last, here), stack, current, table.scopes, functions')
        /\ Larger(types, types', functions, functions') /\ CodeGood(functions', types')
    BY <1>4, <1>7, <1>8, BlockCloses, <1>3, GhostsEnd
  <1>10. GoodValue(value, types', functions') /\ ~IsRegister(value)
    BY <1>5, <1>9, OperandStaysGood, GoodIsNoRegister DEF TypesHold, FunctionsHaveTypes, GoodValue,
       Constant
  <1> HIDE DEF value, name
  <1>11. /\ TableGood(table', types', functions')
         /\ Len(table'.scopes) = Len(table.scopes) - 1
         /\ Fewer(table.scopes, table'.scopes, Len(table'.scopes))
    BY <1>4, <1>9, TableStaysGood, <1>1, <1>3, ScopeIsOpen, <1>10, ScopeLeft DEF Scopes, Frame,
       Ghosts, Flowing
  <1>12. control'.do = "value" /\ control'.value = value
    BY DEF ValueOf
  <1>14. WellMade'
    BY <1>1, <1>10, <1>12, <1>4, <1>5, <1>9, <1>11, StepMade DEF StackMoves, ControlGood,
       GoodOperand, NamesGood, Larger, Hiding, Symbol, Sound
  <1> QED
    BY <1>9, <1>1, <1>4, <1>11, FlowsLeft, <1>10, ConstantIsVisible, <1>12, <1>14 DEF Sound,
       Flowing, Frame, Carried, Flow

----------------------------------------------------------------------------

LEMMA InitSound ==
  ASSUME Init
  PROVE  Sound
  <1>1. /\ types = ScalarPool /\ functions = << >> /\ current = NoFunction /\ stack = << >>
        /\ function_table = NoSymbols /\ control.do = "next"
        /\ table = [global |-> Predeclared, scopes |-> << >>]
    BY DEF Init, NextStatement
  <1>2. /\ IsASequence(<< >>) /\ Len(<< >>) = 0 /\ DOMAIN << >> = {}
        /\ \A d : d \notin 1..Len(<< >>)
    BY EmptySequence
  <1>5. TableGood(table, ScalarPool, << >>)
    BY <1>1, <1>2, ScalarGood DEF TableGood, TableFormed, BoolValue, Predeclared, ScalarsIn
  <1>6. WellMade
    BY <1>1, <1>2, <1>5 DEF WellMade, CodeGood, NamesGood, NoSymbols, StackGood, ControlGood,
       ScalarsIn
  <1>7. PICK avail : avail = {}
    OBVIOUS
  <1> QED
    BY <1>6, <1>1, <1>2, FlowsUnwound DEF Sound, Flow, Carried, CodeFlows

LEMMA NextKeepsSound ==
  ASSUME IInv, TypesHold, Sound, [Next]_vars
  PROVE  Sound'
  <1>1. CASE UNCHANGED vars
    BY <1>1, ControlIsGood, SoundStays DEF vars, unit, Returned
  <1>2. CASE TopLevelStatement \/ EndOfUnit \/ UnknownRegister \/ LetStatement
               \/ WhileStatement \/ ReturnStatement \/ ExpressionStatement \/ Discard
    BY <1>2, StatementsAreSound
  <1>3. CASE IntLiteral \/ ParenExpression \/ PostfixExpression \/ IndexExpression \/ Identifier
               \/ RecurseExpression
    BY <1>3, SimpleExpressionsAreSound
  <1>4. CASE PrefixExpression \/ PrefixBracketExpression \/ BinaryExpression \/ CallExpression
               \/ IfExpression \/ FnExpression
    BY <1>4, StartsAreSound
  <1>5. CASE LetBinding \/ EnterBlock \/ BlockStatement \/ BlockTail \/ LeaveBlock
    BY <1>5, LetBindingIsSound, BlocksAreSound
  <1>6. CASE Callee \/ Argument \/ ArgumentValue \/ CallNow \/ EmitCall
    BY <1>6, CallsAreSound, ArgumentValueIsSound
  <1>7. CASE PrefixOperand \/ ElementType \/ ArraySize \/ RightOperand \/ Operate
    BY <1>7, PrefixOperandIsSound, ArraysAreSound, OperatorsAreSound
  <1>8. CASE ConditionRefused \/ ConditionFolded \/ ConditionForks \/ ElseIfCondition \/ BranchDone
    BY <1>8, ConditionsAreSound, ForksAreSound, BranchDoneIsSound
  <1>9. CASE ReturnValue \/ TypeValue \/ LeaveFunction
    BY <1>9, ReturnValueIsSound, TypeValueIsSound, LeaveFunctionIsSound
  <1> QED
    BY <1>1, <1>2, <1>3, <1>4, <1>5, <1>6, <1>7, <1>8, <1>9 DEF Next

----------------------------------------------------------------------------

LEMMA StepsAreBusy ==
  ASSUME IInv, Next
  PROVE  \/ TopLevelStatement
         \/ \E how \in Ways : Halt(how)
         \/ Busy /\ (Fail \/ UNCHANGED tally)
  <1>1. CASE EndOfUnit \/ UnknownRegister
    BY <1>1 DEF EndOfUnit, UnknownRegister, Ways
  <1>2. CASE LetStatement \/ WhileStatement \/ ReturnStatement \/ ExpressionStatement
    BY <1>2 DEF LetStatement, WhileStatement, ReturnStatement, ExpressionStatement, Statement,
       Start, Busy
  <1>3. CASE LetBinding \/ ReturnValue \/ Discard \/ RightOperand \/ Operate \/ ElementType
               \/ ArraySize
    BY <1>3 DEF LetBinding, ReturnValue, Discard, RightOperand, Operate, ElementType, ArraySize,
       Returning, Busy, Ways, GiveType
  <1>4. CASE IntLiteral \/ ParenExpression \/ PrefixExpression \/ PostfixExpression
               \/ IndexExpression \/ PrefixBracketExpression \/ Identifier \/ RecurseExpression
    BY <1>4 DEF IntLiteral, IntegerLiteral, ParenExpression, PrefixExpression, PostfixExpression,
       IndexExpression, PrefixBracketExpression, Identifier, RecurseExpression, Evaluating,
       Yield, Start, Busy, Ways
  <1>5. CASE EnterBlock \/ BlockStatement \/ BlockTail \/ LeaveBlock
    BY <1>5 DEF EnterBlock, BlockStatement, BlockTail, LeaveBlock, Evaluating, Returning, Busy
  <1>6. CASE BinaryExpression \/ CallExpression \/ IfExpression \/ FnExpression
    BY <1>6 DEF BinaryExpression, CallExpression, IfExpression, FnExpression, Evaluating, Start,
       Busy
  <1>7. CASE Callee \/ Argument \/ ArgumentValue \/ CallNow \/ EmitCall \/ PrefixOperand
    BY <1>7 DEF Callee, Argument, ArgumentValue, CallNow, EmitCall, PrefixOperand, GiveType,
       Returning, Busy, Ways
  <1>8. CASE ConditionRefused \/ ConditionFolded \/ ConditionForks \/ ElseIfCondition \/ BranchDone
    BY <1>8 DEF ConditionRefused, ConditionFolded, ConditionForks, ElseIfCondition, BranchDone,
       Fork, Returning, Busy, Ways
  <1>9. CASE TypeValue \/ LeaveFunction
    BY <1>9 DEF TypeValue, LeaveFunction, Returning, Busy
  <1> QED
    BY <1>1, <1>2, <1>3, <1>4, <1>5, <1>6, <1>7, <1>8, <1>9 DEF Next

LEMMA NextKeepsTally ==
  ASSUME IInv, Tally, [Next]_vars
  PROVE  Tally'
  <1>2. CASE UNCHANGED vars
    BY <1>2 DEF Tally, Busy, vars
  <1>3. CASE TopLevelStatement
    BY FrontendAssumption, <1>3 DEF Tally, TopLevelStatement, unit
  <1>4. ASSUME NEW how \in Ways, Halt(how)
        PROVE  Tally'
    BY <1>4 DEF Halt, Tally, Busy, NextStatement
  <1>5. CASE Busy /\ Fail
    BY FrontendAssumption, <1>5 DEF Fail, Tally, Busy, NextStatement
  <1>6. CASE Busy /\ UNCHANGED tally
    BY <1>6 DEF tally, Tally
  <1> QED
    BY <1>2, <1>3, <1>4, <1>5, <1>6, StepsAreBusy

LEMMA InitTally ==
  ASSUME Init
  PROVE  Tally
  BY FrontendAssumption DEF Init, Tally, Busy, NextStatement

----------------------------------------------------------------------------

(* A set that no path leaves but into the avoided blocks holds every path.    *)
LEMMA ReachedWithin ==
  ASSUME NEW blocks, NEW avoided, NEW T, Len(blocks) \in Nat,
         1 \in T \union avoided,
         \A c \in T : Successors(blocks[c].terminator) \subseteq T \union avoided
  PROVE  Reached(blocks, avoided) \subseteq T
  <1>1. PICK part : /\ Reaches(part, blocks, avoided)
                    /\ Reached(blocks, avoided) = part[Len(blocks)]
    BY ReachedUnfolds
  <1> DEFINE S == {n \in Nat : part[n] \subseteq T}
  <1>2. 0 \in S
    BY <1>1 DEF Reaches
  <1>3. ASSUME NEW n \in Nat, n \in S
        PROVE  n + 1 \in S
    <2>1. n + 1 # 0 /\ (n + 1) - 1 = n /\ n + 1 \in Nat
      BY <1>3
    <2>2. part[n + 1] = part[n] \union ((UNION {Successors(blocks[b].terminator) : b \in part[n]}) \ avoided)
      BY <1>1, <2>1 DEF Reaches
    <2> QED
      BY <2>1, <1>3, <2>2
  <1> HIDE DEF S
  <1> QED
    BY <1>1, <1>2, <1>3, SetInduction DEF S

(* What is known where a block is entered has been defined on every path.     *)
LEMMA KnownIsDefined ==
  ASSUME NEW code, NEW befores, FunctionFlows(code, befores), IsASequence(code.blocks),
         NEW b \in DOMAIN code.blocks, NEW r, r \in befores[b]
  PROVE  LET blocks == code.blocks
             all(d) == Defines(blocks[d], Len(blocks[d].instructions))
         IN  b \notin Reached(blocks, {d \in DOMAIN blocks \ {b} : r \in all(d)})
  <1> DEFINE blocks == code.blocks
             avoided == {d \in DOMAIN blocks \ {b} :
                           r \in Defines(blocks[d], Len(blocks[d].instructions))}
             T == {c \in DOMAIN blocks \ avoided : r \notin befores[c]}
  <1>1. 1 \in T \union avoided
    BY DEF FunctionFlows
  <1>2. ASSUME NEW c \in T, NEW d \in Successors(blocks[c].terminator)
        PROVE  d \in T \union avoided
    BY <1>2 DEF FunctionFlows, BlockFlows, AtEnd, Defined
  <1>3. Len(blocks) \in Nat /\ b \notin T
    BY SequenceShape
  <1> HIDE DEF T, avoided
  <1> QED
    BY <1>3, <1>1, <1>2, ReachedWithin DEF avoided

LEMMA ReachedAreBlocks ==
  ASSUME NEW code, NEW befores, FunctionFlows(code, befores), IsASequence(code.blocks)
  PROVE  Reached(code.blocks, {}) \subseteq DOMAIN code.blocks
  BY SequenceShape, ReachedWithin DEF FunctionFlows, BlockFlows

LEMMA FlowIsDefined ==
  ASSUME IInv, Sound
  PROVE  DefinedBeforeRead
  <1>1. PICK avail : CodeFlows(functions, avail)
    BY DEF Sound, Flow, Flowing, Flows
  <1> SUFFICES ASSUME NEW f \in DOMAIN functions
               PROVE  LET blocks == functions[f].blocks
                          all(b) == Defines(blocks[b], Len(blocks[b].instructions))
                          defined(r, b, count) ==
                            \/ r \in Defines(blocks[b], count)
                            \/ b \notin Reached(blocks, {d \in DOMAIN blocks \ {b} : r \in all(d)})
                      IN  \A b \in Reached(blocks, {}) :
                            /\ \A i \in DOMAIN blocks[b].instructions :
                                 \A r \in Registers(InstructionOperands(blocks[b].instructions[i])) :
                                   defined(r, b, i - 1)
                            /\ \A r \in Registers(TerminatorOperands(blocks[b].terminator)) :
                                 defined(r, b, Len(blocks[b].instructions))
    BY DEF DefinedBeforeRead
  <1> DEFINE blocks == functions[f].blocks
             before == avail[f]
             defined(r, b, count) ==
               \/ r \in Defines(blocks[b], count)
               \/ b \notin Reached(blocks, {d \in DOMAIN blocks \ {b} :
                                              r \in Defines(blocks[d], Len(blocks[d].instructions))})
  <1>2. FunctionFlows(functions[f], before) /\ IsASequence(blocks)
    BY <1>1, CurrentIs DEF CodeFlows, FunctionsFormed, CodeFormed
  <1>4. ASSUME NEW b \in DOMAIN blocks, NEW r, r \in before[b], NEW count
        PROVE  defined(r, b, count)
    BY <1>2, <1>4, KnownIsDefined
  <1>5. ASSUME NEW b \in DOMAIN blocks
        PROVE  /\ \A i \in DOMAIN blocks[b].instructions :
                    \A r \in Registers(InstructionOperands(blocks[b].instructions[i])) :
                      r \in before[b] \/ r \in Defines(blocks[b], i - 1)
               /\ \A r \in Registers(TerminatorOperands(blocks[b].terminator)) :
                    r \in before[b] \/ r \in Defines(blocks[b], Len(blocks[b].instructions))
    BY <1>2, SequenceShape DEF FunctionFlows, BlockFlows, AtEnd, Defined
  <1> QED
    BY <1>2, ReachedAreBlocks, <1>4, <1>5

(* Of a function being compiled every register asked for is known.            *)
LEMMA AskedAreKnown ==
  ASSUME IInv, TypesHold, Sound, current.function # 0
  PROVE  RegistersAreTheFunctions
  <1> SUFFICES ASSUME control.do = "value", NEW operand \in Asked, IsRegister(operand)
               PROVE  operand.register + 1 \in DOMAIN current.register_types
    BY DEF RegistersAreTheFunctions, Known
  <1>1. stack # << >> /\ IsOpen(functions, current.function, current.block)
    BY CurrentIs DEF IInv, ControlFits
  <1>3. PICK avail : /\ Flowing(avail, stack, current, table.scopes, functions)
                     /\ Carried(control, avail, functions, current)
    BY DEF Sound, Flow
  <1> DEFINE code == functions[current.function]
             count == code.register_count
  <1>5. BlockFlows(code.blocks[current.block], avail[current.function][current.block], count,
                   DOMAIN code.blocks, avail[current.function])
        /\ count \in Nat
    BY <1>1, <1>3 DEF Flowing, Flows, CodeFlows, FunctionFlows, IsOpen
  <1>7. DOMAIN current.register_types = 1..count
    BY SequenceShape DEF TypesHold, Counted
  <1> HIDE DEF count
  <1> QED
    BY <1>5, <1>1, ValueIsVisible, HeldIsGood, <1>3, <1>7 DEF BlockFlows, Here, AtEnd, Visible,
       Registers, Asked, Held

LEMMA TypesAreOK ==
  ASSUME IInv, TypesHold, Sound, Tally
  PROVE  TypeOK
  <1>2. TypesDiffer /\ FunctionsHaveTypes /\ RegistersCounted
    BY DEF TypesHold, OfDifferentTypes, TypesDiffer, Counted, RegistersCounted, NextRegister
  <1>4. /\ current.function \in 0..Len(functions)
        /\ current.function # 0 => current.block \in DOMAIN Blocks
    BY CurrentIs, SequenceShape DEF FunctionsFormed, IsOpen, Blocks
  <1> QED
    BY <1>2, <1>4, FrontendAssumption DEF TypeOK, Tally, Ways, Sound, WellMade, NamesGood

----------------------------------------------------------------------------

(* The theorems about names and their registers. *)

(* What the compiler emits and remembers is sound, and it counts its          *)
(* diagnostics: what the theorems below follow from.                          *)
THEOREM SoundInvariant ==
  Spec => [](Sound /\ Tally)
  BY InitSound, InitTally, NextKeepsSound, NextKeepsTally, Invariant, TypesInvariant, PTL DEF Spec

(* No path through a function, of any program, reaches a read of a register   *)
(* before the instruction or the block parameter that defines it: the scopes  *)
(* of Symbol_table (compile.cpp:857, :1179) let a name be found only where    *)
(* its definition has run, branches and merges (compile.cpp:867) included.    *)
THEOREM EveryReadIsDefined ==
  Spec => []DefinedBeforeRead
  BY FlowIsDefined, Invariant, SoundInvariant, PTL

(* The assert of type_of_register() (compile.cpp:568) fails only outside of   *)
(* functions: while one is compiled every register whose type is asked for    *)
(* is its own, so that the leaked scope of Frontend_leaked_scope, where it    *)
(* fails, needs a top-level statement.                                        *)
THEOREM FunctionsKnowTheirRegisters ==
  Spec => [](current.function # 0 => RegistersAreTheFunctions)
  BY AskedAreKnown, Invariant, TypesInvariant, SoundInvariant, PTL

(* The front end's state is as declared, whatever the programs: among it      *)
(* that a function's name stands for a function of the unit and that a        *)
(* statement has at most one diagnostic.                                      *)
THEOREM TypeCorrect ==
  Spec => []TypeOK
  BY TypesAreOK, Invariant, TypesInvariant, SoundInvariant, PTL
=============================================================================
