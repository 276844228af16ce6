----------------------- MODULE ModuleBuilder_proofs -----------------------
(* Theorems about ModuleBuilder, for every byte size, instruction set and   *)
(* limit.                                                                   *)
EXTENDS ModuleBuilder, TLAPS

(* A remainder by a positive number is below it. *)
LEMMA Mod ==
  ASSUME NEW x \in Int, NEW m \in Nat \ {0}
  PROVE  x % m \in 0..m - 1
  OBVIOUS

LEMMA SequenceFacts ==
  ASSUME NEW S, NEW s \in Seq(S)
  PROVE  Len(s) \in Nat /\ DOMAIN s = 1..Len(s) /\ s \in [1..Len(s) -> S]
  OBVIOUS

LEMMA AppendFacts ==
  ASSUME NEW S, NEW s \in Seq(S), NEW e \in S
  PROVE  /\ Append(s, e) \in Seq(S)
         /\ Len(Append(s, e)) = Len(s) + 1
         /\ \A i \in 1..Len(s) : Append(s, e)[i] = s[i]
         /\ Append(s, e)[Len(s) + 1] = e
  OBVIOUS

LEMMA ConcatFacts ==
  ASSUME NEW S, NEW s \in Seq(S), NEW t \in Seq(S)
  PROVE  /\ s \o t \in Seq(S)
         /\ Len(s \o t) = Len(s) + Len(t)
         /\ \A i \in 1..Len(s) : (s \o t)[i] = s[i]
         /\ \A i \in 1..Len(t) : (s \o t)[Len(s) + i] = t[i]
  OBVIOUS

LEMMA UpdateFacts ==
  ASSUME NEW S, NEW s \in Seq(S), NEW i, NEW v \in S
  PROVE  [s EXCEPT ![i] = v] \in Seq(S) /\ Len([s EXCEPT ![i] = v]) = Len(s)
  <1>1. Len(s) \in Nat /\ s \in [1..Len(s) -> S]
    BY SequenceFacts
  <1>2. [s EXCEPT ![i] = v] \in [1..Len(s) -> S]
    BY <1>1
  <1> QED
    BY <1>1, <1>2

LEMMA LimitType == ByteWeight[2] \in Nat /\ ByteWeight[1] \in Nat \ {0}
                   /\ ByteWeight[0] \in Nat \ {0} /\ ByteModulus \in Nat \ {0}
  BY WordsAssumption, ModuleBuilderAssumption

(* The k-th byte of an operand. *)
LEMMA ByteOfType ==
  ASSUME NEW v \in Int, NEW k \in 0..1
  PROVE  ByteOf(v, k) \in Nat
  <1>1. ByteWeight[k] \in Nat \ {0}
    BY LimitType
  <1>2. v \div ByteWeight[k] \in Int
    BY <1>1
  <1> QED
    BY <1>2, Mod, LimitType DEF ByteOf

(* An encoded instruction is at least its opcode, and all bytes. *)
LEMMA EncodedType ==
  ASSUME NEW op \in Nat, NEW operands \in Seq(Int), NEW n \in 1..2
  PROVE  /\ Encoded(op, operands, n) \in Seq(Nat)
         /\ Len(Encoded(op, operands, n)) = n + n * Len(operands)
  <1> DEFINE L == Len(operands)
             tail == [j \in 1..n * L |-> ByteOf(operands[(j - 1) \div n + 1], (j - 1) % n)]
             head == IF n = 2 THEN <<Wide, op>> ELSE <<op>>
  <1>1. L \in Nat /\ operands \in [1..L -> Int]
    BY SequenceFacts
  <1>2. n * L \in Nat
    <2> HIDE DEF L
    <2> QED BY <1>1
  <1>3. ASSUME NEW j \in 1..n * L
        PROVE  (j - 1) \div n + 1 \in 1..L /\ (j - 1) % n \in 0..1
    <2> HIDE DEF L
    <2>1. CASE n = 1
      BY <2>1, <1>1
    <2>2. CASE n = 2
      BY <2>2, <1>1
    <2> QED
      BY <2>1, <2>2
  <1>4. \A j \in 1..n * L : ByteOf(operands[(j - 1) \div n + 1], (j - 1) % n) \in Nat
    BY <1>1, <1>3, ByteOfType
  <1>5. tail \in [1..n * L -> Nat]
    BY <1>4
  <1>6. tail \in Seq(Nat) /\ Len(tail) = n * L
    <2> HIDE DEF tail
    <2> DEFINE m == n * L
    <2>1. m \in Nat
      BY <1>2
    <2> HIDE DEF m
    <2>2. tail \in [1..m -> Nat]
      BY <1>5 DEF m
    <2>3. tail \in Seq(Nat) /\ Len(tail) = m
      BY <2>1, <2>2
    <2> QED
      BY <2>3 DEF m
  <1>7. head \in Seq(Nat) /\ Len(head) = n
    BY DEF Wide
  <1> HIDE DEF head, tail
  <1>8. head \o tail \in Seq(Nat) /\ Len(head \o tail) = n + n * L
    BY <1>2, <1>6, <1>7, ConcatFacts
  <1> QED
    BY <1>8 DEF head, tail, Encoded

----------------------------------------------------------------------------
(* Emission. *)

(* Whatever is written goes at the end of the code, at the address that a    *)
(* function placed just before names.                                        *)
LEMMA WriteKeeps ==
  ASSUME IInv, NEW bytes \in Seq(Nat), NEW op \in Nat, NEW operands \in Seq(Int),
         NEW label \in Nat, Write(bytes, op, operands, label)
  PROVE  /\ position' \in Nat /\ code' \in Seq(Nat) /\ outcome' = "ok"
         /\ listing' \in Seq([at : Nat, op : Nat, operands : Seq(Int), label : Nat])
         /\ Len(code') = Len(code) + Len(bytes)
         /\ product.builds = 0 => position' = Len(code') /\ MarksHold'
         /\ UNCHANGED <<functions, constant_table, constant_data, label_positions, marks,
                        handles, product>>
  <1> DEFINE entry == [at |-> Len(code), op |-> op, operands |-> operands, label |-> label]
             E == [at : Nat, op : Nat, operands : Seq(Int), label : Nat]
  <1>1. /\ code \in Seq(Nat) /\ position \in Nat /\ listing \in Seq(E)
        /\ code' = code \o bytes /\ position' = position + Len(bytes)
        /\ listing' = Append(listing, entry)
    BY DEF IInv, TypeOK, Write
  <1>2. code' \in Seq(Nat) /\ Len(code') = Len(code) + Len(bytes) /\ Len(bytes) \in Nat
        /\ Len(code) \in Nat
    BY <1>1, ConcatFacts, SequenceFacts
  <1>3. entry \in E /\ entry.at = Len(code)
    BY <1>2
  <1> HIDE DEF entry, E
  <1>4. /\ listing' \in Seq(E) /\ Len(listing') = Len(listing) + 1 /\ Len(listing) \in Nat
        /\ \A i \in 1..Len(listing) : listing'[i] = listing[i]
        /\ listing'[Len(listing) + 1] = entry
    BY <1>1, <1>3, AppendFacts, SequenceFacts
  <1>5. position' \in Nat
    BY <1>1, <1>2
  <1>6. UNCHANGED <<functions, constant_table, constant_data, label_positions, marks, handles,
                    product>> /\ outcome' = "ok"
    BY DEF Write
  <1>7. ASSUME product.builds = 0
        PROVE  position' = Len(code') /\ MarksHold'
    <2>1. position = Len(code) /\ MarksHold
      BY <1>7 DEF IInv, FirstModule
    <2>2. position' = Len(code')
      BY <1>1, <1>2, <2>1
    <2>3. ASSUME NEW i \in 1..Len(listing) + 1
          PROVE  i \in 1..Len(listing') + 1 /\ CurrentAddress(i)' = CurrentAddress(i)
      <3>1. CASE i <= Len(listing)
        BY <3>1, <1>4 DEF CurrentAddress
      <3>2. CASE i = Len(listing) + 1
        BY <3>2, <1>3, <1>4 DEF CurrentAddress
      <3> QED
        BY <3>1, <3>2, <1>4
    <2>4. MarksHold'
      <3>1. SUFFICES ASSUME NEW f \in DOMAIN functions, functions[f].position # Unplaced
                     PROVE  /\ marks.functions[f] \in 1..Len(listing') + 1
                            /\ \A i : i = marks.functions[f] =>
                                 functions[f].position = CurrentAddress(i)'
        BY <1>6 DEF MarksHold
      <3>2. marks.functions[f] \in 1..Len(listing) + 1
            /\ functions[f].position = CurrentAddress(marks.functions[f])
        BY <2>1, <3>1 DEF MarksHold
      <3> QED
        BY <2>3, <3>2
    <2> QED
      BY <2>2, <2>4
  <1> QED
    BY <1>2, <1>4, <1>5, <1>6, <1>7 DEF E

LEMMA PatchFacts ==
  ASSUME TypeOK
  PROVE  /\ DOMAIN unresolved_jump_offsets = 1..Len(unresolved_jump_offsets)
         /\ \A j \in DOMAIN unresolved_jump_offsets :
              /\ unresolved_jump_offsets[j].position \in Nat
              /\ unresolved_jump_offsets[j].label \in Nat
  <1> DEFINE U == [position : Nat, label : Nat]
  <1>1. unresolved_jump_offsets \in Seq(U)
    BY DEF TypeOK
  <1>2. \A u \in U : u.position \in Nat /\ u.label \in Nat
    OBVIOUS
  <1> HIDE DEF U
  <1>3. \A j \in DOMAIN unresolved_jump_offsets : unresolved_jump_offsets[j] \in U
    BY <1>1, SequenceFacts
  <1> QED
    BY <1>1, <1>2, <1>3, SequenceFacts

(* A write that leaves no new patch. *)
LEMMA ResolvedWriteKeeps ==
  ASSUME IInv, NEW bytes \in Seq(Nat), NEW op \in Nat, NEW operands \in Seq(Int),
         NEW label \in Nat, Write(bytes, op, operands, label),
         UNCHANGED unresolved_jump_offsets
  PROVE  IInv'
  <1>1. TypeOK'
    BY WriteKeeps DEF IInv, TypeOK
  <1>2. TablesFit'
    BY WriteKeeps DEF IInv, TablesFit
  <1>3. ConstantsKeepTheirBytes'
    BY WriteKeeps DEF IInv, ConstantsKeepTheirBytes
  <1>4. FirstModule'
    <2>1. SUFFICES ASSUME product.builds = 0
                   PROVE  PatchesInside'
      BY WriteKeeps DEF IInv, FirstModule
    <2>2. PatchesInside /\ unresolved_jump_offsets \in Seq([position : Nat, label : Nat])
          /\ code \in Seq(Nat)
      BY <2>1 DEF IInv, FirstModule, TypeOK
    <2>3. Len(code') >= Len(code) /\ Len(code) \in Nat /\ Len(code') \in Nat
      BY <2>2, WriteKeeps, SequenceFacts
    <2>4. \A j \in DOMAIN unresolved_jump_offsets : unresolved_jump_offsets[j].position \in Nat
      BY PatchFacts DEF IInv
    <2>5. ASSUME NEW j \in DOMAIN unresolved_jump_offsets
          PROVE  unresolved_jump_offsets[j].position + 2 <= Len(code')
      <3>1. unresolved_jump_offsets[j].position + 2 <= Len(code)
        BY <2>2 DEF PatchesInside
      <3> QED
        BY <2>3, <2>4, <3>1
    <2> QED
      BY <2>5 DEF PatchesInside
  <1> QED
    BY <1>1, <1>2, <1>3, <1>4 DEF IInv

LEMMA EmitStep ==
  ASSUME IInv, NEW i \in Instructions, Emit(i)
  PROVE  IInv'
  <1>1. i.op \in Nat /\ i.operands \in Seq(Int)
    BY ModuleBuilderAssumption
  <1>2. Width(i.op, i.operands) \in 1..2
    BY DEF Width
  <1>3. Encoded(i.op, i.operands, Width(i.op, i.operands)) \in Seq(Nat)
    BY <1>1, <1>2, EncodedType
  <1> QED
    BY <1>1, <1>3, ResolvedWriteKeeps DEF Emit

(* The operands of a jump are a condition and an offset. *)
LEMMA JumpFacts ==
  ASSUME NEW c \in JumpConditions, NEW offset \in Int, NEW n \in 1..2
  PROVE  /\ c \in Seq(Int) /\ Len(c) \in 0..1 /\ JumpOp(c) \in Nat
         /\ Encoded(JumpOp(c), Append(c, offset), n) \in Seq(Nat)
         /\ Len(Encoded(JumpOp(c), Append(c, offset), n)) = n + n * (Len(c) + 1)
  <1>1. c \in Seq(0..ByteWeight[2] - 1) /\ Len(c) <= 1
    BY ModuleBuilderAssumption
  <1>2. 0..ByteWeight[2] - 1 \subseteq Int
    BY LimitType
  <1>3. c \in Seq(Int) /\ Len(c) \in 0..1
    <2>1. Len(c) \in Nat /\ DOMAIN c = 1..Len(c) /\ c \in [1..Len(c) -> 0..ByteWeight[2] - 1]
      BY <1>1, SequenceFacts
    <2>2. c \in [1..Len(c) -> Int]
      BY <1>2, <2>1
    <2> QED
      BY <1>1, <2>1, <2>2
  <1>4. Append(c, offset) \in Seq(Int) /\ Len(Append(c, offset)) = Len(c) + 1
    BY <1>3, AppendFacts
  <1>5. JumpOp(c) \in Nat
    BY DEF JumpOp, JmpI, JnzI
  <1> QED
    BY <1>3, <1>4, <1>5, EncodedType

LEMMA FailStep == ASSUME IInv, Fail PROVE IInv'
  BY DEF IInv, Fail, module, builder, history, TypeOK, TablesFit, FirstModule, MarksHold,
     PatchesInside, CurrentAddress, ConstantsKeepTheirBytes

LEMMA EmitJumpStep ==
  ASSUME IInv, NEW c \in JumpConditions, NEW l \in DOMAIN label_positions, EmitJump(c, l)
  PROVE  IInv'
  <1>1. /\ label_positions \in Seq(Nat \cup {Unplaced}) /\ position \in Nat
        /\ unresolved_jump_offsets \in Seq([position : Nat, label : Nat])
        /\ code \in Seq(Nat)
    BY DEF IInv, TypeOK
  <1>2. l \in Nat /\ l \in DOMAIN label_positions /\ label_positions[l] \in Int
    BY <1>1, SequenceFacts DEF Unplaced
  <1>3. Len(c) \in 0..1 /\ c \in Seq(Int) /\ JumpOp(c) \in Nat
    BY JumpFacts
  <1>4. CASE EmitResolved(c, l)
    <2>1. \A n \in 1..2 : Offset(c, label_positions[l], n) \in Int
      <3>1. ASSUME NEW n \in 1..2 PROVE Offset(c, label_positions[l], n) \in Int
        <4>1. n * (Len(c) + 1) \in Int
          BY <1>3
        <4> QED
          BY <1>1, <1>2, <4>1 DEF Offset, JumpSize
      <3> QED
        BY <3>1
    <2>2. \/ \E n \in 1..2 :
               /\ Write(Encoded(JumpOp(c), Append(c, Offset(c, label_positions[l], n)), n),
                        JumpOp(c), c, l)
               /\ UNCHANGED unresolved_jump_offsets
          \/ Fail
      BY <1>4 DEF EmitResolved
    <2>3. ASSUME NEW n \in 1..2,
                 Write(Encoded(JumpOp(c), Append(c, Offset(c, label_positions[l], n)), n),
                       JumpOp(c), c, l),
                 UNCHANGED unresolved_jump_offsets
          PROVE  IInv'
      <3>1. Encoded(JumpOp(c), Append(c, Offset(c, label_positions[l], n)), n) \in Seq(Nat)
        BY <2>1, JumpFacts
      <3> QED
        BY <1>2, <1>3, <2>3, <3>1, ResolvedWriteKeeps
    <2> QED
      BY <2>2, <2>3, FailStep
  <1>5. CASE EmitUnresolved(c, l)
    <2> DEFINE bytes == Encoded(JumpOp(c), Append(c, 0), 2)
               patch == [position |-> position + 2 + 2 * Len(c), label |-> l]
               U == [position : Nat, label : Nat]
    <2>1. bytes \in Seq(Nat) /\ Len(bytes) = 2 + 2 * (Len(c) + 1)
      BY JumpFacts
    <2>2. Write(bytes, JumpOp(c), c, l)
          /\ unresolved_jump_offsets' = Append(unresolved_jump_offsets, patch)
      BY <1>5 DEF EmitUnresolved
    <2>3. patch \in U /\ patch.label = l /\ patch.position = position + 2 + 2 * Len(c)
      BY <1>1, <1>2, <1>3
    <2> HIDE DEF bytes, patch
    <2>4. /\ unresolved_jump_offsets' \in Seq(U)
          /\ Len(unresolved_jump_offsets') = Len(unresolved_jump_offsets) + 1
          /\ \A j \in 1..Len(unresolved_jump_offsets) :
               unresolved_jump_offsets'[j] = unresolved_jump_offsets[j]
          /\ unresolved_jump_offsets'[Len(unresolved_jump_offsets) + 1] = patch
      BY <1>1, <2>2, <2>3, AppendFacts
    <2>5. /\ position' \in Nat /\ code' \in Seq(Nat) /\ outcome' = "ok"
          /\ listing' \in Seq([at : Nat, op : Nat, operands : Seq(Int), label : Nat])
          /\ Len(code') = Len(code) + Len(bytes)
          /\ product.builds = 0 => position' = Len(code') /\ MarksHold'
          /\ UNCHANGED <<functions, constant_table, constant_data, label_positions, marks,
                         handles, product>>
      BY <1>2, <1>3, <2>1, <2>2, WriteKeeps
    <2>6. TypeOK'
      BY <2>4, <2>5 DEF IInv, TypeOK
    <2>7. DOMAIN unresolved_jump_offsets' = 1..Len(unresolved_jump_offsets) + 1
          /\ DOMAIN unresolved_jump_offsets = 1..Len(unresolved_jump_offsets)
          /\ Len(unresolved_jump_offsets) \in Nat
      BY <1>1, <2>4, SequenceFacts
    <2>8. TablesFit'
      <3>1. \A j \in 1..Len(unresolved_jump_offsets) + 1 :
              unresolved_jump_offsets'[j].label \in DOMAIN label_positions
        <4>1. ASSUME NEW j \in 1..Len(unresolved_jump_offsets) + 1
              PROVE  unresolved_jump_offsets'[j].label \in DOMAIN label_positions
          <5>1. CASE j <= Len(unresolved_jump_offsets)
            <6>1. j \in DOMAIN unresolved_jump_offsets
                  /\ unresolved_jump_offsets'[j] = unresolved_jump_offsets[j]
              BY <5>1, <2>4, <2>7
            <6> QED
              BY <6>1 DEF IInv, TablesFit
          <5>2. CASE j = Len(unresolved_jump_offsets) + 1
            BY <5>2, <1>2, <2>3, <2>4
          <5> QED
            BY <5>1, <5>2, <2>7
        <4> QED
          BY <4>1
      <3> QED
        BY <2>5, <2>7, <3>1 DEF IInv, TablesFit
    <2>9. ConstantsKeepTheirBytes'
      BY <2>5 DEF IInv, ConstantsKeepTheirBytes
    <2>10. FirstModule'
      <3>1. SUFFICES ASSUME product.builds = 0
                     PROVE  PatchesInside'
        BY <2>5 DEF IInv, FirstModule
      <3>2. PatchesInside /\ position = Len(code)
        BY <3>1 DEF IInv, FirstModule
      <3>3. Len(code) \in Nat /\ Len(code') = Len(code) + 2 + 2 * (Len(c) + 1)
        BY <1>1, <1>3, <2>1, <2>5, SequenceFacts
      <3>4. \A j \in 1..Len(unresolved_jump_offsets) :
              unresolved_jump_offsets[j].position \in Nat
        BY PatchFacts DEF IInv
      <3>5. ASSUME NEW j \in 1..Len(unresolved_jump_offsets) + 1
            PROVE  unresolved_jump_offsets'[j].position + 2 <= Len(code')
        <4>1. CASE j <= Len(unresolved_jump_offsets)
          <5>1. j \in DOMAIN unresolved_jump_offsets
                /\ unresolved_jump_offsets'[j] = unresolved_jump_offsets[j]
            BY <4>1, <2>4, <2>7
          <5>2. unresolved_jump_offsets[j].position + 2 <= Len(code)
            BY <5>1, <3>2 DEF PatchesInside
          <5>3. unresolved_jump_offsets[j].position \in Nat
            BY <4>1, <3>4
          <5> HIDE DEF bytes
          <5>4. Len(code') >= Len(code) /\ Len(code') \in Nat
            BY <1>3, <3>3
          <5> QED
            BY <5>1, <5>2, <5>3, <5>4, <3>3
        <4>2. CASE j = Len(unresolved_jump_offsets) + 1
          BY <4>2, <1>1, <1>3, <2>3, <2>4, <3>2, <3>3
        <4> QED
          BY <4>1, <4>2, <2>7
      <3> QED
        BY <2>7, <3>5 DEF PatchesInside
    <2> QED
      BY <2>6, <2>8, <2>9, <2>10 DEF IInv
  <1> QED
    BY <1>4, <1>5 DEF EmitJump

----------------------------------------------------------------------------
(* Labels, functions and constants. *)

LEMMA LabelSteps ==
  ASSUME IInv, MakeLabel \/ \E l \in DOMAIN label_positions : PlaceLabel(l)
  PROVE  IInv'
  <1>1. /\ label_positions \in Seq(Nat \cup {Unplaced}) /\ position \in Nat
        /\ marks \in [labels : Seq(Nat), functions : Seq(Nat)]
        /\ listing \in Seq([at : Nat, op : Nat, operands : Seq(Int), label : Nat])
    BY DEF IInv, TypeOK
  <1>2. /\ UNCHANGED <<code, functions, constant_table, constant_data, position,
                       unresolved_jump_offsets, listing, handles, product>>
        /\ outcome' = "ok"
    BY DEF MakeLabel, PlaceLabel, module
  <1>3. /\ label_positions' \in Seq(Nat \cup {Unplaced})
        /\ DOMAIN label_positions \subseteq DOMAIN label_positions'
        /\ marks' \in [labels : Seq(Nat), functions : Seq(Nat)]
        /\ marks'.functions = marks.functions
    <2>1. CASE MakeLabel
      <3>1. label_positions' = Append(label_positions, Unplaced)
            /\ marks' = [marks EXCEPT !.labels = Append(@, 0)]
        BY <2>1 DEF MakeLabel
      <3>2. Append(marks.labels, 0) \in Seq(Nat)
        BY <1>1, AppendFacts
      <3>3. /\ label_positions' \in Seq(Nat \cup {Unplaced})
            /\ DOMAIN label_positions \subseteq DOMAIN label_positions'
        <4> DEFINE S == Nat \cup {Unplaced}
        <4>1. label_positions \in Seq(S) /\ Unplaced \in S
          BY <1>1
        <4> HIDE DEF S
        <4>2. Append(label_positions, Unplaced) \in Seq(S)
              /\ Len(Append(label_positions, Unplaced)) = Len(label_positions) + 1
          BY <4>1, AppendFacts
        <4>3. /\ DOMAIN label_positions = 1..Len(label_positions) /\ Len(label_positions) \in Nat
              /\ DOMAIN label_positions' = 1..Len(label_positions) + 1
          BY <3>1, <4>1, <4>2, SequenceFacts
        <4> QED
          BY <3>1, <4>2, <4>3 DEF S
      <3> QED
        BY <1>1, <3>1, <3>2, <3>3
    <2>2. CASE \E l \in DOMAIN label_positions : PlaceLabel(l)
      <3>1. PICK l \in DOMAIN label_positions : PlaceLabel(l)
        BY <2>2
      <3>2. label_positions' = [label_positions EXCEPT ![l] = position]
            /\ marks' = [marks EXCEPT !.labels[l] = Len(listing) + 1]
        BY <3>1 DEF PlaceLabel
      <3>3. marks.labels \in Seq(Nat) /\ Len(listing) + 1 \in Nat
        BY <1>1, SequenceFacts
      <3>4. [marks.labels EXCEPT ![l] = Len(listing) + 1] \in Seq(Nat)
        BY <3>3, UpdateFacts
      <3>5. label_positions' \in Seq(Nat \cup {Unplaced})
            /\ DOMAIN label_positions' = DOMAIN label_positions
        BY <1>1, <3>2
      <3> QED
        BY <1>1, <3>2, <3>4, <3>5
    <2> QED
      BY <2>1, <2>2
  <1>4. TypeOK'
    BY <1>2, <1>3 DEF IInv, TypeOK
  <1>5. TablesFit'
    BY <1>2, <1>3 DEF IInv, TablesFit
  <1>6. FirstModule' /\ ConstantsKeepTheirBytes'
    BY <1>2, <1>3 DEF IInv, FirstModule, MarksHold, PatchesInside, CurrentAddress,
       ConstantsKeepTheirBytes
  <1> QED
    BY <1>4, <1>5, <1>6 DEF IInv

LEMMA FunctionFacts ==
  ASSUME IInv
  PROVE  /\ functions \in Seq([name : Names, position : Nat \cup {Unplaced}])
         /\ Len(functions) \in Nat /\ DOMAIN functions = 1..Len(functions)
         /\ \A f \in DOMAIN functions :
              functions[f] \in [name : Names, position : Nat \cup {Unplaced}]
         /\ marks.functions \in Seq(Nat) /\ DOMAIN marks.functions = 1..Len(functions)
         /\ marks \in [labels : Seq(Nat), functions : Seq(Nat)]
         /\ Len(listing) \in Nat /\ Len(code) \in Nat /\ position \in Nat
  <1> DEFINE F == [name : Names, position : Nat \cup {Unplaced}]
  <1>1. functions \in Seq(F) /\ marks \in [labels : Seq(Nat), functions : Seq(Nat)]
        /\ position \in Nat /\ code \in Seq(Nat)
        /\ listing \in Seq([at : Nat, op : Nat, operands : Seq(Int), label : Nat])
    BY DEF IInv, TypeOK
  <1>2. marks.functions \in Seq(Nat) /\ Len(marks.functions) = Len(functions)
    BY <1>1 DEF IInv, TablesFit
  <1> HIDE DEF F
  <1>3. Len(functions) \in Nat /\ DOMAIN functions = 1..Len(functions)
        /\ \A f \in DOMAIN functions : functions[f] \in F
    BY <1>1, SequenceFacts
  <1>4. DOMAIN marks.functions = 1..Len(functions) /\ Len(listing) \in Nat
        /\ Len(code) \in Nat
    BY <1>1, <1>2, SequenceFacts
  <1> QED
    BY <1>1, <1>2, <1>3, <1>4 DEF F

LEMMA DeclareFunctionStep ==
  ASSUME IInv, NEW name \in Names, DeclareFunction(name)
  PROVE  IInv'
  <1> DEFINE F == [name : Names, position : Nat \cup {Unplaced}]
             entry == [name |-> name, position |-> Unplaced]
             n == Len(functions)
  <1>1. CASE Fail
    BY <1>1, FailStep
  <1>2. CASE ~Fail
    <2>1. /\ functions' = Append(functions, entry)
          /\ marks' = [marks EXCEPT !.functions = Append(@, 0)]
          /\ outcome' = "ok" /\ ~(n > Limit - 1)
          /\ UNCHANGED <<code, constant_table, constant_data, builder, listing, handles,
                         product>>
      BY <1>2 DEF DeclareFunction
    <2>2. entry \in F /\ entry.position = Unplaced
      OBVIOUS
    <2> HIDE DEF entry, F
    <2>3. /\ functions' \in Seq(F) /\ Len(functions') = n + 1 /\ n \in Nat
          /\ \A f \in 1..n : functions'[f] = functions[f]
          /\ functions'[n + 1] = entry
      BY <2>1, <2>2, FunctionFacts, AppendFacts DEF F
    <2>4. /\ marks' \in [labels : Seq(Nat), functions : Seq(Nat)]
          /\ Len(marks'.functions) = n + 1
          /\ \A f \in 1..n : marks'.functions[f] = marks.functions[f]
      <3>1. marks'.functions = Append(marks.functions, 0) /\ marks'.labels = marks.labels
        BY <2>1, FunctionFacts
      <3>2. Append(marks.functions, 0) \in Seq(Nat) /\ Len(marks.functions) = n
            /\ Len(Append(marks.functions, 0)) = Len(marks.functions) + 1
            /\ \A f \in 1..n : Append(marks.functions, 0)[f] = marks.functions[f]
        BY FunctionFacts, AppendFacts DEF IInv, TablesFit
      <3>3. marks' \in [labels : Seq(Nat), functions : Seq(Nat)]
        BY <2>1, <3>2, FunctionFacts
      <3> QED
        BY <3>1, <3>2, <3>3
    <2>5. TypeOK'
      BY <2>1, <2>3, <2>4 DEF IInv, TypeOK, builder, F
    <2>6. TablesFit'
      <3>1. n + 1 <= Limit
        BY <2>1, <2>3, LimitType DEF Limit
      <3> QED
        BY <2>1, <2>3, <2>4, <3>1 DEF IInv, TablesFit, builder, Limit
    <2>7. FirstModule'
      <3>1. SUFFICES ASSUME product.builds = 0
                     PROVE  MarksHold'
        BY <2>1 DEF IInv, FirstModule, PatchesInside, builder
      <3>2. MarksHold
        BY <3>1 DEF IInv, FirstModule
      <3>3. ASSUME NEW f \in 1..n + 1, functions'[f].position # Unplaced
            PROVE  /\ f \in DOMAIN functions /\ functions[f].position # Unplaced
                   /\ functions'[f] = functions[f]
                   /\ marks'.functions[f] = marks.functions[f]
        <4>1. f # n + 1
          BY <2>2, <2>3, <3>3
        <4>2. f \in 1..n
          BY <2>3, <3>3, <4>1
        <4> QED
          BY <2>3, <2>4, <3>3, <4>2, FunctionFacts
      <3>4. DOMAIN functions' = 1..n + 1
        BY <2>3, SequenceFacts
      <3> QED
        BY <2>1, <3>2, <3>3, <3>4 DEF MarksHold, CurrentAddress
    <2>8. ConstantsKeepTheirBytes'
      BY <2>1 DEF IInv, ConstantsKeepTheirBytes
    <2> QED
      BY <2>5, <2>6, <2>7, <2>8 DEF IInv
  <1> QED
    BY <1>1, <1>2

LEMMA PlaceFunctionStep ==
  ASSUME IInv, NEW f \in DOMAIN functions, PlaceFunction(f)
  PROVE  IInv'
  <1> DEFINE F == [name : Names, position : Nat \cup {Unplaced}]
             entry == [functions[f] EXCEPT !.position = position]
             n == Len(functions)
  <1>1. /\ functions' = [functions EXCEPT ![f] = entry]
        /\ marks' = [marks EXCEPT !.functions[f] = Len(listing) + 1]
        /\ outcome' = "ok"
        /\ UNCHANGED <<code, constant_table, constant_data, builder, listing, handles, product>>
    BY DEF PlaceFunction
  <1>2. entry \in F /\ entry.position = position
    BY FunctionFacts
  <1> HIDE DEF entry, F
  <1>3. /\ functions' \in Seq(F) /\ Len(functions') = n /\ n \in Nat
        /\ DOMAIN functions' = DOMAIN functions
        /\ \A g \in DOMAIN functions : g # f => functions'[g] = functions[g]
        /\ functions'[f] = entry
    <2>1. functions \in Seq(F)
      BY FunctionFacts DEF F
    <2> QED
      BY <1>1, <1>2, <2>1
  <1>4. /\ marks' \in [labels : Seq(Nat), functions : Seq(Nat)]
        /\ Len(marks'.functions) = n
        /\ \A g \in DOMAIN functions : g # f => marks'.functions[g] = marks.functions[g]
        /\ marks'.functions[f] = Len(listing) + 1
    <2>1. marks'.functions = [marks.functions EXCEPT ![f] = Len(listing) + 1]
          /\ marks'.labels = marks.labels
      BY <1>1, FunctionFacts
    <2>2. [marks.functions EXCEPT ![f] = Len(listing) + 1] \in Seq(Nat)
          /\ Len([marks.functions EXCEPT ![f] = Len(listing) + 1]) = Len(marks.functions)
      BY FunctionFacts
    <2>3. Len(marks.functions) = n
      BY DEF IInv, TablesFit
    <2>4. marks' \in [labels : Seq(Nat), functions : Seq(Nat)]
      BY <1>1, <2>2, FunctionFacts
    <2> QED
      BY <2>1, <2>2, <2>3, <2>4, FunctionFacts
  <1>5. TypeOK'
    BY <1>1, <1>3, <1>4 DEF IInv, TypeOK, builder, F
  <1>6. TablesFit'
    BY <1>1, <1>3, <1>4 DEF IInv, TablesFit, builder
  <1>7. FirstModule'
    <2>1. SUFFICES ASSUME product.builds = 0
                   PROVE  MarksHold'
      BY <1>1 DEF IInv, FirstModule, PatchesInside, builder
    <2>2. MarksHold /\ position = Len(code)
      BY <2>1 DEF IInv, FirstModule
    <2>3. SUFFICES ASSUME NEW g \in DOMAIN functions, functions'[g].position # Unplaced
                   PROVE  /\ marks'.functions[g] \in 1..Len(listing) + 1
                          /\ \A i : i = marks'.functions[g] =>
                               functions'[g].position = CurrentAddress(i)
      BY <1>1, <1>3 DEF MarksHold, CurrentAddress
    <2>4. CASE g = f
      <3>1. marks'.functions[g] = Len(listing) + 1 /\ functions'[g].position = Len(code)
        BY <1>2, <1>3, <1>4, <2>2, <2>4
      <3>2. CurrentAddress(Len(listing) + 1) = Len(code)
        BY FunctionFacts DEF CurrentAddress
      <3>3. Len(listing) + 1 \in 1..Len(listing) + 1
        BY FunctionFacts
      <3> QED
        BY <3>1, <3>2, <3>3
    <2>5. CASE g # f
      BY <1>3, <1>4, <2>2, <2>3, <2>5 DEF MarksHold
    <2> QED
      BY <2>4, <2>5
  <1>8. ConstantsKeepTheirBytes'
    BY <1>1 DEF IInv, ConstantsKeepTheirBytes
  <1> QED
    BY <1>5, <1>6, <1>7, <1>8 DEF IInv

LEMMA ConstantFacts ==
  ASSUME IInv
  PROVE  /\ constant_table \in Seq(Nat) /\ constant_data \in Seq(Byte)
         /\ Len(constant_table) \in Nat /\ DOMAIN constant_table = 1..Len(constant_table)
         /\ \A k \in DOMAIN constant_table : constant_table[k] \in Nat
         /\ Len(constant_data) \in Nat /\ DOMAIN constant_data = 1..Len(constant_data)
         /\ Len(constant_table) <= Limit
         /\ handles \subseteq [index : Nat, bytes : Seq(Byte)]
         /\ \A h \in handles : Denotes(constant_table, constant_data, h)
  <1>1. constant_table \in Seq(Nat) /\ constant_data \in Seq(Byte)
    BY DEF IInv, TypeOK
  <1>2. Len(constant_table) <= Limit
        /\ \A h \in handles : Denotes(constant_table, constant_data, h)
    BY DEF IInv, TablesFit, ConstantsKeepTheirBytes
  <1>3. handles \subseteq [index : Nat, bytes : Seq(Byte)]
    BY DEF IInv, TypeOK
  <1> QED
    BY <1>1, <1>2, <1>3, SequenceFacts

(* A constant found denotes its bytes where they were found. *)
LEMMA FoundDenotes ==
  ASSUME IInv, NEW bytes \in Seq(Byte), NEW k \in DOMAIN constant_table,
         HoldsAt(constant_table[k], bytes)
  PROVE  Denotes(constant_table, constant_data, [index |-> k - 1, bytes |-> bytes])
  <1>1. k \in 1..Len(constant_table) /\ Len(constant_table) \in Nat
        /\ constant_table[k] \in Nat /\ Len(constant_table) <= Limit /\ Limit \in Nat
    BY ConstantFacts, LimitType DEF Limit
  <1>2. FitsWide(Unsigned, k - 1)
    BY <1>1 DEF FitsWide, Unsigned, Immediate, Limit
  <1>3. Len(bytes) \in Nat /\ DOMAIN bytes = 1..Len(bytes)
    BY SequenceFacts
  <1>4. ASSUME NEW i \in DOMAIN bytes
        PROVE  /\ constant_table[k] + i \in DOMAIN constant_data
               /\ constant_data[constant_table[k] + i] = bytes[i]
    <2>1. constant_table[k] + Len(bytes) <= Len(constant_data)
          /\ constant_data[constant_table[k] + i] = bytes[i]
      BY DEF HoldsAt
    <2>2. DOMAIN constant_data = 1..Len(constant_data) /\ Len(constant_data) \in Nat
      BY ConstantFacts
    <2> QED
      BY <1>1, <1>3, <2>1, <2>2
  <1>5. k - 1 + 1 = k
    BY <1>1
  <1> QED
    BY <1>2, <1>4, <1>5 DEF Denotes

(* Appending a constant moves none of the others, and it denotes its bytes.  *)
LEMMA AppendedDenotes ==
  ASSUME IInv, NEW bytes \in Seq(Byte), Len(constant_table) # Limit,
         constant_table' = Append(constant_table, Len(constant_data)),
         constant_data' = constant_data \o bytes
  PROVE  /\ constant_table' \in Seq(Nat) /\ constant_data' \in Seq(Byte)
         /\ Len(constant_table') = Len(constant_table) + 1
         /\ Len(constant_table') <= Limit
         /\ \A h \in handles : Denotes(constant_table', constant_data', h)
         /\ Denotes(constant_table', constant_data',
                    [index |-> Len(constant_table), bytes |-> bytes])
  <1> DEFINE T == Len(constant_table)
             D == Len(constant_data)
  <1>1. T \in Nat /\ D \in Nat /\ T <= Limit /\ Limit \in Nat /\ T # Limit
    BY ConstantFacts, LimitType DEF Limit
  <1>2. /\ constant_table' \in Seq(Nat) /\ Len(constant_table') = T + 1
        /\ \A i \in 1..T : constant_table'[i] = constant_table[i]
        /\ constant_table'[T + 1] = D
    <2>1. constant_table \in Seq(Nat) /\ D \in Nat
      BY <1>1, ConstantFacts
    <2>2. constant_table' = Append(constant_table, D)
      OBVIOUS
    <2> HIDE DEF D
    <2> QED
      BY <2>1, <2>2, AppendFacts
  <1>3. /\ constant_data' \in Seq(Byte) /\ Len(constant_data') = D + Len(bytes)
        /\ \A i \in 1..D : constant_data'[i] = constant_data[i]
        /\ \A i \in 1..Len(bytes) : constant_data'[D + i] = bytes[i]
    BY ConstantFacts, ConcatFacts
  <1>4. /\ DOMAIN constant_table' = 1..T + 1 /\ DOMAIN constant_data' = 1..D + Len(bytes)
        /\ DOMAIN bytes = 1..Len(bytes) /\ Len(bytes) \in Nat
        /\ DOMAIN constant_table = 1..T /\ DOMAIN constant_data = 1..D
    BY <1>2, <1>3, SequenceFacts, ConstantFacts
  <1> HIDE DEF T, D
  <1>5. ASSUME NEW h \in handles
        PROVE  \A t, d : t = constant_table' /\ d = constant_data' => Denotes(t, d, h)
    <2>1. Denotes(constant_table, constant_data, h)
      BY ConstantFacts
    <2>2. h.index + 1 \in 1..T + 1 /\ constant_table'[h.index + 1] = constant_table[h.index + 1]
      BY <1>1, <1>2, <1>4, <2>1 DEF Denotes
    <2>3. ASSUME NEW k \in DOMAIN h.bytes
          PROVE  /\ constant_table[h.index + 1] + k \in 1..D + Len(bytes)
                 /\ constant_data'[constant_table[h.index + 1] + k] = h.bytes[k]
      <3>1. constant_table[h.index + 1] + k \in 1..D
            /\ constant_data[constant_table[h.index + 1] + k] = h.bytes[k]
        BY <1>4, <2>1 DEF Denotes
      <3> QED
        BY <1>1, <1>3, <1>4, <3>1
    <2> QED
      BY <1>4, <2>1, <2>2, <2>3 DEF Denotes
  <1>6. ASSUME NEW t, NEW d, t = constant_table', d = constant_data'
        PROVE  Denotes(t, d, [index |-> T, bytes |-> bytes])
    <2>1. FitsWide(Unsigned, T)
      BY <1>1 DEF FitsWide, Unsigned, Immediate, Limit
    <2>2. \A k \in DOMAIN bytes : D + k \in DOMAIN d /\ d[D + k] = bytes[k]
      BY <1>1, <1>3, <1>4, <1>6
    <2>3. t[T + 1] = D /\ T + 1 \in DOMAIN t
      BY <1>1, <1>2, <1>4, <1>6
    <2> QED
      BY <2>1, <2>2, <2>3 DEF Denotes
  <1>7. T + 1 <= Limit
    BY <1>1
  <1> QED
    BY <1>2, <1>3, <1>5, <1>6, <1>7 DEF T

LEMMA ConstantStep ==
  ASSUME IInv, NEW bytes \in ConstantValues, Constant(bytes)
  PROVE  IInv'
  <1>1. bytes \in Seq(Byte)
    BY ModuleBuilderAssumption
  <1>2. UNCHANGED <<code, functions, builder, listing, marks, product>>
        /\ outcome' \in {"ok", "error"}
    BY DEF Constant
  <1>3. /\ constant_table' \in Seq(Nat) /\ constant_data' \in Seq(Byte)
        /\ handles' \subseteq [index : Nat, bytes : Seq(Byte)]
        /\ Len(constant_table') <= Limit
        /\ \A h \in handles' : \A t, d : t = constant_table' /\ d = constant_data' =>
                                    Denotes(t, d, h)
    <2> DEFINE found == {k \in DOMAIN constant_table : HoldsAt(constant_table[k], bytes)}
    <2>1. CASE found # {}
      <3>1. UNCHANGED <<constant_table, constant_data>>
            /\ \E k \in found : handles' = handles \cup {[index |-> k - 1, bytes |-> bytes]}
        BY <2>1 DEF Constant
      <3>2. PICK k \in found : handles' = handles \cup {[index |-> k - 1, bytes |-> bytes]}
        BY <3>1
      <3>3. Denotes(constant_table, constant_data, [index |-> k - 1, bytes |-> bytes])
        BY <1>1, FoundDenotes
      <3>4. [index |-> k - 1, bytes |-> bytes] \in [index : Nat, bytes : Seq(Byte)]
        <4>1. k \in 1..Len(constant_table) /\ Len(constant_table) \in Nat
          BY ConstantFacts
        <4> QED
          BY <1>1, <4>1
      <3> HIDE DEF found
      <3> QED
        BY <3>1, <3>2, <3>3, <3>4, ConstantFacts
    <2>2. CASE found = {} /\ Len(constant_table) = Limit
      <3>1. UNCHANGED <<constant_table, constant_data, handles>>
        BY <2>2 DEF Constant
      <3> QED
        BY <3>1, ConstantFacts
    <2>3. CASE found = {} /\ Len(constant_table) # Limit
      <3>1. /\ constant_table' = Append(constant_table, Len(constant_data))
            /\ constant_data' = constant_data \o bytes
            /\ handles' = handles \cup {[index |-> Len(constant_table') - 1, bytes |-> bytes]}
        BY <2>3 DEF Constant
      <3>2. Len(constant_table) # Limit
        BY <2>3
      <3> HIDE DEF found
      <3>3. /\ constant_table' \in Seq(Nat) /\ constant_data' \in Seq(Byte)
            /\ Len(constant_table') = Len(constant_table) + 1
            /\ Len(constant_table') <= Limit
            /\ \A h \in handles : Denotes(constant_table', constant_data', h)
            /\ Denotes(constant_table', constant_data',
                       [index |-> Len(constant_table), bytes |-> bytes])
        BY <1>1, <3>1, <3>2, AppendedDenotes
      <3>4. Len(constant_table) \in Nat /\ Len(constant_table') - 1 = Len(constant_table)
        BY <3>3, ConstantFacts
      <3>5. [index |-> Len(constant_table), bytes |-> bytes] \in [index : Nat, bytes : Seq(Byte)]
        BY <1>1, <3>4
      <3>6. handles' = handles \cup {[index |-> Len(constant_table), bytes |-> bytes]}
        BY <3>1, <3>4
      <3> QED
        BY <3>3, <3>5, <3>6, ConstantFacts
    <2> QED
      BY <2>1, <2>2, <2>3
  <1>4. TypeOK'
    BY <1>2, <1>3 DEF IInv, TypeOK, builder
  <1>5. TablesFit'
    BY <1>2, <1>3 DEF IInv, TablesFit, builder, Limit
  <1>6. FirstModule'
    BY <1>2 DEF IInv, FirstModule, MarksHold, PatchesInside, CurrentAddress, builder
  <1>7. ConstantsKeepTheirBytes'
    BY <1>2, <1>3 DEF IInv, ConstantsKeepTheirBytes
  <1> QED
    BY <1>4, <1>5, <1>6, <1>7 DEF IInv

----------------------------------------------------------------------------
(* build(). *)

(* Patching changes bytes and never how many there are. *)
LEMMA PatchedType ==
  ASSUME IInv, NEW n \in Nat, n <= Len(unresolved_jump_offsets)
  PROVE  Patched(n) \in Seq(Nat) /\ Len(Patched(n)) = Len(code)
  <1>1. code \in Seq(Nat) /\ Len(code) \in Nat /\ DOMAIN code = 1..Len(code)
        /\ \A p \in DOMAIN code : code[p] \in Nat
    BY SequenceFacts DEF IInv, TypeOK
  <1>2. ASSUME NEW j \in 1..n, NEW p \in DOMAIN PatchedBytes(j)
        PROVE  PatchedBytes(j)[p] \in Nat
    <2> DEFINE jump == unresolved_jump_offsets[j]
               offset == label_positions[jump.label] - (jump.position + 2)
    <2>1. Len(unresolved_jump_offsets) \in Nat
      BY SequenceFacts DEF IInv, TypeOK
    <2>2. j \in DOMAIN unresolved_jump_offsets
      BY <2>1, PatchFacts DEF IInv
    <2>3. jump.position \in Nat /\ jump.label \in DOMAIN label_positions
      BY <2>2, PatchFacts DEF IInv, TablesFit
    <2>4. label_positions \in Seq(Nat \cup {Unplaced})
      BY DEF IInv, TypeOK
    <2> HIDE DEF jump
    <2>5. label_positions[jump.label] \in Int
      BY <2>3, <2>4, SequenceFacts DEF Unplaced
    <2>6. offset \in Int
      BY <2>3, <2>5
    <2>7. p \in {jump.position + 1, jump.position + 2}
          /\ PatchedBytes(j)[p] = ByteOf(offset, p - jump.position - 1)
      BY DEF PatchedBytes, jump
    <2> HIDE DEF offset
    <2>8. p - jump.position - 1 \in 0..1
      BY <2>3, <2>7
    <2> QED
      BY <2>6, <2>7, <2>8, ByteOfType
  <1>3. ASSUME NEW p \in DOMAIN code
        PROVE  Patched(n)[p] \in Nat
    <2> DEFINE here == {j \in 1..n : p \in DOMAIN PatchedBytes(j)}
               last == CHOOSE j \in here : TRUE
    <2>1. CASE here = {}
      BY <1>1, <2>1 DEF Patched
    <2>2. CASE here # {}
      <3>1. Patched(n)[p] = PatchedBytes(last)[p]
        BY <2>2 DEF Patched
      <3>2. last \in here
        BY <2>2
      <3> HIDE DEF last
      <3> QED
        BY <1>2, <3>1, <3>2
    <2> QED
      BY <2>1, <2>2
  <1>4. DOMAIN Patched(n) = 1..Len(code) /\ Patched(n) \in [1..Len(code) -> Nat]
    <2>1. DOMAIN Patched(n) = 1..Len(code) /\ Patched(n) = [p \in 1..Len(code) |-> Patched(n)[p]]
      BY <1>1 DEF Patched
    <2> QED
      BY <1>1, <1>3, <2>1
  <1> QED
    BY <1>1, <1>4

(* The jumps up to one to patch are inside the list. *)
LEMMA BuildFailsStep ==
  ASSUME IInv, BuildFails
  PROVE  IInv'
  <1> DEFINE U == Len(unresolved_jump_offsets)
  <1>1. PICK j \in BadJumps :
          IF PatchesOutside(j - 1)
          THEN outcome' = "undefined" /\ UNCHANGED code
          ELSE outcome' = "error" /\ code' = Patched(j - 1)
    BY DEF BuildFails
  <1>2. UNCHANGED <<functions, constant_table, constant_data, builder, history, product>>
    BY DEF BuildFails
  <1>3. j - 1 \in Nat /\ j - 1 <= U
    <2>1. j \in DOMAIN unresolved_jump_offsets
      BY DEF BadJumps
    <2>2. U \in Nat /\ DOMAIN unresolved_jump_offsets = 1..U
      BY SequenceFacts DEF IInv, TypeOK
    <2> QED
      BY <2>1, <2>2
  <1>4. code' \in Seq(Nat) /\ Len(code') = Len(code) /\ outcome' \in {"error", "undefined"}
    <2>1. code \in Seq(Nat)
      BY DEF IInv, TypeOK
    <2> QED
      BY <1>1, <1>3, <2>1, PatchedType
  <1>5. TypeOK'
    BY <1>2, <1>4 DEF IInv, TypeOK, builder, history
  <1>6. TablesFit' /\ FirstModule' /\ ConstantsKeepTheirBytes'
    BY <1>2, <1>4 DEF IInv, TablesFit, FirstModule, MarksHold, PatchesInside, CurrentAddress,
       ConstantsKeepTheirBytes, builder, history, Limit
  <1> QED
    BY <1>5, <1>6 DEF IInv

LEMMA BuildStep ==
  ASSUME IInv, Build
  PROVE  IInv'
  <1> DEFINE n == Len(unresolved_jump_offsets)
  <1>1. CASE PatchesOutside(n)
    <2>1. outcome' = "undefined" /\ UNCHANGED <<module, builder, history, product>>
      BY <1>1 DEF Build
    <2> QED
      BY <2>1 DEF IInv, module, builder, history, TypeOK, TablesFit, FirstModule, MarksHold,
         PatchesInside, CurrentAddress, ConstantsKeepTheirBytes
  <1>2. CASE ~PatchesOutside(n)
    <2>1. /\ outcome' = "built"
          /\ product' = [builds |-> product.builds + 1, code |-> Patched(n),
                         functions |-> functions, constant_table |-> constant_table,
                         constant_data |-> constant_data, listing |-> listing,
                         marks |-> marks, handles |-> handles]
          /\ code' = << >> /\ functions' = << >>
          /\ constant_table' = << >> /\ constant_data' = << >>
          /\ listing' = << >> /\ handles' = {}
          /\ marks' = [marks EXCEPT !.functions = << >>]
          /\ UNCHANGED builder
      BY <1>2 DEF Build
    <2> HIDE DEF n
    <2>2. product.builds \in Nat
      BY DEF IInv, TypeOK
    <2>3. product'.builds = product.builds + 1 /\ product'.constant_table = constant_table
          /\ product'.constant_data = constant_data /\ product'.handles = handles
      BY <2>1
    <2>4. product'.builds \in Nat /\ product'.builds # 0
      BY <2>2, <2>3
    <2>5. marks' \in [labels : Seq(Nat), functions : Seq(Nat)] /\ marks'.functions = << >>
      <3>1. marks \in [labels : Seq(Nat), functions : Seq(Nat)]
            /\ marks' = [marks EXCEPT !.functions = << >>]
        BY <2>1, FunctionFacts
      <3>2. << >> \in Seq(Nat)
        OBVIOUS
      <3> QED
        BY <3>1, <3>2
    <2>6. TypeOK'
      BY <2>1, <2>4, <2>5 DEF IInv, TypeOK, builder
    <2>7. TablesFit'
      BY <2>1, <2>5, LimitType DEF IInv, TablesFit, builder, Limit
    <2>8. FirstModule'
      BY <2>4 DEF FirstModule
    <2>9. ConstantsKeepTheirBytes'
      BY <2>1, <2>3 DEF IInv, ConstantsKeepTheirBytes
    <2> QED
      BY <2>6, <2>7, <2>8, <2>9 DEF IInv
  <1> QED
    BY <1>1, <1>2

----------------------------------------------------------------------------
LEMMA InitialIInv == Init => IInv
  <1> SUFFICES ASSUME Init PROVE IInv
    OBVIOUS
  <1>1. TypeOK
    BY DEF Init, TypeOK, NoProduct
  <1>2. TablesFit
    BY LimitType DEF Init, TablesFit, Limit
  <1>3. FirstModule
    BY DEF Init, FirstModule, MarksHold, PatchesInside
  <1>4. ConstantsKeepTheirBytes
    BY DEF Init, ConstantsKeepTheirBytes
  <1> QED
    BY <1>1, <1>2, <1>3, <1>4 DEF IInv

LEMMA NextIInv == ASSUME IInv, [Next]_vars PROVE IInv'
  <1>1. CASE UNCHANGED vars
    BY <1>1 DEF vars, IInv, module, builder, history, TypeOK, TablesFit, FirstModule, MarksHold,
       PatchesInside, CurrentAddress, ConstantsKeepTheirBytes
  <1>2. CASE \E i \in Instructions : Emit(i)
    BY <1>2, EmitStep
  <1>3. CASE \E c \in JumpConditions, l \in DOMAIN label_positions : EmitJump(c, l)
    BY <1>3, EmitJumpStep
  <1>4. CASE MakeLabel \/ \E l \in DOMAIN label_positions : PlaceLabel(l)
    BY <1>4, LabelSteps
  <1>5. CASE \E name \in Names : DeclareFunction(name)
    BY <1>5, DeclareFunctionStep
  <1>6. CASE \E f \in DOMAIN functions : PlaceFunction(f)
    BY <1>6, PlaceFunctionStep
  <1>7. CASE \E bytes \in ConstantValues : Constant(bytes)
    BY <1>7, ConstantStep
  <1>8. CASE BuildRefused
    BY <1>8, FailStep DEF BuildRefused
  <1>9. CASE BuildFails
    BY <1>9, BuildFailsStep
  <1>10. CASE Build
    BY <1>10, BuildStep
  <1> QED
    BY <1>1, <1>2, <1>3, <1>4, <1>5, <1>6, <1>7, <1>8, <1>9, <1>10 DEF Next

(* The invariant the others rest on, whatever is emitted, declared, placed   *)
(* and built, in whatever order (module_builder.cpp, bytecode_writer.cpp).   *)
THEOREM BuilderInvariance == Spec => []IInv
  <1>1. IInv /\ [Next]_vars => IInv'
    BY NextIInv
  <1> QED
    BY InitialIInv, <1>1, PTL DEF Spec

(* A constant handle denotes the bytes it was made from, in the module under *)
(* construction and in the one built, however constant() shared the bytes.   *)
THEOREM ConstantsKeep == Spec => []ConstantsKeepTheirBytes
  <1>1. IInv => ConstantsKeepTheirBytes
    BY DEF IInv
  <1> QED
    BY BuilderInvariance, <1>1, PTL

----------------------------------------------------------------------------
(* A builder that builds one module. *)

LEMMA OpenFirst ==
  ASSUME IInv, MaxBuilds = 1, Open
  PROVE  /\ product = NoProduct /\ MarksHold
         /\ \A n \in Nat : n <= Len(unresolved_jump_offsets) => ~PatchesOutside(n)
  <1>1. product.builds = 0
    BY DEF Open, IInv, TypeOK
  <1>2. product = NoProduct /\ MarksHold /\ PatchesInside /\ TypeOK
    BY <1>1 DEF IInv, FirstModule
  <1>3. ASSUME NEW n \in Nat, n <= Len(unresolved_jump_offsets), NEW j \in 1..n
        PROVE  ~(unresolved_jump_offsets[j].position + 2 > Len(code))
    <2>1. Len(unresolved_jump_offsets) \in Nat /\ Len(code) \in Nat
      BY <1>2, SequenceFacts DEF TypeOK
    <2>2. j \in DOMAIN unresolved_jump_offsets
      BY <1>2, <1>3, <2>1, PatchFacts
    <2>3. unresolved_jump_offsets[j].position \in Nat
      BY <1>2, <2>2, PatchFacts
    <2> QED
      BY <1>2, <2>1, <2>2, <2>3 DEF PatchesInside
  <1> QED
    BY <1>2, <1>3 DEF PatchesOutside

LEMMA NeverUndefinedStep ==
  ASSUME IInv, MaxBuilds = 1, NeverUndefined, [Next]_vars
  PROVE  NeverUndefined'
  <1> DEFINE U == Len(unresolved_jump_offsets)
  <1>1. U \in Nat /\ DOMAIN unresolved_jump_offsets = 1..U
    BY SequenceFacts DEF IInv, TypeOK
  <1>2. CASE BuildFails
    <2>1. PICK j \in BadJumps :
            IF PatchesOutside(j - 1)
            THEN outcome' = "undefined" /\ UNCHANGED code
            ELSE outcome' = "error" /\ code' = Patched(j - 1)
      BY <1>2 DEF BuildFails
    <2>2. j - 1 \in Nat /\ j - 1 <= U
      BY <1>1 DEF BadJumps
    <2>3. ~PatchesOutside(j - 1)
      BY <1>2, <2>2, OpenFirst DEF BuildFails
    <2> QED
      BY <2>1, <2>3 DEF NeverUndefined
  <1>3. CASE Build
    <2>1. ~PatchesOutside(U)
      BY <1>1, <1>3, OpenFirst DEF Build
    <2> QED
      BY <1>3, <2>1 DEF Build, NeverUndefined
  <1>4. CASE \E c \in JumpConditions, l \in DOMAIN label_positions : EmitJump(c, l)
    BY <1>4 DEF EmitJump, EmitResolved, EmitUnresolved, Write, Fail, NeverUndefined
  <1>5. CASE \E bytes \in ConstantValues : Constant(bytes)
    BY <1>5 DEF Constant, NeverUndefined
  <1>6. CASE \E i \in Instructions : Emit(i)
    BY <1>6 DEF Emit, Write, NeverUndefined
  <1>7. CASE \/ MakeLabel \/ \E l \in DOMAIN label_positions : PlaceLabel(l)
             \/ \E name \in Names : DeclareFunction(name)
             \/ \E f \in DOMAIN functions : PlaceFunction(f)
             \/ BuildRefused
    BY <1>7 DEF MakeLabel, PlaceLabel, DeclareFunction, PlaceFunction, BuildRefused, Fail,
       NeverUndefined
  <1>8. CASE UNCHANGED vars
    BY <1>8 DEF vars, NeverUndefined
  <1> QED
    BY <1>2, <1>3, <1>4, <1>5, <1>6, <1>7, <1>8 DEF Next

(* build() patches only bytes of the code (module_builder.cpp:120-136), for   *)
(* a builder whose first module is its last.                                 *)
THEOREM PatchingIsDefined == MaxBuilds = 1 => (Spec => []NeverUndefined)
  <1> SUFFICES ASSUME MaxBuilds = 1 PROVE Spec => []NeverUndefined
    OBVIOUS
  <1>1. Init => NeverUndefined
    BY DEF Init, NeverUndefined
  <1>2. IInv /\ NeverUndefined /\ [Next]_vars => NeverUndefined'
    BY NeverUndefinedStep
  <1> QED
    BY BuilderInvariance, <1>1, <1>2, PTL DEF Spec

(* What a build of the first module hands over. *)
LEMMA FirstBuildEnters ==
  ASSUME IInv, MaxBuilds = 1, Build
  PROVE  FunctionsEnterTheirBodies'
  <1> DEFINE n == Len(unresolved_jump_offsets)
  <1>1. MarksHold /\ ~PatchesOutside(n) /\ n \in Nat
    <2>1. n \in Nat
      BY SequenceFacts DEF IInv, TypeOK
    <2> QED
      BY <2>1, OpenFirst DEF Build
  <1>2. product' = [builds |-> product.builds + 1, code |-> Patched(n),
                    functions |-> functions, constant_table |-> constant_table,
                    constant_data |-> constant_data, listing |-> listing,
                    marks |-> marks, handles |-> handles]
        /\ ~FunctionUnplaced
    BY <1>1 DEF Build
  <1>3. Len(Patched(n)) = Len(code)
    BY <1>1, PatchedType
  <1> HIDE DEF n
  <1>4. product'.functions = functions /\ product'.marks = marks /\ product'.listing = listing
        /\ Len(product'.code) = Len(code)
    BY <1>2, <1>3
  <1>5. ASSUME NEW f \in DOMAIN functions
        PROVE  /\ FitsWide(Unsigned, f - 1)
               /\ \A i : i = marks.functions[f] => functions[f].position = AddressOf(i)'
    <2>1. functions[f].position # Unplaced
      BY <1>2 DEF FunctionUnplaced
    <2>2. functions[f].position = CurrentAddress(marks.functions[f])
      BY <1>1, <2>1 DEF MarksHold
    <2>3. f \in 1..Len(functions) /\ Len(functions) \in Nat /\ Len(functions) <= Limit
          /\ Limit \in Nat
      BY FunctionFacts, LimitType DEF IInv, TablesFit, Limit
    <2>4. FitsWide(Unsigned, f - 1)
      BY <2>3 DEF FitsWide, Unsigned, Immediate, Limit
    <2> QED
      BY <1>4, <2>2, <2>4 DEF AddressOf, CurrentAddress
  <1> QED
    BY <1>4, <1>5 DEF FunctionsEnterTheirBodies

LEMMA EntersStep ==
  ASSUME IInv, MaxBuilds = 1, FunctionsEnterTheirBodies, [Next]_vars
  PROVE  FunctionsEnterTheirBodies'
  <1>1. CASE Build
    BY <1>1, FirstBuildEnters
  <1>2. CASE UNCHANGED product
    BY <1>2 DEF FunctionsEnterTheirBodies, AddressOf
  <1>3. Next /\ ~Build => UNCHANGED product
    <2>1. (\E c \in JumpConditions, l \in DOMAIN label_positions : EmitJump(c, l))
            => UNCHANGED product
      BY DEF EmitJump, EmitResolved, EmitUnresolved, Write, Fail
    <2>2. (\E bytes \in ConstantValues : Constant(bytes)) => UNCHANGED product
      BY DEF Constant
    <2>3. (\E i \in Instructions : Emit(i)) => UNCHANGED product
      BY DEF Emit, Write
    <2>4. /\ MakeLabel => UNCHANGED product
          /\ (\E l \in DOMAIN label_positions : PlaceLabel(l)) => UNCHANGED product
          /\ (\E name \in Names : DeclareFunction(name)) => UNCHANGED product
          /\ (\E f \in DOMAIN functions : PlaceFunction(f)) => UNCHANGED product
          /\ BuildRefused => UNCHANGED product
          /\ BuildFails => UNCHANGED product
      BY DEF MakeLabel, PlaceLabel, DeclareFunction, PlaceFunction, BuildRefused, BuildFails,
         Fail
    <2> QED
      BY <2>1, <2>2, <2>3, <2>4 DEF Next
  <1> QED
    BY <1>1, <1>2, <1>3 DEF vars

(* bytecode.md:33: an entry position is the address of the function's first   *)
(* instruction, and its index fits a call's operand: for a builder's first    *)
(* module, whatever was emitted and however often build() was refused before. *)
THEOREM FirstModuleEnters == MaxBuilds = 1 => (Spec => []FunctionsEnterTheirBodies)
  <1> SUFFICES ASSUME MaxBuilds = 1 PROVE Spec => []FunctionsEnterTheirBodies
    OBVIOUS
  <1>1. Init => FunctionsEnterTheirBodies
    BY DEF Init, FunctionsEnterTheirBodies
  <1>2. IInv /\ FunctionsEnterTheirBodies /\ [Next]_vars => FunctionsEnterTheirBodies'
    BY EntersStep
  <1> QED
    BY BuilderInvariance, <1>1, <1>2, PTL DEF Spec

----------------------------------------------------------------------------
(* The code a builder's first build() gives is its listing, for every byte   *)
(* size, instruction set, listing and order of labels: the theorem about     *)
(* BuiltCodeIsTheListing.                                                    *)
(*                                                                           *)
(* The decoder is inverse to the encoder (Decoded).  Until build() an entry  *)
(* of the listing is Final, or Pending: a wide jump but for two bytes that   *)
(* one unresolved jump will patch and no other touches.  Every operation     *)
(* keeps that of the entries there are (Grows), and build() makes all final. *)

----------------------------------------------------------------------------
(* One and two bytes of a number, put together again. *)

LEMMA AtLeastOnce ==
  ASSUME NEW w \in Nat \ {0}, NEW a \in Int, a >= 1
  PROVE  w * a >= w
  <1>1. w * (a - 1) >= 0
    BY SMT
  <1>2. w * a = w * (a - 1) + w
    OBVIOUS
  <1> DEFINE x == w * (a - 1)
             y == w * a
  <1>3. x \in Int /\ y \in Int
    OBVIOUS
  <1> HIDE DEF x, y
  <1>4. y >= w
    BY <1>1, <1>2, <1>3 DEF x, y
  <1> QED
    BY <1>4 DEF y

LEMMA ModUnique ==
  ASSUME NEW w \in Nat \ {0}, NEW v \in Int, NEW k \in Int, NEW s \in 0..w - 1, v = w * k + s
  PROVE  v % w = s
  <1> DEFINE d == v \div w
             t == v % w
  <1>1. d \in Int /\ t \in 0..w - 1 /\ v = w * d + t
    OBVIOUS
  <1> HIDE DEF d, t
  <1>2. w * (k - d) = t - s /\ w * (d - k) = s - t
    BY <1>1
  <1>3. ~(k - d >= 1)
    <2>1. ASSUME k - d >= 1 PROVE w * (k - d) >= w
      BY <1>1, <2>1, AtLeastOnce
    <2> QED
      BY <1>1, <1>2, <2>1
  <1>4. ~(d - k >= 1)
    <2>1. ASSUME d - k >= 1 PROVE w * (d - k) >= w
      BY <1>1, <2>1, AtLeastOnce
    <2> QED
      BY <1>1, <1>2, <2>1
  <1>5. k = d
    BY <1>1, <1>3, <1>4
  <1> QED
    BY <1>1, <1>5 DEF t

LEMMA Weights ==
  /\ ByteModulus \in Nat \ {0}
  /\ ByteWeight[0] = 1 /\ ByteWeight[1] = ByteModulus
  /\ ByteWeight[2] = ByteModulus * ByteModulus /\ ByteWeight[2] \in Nat \ {0}
  <1>1. 0 \in 0..WordBytes - 1 /\ 1 \in 0..WordBytes - 1 /\ 2 \in 0..WordBytes
    BY WordsAssumption, ModuleBuilderAssumption
  <1>2. ByteWeight[0 + 1] = ByteModulus * ByteWeight[0] /\ ByteWeight[1 + 1] = ByteModulus * ByteWeight[1]
    BY <1>1, WordsAssumption
  <1> QED
    BY <1>1, <1>2, WordsAssumption

LEMMA OneByte ==
  ASSUME NEW v \in Int
  PROVE  ByteOf(v, 0) \in Int /\ ByteOf(v, 0) * ByteWeight[0] = v % ByteWeight[1]
  <1>1. v \div 1 = v
    OBVIOUS
  <1>2. ByteOf(v, 0) = v % ByteModulus
    BY <1>1, Weights DEF ByteOf
  <1>3. v % ByteModulus \in Int
    BY Weights
  <1> QED
    BY <1>2, <1>3, Weights

LEMMA TwoBytes ==
  ASSUME NEW v \in Int
  PROVE  /\ ByteOf(v, 0) \in Int /\ ByteOf(v, 1) \in Int
         /\ ByteOf(v, 0) * ByteWeight[0] + ByteOf(v, 1) * ByteWeight[1] = v % ByteWeight[2]
  <1> DEFINE m == ByteModulus
             w == ByteWeight[2]
             q == v \div m
             r == v % m
             k == q \div m
             s == q % m
  <1>1. m \in Nat \ {0} /\ w \in Nat \ {0} /\ w = m * m
    BY Weights
  <1>2. ByteOf(v, 0) = r /\ ByteOf(v, 1) = s
    <2>1. v \div 1 = v
      OBVIOUS
    <2> QED
      BY <2>1, Weights DEF ByteOf
  <1> HIDE DEF m, w
  <1>3. q \in Int /\ r \in 0..m - 1 /\ v = m * q + r
    BY <1>1
  <1> HIDE DEF q, r
  <1>4. k \in Int /\ s \in 0..m - 1 /\ q = m * k + s
    BY <1>1, <1>3
  <1> HIDE DEF k, s
  <1>5. v = w * k + (m * s + r)
    <2>1. m * q = m * (m * k) + m * s
      BY <1>1, <1>3, <1>4
    <2>2. m * (m * k) = (m * m) * k
      BY <1>1, <1>4
    <2> QED
      BY <1>1, <1>3, <1>4, <2>1, <2>2
  <1>6. m * s + r \in 0..w - 1
    <2>1. m * s >= 0
      BY <1>1, <1>4
    <2>2. m * s + m <= m * m
      <3>1. m - s >= 1 /\ m - s \in Int
        BY <1>1, <1>4
      <3>2. m * (m - s) >= m
        BY <1>1, <3>1, AtLeastOnce
      <3>3. m * (m - s) = m * m - m * s
        BY <1>1, <1>4
      <3> QED
        BY <1>1, <1>4, <3>2, <3>3
    <2> DEFINE x == m * s
    <2>3. x \in Int /\ x >= 0 /\ x + m <= w
      BY <1>1, <1>4, <2>1, <2>2
    <2> HIDE DEF x
    <2>4. x + r \in 0..w - 1
      BY <1>1, <1>3, <2>3
    <2> QED
      BY <2>4 DEF x
  <1>7. v % w = m * s + r
    <2> DEFINE low == m * s + r
    <2>1. low \in 0..w - 1 /\ v = w * k + low
      BY <1>5, <1>6
    <2> HIDE DEF low
    <2>2. v % w = low
      BY <1>1, <1>4, <2>1, ModUnique
    <2> QED
      BY <2>2 DEF low
  <1>8. ByteWeight[0] = 1 /\ ByteWeight[1] = m
    BY Weights DEF m
  <1>9. r * 1 + s * m = m * s + r
    BY <1>1, <1>3, <1>4
  <1> QED
    BY <1>2, <1>3, <1>4, <1>7, <1>8, <1>9 DEF w

(* An operand that the n-byte form of an instruction can carry. *)
FitsIn(kind, v, n) ==
  IF kind = Immediate THEN InRange(v, n) ELSE v \in 0..ByteWeight[n] - 1

LEMMA OperandDecoded ==
  ASSUME NEW kind, NEW v \in Int, NEW n \in 1..2, FitsIn(kind, v, n)
  PROVE  (IF kind = Immediate THEN Signed(v % ByteWeight[n], n) ELSE v % ByteWeight[n]) = v
  <1> DEFINE w == ByteWeight[n]
  <1>1. w \in Nat \ {0}
    BY Weights
  <1>2. CASE kind = Immediate
    <2>1. Signed(v, n) = v
      BY <1>2 DEF FitsIn, InRange
    <2>2. (v % w) % w = v % w
      <3> HIDE DEF w
      <3> QED
        BY <1>1
    <2>3. Signed(v % w, n) = Signed(v, n)
      BY <2>2 DEF Signed
    <2> QED
      BY <1>2, <2>1, <2>3
  <1>3. CASE kind # Immediate
    <2>1. v \in 0..w - 1
      BY <1>3 DEF FitsIn
    <2> HIDE DEF w
    <2>2. v % w = v
      BY <1>1, <2>1
    <2> QED
      BY <1>3, <2>2 DEF w
  <1> QED
    BY <1>2, <1>3

LEMMA LoadOne ==
  ASSUME NEW bytes, NEW a \in Int, bytes[a] \in Int
  PROVE  LoadBytes(bytes, a, 1) = bytes[a] * ByteWeight[0]
  <1>1. bytes[a + 0] * ByteWeight[0] = bytes[a] * ByteWeight[0] /\ bytes[a] * ByteWeight[0] \in Int
    BY Weights
  <1> DEFINE x == bytes[a] * ByteWeight[0]
  <1> HIDE DEF x
  <1>2. LoadBytes(bytes, a, 1) = x + 0 + 0 + 0 + 0 + 0 + 0 + 0 /\ x \in Int
    BY <1>1 DEF LoadBytes, x
  <1>3. LoadBytes(bytes, a, 1) = x
    BY <1>2
  <1> QED
    BY <1>3 DEF x

LEMMA LoadTwo ==
  ASSUME NEW bytes, NEW a \in Int, bytes[a] \in Int, bytes[a + 1] \in Int
  PROVE  LoadBytes(bytes, a, 2) = bytes[a] * ByteWeight[0] + bytes[a + 1] * ByteWeight[1]
  <1>1. bytes[a + 0] * ByteWeight[0] = bytes[a] * ByteWeight[0] /\ bytes[a] * ByteWeight[0] \in Int
        /\ bytes[a + 1] * ByteWeight[1] \in Int
    BY Weights
  <1> DEFINE x == bytes[a] * ByteWeight[0]
             y == bytes[a + 1] * ByteWeight[1]
  <1> HIDE DEF x, y
  <1>2. LoadBytes(bytes, a, 2) = x + y + 0 + 0 + 0 + 0 + 0 + 0 /\ x \in Int /\ y \in Int
    BY <1>1 DEF LoadBytes, x, y
  <1>3. LoadBytes(bytes, a, 2) = x + y
    BY <1>2
  <1> QED
    BY <1>3 DEF x, y

----------------------------------------------------------------------------
(* What Encoded writes, and that the machine's decoder gives it back.        *)

LEMMA EncodedAt ==
  ASSUME NEW op \in Nat, NEW operands \in Seq(Int), NEW n \in 1..2
  PROVE  /\ n = 1 => Encoded(op, operands, n)[1] = op
         /\ n = 2 => Encoded(op, operands, n)[1] = Wide /\ Encoded(op, operands, n)[2] = op
         /\ \A j \in 1..n * Len(operands) :
              Encoded(op, operands, n)[n + j] = ByteOf(operands[(j - 1) \div n + 1], (j - 1) % n)
  <1> DEFINE L == Len(operands)
             size == n * L
             tail == [j \in 1..size |-> ByteOf(operands[(j - 1) \div n + 1], (j - 1) % n)]
             head == IF n = 2 THEN <<Wide, op>> ELSE <<op>>
  <1>1. L \in Nat /\ operands \in [1..L -> Int]
    BY SequenceFacts
  <1>2. size \in Nat
    <2> HIDE DEF L
    <2> QED BY <1>1
  <1>3. ASSUME NEW j \in 1..size
        PROVE  (j - 1) \div n + 1 \in 1..L /\ (j - 1) % n \in 0..1
    <2> HIDE DEF L
    <2>1. CASE n = 1
      BY <2>1, <1>1
    <2>2. CASE n = 2
      BY <2>2, <1>1
    <2> QED
      BY <2>1, <2>2
  <1>4. tail \in [1..size -> Nat]
    BY <1>1, <1>3, ByteOfType
  <1>5. \A j \in 1..size : tail[j] = ByteOf(operands[(j - 1) \div n + 1], (j - 1) % n)
    OBVIOUS
  <1> HIDE DEF tail, size
  <1>6. tail \in Seq(Nat) /\ Len(tail) = size
    BY <1>2, <1>4
  <1>7. /\ head \in Seq(Nat) /\ Len(head) = n
        /\ n = 1 => head[1] = op
        /\ n = 2 => head[1] = Wide /\ head[2] = op
    BY DEF Wide
  <1> HIDE DEF head
  <1>8. /\ \A i \in 1..n : (head \o tail)[i] = head[i]
        /\ \A i \in 1..size : (head \o tail)[n + i] = tail[i]
    <2>1. /\ \A i \in 1..Len(head) : (head \o tail)[i] = head[i]
          /\ \A i \in 1..Len(tail) : (head \o tail)[Len(head) + i] = tail[i]
      <3>1. head \in Seq(Nat) /\ tail \in Seq(Nat)
        BY <1>6, <1>7
      <3> QED
        BY <3>1, ConcatFacts
    <2> QED
      BY <1>6, <1>7, <2>1
  <1> DEFINE piece == head \o tail
  <1>9. Encoded(op, operands, n) = piece
    BY DEF Encoded, head, tail, size
  <1>10. /\ \A i \in 1..n : piece[i] = head[i]
         /\ \A i \in 1..size : piece[n + i] = tail[i]
    BY <1>8
  <1> HIDE DEF piece
  <1>11. n = 1 => piece[1] = op
    BY <1>7, <1>10
  <1>12. n = 2 => piece[1] = Wide /\ piece[2] = op
    BY <1>7, <1>10
  <1>13. \A j \in 1..size : piece[n + j] = ByteOf(operands[(j - 1) \div n + 1], (j - 1) % n)
    BY <1>5, <1>10
  <1> QED
    BY <1>9, <1>11, <1>12, <1>13 DEF size

LEMMA EncodedNarrow ==
  ASSUME NEW op \in Nat, NEW operands \in Seq(Int)
  PROVE  /\ Encoded(op, operands, 1)[1] = op
         /\ \A k \in 1..Len(operands) : Encoded(op, operands, 1)[1 + k] = ByteOf(operands[k], 0)
  <1>1. Len(operands) \in Nat /\ 1 * Len(operands) = Len(operands)
    BY SequenceFacts
  <1>2. ASSUME NEW k \in 1..Len(operands)
        PROVE  Encoded(op, operands, 1)[1 + k] = ByteOf(operands[k], 0)
    <2>1. (k - 1) \div 1 + 1 = k /\ (k - 1) % 1 = 0 /\ k \in 1..1 * Len(operands)
      BY <1>1
    <2>2. Encoded(op, operands, 1)[1 + k] = ByteOf(operands[(k - 1) \div 1 + 1], (k - 1) % 1)
      BY <2>1, EncodedAt
    <2> QED
      BY <2>1, <2>2
  <1> QED
    BY <1>2, EncodedAt

LEMMA EncodedWide ==
  ASSUME NEW op \in Nat, NEW operands \in Seq(Int)
  PROVE  /\ Encoded(op, operands, 2)[1] = Wide
         /\ Encoded(op, operands, 2)[2] = op
         /\ \A k \in 1..Len(operands) :
              /\ Encoded(op, operands, 2)[1 + 2 * k] = ByteOf(operands[k], 0)
              /\ Encoded(op, operands, 2)[2 + 2 * k] = ByteOf(operands[k], 1)
  <1>1. Len(operands) \in Nat
    BY SequenceFacts
  <1> DEFINE piece == Encoded(op, operands, 2)
  <1>2. \A j \in 1..2 * Len(operands) :
          piece[2 + j] = ByteOf(operands[(j - 1) \div 2 + 1], (j - 1) % 2)
    BY EncodedAt
  <1> HIDE DEF piece
  <1>3. ASSUME NEW k \in 1..Len(operands)
        PROVE  piece[1 + 2 * k] = ByteOf(operands[k], 0) /\ piece[2 + 2 * k] = ByteOf(operands[k], 1)
    <2> DEFINE i == 2 * k - 1
               j == 2 * k
    <2>1. /\ i \in 1..2 * Len(operands) /\ j \in 1..2 * Len(operands)
          /\ (i - 1) \div 2 + 1 = k /\ (i - 1) % 2 = 0
          /\ (j - 1) \div 2 + 1 = k /\ (j - 1) % 2 = 1
          /\ 2 + i = 1 + 2 * k /\ 2 + j = 2 + 2 * k
      BY <1>1
    <2> HIDE DEF i, j
    <2>2. /\ piece[2 + i] = ByteOf(operands[(i - 1) \div 2 + 1], (i - 1) % 2)
          /\ piece[2 + j] = ByteOf(operands[(j - 1) \div 2 + 1], (j - 1) % 2)
      BY <1>2, <2>1
    <2> QED
      BY <2>1, <2>2
  <1> QED
    BY <1>3, EncodedAt DEF piece

(* The wide forms of a jump differ in its offset only. *)
LEMMA SamePrefix ==
  ASSUME NEW op \in Nat, NEW operands \in Seq(Int), NEW a \in Int, NEW b \in Int,
         NEW p \in 1..2 + 2 * Len(operands)
  PROVE  Encoded(op, Append(operands, a), 2)[p] = Encoded(op, Append(operands, b), 2)[p]
  <1> DEFINE byte == IF p = 1 THEN Wide ELSE IF p = 2 THEN op
                     ELSE ByteOf(operands[(p - 1) \div 2], (p - 1) % 2)
  <1>1. ASSUME NEW x \in Int
        PROVE  Encoded(op, Append(operands, x), 2)[p] = byte
    <2> DEFINE L == Len(operands)
               y == Append(operands, x)
               piece == Encoded(op, y, 2)
    <2>1. L \in Nat /\ p \in 1..2 + 2 * L
      BY SequenceFacts
    <2>2. y \in Seq(Int) /\ Len(y) = L + 1 /\ \A k \in 1..L : y[k] = operands[k]
      BY AppendFacts
    <2> HIDE DEF y, L
    <2>3. /\ piece[1] = Wide /\ piece[2] = op
          /\ \A k \in 1..Len(y) : piece[1 + 2 * k] = ByteOf(y[k], 0) /\ piece[2 + 2 * k] = ByteOf(y[k], 1)
      BY <2>2, EncodedWide
    <2> HIDE DEF piece
    <2>4. ASSUME p # 1, p # 2
          PROVE  piece[p] = ByteOf(operands[(p - 1) \div 2], (p - 1) % 2)
      <3> DEFINE k == (p - 1) \div 2
      <3>1. /\ k \in 1..L
            /\ \/ p = 1 + 2 * k /\ (p - 1) % 2 = 0
               \/ p = 2 + 2 * k /\ (p - 1) % 2 = 1
        <4> DEFINE m == p - 1
                   q == m \div 2
                   r == m % 2
        <4>1. m \in Int /\ m >= 2 /\ m <= 1 + 2 * L
          BY <2>1, <2>4
        <4> HIDE DEF m, L
        <4>2. q \in Int /\ r \in 0..1 /\ m = 2 * q + r
          BY <4>1
        <4> HIDE DEF q, r
        <4>3. q \in 1..L /\ ((m = 2 * q /\ r = 0) \/ (m = 2 * q + 1 /\ r = 1))
          BY <2>1, <4>1, <4>2
        <4>4. q \in 1..L /\ ((p = 1 + 2 * q /\ r = 0) \/ (p = 2 + 2 * q /\ r = 1))
          BY <2>1, <4>3 DEF m
        <4>5. k = q /\ (p - 1) % 2 = r
          BY DEF q, r, m
        <4> HIDE DEF k
        <4> QED
          BY <4>4, <4>5
      <3> HIDE DEF k
      <3>2. k \in 1..Len(y) /\ y[k] = operands[k]
        BY <2>1, <2>2, <3>1
      <3>3. piece[1 + 2 * k] = ByteOf(operands[k], 0) /\ piece[2 + 2 * k] = ByteOf(operands[k], 1)
        BY <2>3, <3>2
      <3>4. piece[p] = ByteOf(operands[k], (p - 1) % 2)
        BY <3>1, <3>3
      <3> QED
        BY <3>4 DEF k
    <2> QED
      BY <2>3, <2>4 DEF piece, y, byte
  <1> HIDE DEF byte
  <1> QED
    BY <1>1

(* The operands an n-byte form can carry, one for each of the shape's.       *)
Fits(op, operands, n) ==
  /\ op \in DOMAIN Shape
  /\ operands \in Seq(Int) /\ Len(operands) = Len(Shape[op])
  /\ \A k \in 1..Len(operands) : FitsIn(Shape[op][k], operands[k], n)

Span(operands, n) == n + n * Len(operands)     \* the bytes of an instruction

Holds(bytes, at, piece, length) == \A p \in 1..length : bytes[at + p] = piece[p]

LEMMA Opcodes ==
  ASSUME NEW op \in DOMAIN Shape
  PROVE  op \in Nat /\ op # Wide /\ Len(Shape[op]) \in Nat /\ DOMAIN Shape[op] = 1..Len(Shape[op])
  <1>1. op \in Nat /\ op # Wide
    BY DEF Shape, Exit, Wide, JmpI, JnzI, CallI, CallVoidI, Ret, RetVoid, LookupK, Load, MovI, AllocaI
  <1>2. Shape[op] \in Seq({Unsigned, Immediate})
    <2>1. Shape[op] \in {<< >>, <<Unsigned>>, <<Immediate>>, <<Unsigned, Unsigned>>,
                         <<Unsigned, Immediate>>, <<Immediate, Unsigned>>,
                         <<Unsigned, Unsigned, Unsigned>>, <<Unsigned, Immediate, Unsigned>>}
      BY DEF Shape, Exit, JmpI, JnzI, CallI, CallVoidI, Ret, RetVoid, LookupK, Load, MovI, AllocaI
    <2>2. {<< >>, <<Unsigned>>, <<Immediate>>, <<Unsigned, Unsigned>>,
           <<Unsigned, Immediate>>, <<Immediate, Unsigned>>,
           <<Unsigned, Unsigned, Unsigned>>, <<Unsigned, Immediate, Unsigned>>}
            \subseteq Seq({Unsigned, Immediate})
      OBVIOUS
    <2> QED
      BY <2>1, <2>2
  <1> QED
    BY <1>1, <1>2, SequenceFacts

LEMMA Decoded ==
  ASSUME NEW op, NEW operands, NEW n \in 1..2, Fits(op, operands, n),
         NEW bytes, NEW at \in Nat,
         Holds(bytes, at, Encoded(op, operands, n), Span(operands, n))
  PROVE  /\ Fetched(bytes, at).op = op
         /\ Fetched(bytes, at).operands = operands
         /\ Fetched(bytes, at).next = at + Span(operands, n)
  <1> DEFINE piece == Encoded(op, operands, n)
             L == Len(operands)
             operand(k) == LoadBytes(bytes, at + n + 1 + (k - 1) * n, n)
             decoded == [k \in DOMAIN Shape[op] |->
                           IF Shape[op][k] = Immediate THEN Signed(operand(k), n) ELSE operand(k)]
  <1>1. /\ op \in DOMAIN Shape /\ op \in Nat /\ op # Wide /\ operands \in Seq(Int)
        /\ L \in Nat /\ L = Len(Shape[op]) /\ DOMAIN Shape[op] = 1..L
        /\ DOMAIN operands = 1..L /\ operands \in [1..L -> Int]
    BY Opcodes, SequenceFacts DEF Fits
  <1> HIDE DEF L
  <1>2. \A p \in 1..n + n * L : bytes[at + p] = piece[p]
    BY DEF Holds, Span, L
  <1>3. /\ (IF bytes[at + 1] = Wide THEN 2 ELSE 1) = n
        /\ bytes[at + n] = op
        /\ \A k \in 1..L : operand(k) = operands[k] % ByteWeight[n]
    <2>1. CASE n = 1
      <3>1. piece[1] = op /\ \A k \in 1..L : piece[1 + k] = ByteOf(operands[k], 0)
        BY <1>1, <2>1, EncodedNarrow DEF L
      <3> HIDE DEF piece
      <3>2. bytes[at + 1] = op
        BY <1>1, <1>2, <2>1, <3>1
      <3>3. ASSUME NEW k \in 1..L
            PROVE  operand(k) = operands[k] % ByteWeight[n]
        <4>1. 1 + k \in 1..n + n * L /\ at + n + 1 + (k - 1) * n = at + (1 + k)
          BY <1>1, <2>1
        <4>2. bytes[at + (1 + k)] = ByteOf(operands[k], 0) /\ operands[k] \in Int
          BY <1>1, <1>2, <3>1, <4>1
        <4>3. ByteOf(operands[k], 0) \in Int
              /\ ByteOf(operands[k], 0) * ByteWeight[0] = operands[k] % ByteWeight[1]
          BY <4>2, OneByte
        <4>4. LoadBytes(bytes, at + (1 + k), 1) = bytes[at + (1 + k)] * ByteWeight[0]
          <5> DEFINE a == at + (1 + k)
          <5>1. a \in Int /\ bytes[a] \in Int
            BY <4>2, <4>3
          <5> HIDE DEF a
          <5>2. LoadBytes(bytes, a, 1) = bytes[a] * ByteWeight[0]
            BY <5>1, LoadOne
          <5> QED
            BY <5>2 DEF a
        <4>5. operand(k) = LoadBytes(bytes, at + (1 + k), 1)
          BY <2>1, <4>1
        <4> QED
          BY <2>1, <4>2, <4>3, <4>4, <4>5
      <3> QED
        BY <1>1, <2>1, <3>2, <3>3
    <2>2. CASE n = 2
      <3>1. /\ piece[1] = Wide /\ piece[2] = op
            /\ \A k \in 1..L : /\ piece[1 + 2 * k] = ByteOf(operands[k], 0)
                               /\ piece[2 + 2 * k] = ByteOf(operands[k], 1)
        BY <1>1, <2>2, EncodedWide DEF L
      <3> HIDE DEF piece
      <3>2. bytes[at + 1] = Wide /\ bytes[at + 2] = op
        <4>1. 1 \in 1..n + n * L /\ 2 \in 1..n + n * L
          BY <1>1, <2>2
        <4>2. bytes[at + 1] = piece[1] /\ bytes[at + 2] = piece[2]
          BY <1>2, <4>1
        <4> QED
          BY <3>1, <4>2
      <3>3. ASSUME NEW k \in 1..L
            PROVE  operand(k) = operands[k] % ByteWeight[n]
        <4> DEFINE a == at + (1 + 2 * k)
        <4>1. /\ 1 + 2 * k \in 1..n + n * L /\ 2 + 2 * k \in 1..n + n * L
              /\ at + n + 1 + (k - 1) * n = a /\ a + 1 = at + (2 + 2 * k) /\ a \in Int
          BY <1>1, <2>2
        <4>2. /\ bytes[a] = ByteOf(operands[k], 0) /\ bytes[a + 1] = ByteOf(operands[k], 1)
              /\ operands[k] \in Int
          BY <1>1, <1>2, <3>1, <4>1
        <4> HIDE DEF a
        <4>3. /\ ByteOf(operands[k], 0) \in Int /\ ByteOf(operands[k], 1) \in Int
              /\ ByteOf(operands[k], 0) * ByteWeight[0] + ByteOf(operands[k], 1) * ByteWeight[1]
                   = operands[k] % ByteWeight[2]
          BY <4>2, TwoBytes
        <4>4. LoadBytes(bytes, a, 2) = bytes[a] * ByteWeight[0] + bytes[a + 1] * ByteWeight[1]
          BY <4>1, <4>2, <4>3, LoadTwo
        <4>5. operand(k) = LoadBytes(bytes, a, 2)
          BY <2>2, <4>1
        <4> QED
          BY <2>2, <4>2, <4>3, <4>4, <4>5
      <3> QED
        BY <1>1, <2>2, <3>2, <3>3
    <2> QED
      BY <2>1, <2>2
  <1>4. Fetched(bytes, at) = [op |-> op, operands |-> decoded, next |-> at + n + n * Len(Shape[op])]
    BY <1>3 DEF Fetched
  <1> HIDE DEF operand
  <1>5. ASSUME NEW k \in 1..L
        PROVE  decoded[k] = operands[k]
    <2>1. FitsIn(Shape[op][k], operands[k], n) /\ operands[k] \in Int
      BY <1>1 DEF Fits, L
    <2>2. (IF Shape[op][k] = Immediate THEN Signed(operands[k] % ByteWeight[n], n)
           ELSE operands[k] % ByteWeight[n]) = operands[k]
      BY <2>1, OperandDecoded
    <2> QED
      BY <1>1, <1>3, <2>2
  <1>6. decoded = operands
    <2>1. DOMAIN decoded = 1..L
      BY <1>1
    <2>2. decoded = [k \in 1..L |-> decoded[k]]
      BY <1>1
    <2>3. operands = [k \in 1..L |-> operands[k]]
      BY <1>1
    <2> HIDE DEF decoded
    <2> QED
      BY <1>5, <2>2, <2>3
  <1>7. at + n + n * Len(Shape[op]) = at + (n + n * L)
    <2> DEFINE x == n * L
    <2>1. x \in Int
      BY <1>1
    <2> HIDE DEF x
    <2>2. at + n + x = at + (n + x)
      BY <2>1
    <2>3. Len(Shape[op]) = L
      BY <1>1
    <2> QED
      BY <2>2, <2>3 DEF x
  <1> DEFINE next == at + n + n * Len(Shape[op])
  <1>8. Fetched(bytes, at) = [op |-> op, operands |-> decoded, next |-> next]
    BY <1>4
  <1> HIDE DEF decoded, next
  <1>9. /\ Fetched(bytes, at).op = op /\ Fetched(bytes, at).operands = decoded
        /\ Fetched(bytes, at).next = next
    BY <1>8
  <1>10. next = at + Span(operands, n)
    BY <1>7 DEF L, next, Span
  <1> QED
    BY <1>6, <1>9, <1>10

----------------------------------------------------------------------------
(* A draft: what a builder has of a module before build(), or the code that  *)
(* build() makes of it, whose jumps are all patched.                         *)

Entry == [at : Nat, op : Nat, operands : Seq(Int), label : Nat]
Jump == [position : Nat, label : Nat]

Draft == [code |-> code, listing |-> listing, labels |-> label_positions,
          jumps |-> unresolved_jump_offsets, marks |-> marks.labels]

IsDraft(s) ==
  /\ s.code \in Seq(Nat)
  /\ s.listing \in Seq(Entry)
  /\ s.labels \in Seq(Nat \cup {Unplaced})
  /\ s.jumps \in Seq(Jump)

Address(s, i) == IF i <= Len(s.listing) THEN s.listing[i].at ELSE Len(s.code)

(* The operands of an entry: a jump's offset is not in the listing. *)
Operands(entry, offset) ==
  IF entry.label = 0 THEN entry.operands ELSE Append(entry.operands, offset)

(* The two bytes that a jump leaves to patch are not between two positions. *)
Apart(jump, from, to) == jump.position + 2 <= from \/ to <= jump.position

(* An entry is final when its bytes are its instruction, whose offset, if it *)
(* is a jump, leads to its label, and no patch touches them.                 *)
FinalIn(s, entry, end, operands, n, offset) ==
  /\ Fits(entry.op, operands, n)
  /\ end = entry.at + Span(operands, n) /\ end <= Len(s.code)
  /\ Holds(s.code, entry.at, Encoded(entry.op, operands, n), Span(operands, n))
  /\ entry.label # 0 => /\ s.labels[entry.label] # Unplaced
                        /\ end + offset = s.labels[entry.label]
  /\ \A j \in 1..Len(s.jumps) : Apart(s.jumps[j], entry.at, end)

Final(s, i) ==
  \E n \in 1..2, offset \in Int :
    FinalIn(s, s.listing[i], Address(s, i + 1), Operands(s.listing[i], offset), n, offset)

(* An entry is pending when it is a wide jump but for the two bytes of its   *)
(* offset, which are the patch of unresolved jump j and in no other.         *)
PendingIn(s, entry, end, jump, j) ==
  /\ entry.label # 0 /\ entry.label = jump.label
  /\ Fits(entry.op, Append(entry.operands, 0), 2)
  /\ Shape[entry.op][Len(entry.operands) + 1] = Immediate
  /\ jump.position = entry.at + Span(entry.operands, 2)
  /\ end = jump.position + 2 /\ end <= Len(s.code)
  /\ Holds(s.code, entry.at, Encoded(entry.op, Append(entry.operands, 0), 2),
           Span(entry.operands, 2))
  /\ \A k \in 1..Len(s.jumps) : k # j => Apart(s.jumps[k], entry.at, end)

Pending(s, i) ==
  \E j \in 1..Len(s.jumps) : PendingIn(s, s.listing[i], Address(s, i + 1), s.jumps[j], j)

EntryHolds(s, i) ==
  s.listing[i].label \in 0..Len(s.labels) /\ (Final(s, i) \/ Pending(s, i))

LabelHolds(s, l) ==
  s.labels[l] # Unplaced => /\ s.marks[l] \in 1..Len(s.listing) + 1
                            /\ s.labels[l] = Address(s, s.marks[l])

Follows(s) ==
  /\ Len(s.marks) = Len(s.labels)
  /\ \A l \in 1..Len(s.labels) : LabelHolds(s, l)
  /\ \A i \in 1..Len(s.listing) : EntryHolds(s, i)

(* The listing can be read off the code of the first module, but for the     *)
(* offsets that build() has yet to write.                                    *)
Listed == product.builds = 0 => Follows(Draft)

(* What every step keeps: draft t has all that s has, at the same addresses, *)
(* and other bytes only where a jump of s is to be patched.                  *)
Same(s, t, p) ==
  \/ t.code[p] = s.code[p]
  \/ \E j \in 1..Len(s.jumps) : p \in s.jumps[j].position + 1..s.jumps[j].position + 2

Keeps(s, t) ==
  /\ IsDraft(s) /\ IsDraft(t)
  /\ Len(s.listing) <= Len(t.listing) /\ Len(s.code) <= Len(t.code)
  /\ Len(s.labels) <= Len(t.labels)
  /\ \A i \in 1..Len(s.listing) : t.listing[i] = s.listing[i]
  /\ \A i \in 1..Len(s.listing) + 1 : Address(t, i) = Address(s, i)
  /\ \A p \in 1..Len(s.code) : Same(s, t, p)
  /\ \A l \in 1..Len(s.labels) : s.labels[l] # Unplaced => t.labels[l] = s.labels[l]

(* The jumps of t are jumps of s, or of code that s does not have yet. *)
KeepsJumps(s, t) ==
  \A j \in 1..Len(t.jumps) :
    (j <= Len(s.jumps) /\ t.jumps[j] = s.jumps[j]) \/ t.jumps[j].position >= Len(s.code)

LEMMA DraftTypes ==
  ASSUME NEW s, IsDraft(s)
  PROVE  /\ Len(s.code) \in Nat /\ Len(s.listing) \in Nat
         /\ Len(s.labels) \in Nat /\ Len(s.jumps) \in Nat
         /\ \A p \in 1..Len(s.code) : s.code[p] \in Nat
         /\ \A l \in 1..Len(s.labels) : s.labels[l] \in Int
         /\ \A i \in 1..Len(s.listing) :
              /\ s.listing[i].at \in Nat /\ s.listing[i].op \in Nat
              /\ s.listing[i].operands \in Seq(Int) /\ s.listing[i].label \in Nat
         /\ \A j \in 1..Len(s.jumps) : s.jumps[j].position \in Nat /\ s.jumps[j].label \in Nat
  <1>1. /\ Len(s.code) \in Nat /\ s.code \in [1..Len(s.code) -> Nat]
        /\ Len(s.listing) \in Nat /\ s.listing \in [1..Len(s.listing) -> Entry]
        /\ Len(s.labels) \in Nat /\ s.labels \in [1..Len(s.labels) -> Nat \cup {Unplaced}]
        /\ Len(s.jumps) \in Nat /\ s.jumps \in [1..Len(s.jumps) -> Jump]
    BY SequenceFacts DEF IsDraft
  <1>2. \A e \in Entry : e.at \in Nat /\ e.op \in Nat /\ e.operands \in Seq(Int) /\ e.label \in Nat
    BY DEF Entry
  <1>3. \A u \in Jump : u.position \in Nat /\ u.label \in Nat
    BY DEF Jump
  <1>4. \A l \in 1..Len(s.labels) : s.labels[l] \in Int
    BY <1>1 DEF Unplaced
  <1> QED
    BY <1>1, <1>2, <1>3, <1>4

LEMMA SpanType ==
  ASSUME NEW operands \in Seq(Int), NEW n \in 1..2
  PROVE  /\ Len(operands) \in Nat /\ Span(operands, n) \in Nat
         /\ n = 2 => Span(operands, n) = 2 + 2 * Len(operands)
         /\ n = 1 => Span(operands, n) = 1 + Len(operands)
  <1>1. Len(operands) \in Nat
    BY SequenceFacts
  <1>2. CASE n = 1
    BY <1>1, <1>2 DEF Span
  <1>3. CASE n = 2
    BY <1>1, <1>3 DEF Span
  <1> QED
    BY <1>1, <1>2, <1>3

(* Bytes between two positions that no patch touches are kept. *)
LEMMA BytesKept ==
  ASSUME NEW s, NEW t, Keeps(s, t), NEW at \in Nat, NEW length \in Nat, NEW piece,
         at + length <= Len(s.code), Holds(s.code, at, piece, length),
         \A j \in 1..Len(s.jumps) : \/ s.jumps[j].position + 2 <= at
                                    \/ at + length <= s.jumps[j].position
  PROVE  Holds(t.code, at, piece, length)
  <1>1. SUFFICES ASSUME NEW p \in 1..length
                 PROVE  t.code[at + p] = piece[p]
    BY DEF Holds
  <1> DEFINE q == at + p
  <1>2. q \in 1..Len(s.code) /\ s.code[q] = piece[p]
    BY DraftTypes DEF Keeps, Holds
  <1>3. ~ \E j \in 1..Len(s.jumps) : q \in s.jumps[j].position + 1..s.jumps[j].position + 2
    <2>1. ASSUME NEW j \in 1..Len(s.jumps)
          PROVE  q \notin s.jumps[j].position + 1..s.jumps[j].position + 2
      <3> DEFINE x == s.jumps[j].position
      <3>1. x \in Nat /\ (x + 2 <= at \/ at + length <= x)
        BY DraftTypes DEF Keeps
      <3> HIDE DEF x
      <3>2. q \notin x + 1..x + 2
        BY <3>1
      <3> QED
        BY <3>2 DEF x
    <2> QED
      BY <2>1
  <1>4. Same(s, t, q)
    BY <1>2 DEF Keeps
  <1> QED
    BY <1>2, <1>3, <1>4 DEF Same

LEMMA FinalKept ==
  ASSUME NEW s, NEW t, Keeps(s, t), KeepsJumps(s, t), NEW i \in 1..Len(s.listing),
         s.listing[i].label \in 0..Len(s.labels), Final(s, i)
  PROVE  Final(t, i)
  <1> DEFINE entry == s.listing[i]
             end == Address(s, i + 1)
  <1>1. PICK n \in 1..2, offset \in Int :
          FinalIn(s, s.listing[i], Address(s, i + 1), Operands(s.listing[i], offset), n, offset)
    BY DEF Final
  <1> DEFINE operands == Operands(entry, offset)
  <1>2. /\ entry.at \in Nat /\ entry.label \in 0..Len(s.labels) /\ Len(s.labels) \in Nat
        /\ Len(s.listing) \in Nat /\ Len(s.code) \in Nat /\ Len(t.code) \in Nat
        /\ Len(s.code) <= Len(t.code) /\ t.listing[i] = entry /\ Address(t, i + 1) = end
    <2>1. IsDraft(s) /\ IsDraft(t)
      BY DEF Keeps
    <2>2. i + 1 \in 1..Len(s.listing) + 1
      BY <2>1, DraftTypes
    <2> QED
      BY <2>1, <2>2, DraftTypes, SMTT(30) DEF Keeps
  <1> HIDE DEF entry, end
  <1>3. /\ Fits(entry.op, operands, n)
        /\ end = entry.at + Span(operands, n) /\ end <= Len(s.code)
        /\ Holds(s.code, entry.at, Encoded(entry.op, operands, n), Span(operands, n))
        /\ entry.label # 0 => /\ s.labels[entry.label] # Unplaced
                              /\ end + offset = s.labels[entry.label]
        /\ \A j \in 1..Len(s.jumps) : Apart(s.jumps[j], entry.at, end)
    BY <1>1 DEF FinalIn, entry, end
  <1> HIDE DEF operands
  <1>4. Span(operands, n) \in Nat
    <2>1. operands \in Seq(Int)
      BY <1>3 DEF Fits
    <2> QED
      BY <2>1, SpanType
  <1>5. Holds(t.code, entry.at, Encoded(entry.op, operands, n), Span(operands, n))
    <2>1. \A j \in 1..Len(s.jumps) : \/ s.jumps[j].position + 2 <= entry.at
                                     \/ entry.at + Span(operands, n) <= s.jumps[j].position
      BY <1>3 DEF Apart
    <2> QED
      BY <1>2, <1>3, <1>4, <2>1, BytesKept
  <1>6. entry.label # 0 => /\ t.labels[entry.label] # Unplaced
                           /\ end + offset = t.labels[entry.label]
    BY <1>2, <1>3 DEF Keeps
  <1>7. \A j \in 1..Len(t.jumps) : Apart(t.jumps[j], entry.at, end)
    <2>1. ASSUME NEW j \in 1..Len(t.jumps)
          PROVE  Apart(t.jumps[j], entry.at, end)
      <3>1. t.jumps[j].position \in Nat /\ Len(s.jumps) \in Nat /\ Len(t.jumps) \in Nat
        BY DraftTypes DEF Keeps
      <3>2. CASE j <= Len(s.jumps) /\ t.jumps[j] = s.jumps[j]
        BY <1>3, <3>1, <3>2
      <3>3. CASE t.jumps[j].position >= Len(s.code)
        <4>1. end <= t.jumps[j].position
          <5> DEFINE x == t.jumps[j].position
                     length == Span(operands, n)
          <5>1. x \in Nat /\ x >= Len(s.code) /\ end <= Len(s.code)
                /\ length \in Nat /\ end = entry.at + length
            BY <1>3, <1>4, <3>1, <3>3
          <5> HIDE DEF x, length
          <5>2. end <= x
            BY <1>2, <5>1
          <5> QED
            BY <5>2 DEF x
        <4> QED
          BY <4>1 DEF Apart
      <3> QED
        BY <3>2, <3>3 DEF KeepsJumps
    <2> QED
      BY <2>1
  <1>8. end <= Len(t.code)
    BY <1>2, <1>3, <1>4
  <1>9. FinalIn(t, entry, end, operands, n, offset)
    BY <1>3, <1>5, <1>6, <1>7, <1>8 DEF FinalIn
  <1> QED
    BY <1>2, <1>9 DEF Final, operands

LEMMA PendingKept ==
  ASSUME NEW s, NEW t, Keeps(s, t), KeepsJumps(s, t), NEW i \in 1..Len(s.listing),
         Len(s.jumps) <= Len(t.jumps), \A j \in 1..Len(s.jumps) : t.jumps[j] = s.jumps[j],
         Pending(s, i)
  PROVE  Pending(t, i)
  <1> DEFINE entry == s.listing[i]
             end == Address(s, i + 1)
  <1>1. PICK j \in 1..Len(s.jumps) :
          PendingIn(s, s.listing[i], Address(s, i + 1), s.jumps[j], j)
    BY DEF Pending
  <1> DEFINE jump == s.jumps[j]
             piece == Encoded(entry.op, Append(entry.operands, 0), 2)
             length == Span(entry.operands, 2)
  <1>2. /\ entry.at \in Nat /\ entry.operands \in Seq(Int)
        /\ Len(s.listing) \in Nat /\ Len(s.code) \in Nat /\ Len(t.code) \in Nat
        /\ Len(s.jumps) \in Nat /\ Len(t.jumps) \in Nat
        /\ Len(s.code) <= Len(t.code) /\ t.listing[i] = entry /\ Address(t, i + 1) = end
        /\ jump.position \in Nat /\ t.jumps[j] = jump /\ j \in 1..Len(t.jumps)
    <2>1. IsDraft(s) /\ IsDraft(t)
      BY DEF Keeps
    <2>2. i + 1 \in 1..Len(s.listing) + 1
      BY <2>1, DraftTypes
    <2> QED
      BY <2>1, <2>2, DraftTypes, SMTT(30) DEF Keeps
  <1>3. length \in Nat
    BY <1>2, SpanType
  <1> HIDE DEF entry, end, jump
  <1>4. /\ jump.position = entry.at + length
        /\ end = jump.position + 2 /\ end <= Len(s.code)
        /\ Holds(s.code, entry.at, piece, length)
        /\ \A k \in 1..Len(s.jumps) : k # j => Apart(s.jumps[k], entry.at, end)
    BY <1>1, SMTT(30) DEF PendingIn, entry, end, jump
  <1>5. Holds(t.code, entry.at, piece, length)
    <2> HIDE DEF piece, length
    <2>1. ASSUME NEW k \in 1..Len(s.jumps)
          PROVE  \/ s.jumps[k].position + 2 <= entry.at
                 \/ entry.at + length <= s.jumps[k].position
      <3>1. s.jumps[k].position \in Nat
        BY DraftTypes DEF Keeps
      <3>2. CASE k = j
        BY <1>2, <1>3, <1>4, <3>2 DEF jump
      <3>3. CASE k # j
        <4>1. Apart(s.jumps[k], entry.at, end)
          BY <1>4, <3>3
        <4> DEFINE x == s.jumps[k].position
        <4>2. x \in Nat /\ (x + 2 <= entry.at \/ end <= x)
          BY <3>1, <4>1 DEF Apart
        <4> HIDE DEF x
        <4>3. x + 2 <= entry.at \/ entry.at + length <= x
          BY <1>2, <1>3, <1>4, <4>2
        <4> QED
          BY <4>3 DEF x
      <3> QED
        BY <3>2, <3>3
    <2>2. entry.at + length <= Len(s.code)
      BY <1>2, <1>3, <1>4
    <2> QED
      BY <1>2, <1>3, <1>4, <2>1, <2>2, BytesKept
  <1>6. \A k \in 1..Len(t.jumps) : k # j => Apart(t.jumps[k], entry.at, end)
    <2>1. ASSUME NEW k \in 1..Len(t.jumps), k # j
          PROVE  Apart(t.jumps[k], entry.at, end)
      <3>1. t.jumps[k].position \in Nat
        BY DraftTypes DEF Keeps
      <3>2. CASE k <= Len(s.jumps) /\ t.jumps[k] = s.jumps[k]
        BY <1>2, <1>4, <2>1, <3>2
      <3>3. CASE t.jumps[k].position >= Len(s.code)
        <4> DEFINE x == t.jumps[k].position
        <4>1. x \in Nat /\ x >= Len(s.code)
          BY <3>1, <3>3
        <4> HIDE DEF x
        <4>2. end <= x
          BY <1>2, <1>3, <1>4, <4>1
        <4> QED
          BY <4>2 DEF Apart, x
      <3> QED
        BY <3>2, <3>3 DEF KeepsJumps
    <2> QED
      BY <2>1
  <1>7. end <= Len(t.code)
    BY <1>2, <1>3, <1>4
  <1>8. PendingIn(t, entry, end, jump, j)
    BY <1>1, <1>5, <1>6, <1>7 DEF PendingIn, entry, end, jump
  <1> QED
    BY <1>2, <1>8 DEF Pending

(* Draft t is draft s with code, entries, labels and jumps added. *)
Grows(s, t) ==
  /\ Keeps(s, t) /\ KeepsJumps(s, t)
  /\ Len(s.jumps) <= Len(t.jumps) /\ \A j \in 1..Len(s.jumps) : t.jumps[j] = s.jumps[j]

LEMMA EntriesKept ==
  ASSUME NEW s, NEW t, Grows(s, t), Follows(s), NEW i \in 1..Len(s.listing)
  PROVE  EntryHolds(t, i)
  <1>1. /\ Keeps(s, t) /\ KeepsJumps(s, t) /\ EntryHolds(s, i)
        /\ Len(s.jumps) <= Len(t.jumps) /\ \A j \in 1..Len(s.jumps) : t.jumps[j] = s.jumps[j]
    BY DEF Grows, Follows
  <1>2. s.listing[i].label \in 0..Len(s.labels) /\ (Final(s, i) \/ Pending(s, i))
    BY <1>1 DEF EntryHolds
  <1>3. Final(t, i) \/ Pending(t, i)
    BY <1>1, <1>2, FinalKept, PendingKept
  <1>4. t.listing[i] = s.listing[i] /\ Len(s.labels) <= Len(t.labels)
        /\ Len(s.labels) \in Nat /\ Len(t.labels) \in Nat
    BY <1>1, DraftTypes DEF Keeps
  <1>5. t.listing[i].label \in 0..Len(t.labels)
    BY <1>2, <1>4
  <1> QED
    BY <1>3, <1>5 DEF EntryHolds

LEMMA LabelKept ==
  ASSUME NEW s, NEW t, Keeps(s, t), Follows(s), NEW l \in 1..Len(s.labels),
         t.labels[l] = s.labels[l], t.marks[l] = s.marks[l]
  PROVE  LabelHolds(t, l)
  <1>1. LabelHolds(s, l)
    BY DEF Follows
  <1>2. SUFFICES ASSUME s.labels[l] # Unplaced
                 PROVE  t.marks[l] \in 1..Len(t.listing) + 1 /\ t.labels[l] = Address(t, t.marks[l])
    BY DEF LabelHolds
  <1> DEFINE m == s.marks[l]
  <1>3. m \in 1..Len(s.listing) + 1 /\ s.labels[l] = Address(s, m)
    BY <1>1, <1>2 DEF LabelHolds
  <1> HIDE DEF m
  <1>4. Address(t, m) = Address(s, m) /\ Len(s.listing) <= Len(t.listing)
        /\ Len(s.listing) \in Nat /\ Len(t.listing) \in Nat
    BY <1>3, DraftTypes DEF Keeps
  <1>5. m \in 1..Len(t.listing) + 1
    BY <1>3, <1>4
  <1> QED
    BY <1>3, <1>4, <1>5 DEF m

(* A step that adds no label follows on when its new entries hold. *)
LEMMA FollowsOn ==
  ASSUME NEW s, NEW t, Grows(s, t), Follows(s), t.labels = s.labels, t.marks = s.marks,
         \A i \in 1..Len(t.listing) : i > Len(s.listing) => EntryHolds(t, i)
  PROVE  Follows(t)
  <1>1. Keeps(s, t)
    BY DEF Grows
  <1>2. Len(t.marks) = Len(t.labels) /\ \A l \in 1..Len(t.labels) : LabelHolds(t, l)
    BY <1>1, LabelKept DEF Follows
  <1>3. ASSUME NEW i \in 1..Len(t.listing) PROVE EntryHolds(t, i)
    <2>1. Len(t.listing) \in Nat /\ Len(s.listing) \in Nat
      BY <1>1, DraftTypes DEF Keeps
    <2>2. CASE i > Len(s.listing)
      BY <2>2
    <2>3. CASE i \in 1..Len(s.listing)
      BY <2>3, EntriesKept
    <2> QED
      BY <2>1, <2>2, <2>3
  <1> QED
    BY <1>2, <1>3 DEF Follows

----------------------------------------------------------------------------
(* Emission. *)

LEMMA DraftIsTyped ==
  ASSUME TypeOK
  PROVE  IsDraft(Draft)
  BY DEF TypeOK, IsDraft, Draft, Entry, Jump

(* What the code and the listing are after a write. *)
LEMMA Written ==
  ASSUME IInv, NEW bytes \in Seq(Nat), NEW op \in Nat, NEW operands \in Seq(Int),
         NEW label \in Nat, Write(bytes, op, operands, label)
  PROVE  /\ code \in Seq(Nat) /\ Len(code) \in Nat /\ Len(bytes) \in Nat
         /\ Len(code') = Len(code) + Len(bytes)
         /\ \A p \in 1..Len(code) : code'[p] = code[p]
         /\ Holds(code', Len(code), bytes, Len(bytes))
         /\ Len(listing) \in Nat /\ Len(listing') = Len(listing) + 1
         /\ \A i \in 1..Len(listing) : listing'[i] = listing[i]
         /\ listing'[Len(listing) + 1] = [at |-> Len(code), op |-> op, operands |-> operands,
                                          label |-> label]
         /\ UNCHANGED <<label_positions, marks, product>>
  <1> DEFINE entry == [at |-> Len(code), op |-> op, operands |-> operands, label |-> label]
  <1>1. code \in Seq(Nat) /\ listing \in Seq(Entry)
    BY DEF IInv, TypeOK, Entry
  <1>2. code' = code \o bytes /\ listing' = Append(listing, entry)
        /\ UNCHANGED <<label_positions, marks, product>>
    BY DEF Write
  <1>3. entry \in Entry /\ Len(code) \in Nat /\ Len(bytes) \in Nat /\ Len(listing) \in Nat
    BY <1>1, SequenceFacts DEF Entry
  <1> HIDE DEF entry
  <1>4. /\ Len(code') = Len(code) + Len(bytes)
        /\ \A p \in 1..Len(code) : code'[p] = code[p]
        /\ \A p \in 1..Len(bytes) : code'[Len(code) + p] = bytes[p]
    <2>1. /\ Len(code \o bytes) = Len(code) + Len(bytes)
          /\ \A p \in 1..Len(code) : (code \o bytes)[p] = code[p]
          /\ \A p \in 1..Len(bytes) : (code \o bytes)[Len(code) + p] = bytes[p]
      BY <1>1, ConcatFacts
    <2> QED
      BY <1>2, <2>1
  <1>5. /\ Len(listing') = Len(listing) + 1
        /\ \A i \in 1..Len(listing) : listing'[i] = listing[i]
        /\ listing'[Len(listing) + 1] = entry
    BY <1>1, <1>2, <1>3, AppendFacts
  <1>6. Holds(code', Len(code), bytes, Len(bytes))
    BY <1>4 DEF Holds
  <1> QED
    BY <1>1, <1>2, <1>3, <1>4, <1>5, <1>6 DEF entry

(* A write adds to the draft, and its entry is at the end of what was there. *)
LEMMA WriteGrows ==
  ASSUME IInv, IInv', NEW bytes \in Seq(Nat), NEW op \in Nat, NEW operands \in Seq(Int),
         NEW label \in Nat, Write(bytes, op, operands, label)
  PROVE  /\ Keeps(Draft, Draft') /\ Address(Draft', Len(listing) + 2) = Len(code')
  <1> DEFINE s == Draft
             t == Draft'
  <1>1. IsDraft(s) /\ IsDraft(t)
    <2>1. TypeOK' => IsDraft(t)
      BY DEF TypeOK, IsDraft, Draft, Entry, Jump
    <2> QED
      BY <2>1, DraftIsTyped DEF IInv
  <1>2. /\ s.code = code /\ s.listing = listing /\ s.labels = label_positions
        /\ t.code = code' /\ t.listing = listing' /\ t.labels = label_positions'
    BY DEF Draft
  <1> HIDE DEF s, t
  <1>3. /\ Len(code) \in Nat /\ Len(bytes) \in Nat
        /\ Len(code') = Len(code) + Len(bytes)
        /\ \A p \in 1..Len(code) : code'[p] = code[p]
        /\ Len(listing) \in Nat /\ Len(listing') = Len(listing) + 1
        /\ \A i \in 1..Len(listing) : listing'[i] = listing[i]
        /\ listing'[Len(listing) + 1].at = Len(code)
        /\ label_positions' = label_positions
    <2>1. listing'[Len(listing) + 1] = [at |-> Len(code), op |-> op, operands |-> operands,
                                        label |-> label]
      BY Written
    <2>2. listing'[Len(listing) + 1].at = Len(code)
      BY <2>1
    <2> QED
      BY <2>2, Written
  <1>4. ASSUME NEW i \in 1..Len(listing) + 1
        PROVE  Address(t, i) = Address(s, i)
    <2>1. CASE i <= Len(listing)
      BY <1>2, <1>3, <2>1 DEF Address
    <2>2. CASE i = Len(listing) + 1
      BY <1>2, <1>3, <2>2 DEF Address
    <2> QED
      BY <1>3, <2>1, <2>2
  <1>5. Address(t, Len(listing) + 2) = Len(code')
    BY <1>2, <1>3 DEF Address
  <1>6. \A p \in 1..Len(s.code) : Same(s, t, p)
    BY <1>2, <1>3 DEF Same
  <1>7. Len(s.labels) <= Len(t.labels)
    <2>1. Len(s.labels) \in Nat
      BY <1>1, DraftTypes
    <2> QED
      BY <1>2, <1>3, <2>1
  <1>8. Keeps(s, t)
    BY <1>1, <1>2, <1>3, <1>4, <1>6, <1>7 DEF Keeps
  <1> QED
    BY <1>5, <1>8 DEF s, t

LEMMA PatchesBehind ==
  ASSUME IInv, product.builds = 0
  PROVE  /\ position = Len(code)
         /\ \A j \in 1..Len(unresolved_jump_offsets) :
              /\ unresolved_jump_offsets[j].position \in Nat
              /\ unresolved_jump_offsets[j].position + 2 <= Len(code)
  BY PatchFacts DEF IInv, FirstModule, PatchesInside

(* A write that leaves nothing to patch. *)
LEMMA FinalWrite ==
  ASSUME IInv, IInv', product.builds = 0, Follows(Draft),
         NEW op \in Nat, NEW operands \in Seq(Int), NEW label \in 0..Len(label_positions),
         NEW n \in 1..2, NEW offset \in Int, NEW full \in Seq(Int),
         full = IF label = 0 THEN operands ELSE Append(operands, offset),
         Fits(op, full, n), Write(Encoded(op, full, n), op, operands, label),
         UNCHANGED unresolved_jump_offsets,
         label # 0 => /\ label_positions[label] # Unplaced
                      /\ Len(code) + Span(full, n) + offset = label_positions[label]
  PROVE  Follows(Draft')
  <1> DEFINE s == Draft
             t == Draft'
             piece == Encoded(op, full, n)
             last == Len(listing) + 1
             entry == [at |-> Len(code), op |-> op, operands |-> operands, label |-> label]
             end == Len(code')
  <1>1. /\ s.code = code /\ s.listing = listing /\ s.labels = label_positions
        /\ s.jumps = unresolved_jump_offsets /\ s.marks = marks.labels
        /\ t.code = code' /\ t.listing = listing' /\ t.labels = label_positions'
        /\ t.jumps = unresolved_jump_offsets' /\ t.marks = marks.labels'
    BY DEF Draft
  <1>2. piece \in Seq(Nat) /\ Len(piece) = Span(full, n) /\ Span(full, n) \in Nat
    BY EncodedType, SpanType DEF Span
  <1>3. label \in Nat
    OBVIOUS
  <1> HIDE DEF s, t, piece, entry, end
  <1>4. Write(piece, op, operands, label)
    BY DEF piece
  <1>5. /\ Keeps(s, t) /\ Address(t, Len(listing) + 2) = end
    BY <1>2, <1>3, <1>4, WriteGrows DEF s, t, end
  <1>6. /\ Len(code) \in Nat /\ Len(code') = Len(code) + Len(piece)
        /\ Holds(code', Len(code), piece, Len(piece))
        /\ Len(listing) \in Nat /\ Len(listing') = Len(listing) + 1
        /\ UNCHANGED <<label_positions, marks>>
    BY <1>2, <1>3, <1>4, Written
  <1>7. listing'[Len(listing) + 1] = entry
    BY <1>2, <1>3, <1>4, Written DEF entry
  <1>8. entry.at = Len(code) /\ entry.op = op /\ entry.operands = operands /\ entry.label = label
    BY DEF entry
  <1>9. Grows(s, t)
    <2>1. Len(s.jumps) \in Nat
      BY <1>5, DraftTypes DEF Keeps
    <2> QED
      BY <1>1, <1>5, <2>1 DEF Grows, KeepsJumps
  <1>10. FinalIn(t, entry, end, full, n, offset)
    <2>1. Fits(entry.op, full, n)
      BY <1>8
    <2>2. end = entry.at + Span(full, n) /\ end <= Len(t.code)
      BY <1>1, <1>2, <1>6, <1>8 DEF end
    <2>3. Holds(t.code, entry.at, Encoded(entry.op, full, n), Span(full, n))
      BY <1>1, <1>2, <1>6, <1>8 DEF piece
    <2>4. entry.label # 0 => t.labels[entry.label] # Unplaced /\ end + offset = t.labels[entry.label]
      BY <1>1, <1>2, <1>6, <1>8 DEF end
    <2>5. \A j \in 1..Len(t.jumps) : Apart(t.jumps[j], entry.at, end)
      BY <1>1, <1>8, PatchesBehind DEF Apart
    <2> QED
      BY <2>1, <2>2, <2>3, <2>4, <2>5 DEF FinalIn
  <1>11. EntryHolds(t, last)
    <2>1. t.listing[last] = entry /\ Address(t, last + 1) = end
      BY <1>1, <1>5, <1>6, <1>7
    <2>2. Operands(entry, offset) = full
      BY <1>8 DEF Operands
    <2>3. FinalIn(t, t.listing[last], Address(t, last + 1), Operands(t.listing[last], offset), n, offset)
      BY <1>10, <2>1, <2>2
    <2>4. Final(t, last)
      BY <2>3 DEF Final
    <2>5. t.listing[last].label \in 0..Len(t.labels)
      BY <1>1, <1>6, <1>8, <2>1
    <2> QED
      BY <2>4, <2>5 DEF EntryHolds
  <1>12. \A i \in 1..Len(t.listing) : i > Len(s.listing) => EntryHolds(t, i)
    BY <1>1, <1>6, <1>11
  <1>13. t.labels = s.labels /\ t.marks = s.marks
    BY <1>1, <1>6
  <1>14. Follows(s)
    BY DEF s
  <1>15. Follows(t)
    BY <1>9, <1>12, <1>13, <1>14, FollowsOn
  <1> QED
    BY <1>15 DEF t

(* The form an instruction gets can carry its operands. *)
LEMMA WidthFits ==
  ASSUME NEW i \in Instructions
  PROVE  Fits(i.op, i.operands, Width(i.op, i.operands))
  <1>1. i.op \in DOMAIN Shape /\ i.operands \in Seq(Int) /\ WellFormedInstruction(i)
    BY ModuleBuilderAssumption DEF WellFormedInstruction
  <1>2. DOMAIN i.operands = DOMAIN Shape[i.op]
    BY <1>1 DEF WellFormedInstruction
  <1>3. /\ Len(i.operands) \in Nat /\ DOMAIN i.operands = 1..Len(i.operands)
        /\ Len(Shape[i.op]) \in Nat /\ DOMAIN Shape[i.op] = 1..Len(Shape[i.op])
    BY <1>1, Opcodes, SequenceFacts
  <1>4. Len(i.operands) = Len(Shape[i.op])
    <2> DEFINE a == Len(i.operands)
               b == Len(Shape[i.op])
    <2>1. a \in Nat /\ b \in Nat /\ 1..a = 1..b
      BY <1>2, <1>3
    <2> HIDE DEF a, b
    <2>2. ~(a > b)
      <3>1. a > b => a \in 1..a /\ a \notin 1..b
        BY <2>1
      <3> QED
        BY <2>1, <3>1
    <2>3. ~(b > a)
      <3>1. b > a => b \in 1..b /\ b \notin 1..a
        BY <2>1
      <3> QED
        BY <2>1, <3>1
    <2>4. a = b
      BY <2>1, <2>2, <2>3
    <2> QED
      BY <2>4 DEF a, b
  <1>5. ASSUME NEW k \in 1..Len(i.operands)
        PROVE  FitsIn(Shape[i.op][k], i.operands[k], Width(i.op, i.operands))
    <2>1. FitsWide(Shape[i.op][k], i.operands[k]) /\ k \in DOMAIN i.operands /\ i.operands[k] \in Int
      BY <1>1, <1>3, SequenceFacts DEF WellFormedInstruction
    <2>2. CASE Width(i.op, i.operands) = 2
      BY <2>1, <2>2 DEF FitsIn, FitsWide
    <2>3. CASE Width(i.op, i.operands) = 1
      <3>1. ~IsWide(Shape[i.op][k], i.operands[k])
        BY <2>1, <2>3 DEF Width
      <3>2. CASE Shape[i.op][k] = Immediate
        BY <2>3, <3>1, <3>2 DEF FitsIn, IsWide
      <3>3. CASE Shape[i.op][k] # Immediate
        <4>1. i.operands[k] \in 0..ByteWeight[2] - 1 /\ ~(i.operands[k] >= ByteModulus)
          BY <2>1, <3>1, <3>3 DEF FitsWide, IsWide
        <4>2. i.operands[k] \in 0..ByteModulus - 1
          BY <2>1, <4>1, Weights
        <4> QED
          BY <2>3, <3>3, <4>2, Weights DEF FitsIn
      <3> QED
        BY <3>2, <3>3
    <2> QED
      BY <2>2, <2>3 DEF Width
  <1> QED
    BY <1>1, <1>4, <1>5 DEF Fits

LEMMA EmitLists ==
  ASSUME IInv, IInv', product.builds = 0, Follows(Draft), NEW i \in Instructions, Emit(i)
  PROVE  Follows(Draft')
  <1> DEFINE n == Width(i.op, i.operands)
  <1>1. i.op \in Nat /\ i.operands \in Seq(Int)
    BY ModuleBuilderAssumption
  <1>2. n \in 1..2
    BY DEF Width
  <1>3. Fits(i.op, i.operands, n)
    BY WidthFits
  <1> HIDE DEF n
  <1>4. Write(Encoded(i.op, i.operands, n), i.op, i.operands, 0)
        /\ UNCHANGED unresolved_jump_offsets
    BY DEF Emit, n
  <1>5. 0 \in 0..Len(label_positions)
    BY SequenceFacts DEF IInv, TypeOK
  <1>6. i.operands = IF 0 = 0 THEN i.operands ELSE Append(i.operands, 0)
    OBVIOUS
  <1>7. 0 # 0 => /\ label_positions[0] # Unplaced
                 /\ Len(code) + Span(i.operands, n) + 0 = label_positions[0]
    OBVIOUS
  <1>8. 0 \in Int
    OBVIOUS
  <1> QED
    BY <1>1, <1>2, <1>3, <1>4, <1>5, <1>6, <1>7, <1>8, FinalWrite, Zenon

(* A jump's shape: a register for its condition, if any, and its offset. *)
LEMMA JumpShape ==
  ASSUME NEW c \in JumpConditions
  PROVE  /\ JumpOp(c) \in DOMAIN Shape /\ Len(c) \in 0..1
         /\ Len(Shape[JumpOp(c)]) = Len(c) + 1
         /\ Shape[JumpOp(c)][Len(c) + 1] = Immediate
         /\ Len(c) = 1 => Shape[JumpOp(c)][1] = Unsigned
  <1>1. c \in Seq(Int) /\ Len(c) \in 0..1
    BY JumpFacts
  <1>2. /\ JmpI \in DOMAIN Shape /\ Shape[JmpI] = <<Immediate>>
        /\ JnzI \in DOMAIN Shape /\ Shape[JnzI] = <<Unsigned, Immediate>>
    BY DEF Shape, Exit, JmpI, JnzI, CallI, CallVoidI, Ret, RetVoid, LookupK, Load, MovI, AllocaI
  <1>3. c = << >> <=> Len(c) = 0
    BY <1>1
  <1>4. CASE Len(c) = 0
    <2>1. JumpOp(c) = JmpI
      BY <1>3, <1>4 DEF JumpOp
    <2> QED
      BY <1>2, <1>4, <2>1
  <1>5. CASE Len(c) = 1
    <2>1. JumpOp(c) = JnzI
      BY <1>3, <1>5 DEF JumpOp
    <2> QED
      BY <1>2, <1>5, <2>1
  <1> QED
    BY <1>1, <1>4, <1>5

LEMMA JumpFits ==
  ASSUME NEW c \in JumpConditions, NEW offset \in Int, NEW n \in 1..2, InRange(offset, n),
         n = 1 => \A k \in DOMAIN c : ~IsWide(Unsigned, c[k])
  PROVE  Fits(JumpOp(c), Append(c, offset), n)
  <1> DEFINE full == Append(c, offset)
             L == Len(c)
  <1>1. c \in Seq(Int) /\ L \in 0..1 /\ DOMAIN c = 1..L
        /\ \A k \in 1..L : c[k] \in 0..ByteWeight[2] - 1
    <2>1. c \in Seq(0..ByteWeight[2] - 1)
      BY ModuleBuilderAssumption
    <2> QED
      BY <2>1, JumpFacts, SequenceFacts
  <1>2. /\ full \in Seq(Int) /\ Len(full) = L + 1 /\ full[L + 1] = offset
        /\ \A k \in 1..L : full[k] = c[k]
    BY <1>1, AppendFacts
  <1> HIDE DEF full, L
  <1>3. JumpOp(c) \in DOMAIN Shape /\ Len(Shape[JumpOp(c)]) = L + 1
        /\ Shape[JumpOp(c)][L + 1] = Immediate /\ (L = 1 => Shape[JumpOp(c)][1] = Unsigned)
    BY JumpShape DEF L
  <1>4. FitsIn(Shape[JumpOp(c)][L + 1], full[L + 1], n)
    BY <1>2, <1>3 DEF FitsIn
  <1>5. ASSUME L = 1
        PROVE  FitsIn(Shape[JumpOp(c)][1], full[1], n)
    <2>1. full[1] = c[1] /\ c[1] \in 0..ByteWeight[2] - 1 /\ 1 \in DOMAIN c
      BY <1>1, <1>2, <1>5
    <2>2. c[1] \in 0..ByteWeight[n] - 1
      <3>1. CASE n = 1
        <4>1. ~(c[1] >= ByteModulus)
          BY <2>1, <3>1 DEF IsWide, Unsigned, Immediate
        <4>2. c[1] \in 0..ByteModulus - 1
          BY <2>1, <4>1, Weights
        <4> QED
          BY <3>1, <4>2, Weights
      <3>2. CASE n = 2
        BY <2>1, <3>2
      <3> QED
        BY <3>1, <3>2
    <2> QED
      BY <1>3, <1>5, <2>1, <2>2 DEF FitsIn, Unsigned, Immediate
  <1>6. \A k \in 1..Len(full) : FitsIn(Shape[JumpOp(c)][k], full[k], n)
    <2>1. ASSUME NEW k \in 1..L + 1 PROVE FitsIn(Shape[JumpOp(c)][k], full[k], n)
      <3>1. k = L + 1 \/ (L = 1 /\ k = 1)
        BY <1>1
      <3> QED
        BY <1>4, <1>5, <3>1
    <2> QED
      BY <1>2, <2>1
  <1>7. Fits(JumpOp(c), full, n)
    BY <1>2, <1>3, <1>6 DEF Fits
  <1> QED
    BY <1>7 DEF full

LEMMA ZeroFits == InRange(0, 2)
  <1> DEFINE w == ByteWeight[2]
  <1>1. w \in Nat \ {0}
    BY Weights
  <1> HIDE DEF w
  <1>2. 0 % w = 0 /\ 2 * 0 < w
    BY <1>1
  <1> QED
    BY <1>2 DEF InRange, Signed, w

LEMMA ResolvedLists ==
  ASSUME IInv, IInv', product.builds = 0, Follows(Draft), NEW c \in JumpConditions,
         NEW l \in DOMAIN label_positions, label_positions[l] # Unplaced,
         NEW n \in 1..2, NEW offset, offset = Offset(c, label_positions[l], n),
         InRange(offset, n), n = 1 => \A k \in DOMAIN c : ~IsWide(Unsigned, c[k]),
         Write(Encoded(JumpOp(c), Append(c, offset), n), JumpOp(c), c, l),
         UNCHANGED unresolved_jump_offsets
  PROVE  Follows(Draft')
  <1> DEFINE full == Append(c, offset)
             length == n + n * (Len(c) + 1)
             target == label_positions[l]
  <1>1. c \in Seq(Int) /\ Len(c) \in 0..1 /\ JumpOp(c) \in Nat
    BY 0 \in Int, JumpFacts
  <1>2. l \in 1..Len(label_positions) /\ target \in Int /\ Len(label_positions) \in Nat
        /\ Len(code) \in Nat
    <2>1. label_positions \in Seq(Nat \cup {Unplaced}) /\ code \in Seq(Nat)
      BY DEF IInv, TypeOK
    <2> QED
      BY <2>1, SequenceFacts DEF Unplaced
  <1>3. position = Len(code)
    BY PatchesBehind
  <1>4. length \in Int
    BY <1>1
  <1>5. offset = target - (position + length)
    BY DEF Offset, JumpSize
  <1> HIDE DEF length, target
  <1>6. offset \in Int
    BY <1>2, <1>3, <1>4, <1>5
  <1>7. full \in Seq(Int) /\ Len(full) = Len(c) + 1 /\ Fits(JumpOp(c), full, n)
    BY <1>1, <1>6, AppendFacts, JumpFits
  <1> HIDE DEF full
  <1>8. Span(full, n) = length
    BY <1>7 DEF Span, length
  <1>9. Len(code) + Span(full, n) + offset = target
    BY <1>2, <1>3, <1>4, <1>5, <1>8
  <1>10. l \in 0..Len(label_positions) /\ l # 0
    BY <1>2
  <1>11. full = IF l = 0 THEN c ELSE Append(c, offset)
    BY <1>10 DEF full
  <1>12. Write(Encoded(JumpOp(c), full, n), JumpOp(c), c, l)
    BY DEF full
  <1>13. l # 0 => /\ label_positions[l] # Unplaced
                  /\ Len(code) + Span(full, n) + offset = label_positions[l]
    BY <1>9 DEF target
  <1> QED
    BY <1>1, <1>6, <1>7, <1>10, <1>11, <1>12, <1>13, FinalWrite, Zenon

LEMMA UnresolvedLists ==
  ASSUME IInv, IInv', product.builds = 0, Follows(Draft), NEW c \in JumpConditions,
         NEW l \in DOMAIN label_positions, EmitUnresolved(c, l)
  PROVE  Follows(Draft')
  <1> DEFINE s == Draft
             t == Draft'
             piece == Encoded(JumpOp(c), Append(c, 0), 2)
             last == Len(listing) + 1
             entry == [at |-> Len(code), op |-> JumpOp(c), operands |-> c, label |-> l]
             end == Len(code')
             jump == [position |-> position + 2 + 2 * Len(c), label |-> l]
             U == Len(unresolved_jump_offsets)
  <1>1. /\ s.code = code /\ s.listing = listing /\ s.labels = label_positions
        /\ s.jumps = unresolved_jump_offsets /\ s.marks = marks.labels
        /\ t.code = code' /\ t.listing = listing' /\ t.labels = label_positions'
        /\ t.jumps = unresolved_jump_offsets' /\ t.marks = marks.labels'
    BY DEF Draft
  <1>2. /\ c \in Seq(Int) /\ Len(c) \in 0..1 /\ JumpOp(c) \in Nat
        /\ piece \in Seq(Nat) /\ Len(piece) = 2 + 2 * (Len(c) + 1)
    BY 0 \in Int, 2 \in 1..2, JumpFacts
  <1>3. l \in 1..Len(label_positions) /\ l \in Nat /\ Len(label_positions) \in Nat
        /\ unresolved_jump_offsets \in Seq(Jump) /\ U \in Nat
    <2>1. label_positions \in Seq(Nat \cup {Unplaced}) /\ unresolved_jump_offsets \in Seq(Jump)
      BY DEF IInv, TypeOK, Jump
    <2> QED
      BY <2>1, SequenceFacts
  <1>4. Write(piece, JumpOp(c), c, l) /\ unresolved_jump_offsets' = Append(unresolved_jump_offsets, jump)
    BY DEF EmitUnresolved
  <1>5. Fits(JumpOp(c), Append(c, 0), 2) /\ Shape[JumpOp(c)][Len(c) + 1] = Immediate
    <2>1. Fits(JumpOp(c), Append(c, 0), 2)
      BY ZeroFits, JumpFits
    <2> QED
      BY <2>1, JumpShape
  <1> HIDE DEF s, t, piece, entry, end
  <1>6. /\ Keeps(s, t) /\ Address(t, Len(listing) + 2) = end
    BY <1>2, <1>3, <1>4, WriteGrows DEF s, t, end
  <1>7. /\ Len(code) \in Nat /\ Len(code') = Len(code) + Len(piece)
        /\ Holds(code', Len(code), piece, Len(piece))
        /\ Len(listing) \in Nat /\ Len(listing') = Len(listing) + 1
        /\ UNCHANGED <<label_positions, marks>>
    BY <1>2, <1>3, <1>4, Written
  <1>8. listing'[Len(listing) + 1] = entry
    BY <1>2, <1>3, <1>4, Written DEF entry
  <1>9. entry.at = Len(code) /\ entry.op = JumpOp(c) /\ entry.operands = c /\ entry.label = l
    BY DEF entry
  <1>10. /\ position = Len(code)
         /\ \A j \in 1..U : /\ unresolved_jump_offsets[j].position \in Nat
                            /\ unresolved_jump_offsets[j].position + 2 <= Len(code)
    BY PatchesBehind
  <1>11. jump.position = Len(code) + 2 + 2 * Len(c) /\ jump.label = l /\ jump \in Jump
    BY <1>2, <1>3, <1>7, <1>10 DEF Jump
  <1> HIDE DEF jump
  <1>12. /\ Len(unresolved_jump_offsets') = U + 1 /\ unresolved_jump_offsets'[U + 1] = jump
         /\ \A j \in 1..U : unresolved_jump_offsets'[j] = unresolved_jump_offsets[j]
    BY <1>3, <1>4, <1>11, AppendFacts
  <1> HIDE DEF U
  <1>13. Len(s.jumps) = U /\ Len(t.jumps) = U + 1
    BY <1>1, <1>12 DEF U
  <1>14. Grows(s, t)
    <2>1. KeepsJumps(s, t)
      <3>1. ASSUME NEW j \in 1..U + 1
            PROVE  \/ j <= U /\ unresolved_jump_offsets'[j] = unresolved_jump_offsets[j]
                   \/ unresolved_jump_offsets'[j].position >= Len(code)
        <4>1. CASE j <= U
          BY <1>3, <1>12, <4>1
        <4>2. CASE j = U + 1
          BY <1>2, <1>7, <1>11, <1>12, <4>2
        <4> QED
          BY <1>3, <4>1, <4>2
      <3> QED
        BY <1>1, <1>13, <3>1 DEF KeepsJumps
    <2>2. Len(s.jumps) <= Len(t.jumps) /\ \A j \in 1..Len(s.jumps) : t.jumps[j] = s.jumps[j]
      BY <1>1, <1>3, <1>12, <1>13
    <2> QED
      BY <1>6, <2>1, <2>2 DEF Grows
  <1>15. PendingIn(t, entry, end, jump, U + 1)
    <2>1. Span(c, 2) = 2 + 2 * Len(c)
      BY <1>2, SpanType
    <2>2. /\ jump.position = entry.at + Span(c, 2)
          /\ end = jump.position + 2 /\ end <= Len(t.code)
      BY <1>1, <1>2, <1>7, <1>9, <1>11, <2>1 DEF end
    <2>3. Holds(t.code, entry.at, Encoded(entry.op, Append(entry.operands, 0), 2), Span(c, 2))
      <3>1. \A p \in 1..Len(piece) : code'[Len(code) + p] = piece[p]
        BY <1>7 DEF Holds
      <3>2. \A p \in 1..Span(c, 2) : code'[Len(code) + p] = piece[p]
        BY <1>2, <2>1, <3>1
      <3>3. Holds(code', Len(code), piece, Span(c, 2))
        BY <3>2 DEF Holds
      <3> QED
        BY <1>1, <1>9, <3>3 DEF piece
    <2>4. \A k \in 1..Len(t.jumps) : k # U + 1 => Apart(t.jumps[k], entry.at, end)
      <3>1. ASSUME NEW k \in 1..U PROVE Apart(t.jumps[k], entry.at, end)
        BY <1>1, <1>9, <1>10, <1>12 DEF Apart
      <3> QED
        BY <1>3, <1>13, <3>1
    <2>5. entry.label # 0 /\ entry.label = jump.label
      BY <1>3, <1>9, <1>11
    <2> QED
      BY <1>5, <1>9, <2>2, <2>3, <2>4, <2>5 DEF PendingIn
  <1>16. EntryHolds(t, last)
    <2>1. t.listing[last] = entry /\ Address(t, last + 1) = end
      BY <1>1, <1>6, <1>7, <1>8
    <2>2. t.jumps[U + 1] = jump /\ U + 1 \in 1..Len(t.jumps)
      BY <1>1, <1>3, <1>12, <1>13
    <2>3. Pending(t, last)
      BY <1>15, <2>1, <2>2 DEF Pending
    <2>4. t.listing[last].label \in 0..Len(t.labels)
      BY <1>1, <1>3, <1>7, <1>9, <2>1
    <2> QED
      BY <2>3, <2>4 DEF EntryHolds
  <1>17. \A i \in 1..Len(t.listing) : i > Len(s.listing) => EntryHolds(t, i)
    BY <1>1, <1>7, <1>16
  <1>18. t.labels = s.labels /\ t.marks = s.marks
    BY <1>1, <1>7
  <1>19. Follows(s)
    BY DEF s
  <1>20. Follows(t)
    BY <1>14, <1>17, <1>18, <1>19, FollowsOn
  <1> QED
    BY <1>20 DEF t

LEMMA EmitJumpLists ==
  ASSUME IInv, IInv', product.builds = 0, Follows(Draft), NEW c \in JumpConditions,
         NEW l \in DOMAIN label_positions, EmitJump(c, l)
  PROVE  Follows(Draft')
  <1> DEFINE narrow == Offset(c, label_positions[l], 1)
             wide == Offset(c, label_positions[l], 2)
  <1> HIDE DEF narrow, wide
  <1>1. CASE label_positions[l] = Unplaced
    <2>1. EmitUnresolved(c, l)
      BY <1>1 DEF EmitJump
    <2> QED
      BY <2>1, UnresolvedLists
  <1>2. CASE label_positions[l] # Unplaced
    <2>1. EmitResolved(c, l)
      BY <1>2 DEF EmitJump
    <2>2. \/ /\ \A k \in DOMAIN c : ~IsWide(Unsigned, c[k])
             /\ InRange(narrow, 1)
             /\ Write(Encoded(JumpOp(c), Append(c, narrow), 1), JumpOp(c), c, l)
             /\ UNCHANGED unresolved_jump_offsets
          \/ /\ InRange(wide, 2)
             /\ Write(Encoded(JumpOp(c), Append(c, wide), 2), JumpOp(c), c, l)
             /\ UNCHANGED unresolved_jump_offsets
          \/ Fail
      BY <2>1 DEF EmitResolved, narrow, wide
    <2>3. CASE /\ \A k \in DOMAIN c : ~IsWide(Unsigned, c[k])
               /\ InRange(narrow, 1)
               /\ Write(Encoded(JumpOp(c), Append(c, narrow), 1), JumpOp(c), c, l)
               /\ UNCHANGED unresolved_jump_offsets
      BY <1>2, <2>3, 1 \in 1..2, ResolvedLists DEF narrow
    <2>4. CASE /\ InRange(wide, 2)
               /\ Write(Encoded(JumpOp(c), Append(c, wide), 2), JumpOp(c), c, l)
               /\ UNCHANGED unresolved_jump_offsets
      <3>1. 2 \in 1..2 /\ 2 # 1
        OBVIOUS
      <3> QED
        BY <1>2, <2>4, <3>1, ResolvedLists DEF wide
    <2>5. CASE Fail
      <3>1. Draft' = Draft
        BY <2>5 DEF Fail, Draft, module, builder, history
      <3> QED
        BY <3>1
    <2> QED
      BY <2>2, <2>3, <2>4, <2>5
  <1> QED
    BY <1>1, <1>2

----------------------------------------------------------------------------
(* Labels. *)

LEMMA LabelsGrow ==
  ASSUME NEW s, NEW t, IsDraft(s), IsDraft(t), t.code = s.code, t.listing = s.listing,
         t.jumps = s.jumps, Len(s.labels) <= Len(t.labels),
         \A l \in 1..Len(s.labels) : s.labels[l] # Unplaced => t.labels[l] = s.labels[l]
  PROVE  Grows(s, t)
  <1>1. Len(s.code) \in Nat /\ Len(s.listing) \in Nat /\ Len(s.jumps) \in Nat
    BY DraftTypes
  <1>2. \A i \in 1..Len(s.listing) + 1 : Address(t, i) = Address(s, i)
    BY DEF Address
  <1>3. Keeps(s, t)
    BY <1>1, <1>2 DEF Keeps, Same
  <1> QED
    BY <1>1, <1>3 DEF Grows, KeepsJumps

LEMMA LabelsList ==
  ASSUME IInv, IInv', product.builds = 0, Follows(Draft),
         MakeLabel \/ \E l \in DOMAIN label_positions : PlaceLabel(l)
  PROVE  Follows(Draft')
  <1> DEFINE s == Draft
             t == Draft'
             L == Len(label_positions)
  <1>1. /\ s.code = code /\ s.listing = listing /\ s.labels = label_positions
        /\ s.jumps = unresolved_jump_offsets /\ s.marks = marks.labels
        /\ t.code = code' /\ t.listing = listing' /\ t.labels = label_positions'
        /\ t.jumps = unresolved_jump_offsets' /\ t.marks = marks.labels'
    BY DEF Draft
  <1>2. IsDraft(s) /\ IsDraft(t)
    <2>1. TypeOK' => IsDraft(t)
      BY DEF TypeOK, IsDraft, Draft, Entry, Jump
    <2> QED
      BY <2>1, DraftIsTyped DEF IInv
  <1>3. Follows(s)
    OBVIOUS
  <1> HIDE DEF s, t
  <1>4. /\ label_positions \in Seq(Nat \cup {Unplaced}) /\ L \in Nat
        /\ DOMAIN label_positions = 1..L
        /\ marks \in [labels : Seq(Nat), functions : Seq(Nat)]
        /\ marks.labels \in Seq(Nat) /\ Len(marks.labels) = L
    <2>1. label_positions \in Seq(Nat \cup {Unplaced})
          /\ marks \in [labels : Seq(Nat), functions : Seq(Nat)]
      BY DEF IInv, TypeOK
    <2> QED
      BY <1>1, <1>3, <2>1, SequenceFacts DEF Follows
  <1>5. UNCHANGED <<code, listing, unresolved_jump_offsets>>
    BY DEF MakeLabel, PlaceLabel, module
  <1> HIDE DEF L
  <1>6. CASE MakeLabel
    <2>1. /\ label_positions' = Append(label_positions, Unplaced)
          /\ marks'.labels = Append(marks.labels, 0)
      BY <1>4, <1>6 DEF MakeLabel
    <2>2. Unplaced \in Nat \cup {Unplaced} /\ 0 \in Nat
      OBVIOUS
    <2>3. /\ Len(label_positions') = L + 1 /\ label_positions'[L + 1] = Unplaced
          /\ \A l \in 1..L : label_positions'[l] = label_positions[l]
      BY <1>4, <2>1, <2>2, AppendFacts DEF L
    <2>4. /\ Len(marks'.labels) = L + 1
          /\ \A l \in 1..L : marks'.labels[l] = marks.labels[l]
      BY <1>4, <2>1, <2>2, AppendFacts
    <2>5. Len(s.labels) = L /\ Len(t.labels) = L + 1 /\ Len(t.marks) = L + 1
      BY <1>1, <2>3, <2>4 DEF L
    <2>6. Grows(s, t)
      <3>1. t.code = s.code /\ t.listing = s.listing /\ t.jumps = s.jumps
        BY <1>1, <1>5
      <3>2. Len(s.labels) <= Len(t.labels)
        BY <1>4, <2>5
      <3>3. \A l \in 1..Len(s.labels) : s.labels[l] # Unplaced => t.labels[l] = s.labels[l]
        BY <1>1, <2>3, <2>5
      <3> QED
        BY <1>2, <3>1, <3>2, <3>3, LabelsGrow, Zenon
    <2>7. \A l \in 1..Len(t.labels) : LabelHolds(t, l)
      <3>1. ASSUME NEW l \in 1..L PROVE LabelHolds(t, l)
        <4>1. l \in 1..Len(s.labels) /\ t.labels[l] = s.labels[l] /\ t.marks[l] = s.marks[l]
          BY <1>1, <2>3, <2>4, <2>5
        <4> QED
          BY <1>3, <2>6, <4>1, LabelKept DEF Grows
      <3>2. LabelHolds(t, L + 1)
        BY <1>1, <2>3 DEF LabelHolds
      <3> QED
        BY <1>4, <2>5, <3>1, <3>2
    <2>8. \A i \in 1..Len(t.listing) : EntryHolds(t, i)
      BY <1>1, <1>3, <1>5, <2>6, EntriesKept
    <2> QED
      BY <2>5, <2>7, <2>8 DEF Follows, t
  <1>7. CASE \E l \in DOMAIN label_positions : PlaceLabel(l)
    <2>1. PICK here \in 1..L : PlaceLabel(here)
      BY <1>4, <1>7
    <2>2. /\ label_positions[here] = Unplaced
          /\ label_positions' = [label_positions EXCEPT ![here] = position]
          /\ marks'.labels = [marks.labels EXCEPT ![here] = Len(listing) + 1]
          /\ position = Len(code)
      BY <1>4, <2>1, PatchesBehind DEF PlaceLabel
    <2>3. /\ label_positions'[here] = position
          /\ \A l \in 1..L : l # here => label_positions'[l] = label_positions[l]
          /\ marks'.labels[here] = Len(listing) + 1
          /\ \A l \in 1..L : l # here => marks'.labels[l] = marks.labels[l]
      <3>1. DOMAIN marks.labels = 1..L
        BY <1>4, SequenceFacts
      <3> QED
        BY <1>4, <2>2, <3>1
    <2>4. Len(s.labels) = L /\ Len(t.labels) = L /\ Len(t.marks) = L
      <3>1. position \in Nat \cup {Unplaced} /\ Len(listing) + 1 \in Nat
        BY <1>1, <1>2, DraftTypes DEF IInv, TypeOK
      <3>2. Len(label_positions') = L /\ Len(marks'.labels) = L
        BY <1>4, <2>2, <3>1, UpdateFacts DEF L
      <3> QED
        BY <1>1, <3>2 DEF L
    <2>5. Grows(s, t)
      <3>1. \A l \in 1..Len(s.labels) : s.labels[l] # Unplaced => t.labels[l] = s.labels[l]
        BY <1>1, <2>2, <2>3, <2>4
      <3>2. t.code = s.code /\ t.listing = s.listing /\ t.jumps = s.jumps
        BY <1>1, <1>5
      <3>3. Len(s.labels) <= Len(t.labels)
        BY <1>4, <2>4
      <3> QED
        BY <1>2, <3>1, <3>2, <3>3, LabelsGrow, Zenon
    <2>6. \A l \in 1..Len(t.labels) : LabelHolds(t, l)
      <3>1. ASSUME NEW l \in 1..L, l # here PROVE LabelHolds(t, l)
        <4>1. l \in 1..Len(s.labels) /\ t.labels[l] = s.labels[l] /\ t.marks[l] = s.marks[l]
          BY <1>1, <2>3, <2>4, <3>1
        <4> QED
          BY <1>3, <2>5, <4>1, LabelKept DEF Grows
      <3>2. LabelHolds(t, here)
        <4>1. Len(listing) \in Nat
          BY <1>1, <1>2, DraftTypes
        <4>2. t.marks[here] = Len(listing) + 1 /\ t.labels[here] = Len(code)
          BY <1>1, <2>2, <2>3
        <4>3. Address(t, Len(listing) + 1) = Len(code)
          BY <1>1, <1>5, <4>1 DEF Address
        <4> QED
          BY <1>1, <1>5, <4>1, <4>2, <4>3 DEF LabelHolds
      <3> QED
        BY <2>4, <3>1, <3>2
    <2>7. \A i \in 1..Len(t.listing) : EntryHolds(t, i)
      BY <1>1, <1>3, <1>5, <2>5, EntriesKept
    <2> QED
      BY <2>4, <2>6, <2>7 DEF Follows, t
  <1> QED
    BY <1>6, <1>7

----------------------------------------------------------------------------
(* build(). *)

(* The patch of jump j, when no other one covers its byte. *)
LEMMA PatchedAt ==
  ASSUME IInv, NEW n \in Nat, n <= Len(unresolved_jump_offsets), NEW p \in 1..Len(code)
  PROVE  /\ \/ Patched(n)[p] = code[p]
            \/ \E j \in 1..n : p \in unresolved_jump_offsets[j].position + 1
                                       ..unresolved_jump_offsets[j].position + 2
         /\ \A j \in 1..n :
              /\ p \in DOMAIN PatchedBytes(j)
              /\ \A k \in 1..n : k # j => p \notin DOMAIN PatchedBytes(k)
              => Patched(n)[p] = PatchedBytes(j)[p]
  <1> DEFINE here == {j \in 1..n : p \in DOMAIN PatchedBytes(j)}
             one == CHOOSE j \in here : TRUE
  <1>1. p \in DOMAIN code
    BY SequenceFacts DEF IInv, TypeOK
  <1>2. Patched(n)[p] = IF here = {} THEN code[p] ELSE PatchedBytes(one)[p]
    BY <1>1 DEF Patched
  <1>3. here # {} => one \in here
    OBVIOUS
  <1>4. \A j \in here : j \in 1..n /\ p \in DOMAIN PatchedBytes(j)
    OBVIOUS
  <1>5. \A j \in 1..n : p \in DOMAIN PatchedBytes(j) => j \in here
    OBVIOUS
  <1> HIDE DEF here, one
  <1>6. ASSUME NEW j \in 1..n, p \in DOMAIN PatchedBytes(j)
        PROVE  p \in unresolved_jump_offsets[j].position + 1..unresolved_jump_offsets[j].position + 2
    <2>1. j \in DOMAIN unresolved_jump_offsets
      BY SequenceFacts, PatchFacts DEF IInv, TypeOK
    <2> DEFINE x == unresolved_jump_offsets[j].position
    <2>2. x \in Nat /\ p \in {x + 1, x + 2}
      BY <1>6, <2>1, PatchFacts DEF IInv, PatchedBytes
    <2> HIDE DEF x
    <2>3. p \in x + 1..x + 2
      BY <2>2
    <2> QED
      BY <2>3 DEF x
  <1>7. \/ Patched(n)[p] = code[p]
        \/ \E j \in 1..n : p \in unresolved_jump_offsets[j].position + 1
                                   ..unresolved_jump_offsets[j].position + 2
    BY <1>2, <1>3, <1>4, <1>6
  <1>8. ASSUME NEW j \in 1..n, p \in DOMAIN PatchedBytes(j),
               \A k \in 1..n : k # j => p \notin DOMAIN PatchedBytes(k)
        PROVE  Patched(n)[p] = PatchedBytes(j)[p]
    <2>1. one = j /\ here # {}
      BY <1>3, <1>4, <1>5, <1>8
    <2> QED
      BY <1>2, <2>1
  <1> QED
    BY <1>7, <1>8

(* Patching keeps everything but the bytes of unresolved offsets. *)
LEMMA PatchingKeeps ==
  ASSUME IInv, NEW n \in Nat, n <= Len(unresolved_jump_offsets), NEW t, IsDraft(t),
         t.code = Patched(n), t.listing = listing, t.labels = label_positions
  PROVE  Keeps(Draft, t)
  <1> DEFINE s == Draft
  <1>1. /\ s.code = code /\ s.listing = listing /\ s.labels = label_positions
        /\ s.jumps = unresolved_jump_offsets
    BY DEF Draft
  <1>2. IsDraft(s)
    BY DraftIsTyped DEF IInv
  <1> HIDE DEF s
  <1>3. Len(t.code) = Len(s.code)
    BY <1>1, PatchedType
  <1>4. /\ Len(s.code) \in Nat /\ Len(s.listing) \in Nat /\ Len(s.labels) \in Nat
        /\ Len(s.jumps) \in Nat
    BY <1>2, DraftTypes
  <1>5. \A i \in 1..Len(s.listing) + 1 : Address(t, i) = Address(s, i)
    BY <1>1, <1>3 DEF Address
  <1>6. ASSUME NEW p \in 1..Len(s.code)
        PROVE  Same(s, t, p)
    <2>1. \/ Patched(n)[p] = code[p]
          \/ \E j \in 1..n : p \in unresolved_jump_offsets[j].position + 1
                                     ..unresolved_jump_offsets[j].position + 2
      BY <1>1, PatchedAt
    <2>2. \A j \in 1..n : j \in 1..Len(s.jumps)
      BY <1>1, <1>4
    <2> QED
      BY <1>1, <2>1, <2>2 DEF Same
  <1>7. Keeps(s, t)
    BY <1>1, <1>2, <1>3, <1>4, <1>5, <1>6 DEF Keeps
  <1> QED
    BY <1>7 DEF s

LEMMA BuildFailsLists ==
  ASSUME IInv, IInv', product.builds = 0, Follows(Draft), BuildFails
  PROVE  Follows(Draft')
  <1> DEFINE s == Draft
             t == Draft'
             U == Len(unresolved_jump_offsets)
  <1>1. /\ s.code = code /\ s.listing = listing /\ s.labels = label_positions
        /\ s.jumps = unresolved_jump_offsets /\ s.marks = marks.labels
        /\ t.code = code' /\ t.listing = listing' /\ t.labels = label_positions'
        /\ t.jumps = unresolved_jump_offsets' /\ t.marks = marks.labels'
    BY DEF Draft
  <1>2. UNCHANGED <<listing, label_positions, unresolved_jump_offsets, marks>>
    BY DEF BuildFails, builder, history
  <1>3. PICK j \in BadJumps : UNCHANGED code \/ code' = Patched(j - 1)
    BY DEF BuildFails
  <1>4. CASE UNCHANGED code
    BY <1>2, <1>4 DEF Draft
  <1>5. CASE code' = Patched(j - 1)
    <2>1. j - 1 \in Nat /\ j - 1 <= U
      <3>1. j \in DOMAIN unresolved_jump_offsets
        BY DEF BadJumps
      <3>2. U \in Nat /\ DOMAIN unresolved_jump_offsets = 1..U
        BY SequenceFacts DEF IInv, TypeOK
      <3> QED
        BY <3>1, <3>2
    <2>2. IsDraft(t)
      <3>1. TypeOK' => IsDraft(t)
        BY DEF TypeOK, IsDraft, Draft, Entry, Jump
      <3> QED
        BY <3>1 DEF IInv
    <2> DEFINE n == j - 1
    <2>3. Follows(s)
      OBVIOUS
    <2> HIDE DEF n, t
    <2>4. Keeps(Draft, t)
      BY <1>1, <1>2, <1>5, <2>1, <2>2, PatchingKeeps DEF n
    <2> HIDE DEF s
    <2>5. Keeps(s, t)
      BY <2>4 DEF s
    <2>6. Grows(s, t)
      <3>1. t.jumps = s.jumps /\ Len(s.jumps) \in Nat
        BY <1>1, <1>2, <2>5, DraftTypes DEF Keeps
      <3> QED
        BY <2>5, <3>1 DEF Grows, KeepsJumps
    <2>7. t.labels = s.labels /\ t.marks = s.marks /\ t.listing = s.listing /\ Len(s.listing) \in Nat
      BY <1>1, <1>2, <2>5, DraftTypes DEF Keeps
    <2>8. \A i \in 1..Len(t.listing) : i > Len(s.listing) => EntryHolds(t, i)
      BY <2>7
    <2>9. Follows(t)
      BY <2>3, <2>6, <2>7, <2>8, FollowsOn
    <2> QED
      BY <2>9 DEF t
  <1> QED
    BY <1>3, <1>4, <1>5

(* The code that build() makes of a draft without bad jumps. *)
Built == [code |-> Patched(Len(unresolved_jump_offsets)), listing |-> listing,
          labels |-> label_positions, jumps |-> << >>, marks |-> marks.labels]

LEMMA BuiltKeeps ==
  ASSUME IInv
  PROVE  /\ Built.code = Patched(Len(unresolved_jump_offsets)) /\ Built.listing = listing
         /\ Built.labels = label_positions /\ Built.marks = marks.labels
         /\ Len(Built.jumps) = 0 /\ Len(unresolved_jump_offsets) \in Nat
         /\ Keeps(Draft, Built) /\ KeepsJumps(Draft, Built)
  <1> DEFINE n == Len(unresolved_jump_offsets)
             t == Built
  <1>1. n \in Nat
    BY SequenceFacts DEF IInv, TypeOK
  <1>2. Patched(n) \in Seq(Nat)
    BY <1>1, PatchedType
  <1>3. /\ t.code = Patched(n) /\ t.listing = listing /\ t.labels = label_positions
        /\ t.marks = marks.labels /\ t.jumps = << >>
    BY DEF Built
  <1>4. IsDraft(t)
    <2>1. << >> \in Seq(Jump)
      OBVIOUS
    <2> QED
      BY <1>2, <1>3, <2>1 DEF IsDraft, IInv, TypeOK, Entry
  <1> HIDE DEF n, t
  <1>5. n <= Len(unresolved_jump_offsets)
    BY <1>1 DEF n
  <1>6. Keeps(Draft, t)
    BY <1>1, <1>3, <1>4, <1>5, PatchingKeeps
  <1>7. Len(t.jumps) = 0
    BY <1>3
  <1>8. KeepsJumps(Draft, t)
    BY <1>7 DEF KeepsJumps
  <1> QED
    BY <1>1, <1>3, <1>6, <1>7, <1>8 DEF n, t

(* What the patch of a jump writes. *)
LEMMA PatchWrites ==
  ASSUME IInv, NEW j \in 1..Len(unresolved_jump_offsets), NEW at, NEW offset \in Int,
         at = unresolved_jump_offsets[j].position,
         offset = label_positions[unresolved_jump_offsets[j].label] - (at + 2)
  PROVE  /\ at \in Nat /\ DOMAIN PatchedBytes(j) = {at + 1, at + 2}
         /\ PatchedBytes(j)[at + 1] = ByteOf(offset, 0)
         /\ PatchedBytes(j)[at + 2] = ByteOf(offset, 1)
  <1>1. at \in Nat
    BY PatchFacts DEF IInv
  <1>2. PatchedBytes(j) = [p \in {at + 1, at + 2} |-> ByteOf(offset, p - at - 1)]
    BY DEF PatchedBytes
  <1>3. (at + 1) - at - 1 = 0 /\ (at + 2) - at - 1 = 1
    BY <1>1
  <1>4. /\ DOMAIN PatchedBytes(j) = {at + 1, at + 2}
        /\ PatchedBytes(j)[at + 1] = ByteOf(offset, (at + 1) - at - 1)
        /\ PatchedBytes(j)[at + 2] = ByteOf(offset, (at + 2) - at - 1)
    BY <1>2, Zenon
  <1> QED
    BY <1>1, <1>3, <1>4

LEMMA OutsidePatch ==
  ASSUME NEW x \in Nat, NEW p \in Nat, NEW from \in Nat, NEW to \in Nat,
         x + 2 <= from \/ to <= x, from < p, p <= to
  PROVE  p # x + 1 /\ p # x + 2
  OBVIOUS

(* The patch of a pending jump completes it. *)
LEMMA PendingBuilt ==
  ASSUME IInv, BadJumps = {}, NEW i \in 1..Len(listing), Pending(Draft, i)
  PROVE  Final(Built, i)
  <1> DEFINE s == Draft
             t == Built
             n == Len(unresolved_jump_offsets)
             entry == listing[i]
             end == Address(s, i + 1)
             L == Len(entry.operands)
  <1>1. /\ s.code = code /\ s.listing = listing /\ s.labels = label_positions
        /\ s.jumps = unresolved_jump_offsets
    BY DEF Draft
  <1>2. PICK j \in 1..n : PendingIn(s, entry, end, unresolved_jump_offsets[j], j)
    BY <1>1 DEF Pending
  <1> DEFINE jump == unresolved_jump_offsets[j]
             at == jump.position
             target == label_positions[jump.label]
             offset == target - (at + 2)
             full == Append(entry.operands, offset)
             piece == Encoded(entry.op, full, 2)
  <1>3. /\ t.code = Patched(n) /\ t.listing = listing /\ t.labels = label_positions
        /\ Len(t.jumps) = 0 /\ n \in Nat /\ Keeps(s, t)
    BY BuiltKeeps
  <1>4. /\ entry.at \in Nat /\ entry.op \in Nat /\ entry.operands \in Seq(Int) /\ L \in Nat
        /\ Len(code) \in Nat /\ Len(listing) \in Nat /\ Len(t.code) = Len(code)
    <2>1. IsDraft(s)
      BY <1>3 DEF Keeps
    <2>2. entry.operands \in Seq(Int)
      BY <1>1, <2>1, DraftTypes
    <2>3. Len(Patched(n)) = Len(code)
      BY <1>3, PatchedType
    <2> QED
      BY <1>1, <1>3, <2>1, <2>2, <2>3, DraftTypes, SequenceFacts
  <1>5. target # Unplaced /\ target \in Int /\ InRange(offset, 2) /\ at \in Nat
    <2>1. j \in DOMAIN unresolved_jump_offsets
      BY PatchFacts DEF IInv
    <2>2. ~Bad(j)
      BY <2>1 DEF BadJumps
    <2>3. jump.label \in DOMAIN label_positions /\ at \in Nat
      BY <2>1, PatchFacts DEF IInv, TablesFit
    <2>4. label_positions \in Seq(Nat \cup {Unplaced})
      BY DEF IInv, TypeOK
    <2>5. target \in Int
      BY <2>3, <2>4, SequenceFacts DEF Unplaced
    <2> QED
      BY <2>2, <2>3, <2>5 DEF Bad
  <1>6. offset \in Int
    BY <1>5
  <1> HIDE DEF s, t, entry, end
  <1>7. /\ entry.label # 0 /\ entry.label = jump.label
        /\ Fits(entry.op, Append(entry.operands, 0), 2)
        /\ Shape[entry.op][L + 1] = Immediate
        /\ at = entry.at + Span(entry.operands, 2) /\ end = at + 2 /\ end <= Len(code)
        /\ Holds(code, entry.at, Encoded(entry.op, Append(entry.operands, 0), 2),
                 Span(entry.operands, 2))
    BY <1>1, <1>2 DEF PendingIn
  <1>8. \A k \in 1..n : k # j => Apart(unresolved_jump_offsets[k], entry.at, end)
    BY <1>1, <1>2 DEF PendingIn
  <1>9. Span(entry.operands, 2) = 2 + 2 * L /\ at = entry.at + (2 + 2 * L)
    <2>1. Span(entry.operands, 2) = 2 + 2 * L
      <3> DEFINE operands == entry.operands
      <3>1. operands \in Seq(Int)
        BY <1>4
      <3> HIDE DEF operands
      <3>2. Span(operands, 2) = 2 + 2 * Len(operands)
        BY <3>1, SpanType
      <3> QED
        BY <3>2 DEF operands
    <2>2. at = entry.at + Span(entry.operands, 2)
      BY <1>7
    <2> QED
      BY <2>1, <2>2, Zenon
  <1>10. ASSUME NEW k \in 1..n
         PROVE  unresolved_jump_offsets[k].position \in Nat
    BY PatchFacts DEF IInv
  <1>11. PatchedBytes(j)[at + 1] = ByteOf(offset, 0) /\ PatchedBytes(j)[at + 2] = ByteOf(offset, 1)
         /\ DOMAIN PatchedBytes(j) = {at + 1, at + 2}
    BY <1>6, PatchWrites
  <1>12. ASSUME NEW p \in {at + 1, at + 2}
         PROVE  entry.at < p /\ p <= end /\ p \in Nat /\ end \in Nat
    <2>1. end = at + 2 /\ at \in Nat /\ at = entry.at + (2 + 2 * L) /\ L \in Nat
          /\ entry.at \in Nat
      BY <1>4, <1>5, <1>7, <1>9, SMTT(30)
    <2> HIDE DEF at, L
    <2> QED
      BY <2>1, SMTT(30)
  <1>13. ASSUME NEW p \in {at + 1, at + 2}
         PROVE  t.code[p] = PatchedBytes(j)[p]
    <2>1. p \in 1..Len(code)
      BY <1>4, <1>7, <1>12
    <2>2. ASSUME NEW k \in 1..n, k # j
          PROVE  p \notin DOMAIN PatchedBytes(k)
      <3> DEFINE x == unresolved_jump_offsets[k].position
      <3>1. DOMAIN PatchedBytes(k) = {x + 1, x + 2}
        BY DEF PatchedBytes
      <3>2. x \in Nat /\ (x + 2 <= entry.at \/ end <= x)
        BY <1>8, <1>10, <2>2 DEF Apart
      <3> HIDE DEF x
      <3>3. entry.at < p /\ p <= end
        BY <1>12
      <3>4. entry.at \in Nat /\ p \in Nat /\ end \in Nat
        BY <1>4, <1>12
      <3>5. p # x + 1 /\ p # x + 2
        BY <3>2, <3>3, <3>4, OutsidePatch
      <3> QED
        BY <3>1, <3>5
    <2>3. p \in DOMAIN PatchedBytes(j)
      BY <1>11
    <2>4. Patched(n)[p] = PatchedBytes(j)[p]
      BY <1>3, <2>1, <2>2, <2>3, PatchedAt
    <2> QED
      BY <1>3, <2>4
  <1> HIDE DEF n, jump, offset, at, target
  <1>14. full \in Seq(Int) /\ Len(full) = L + 1 /\ full[L + 1] = offset
         /\ \A k \in 1..L : full[k] = entry.operands[k]
    BY <1>4, <1>6, AppendFacts
  <1>15. Fits(entry.op, full, 2)
    <2> DEFINE blank == Append(entry.operands, 0)
    <2>1. blank \in Seq(Int) /\ Len(blank) = L + 1 /\ \A k \in 1..L : blank[k] = entry.operands[k]
      BY <1>4, AppendFacts
    <2>2. Fits(entry.op, blank, 2)
      BY <1>7
    <2> HIDE DEF blank, full, L
    <2>3. ASSUME NEW k \in 1..Len(full)
          PROVE  FitsIn(Shape[entry.op][k], full[k], 2)
      <3>1. CASE k = L + 1
        <4>1. Shape[entry.op][k] = Immediate /\ full[k] = offset
          BY <1>7, <1>14, <3>1
        <4> QED
          BY <1>5, <4>1 DEF FitsIn
      <3>2. CASE k \in 1..L
        BY <1>14, <2>1, <2>2, <3>2 DEF Fits
      <3> QED
        BY <1>4, <1>14, <3>1, <3>2
    <2> QED
      BY <1>14, <2>1, <2>2, <2>3 DEF Fits
  <1>16. Span(full, 2) = 4 + 2 * L
    <2> HIDE DEF full, L
    <2>1. Span(full, 2) = 2 + 2 * Len(full)
      BY <1>14, SpanType
    <2> QED
      BY <1>4, <1>14, <2>1
  <1>17. Holds(t.code, entry.at, piece, Span(full, 2))
    <2>1. Holds(t.code, entry.at, Encoded(entry.op, Append(entry.operands, 0), 2),
                Span(entry.operands, 2))
      <3>1. ASSUME NEW k \in 1..Len(s.jumps)
            PROVE  \/ s.jumps[k].position + 2 <= entry.at
                   \/ entry.at + Span(entry.operands, 2) <= s.jumps[k].position
        <4>1. s.jumps[k] = unresolved_jump_offsets[k] /\ k \in 1..n
          BY <1>1, <1>3 DEF n
        <4> DEFINE x == s.jumps[k].position
        <4>2. x \in Nat
          BY <1>10, <4>1
        <4>3. CASE k = j
          BY <1>4, <1>5, <1>7, <4>1, <4>3 DEF at, jump
        <4>4. CASE k # j
          <5>1. x + 2 <= entry.at \/ end <= x
            BY <1>8, <4>1, <4>4 DEF Apart
          <5> HIDE DEF x
          <5>2. x + 2 <= entry.at \/ entry.at + Span(entry.operands, 2) <= x
            BY <1>4, <1>5, <1>7, <1>9, <4>2, <5>1
          <5> QED
            BY <5>2 DEF x
        <4> QED
          BY <4>3, <4>4
      <3>2. Span(entry.operands, 2) \in Nat
        BY <1>4, SpanType
      <3>3. entry.at + Span(entry.operands, 2) <= Len(s.code)
        BY <1>1, <1>4, <1>5, <1>7
      <3> QED
        BY <1>1, <1>3, <1>4, <1>7, <3>1, <3>2, <3>3, BytesKept
    <2>2. /\ piece[1 + 2 * (L + 1)] = ByteOf(offset, 0)
          /\ piece[2 + 2 * (L + 1)] = ByteOf(offset, 1)
      <3>1. L + 1 \in 1..Len(full)
        BY <1>4, <1>14
      <3>2. /\ Encoded(entry.op, full, 2)[1 + 2 * (L + 1)] = ByteOf(full[L + 1], 0)
            /\ Encoded(entry.op, full, 2)[2 + 2 * (L + 1)] = ByteOf(full[L + 1], 1)
        BY <1>4, <1>14, <3>1, EncodedWide
      <3> QED
        BY <1>14, <3>2
    <2>3. ASSUME NEW p \in 1..4 + 2 * L
          PROVE  t.code[entry.at + p] = piece[p]
      <3>1. CASE p \in 1..2 + 2 * L
        <4>1. t.code[entry.at + p] = Encoded(entry.op, Append(entry.operands, 0), 2)[p]
          BY <1>9, <2>1, <3>1 DEF Holds
        <4>2. Encoded(entry.op, Append(entry.operands, 0), 2)[p]
                = Encoded(entry.op, Append(entry.operands, offset), 2)[p]
          <5>1. 0 \in Int /\ p \in 1..2 + 2 * Len(entry.operands)
            BY <3>1
          <5> QED
            BY <1>4, <1>6, <5>1, SamePrefix, Zenon
        <4> QED
          BY <4>1, <4>2
      <3> HIDE DEF piece, L
      <3>2. CASE p = 3 + 2 * L
        <4>1. entry.at + p = at + 1 /\ p = 1 + 2 * (L + 1)
          BY <1>4, <1>9, <3>2
        <4> QED
          BY <1>11, <1>13, <2>2, <4>1
      <3>3. CASE p = 4 + 2 * L
        <4>1. entry.at + p = at + 2 /\ p = 2 + 2 * (L + 1)
          BY <1>4, <1>9, <3>3
        <4> QED
          BY <1>11, <1>13, <2>2, <4>1
      <3>4. p \in 1..2 + 2 * L \/ p = 3 + 2 * L \/ p = 4 + 2 * L
        BY <1>4
      <3> QED
        BY <3>1, <3>2, <3>3, <3>4
    <2> QED
      BY <1>16, <2>3 DEF Holds
  <1>18. end = entry.at + Span(full, 2) /\ end <= Len(t.code)
    BY <1>4, <1>7, <1>9, <1>16
  <1>19. t.labels[entry.label] # Unplaced /\ end + offset = t.labels[entry.label]
    BY <1>3, <1>5, <1>7 DEF offset, target
  <1>20. Operands(entry, offset) = full
    BY <1>7 DEF Operands
  <1> HIDE DEF full
  <1>21. FinalIn(t, entry, end, full, 2, offset)
    BY <1>3, <1>15, <1>17, <1>18, <1>19 DEF FinalIn
  <1>22. t.listing[i] = entry /\ Address(t, i + 1) = end
    <2>1. i + 1 \in 1..Len(s.listing) + 1
      BY <1>1, <1>4
    <2> QED
      BY <1>3, <2>1 DEF Keeps, end, entry
  <1>23. Final(t, i)
    BY <1>6, <1>20, <1>21, <1>22 DEF Final
  <1> QED
    BY <1>23 DEF t

(* What the decoder must make of entry i, for the listing to be the code. *)
ReadsAs(s, i) ==
  LET entry == s.listing[i]
      fetched == Fetched(s.code, entry.at)
  IN  /\ fetched.op = entry.op
      /\ fetched.next = Address(s, i + 1)
      /\ IF entry.label = 0
         THEN fetched.operands = entry.operands
         ELSE LET offset == fetched.operands[Len(entry.operands) + 1]
              IN  /\ fetched.operands = Append(entry.operands, offset)
                  /\ fetched.next + offset = Address(s, s.marks[entry.label])

LEMMA FinalReads ==
  ASSUME NEW s, IsDraft(s), NEW i \in 1..Len(s.listing), Final(s, i),
         s.listing[i].label \in 0..Len(s.labels),
         \A l \in 1..Len(s.labels) :
           s.labels[l] # Unplaced => s.labels[l] = Address(s, s.marks[l])
  PROVE  ReadsAs(s, i)
  <1> DEFINE entry == s.listing[i]
             end == Address(s, i + 1)
             fetched == Fetched(s.code, entry.at)
  <1>1. PICK n \in 1..2, offset \in Int :
          FinalIn(s, entry, end, Operands(entry, offset), n, offset)
    BY DEF Final
  <1> DEFINE operands == Operands(entry, offset)
  <1>2. entry.at \in Nat /\ entry.operands \in Seq(Int) /\ Len(s.labels) \in Nat
    BY DraftTypes
  <1> HIDE DEF end, operands
  <1>3. /\ Fits(entry.op, operands, n) /\ end = entry.at + Span(operands, n)
        /\ Holds(s.code, entry.at, Encoded(entry.op, operands, n), Span(operands, n))
        /\ entry.label # 0 => /\ s.labels[entry.label] # Unplaced
                              /\ end + offset = s.labels[entry.label]
    BY <1>1 DEF FinalIn, operands
  <1>4. fetched.op = entry.op /\ fetched.operands = operands /\ fetched.next = end
    BY <1>2, <1>3, Decoded
  <1> HIDE DEF fetched
  <1>5. CASE entry.label = 0
    <2>1. operands = entry.operands
      BY <1>5 DEF operands, Operands
    <2> QED
      BY <1>4, <1>5, <2>1 DEF ReadsAs, fetched, end
  <1>6. CASE entry.label # 0
    <2>1. operands = Append(entry.operands, offset)
      BY <1>6 DEF operands, Operands
    <2>2. operands[Len(entry.operands) + 1] = offset
      BY <1>2, <2>1, AppendFacts
    <2>3. end + offset = Address(s, s.marks[entry.label])
      BY <1>2, <1>3, <1>6
    <2> QED
      BY <1>4, <1>6, <2>1, <2>2, <2>3 DEF ReadsAs, fetched, end
  <1> QED
    BY <1>5, <1>6

(* What a build of the first module hands over reads as its listing. *)
LEMMA FirstBuildReads ==
  ASSUME IInv, MaxBuilds = 1, Follows(Draft), Build
  PROVE  BuiltCodeIsTheListing'
  <1> DEFINE n == Len(unresolved_jump_offsets)
             t == Built
  <1>1. product' = [builds |-> product.builds + 1, code |-> Patched(n),
                    functions |-> functions, constant_table |-> constant_table,
                    constant_data |-> constant_data, listing |-> listing,
                    marks |-> marks, handles |-> handles]
    <2>1. n \in Nat
      BY SequenceFacts DEF IInv, TypeOK
    <2>2. ~PatchesOutside(n)
      BY <2>1, OpenFirst DEF Build
    <2> QED
      BY <2>2 DEF Build
  <1>2. BadJumps = {}
    BY DEF Build
  <1>3. /\ t.code = Patched(n) /\ t.listing = listing /\ t.labels = label_positions
        /\ t.marks = marks.labels /\ Keeps(Draft, t) /\ KeepsJumps(Draft, t)
    BY BuiltKeeps
  <1>4. Draft.listing = listing /\ Draft.labels = label_positions /\ Draft.marks = marks.labels
    BY DEF Draft
  <1>5. DOMAIN listing = 1..Len(listing) /\ Len(listing) \in Nat
    BY SequenceFacts DEF IInv, TypeOK
  <1> HIDE DEF t, n
  <1>6. product'.code = t.code /\ product'.listing = t.listing /\ product'.marks = marks
    BY <1>1, <1>3
  <1>7. \A l \in 1..Len(t.labels) : t.labels[l] # Unplaced => t.labels[l] = Address(t, t.marks[l])
    <2>1. ASSUME NEW l \in 1..Len(Draft.labels) PROVE LabelHolds(t, l)
      BY <1>3, <1>4, <2>1, LabelKept
    <2> QED
      BY <1>3, <1>4, <2>1 DEF LabelHolds
  <1>8. ASSUME NEW i \in 1..Len(listing)
        PROVE  ReadsAs(t, i)
    <2>1. EntryHolds(Draft, i)
      BY <1>4 DEF Follows
    <2>2. listing[i].label \in 0..Len(label_positions) /\ (Final(Draft, i) \/ Pending(Draft, i))
      BY <1>4, <2>1 DEF EntryHolds
    <2>3. Final(t, i)
      <3>1. CASE Final(Draft, i)
        BY <1>3, <1>4, <2>2, <3>1, FinalKept
      <3>2. CASE Pending(Draft, i)
        BY <1>2, <3>2, PendingBuilt DEF t
      <3> QED
        BY <2>2, <3>1, <3>2
    <2>4. IsDraft(t)
      BY <1>3 DEF Keeps
    <2> QED
      BY <1>3, <1>7, <2>2, <2>3, <2>4, FinalReads
  <1>9. \A i : AddressOf(i)' = Address(t, i)
    BY <1>6 DEF AddressOf, Address
  <1> QED
    BY <1>3, <1>5, <1>6, <1>8, <1>9 DEF BuiltCodeIsTheListing, ReadsAs

----------------------------------------------------------------------------
(* The strengthening is kept by every step, and every step but build() keeps *)
(* what was built.                                                           *)

LEMMA ListedStep ==
  ASSUME IInv, IInv', MaxBuilds = 1, Listed, [Next]_vars
  PROVE  Listed'
  <1>1. SUFFICES ASSUME product'.builds = 0 PROVE Follows(Draft')
    BY DEF Listed
  <1>2. CASE Build
    <2>1. ~PatchesOutside(Len(unresolved_jump_offsets))
      <3>1. Len(unresolved_jump_offsets) \in Nat
        BY SequenceFacts DEF IInv, TypeOK
      <3> QED
        BY <1>2, <3>1, OpenFirst DEF Build
    <2>2. product'.builds = product.builds + 1 /\ product.builds \in Nat
      BY <1>2, <2>1 DEF Build, IInv, TypeOK
    <2> QED
      BY <1>1, <2>2
  <1>3. ASSUME Next, ~Build PROVE UNCHANGED product
    BY <1>3 DEF Next, Emit, EmitJump, EmitResolved, EmitUnresolved, Write, Fail, MakeLabel,
       PlaceLabel, DeclareFunction, PlaceFunction, Constant, BuildRefused, BuildFails
  <1>4. CASE Next /\ ~Build
    <2>1. product.builds = 0 /\ Follows(Draft)
      BY <1>1, <1>3, <1>4 DEF Listed
    <2>2. CASE \E i \in Instructions : Emit(i)
      BY <2>1, <2>2, EmitLists
    <2>3. CASE \E c \in JumpConditions, l \in DOMAIN label_positions : EmitJump(c, l)
      BY <2>1, <2>3, EmitJumpLists
    <2>4. CASE MakeLabel \/ \E l \in DOMAIN label_positions : PlaceLabel(l)
      BY <2>1, <2>4, LabelsList
    <2>5. CASE \/ \E name \in Names : DeclareFunction(name)
               \/ \E f \in DOMAIN functions : PlaceFunction(f)
               \/ \E bytes \in ConstantValues : Constant(bytes)
               \/ BuildRefused
      <3>1. UNCHANGED <<code, listing, label_positions, unresolved_jump_offsets>>
            /\ marks'.labels = marks.labels
        BY <2>5 DEF DeclareFunction, PlaceFunction, Constant, BuildRefused, Fail, module,
           builder, history, IInv, TypeOK
      <3>2. Draft' = Draft
        BY <3>1 DEF Draft
      <3> QED
        BY <2>1, <3>2
    <2>6. CASE BuildFails
      BY <2>1, <2>6, BuildFailsLists
    <2> QED
      BY <1>4, <2>2, <2>3, <2>4, <2>5, <2>6 DEF Next
  <1>5. CASE UNCHANGED vars
    <2>1. Draft' = Draft /\ product' = product
      BY <1>5 DEF vars, module, builder, history, Draft
    <2> QED
      BY <1>1, <2>1 DEF Listed
  <1> QED
    BY <1>2, <1>4, <1>5

LEMMA ReadsStep ==
  ASSUME IInv, MaxBuilds = 1, Listed, BuiltCodeIsTheListing, [Next]_vars
  PROVE  BuiltCodeIsTheListing'
  <1>1. CASE Build
    <2>1. Follows(Draft)
      <3>1. product = NoProduct
        BY <1>1, OpenFirst DEF Build
      <3> QED
        BY <3>1 DEF Listed, NoProduct
    <2> QED
      BY <1>1, <2>1, FirstBuildReads
  <1>2. CASE UNCHANGED product
    BY <1>2 DEF BuiltCodeIsTheListing, AddressOf
  <1>3. ASSUME Next, ~Build PROVE UNCHANGED product
    BY <1>3 DEF Next, Emit, EmitJump, EmitResolved, EmitUnresolved, Write, Fail, MakeLabel,
       PlaceLabel, DeclareFunction, PlaceFunction, Constant, BuildRefused, BuildFails
  <1> QED
    BY <1>1, <1>2, <1>3 DEF vars

LEMMA InitialListed == Init => Listed /\ BuiltCodeIsTheListing
  <1> SUFFICES ASSUME Init PROVE Listed /\ BuiltCodeIsTheListing
    OBVIOUS
  <1>1. Len(Draft.marks) = 0 /\ Len(Draft.labels) = 0 /\ Len(Draft.listing) = 0
    BY DEF Init, Draft
  <1>2. Follows(Draft)
    BY <1>1 DEF Follows
  <1> QED
    BY <1>2 DEF Init, Listed, BuiltCodeIsTheListing

(* What a builder's first build() gives, decoded as the machine decodes it,   *)
(* is what was emitted: every instruction in its place with its operands, and *)
(* every jump to where its label was placed, whichever form it got, however   *)
(* labels and jumps were ordered and however often build() failed before      *)
(* (bytecode_writer.cpp, module_builder.cpp:87-150).                          *)
THEOREM FirstModuleReadsAsListed == MaxBuilds = 1 => (Spec => []BuiltCodeIsTheListing)
  <1> SUFFICES ASSUME MaxBuilds = 1 PROVE Spec => []BuiltCodeIsTheListing
    OBVIOUS
  <1>1. IInv /\ Listed /\ BuiltCodeIsTheListing /\ [Next]_vars
          => Listed' /\ BuiltCodeIsTheListing'
    BY NextIInv, ListedStep, ReadsStep
  <1> QED
    BY BuilderInvariance, InitialListed, <1>1, PTL DEF Spec

============================================================================
