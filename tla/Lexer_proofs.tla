---------------------------- MODULE Lexer_proofs ----------------------------
(* Theorems about Lexer, for all texts and however far the client peeks: the *)
(* two lookahead buffers are queues, through wrapping and growing; the       *)
(* decoder takes UTF-8 and nothing else; nothing that lex() gives is lost or *)
(* reordered on its way to the parser; and every call of lex() ends.         *)
EXTENDS Lexer, SequenceTheorems, FiniteSetTheorems, TLAPS

(* Rings of values of V. *)
Cells(V) == {<< >>} \cup {<<v>> : v \in V}

RingOf(ring, V) ==
  /\ ring = [capacity |-> ring.capacity, slots |-> ring.slots, head |-> ring.head, size |-> ring.size]
  /\ ring.slots \in [0..ring.capacity - 1 -> Cells(V)]
  /\ IsRing(ring)
  /\ LiveSlots(ring)

----------------------------------------------------------------------------
(* Slots: the i-th from h in a circle of c, with the wrap-around said out.    *)

Turn(c, h, i) == IF h + i < c THEN h + i ELSE h + i - c
Around(ring, i) == Turn(ring.capacity, ring.head, i)

LEMMA Turns ==
  ASSUME NEW c \in Nat, NEW h \in Nat, h < c, NEW i \in 0..c
  PROVE  /\ (h + i) % c = Turn(c, h, i)
         /\ Turn(c, h, i) \in 0..c - 1
  <1> DEFINE a == h + i
  <1>1. a \in 0..2 * c - 1 /\ c > 0
    OBVIOUS
  <1> HIDE DEF a
  <1>2. a % c = IF a < c THEN a ELSE a - c
    <2>1. CASE a < c
      BY <1>1, <2>1
    <2>2. CASE ~(a < c)
      BY <1>1, <2>2
    <2> QED
      BY <2>1, <2>2
  <1>3. (h + i) % c = Turn(c, h, i)
    BY <1>2 DEF a, Turn
  <1> QED
    BY <1>3 DEF Turn

LEMMA TurnsDiffer ==
  ASSUME NEW c \in Nat, NEW h \in Nat, h < c,
         NEW i \in 0..c - 1, NEW j \in 0..c - 1, i # j
  PROVE  Turn(c, h, i) # Turn(c, h, j)
  BY DEF Turn

LEMMA TurnedOn ==
  ASSUME NEW c \in Nat, NEW h \in Nat, h < c, NEW i \in Nat, i + 1 < c
  PROVE  Turn(c, Turn(c, h, 1), i) = Turn(c, h, i + 1)
  BY DEF Turn

LEMMA OccupiedIsNotEmpty ==
  ASSUME NEW x
  PROVE  <<x>> # << >>
  OBVIOUS

LEMMA RingFields ==
  ASSUME NEW V, NEW ring, RingOf(ring, V)
  PROVE  /\ ring.capacity \in Nat /\ ring.size \in Nat /\ ring.size <= ring.capacity
         /\ ring.head \in Nat
         /\ ring.capacity > 0 => ring.head < ring.capacity
         /\ ring.capacity = 0 => ring.head = 0
         /\ DOMAIN ring.slots = 0..ring.capacity - 1
  BY DEF RingOf, IsRing

LEMMA SlotIsAround ==
  ASSUME NEW V, NEW ring, RingOf(ring, V), ring.capacity > 0, NEW i \in 0..ring.capacity
  PROVE  /\ Slot(ring, i) = Around(ring, i)
         /\ Around(ring, i) \in 0..ring.capacity - 1
  <1>1. /\ ring.capacity \in Nat /\ ring.head \in Nat /\ ring.head < ring.capacity
    BY RingFields
  <1> QED
    BY <1>1, Turns DEF Slot, Around

LEMMA LiveAround ==
  ASSUME NEW V, NEW ring, RingOf(ring, V), ring.capacity > 0, NEW k \in 0..ring.capacity - 1
  PROVE  ring.slots[k] # << >> <=> \E i \in 0..ring.size - 1 : k = Around(ring, i)
  <1>1. ring.slots[k] # << >> <=> \E i \in 0..ring.size - 1 : k = Slot(ring, i)
    BY RingFields DEF RingOf, LiveSlots
  <1>2. \A i \in 0..ring.size - 1 : Slot(ring, i) = Around(ring, i)
    BY SlotIsAround, RingFields
  <1> QED
    BY <1>1, <1>2

(* What is in the ring, as a sequence.                                       *)
LEMMA ContentsAreValues ==
  ASSUME NEW V, NEW ring, RingOf(ring, V)
  PROVE  /\ Contents(ring) \in Seq(V)
         /\ Len(Contents(ring)) = ring.size
         /\ \A i \in 1..ring.size :
              /\ ring.slots[Around(ring, i - 1)] = <<Contents(ring)[i]>>
              /\ Contents(ring)[i] = At(ring, i - 1)
  <1>1. ring.size \in Nat
    BY RingFields
  <1>2. ASSUME NEW i \in 1..ring.size
        PROVE  /\ At(ring, i - 1) \in V
               /\ ring.slots[Around(ring, i - 1)] = <<At(ring, i - 1)>>
    <2>1. ring.capacity > 0 /\ i - 1 \in 0..ring.size - 1 /\ i - 1 \in 0..ring.capacity
      BY RingFields
    <2>2. Slot(ring, i - 1) = Around(ring, i - 1) /\ Around(ring, i - 1) \in 0..ring.capacity - 1
      BY <2>1, SlotIsAround
    <2>3. ring.slots[Around(ring, i - 1)] # << >>
      BY <2>1, <2>2, LiveAround
    <2>4. ring.slots[Around(ring, i - 1)] \in Cells(V)
      BY <2>2 DEF RingOf
    <2>5. PICK v \in V : ring.slots[Around(ring, i - 1)] = <<v>>
      BY <2>3, <2>4 DEF Cells
    <2>6. At(ring, i - 1) = v
      BY <2>2, <2>5 DEF At
    <2> QED
      BY <2>5, <2>6
  <1>3. Contents(ring) \in [1..ring.size -> V]
    BY <1>2 DEF Contents
  <1>4. Contents(ring) \in Seq(V)
    BY <1>1, <1>3
  <1>5. Len(Contents(ring)) = ring.size
    BY <1>1, <1>3, <1>4, LenProperties
  <1> QED
    BY <1>2, <1>4, <1>5 DEF Contents

(* Two sequences that stand in the rings' slots alike are the same.          *)
LEMMA SameContents ==
  ASSUME NEW V, NEW ring, RingOf(ring, V), NEW s \in Seq(V), Len(s) = ring.size,
         \A i \in 1..ring.size : ring.slots[Around(ring, i - 1)] = <<s[i]>>
  PROVE  Contents(ring) = s
  <1>1. Contents(ring) \in Seq(V) /\ Len(Contents(ring)) = ring.size
    BY ContentsAreValues
  <1>2. ASSUME NEW i \in 1..ring.size
        PROVE  Contents(ring)[i] = s[i]
    <2>1. <<Contents(ring)[i]>> = <<s[i]>>
      BY ContentsAreValues
    <2> QED
      BY <2>1
  <1> QED
    BY <1>1, <1>2, SeqEqual

(* A ring from its parts.                                                    *)
LEMMA RingFromParts ==
  ASSUME NEW V, NEW c \in Nat, NEW h \in Nat, NEW n \in Nat, n <= c,
         c > 0 => h < c, c = 0 => h = 0,
         NEW slots \in [0..c - 1 -> Cells(V)],
         NEW r, r = [capacity |-> c, slots |-> slots, head |-> h, size |-> n],
         \A k \in 0..c - 1 : slots[k] # << >> <=> \E i \in 0..n - 1 : k = Around(r, i)
  PROVE  RingOf(r, V)
  <1>1. r.capacity = c /\ r.slots = slots /\ r.head = h /\ r.size = n
    OBVIOUS
  <1>2. IsRing(r)
    BY <1>1 DEF IsRing
  <1>3. ASSUME NEW k \in 0..c - 1, NEW i \in 0..n - 1
        PROVE  Slot(r, i) = Around(r, i)
    <2>1. c > 0 /\ i \in 0..c
      BY <1>3
    <2> QED
      BY <1>1, <2>1, Turns DEF Slot, Around
  <1>4. LiveSlots(r)
    BY <1>1, <1>3 DEF LiveSlots
  <1> QED
    BY <1>1, <1>2, <1>4 DEF RingOf

----------------------------------------------------------------------------
(* Taking the first value out.                                               *)

LEMMA PoppedIsTheTail ==
  ASSUME NEW V, NEW ring, RingOf(ring, V), ring.size > 0
  PROVE  /\ RingOf(Popped(ring), V)
         /\ At(ring, 0) = Head(Contents(ring))
         /\ Contents(Popped(ring)) = Tail(Contents(ring))
  <1>1. PICK c, h, n, old :
          /\ ring = [capacity |-> c, slots |-> old, head |-> h, size |-> n]
          /\ c = ring.capacity /\ h = ring.head /\ n = ring.size /\ old = ring.slots
          /\ c \in Nat /\ c > 0 /\ h \in Nat /\ h < c /\ n \in Nat /\ n <= c /\ n > 0
          /\ old \in [0..c - 1 -> Cells(V)]
    BY RingFields DEF RingOf
  <1>4. c \in Nat /\ c > 0 /\ h \in Nat /\ h < c /\ n \in Nat /\ n <= c /\ n > 0
    BY <1>1
  <1> DEFINE next == Turn(c, h, 1)
             slots == [old EXCEPT ![h] = << >>]
             r == [capacity |-> c, slots |-> slots, head |-> next, size |-> n - 1]
  <1>2. next \in 0..c - 1 /\ next \in Nat /\ next < c /\ Slot(ring, 1) = next
    <2>1. 1 \in 0..c
      BY <1>4
    <2>2. (h + 1) % c = next /\ next \in 0..c - 1
      BY <1>4, <2>1, Turns
    <2>3. Slot(ring, 1) = (h + 1) % c
      BY <1>1 DEF Slot
    <2> QED
      BY <1>4, <2>2, <2>3
  <1>3. Popped(ring) = r
    <2>1. Popped(ring) = [[[ring EXCEPT !.slots = [ring.slots EXCEPT ![ring.head] = << >>]]
                             EXCEPT !.head = Slot(ring, 1)] EXCEPT !.size = ring.size - 1]
      BY DEF Popped
    <2> QED
      BY <1>1, <1>2, <2>1
  <1>5. r.capacity = c /\ r.slots = slots /\ r.head = next /\ r.size = n - 1
    OBVIOUS
  <1>6. slots \in [0..c - 1 -> Cells(V)]
    BY <1>1 DEF Cells
  <1>8. Around(ring, 0) = h
    BY <1>1 DEF Around, Turn
  <1>9. ASSUME NEW i \in 0..n - 2
        PROVE  /\ Around(r, i) = Around(ring, i + 1) /\ Around(r, i) # h
               /\ slots[Around(r, i)] = ring.slots[Around(ring, i + 1)]
    <2>1. i + 1 \in 0..c - 1 /\ i + 1 \in 0..c /\ i + 1 # 0 /\ 0 \in 0..c - 1 /\ i \in Nat /\ i + 1 < c
      BY <1>1
    <2>2. Turn(c, next, i) = Turn(c, h, i + 1)
      BY <1>1, <2>1, TurnedOn
    <2>3. Around(r, i) = Around(ring, i + 1)
      BY <1>1, <1>5, <2>2 DEF Around
    <2>4. Turn(c, h, i + 1) # Turn(c, h, 0) /\ Turn(c, h, i + 1) \in 0..c - 1
      BY <1>4, <2>1, Turns, TurnsDiffer
    <2>5. Around(ring, i + 1) = Turn(c, h, i + 1) /\ Around(ring, 0) = Turn(c, h, 0)
      BY <1>1 DEF Around
    <2> QED
      BY <1>1, <1>8, <2>3, <2>4, <2>5
  <1>10. ASSUME NEW k \in 0..c - 1
         PROVE  slots[k] # << >> <=> \E i \in 0..(n - 1) - 1 : k = Around(r, i)
    <2>1. CASE k = h
      <3>1. slots[k] = << >>
        BY <1>1, <2>1
      <3>2. \A i \in 0..(n - 1) - 1 : Around(r, i) # h
        <4>1. ASSUME NEW i \in 0..(n - 1) - 1 PROVE i \in 0..n - 2
          BY <1>1
        <4> QED
          BY <1>9, <4>1
      <3> QED
        BY <2>1, <3>1, <3>2
    <2>2. CASE k # h
      <3>1. slots[k] = ring.slots[k]
        BY <1>1, <2>2
      <3>2. ring.slots[k] # << >> <=> \E i \in 0..n - 1 : k = Around(ring, i)
        BY <1>1, LiveAround
      <3>3. ASSUME NEW i \in 0..n - 1, k = Around(ring, i)
            PROVE  \E j \in 0..(n - 1) - 1 : k = Around(r, j)
        <4>1. i # 0
          BY <1>8, <2>2, <3>3
        <4>2. i - 1 \in 0..n - 2 /\ i - 1 \in 0..(n - 1) - 1 /\ (i - 1) + 1 = i
          BY <1>1, <4>1
        <4>3. Around(r, i - 1) = Around(ring, (i - 1) + 1)
          BY <1>9, <4>2
        <4> QED
          BY <3>3, <4>2, <4>3
      <3>4. ASSUME NEW j \in 0..(n - 1) - 1, k = Around(r, j)
            PROVE  \E i \in 0..n - 1 : k = Around(ring, i)
        <4>1. j \in 0..n - 2 /\ j + 1 \in 0..n - 1
          BY <1>1
        <4> QED
          BY <1>9, <3>4, <4>1
      <3> QED
        BY <3>1, <3>2, <3>3, <3>4
    <2> QED
      BY <2>1, <2>2
  <1>11. RingOf(r, V)
    <2>1. n - 1 \in Nat /\ n - 1 <= c
      BY <1>1
    <2>2. r = [capacity |-> c, slots |-> slots, head |-> next, size |-> n - 1]
      OBVIOUS
    <2> HIDE DEF r, slots, next
    <2>3. next < c /\ next \in Nat
      BY <1>2
    <2> QED
      BY <1>4, <1>6, <1>10, <2>1, <2>2, <2>3, RingFromParts, SMTT(30)
  <1>12. /\ Contents(ring) \in Seq(V) /\ Len(Contents(ring)) = n
         /\ \A i \in 1..n : /\ ring.slots[Around(ring, i - 1)] = <<Contents(ring)[i]>>
                            /\ Contents(ring)[i] = At(ring, i - 1)
    <2>1. n = ring.size
      BY <1>1
    <2> QED
      BY <2>1, ContentsAreValues
  <1>13. Contents(ring) # << >> /\ At(ring, 0) = Head(Contents(ring))
    <2>1. Contents(ring) # << >>
      BY <1>1, <1>12, EmptySeq
    <2>2. 1 \in 1..n /\ 1 - 1 = 0
      BY <1>1
    <2>3. Contents(ring)[1] = At(ring, 0)
      BY <1>12, <2>2
    <2> QED
      BY <1>12, <2>1, <2>3
  <1>14. Contents(r) = Tail(Contents(ring))
    <2>1. /\ Tail(Contents(ring)) \in Seq(V) /\ Len(Tail(Contents(ring))) = n - 1
          /\ \A i \in 1..n - 1 : Tail(Contents(ring))[i] = Contents(ring)[i + 1]
      BY <1>12, <1>13, HeadTailProperties
    <2>2. ASSUME NEW i \in 1..n - 1
          PROVE  r.slots[Around(r, i - 1)] = <<Tail(Contents(ring))[i]>>
      <3>1. i - 1 \in 0..n - 2 /\ i + 1 \in 1..n /\ (i - 1) + 1 = i /\ (i + 1) - 1 = i
        BY <1>1
      <3>2. slots[Around(r, i - 1)] = ring.slots[Around(ring, i)]
        BY <1>9, <3>1
      <3>3. ring.slots[Around(ring, i)] = <<Contents(ring)[i + 1]>>
        BY <1>12, <3>1
      <3> QED
        BY <1>5, <2>1, <3>2, <3>3
    <2> HIDE DEF r
    <2> QED
      BY <1>5, <1>11, <2>1, <2>2, SameContents
  <1> QED
    BY <1>3, <1>11, <1>13, <1>14

----------------------------------------------------------------------------
(* Putting a value in.                                                       *)

LEMMA PlacedIsAppended ==
  ASSUME NEW V, NEW ring, RingOf(ring, V), ring.size < ring.capacity, NEW v \in V
  PROVE  /\ RingOf(Placed(ring, v), V)
         /\ Contents(Placed(ring, v)) = Append(Contents(ring), v)
  <1>1. PICK c, h, n, old :
          /\ ring = [capacity |-> c, slots |-> old, head |-> h, size |-> n]
          /\ c = ring.capacity /\ h = ring.head /\ n = ring.size /\ old = ring.slots
          /\ c \in Nat /\ c > 0 /\ h \in Nat /\ h < c /\ n \in Nat /\ n < c
          /\ old \in [0..c - 1 -> Cells(V)]
    BY RingFields DEF RingOf
  <1>2. c \in Nat /\ c > 0 /\ h \in Nat /\ h < c /\ n \in Nat /\ n < c
    BY <1>1
  <1> DEFINE free == Turn(c, h, n)
             slots == [old EXCEPT ![free] = <<v>>]
             r == [capacity |-> c, slots |-> slots, head |-> h, size |-> n + 1]
  <1>3. free \in 0..c - 1 /\ Slot(ring, ring.size) = free
    <2>1. n \in 0..c
      BY <1>2
    <2>2. (h + n) % c = free /\ free \in 0..c - 1
      BY <1>2, <2>1, Turns
    <2>3. Slot(ring, ring.size) = (h + n) % c
      BY <1>1 DEF Slot
    <2> QED
      BY <2>2, <2>3
  <1>4. Placed(ring, v) = r
    <2>1. Placed(ring, v) = [[ring EXCEPT !.slots = [ring.slots EXCEPT ![Slot(ring, ring.size)] = <<v>>]]
                               EXCEPT !.size = ring.size + 1]
      BY DEF Placed
    <2> QED
      BY <1>1, <1>3, <2>1
  <1>5. r.capacity = c /\ r.slots = slots /\ r.head = h /\ r.size = n + 1
    OBVIOUS
  <1>6. slots \in [0..c - 1 -> Cells(V)]
    BY <1>1 DEF Cells
  <1>7. \A i : Around(r, i) = Turn(c, h, i) /\ Around(ring, i) = Turn(c, h, i)
    BY <1>1, <1>5 DEF Around
  <1>8. ASSUME NEW i \in 0..n - 1
        PROVE  Turn(c, h, i) # free /\ slots[Turn(c, h, i)] = old[Turn(c, h, i)]
    <2>1. i \in 0..c - 1 /\ n \in 0..c - 1 /\ i # n /\ i \in 0..c
      BY <1>2
    <2>2. Turn(c, h, i) # free /\ Turn(c, h, i) \in 0..c - 1
      BY <1>2, <2>1, Turns, TurnsDiffer
    <2> QED
      BY <1>1, <2>2
  <1>9. slots[free] = <<v>>
    BY <1>1, <1>3
  <1>10. ASSUME NEW k \in 0..c - 1
         PROVE  slots[k] # << >> <=> \E i \in 0..(n + 1) - 1 : k = Around(r, i)
    <2>1. CASE k = free
      <3>1. slots[k] # << >>
        BY <1>9, <2>1, OccupiedIsNotEmpty
      <3>2. n \in 0..(n + 1) - 1 /\ k = Around(r, n)
        BY <1>2, <1>7, <2>1
      <3> QED
        BY <3>1, <3>2
    <2>2. CASE k # free
      <3>1. slots[k] = ring.slots[k]
        BY <1>1, <2>2
      <3>2. ring.slots[k] # << >> <=> \E i \in 0..ring.size - 1 : k = Around(ring, i)
        BY <1>1, LiveAround
      <3>3. (\E i \in 0..ring.size - 1 : k = Around(ring, i))
              <=> \E i \in 0..n - 1 : k = Turn(c, h, i)
        BY <1>1, <1>7
      <3>4. (\E i \in 0..(n + 1) - 1 : k = Around(r, i)) <=> \E i \in 0..n - 1 : k = Turn(c, h, i)
        <4>1. ASSUME NEW i \in 0..(n + 1) - 1, k = Around(r, i)
              PROVE  i \in 0..n - 1 /\ k = Turn(c, h, i)
          <5>1. k = Turn(c, h, i)
            BY <1>7, <4>1
          <5>2. i # n
            BY <2>2, <5>1
          <5> QED
            BY <1>2, <5>1, <5>2
        <4>2. ASSUME NEW i \in 0..n - 1, k = Turn(c, h, i)
              PROVE  i \in 0..(n + 1) - 1 /\ k = Around(r, i)
          BY <1>2, <1>7, <4>2
        <4> QED
          BY <4>1, <4>2
      <3> QED
        BY <3>1, <3>2, <3>3, <3>4
    <2> QED
      BY <2>1, <2>2
  <1>11. RingOf(r, V)
    <2>1. IsRing(r)
      BY <1>2, <1>5, <1>6 DEF IsRing
    <2>2. ASSUME NEW i \in 0..(n + 1) - 1
          PROVE  Slot(r, i) = Around(r, i)
      <3>1. i \in 0..c /\ r.capacity = c /\ r.head = h
        BY <1>2, <1>5
      <3>2. (h + i) % c = Turn(c, h, i)
        BY <1>2, <3>1, Turns
      <3> HIDE DEF r
      <3> QED
        BY <3>1, <3>2 DEF Slot, Around
    <2>3. ASSUME NEW k \in DOMAIN r.slots
          PROVE  r.slots[k] # << >> <=> \E i \in 0..r.size - 1 : k = Slot(r, i)
      <3>1. k \in 0..c - 1 /\ r.slots[k] = slots[k] /\ r.size = n + 1
        BY <1>5, <1>6, <2>3
      <3>2. slots[k] # << >> <=> \E i \in 0..(n + 1) - 1 : k = Around(r, i)
        BY <1>10, <3>1
      <3> HIDE DEF r, slots
      <3>3. (\E i \in 0..(n + 1) - 1 : k = Around(r, i)) <=> \E i \in 0..(n + 1) - 1 : k = Slot(r, i)
        BY <2>2
      <3> QED
        BY <3>1, <3>2, <3>3
    <2>4. LiveSlots(r)
      BY <2>3 DEF LiveSlots
    <2>5. r.slots \in [0..r.capacity - 1 -> Cells(V)]
      BY <1>5, <1>6
    <2>6. r = [capacity |-> r.capacity, slots |-> r.slots, head |-> r.head, size |-> r.size]
      OBVIOUS
    <2> HIDE DEF r
    <2> QED
      BY <2>1, <2>4, <2>5, <2>6 DEF RingOf
  <1>12. /\ Contents(ring) \in Seq(V) /\ Len(Contents(ring)) = n
         /\ \A i \in 1..n : ring.slots[Around(ring, i - 1)] = <<Contents(ring)[i]>>
    <2>1. n = ring.size
      BY <1>1
    <2> QED
      BY <2>1, ContentsAreValues
  <1>13. Contents(r) = Append(Contents(ring), v)
    <2>1. /\ Append(Contents(ring), v) \in Seq(V)
          /\ Len(Append(Contents(ring), v)) = n + 1
          /\ \A i \in 1..n : Append(Contents(ring), v)[i] = Contents(ring)[i]
          /\ Append(Contents(ring), v)[n + 1] = v
      BY <1>12, AppendProperties
    <2>2. ASSUME NEW i \in 1..n + 1
          PROVE  r.slots[Around(r, i - 1)] = <<Append(Contents(ring), v)[i]>>
      <3>1. CASE i = n + 1
        <4>1. i - 1 = n
          BY <1>2, <3>1
        <4> QED
          BY <1>5, <1>7, <1>9, <2>1, <3>1, <4>1
      <3>2. CASE i # n + 1
        <4>1. i - 1 \in 0..n - 1 /\ i \in 1..n
          BY <1>2, <3>2
        <4>2. r.slots[Around(r, i - 1)] = old[Turn(c, h, i - 1)]
          BY <1>5, <1>7, <1>8, <4>1
        <4>3. old[Turn(c, h, i - 1)] = <<Contents(ring)[i]>>
          BY <1>1, <1>7, <1>12, <4>1
        <4> QED
          BY <2>1, <4>1, <4>2, <4>3
      <3> QED
        BY <3>1, <3>2
    <2> HIDE DEF r
    <2> QED
      BY <1>5, <1>11, <2>1, <2>2, SameContents
  <1> QED
    BY <1>4, <1>11, <1>13

(* Growing moves the elements in order to the first slots.                   *)
LEMMA GrownHoldsTheSame ==
  ASSUME NEW V, NEW ring, RingOf(ring, V), ring.size = ring.capacity
  PROVE  /\ RingOf(Grown(ring), V)
         /\ Contents(Grown(ring)) = Contents(ring)
         /\ Grown(ring).size < Grown(ring).capacity
  <1>1. ring.capacity \in Nat /\ ring.size \in Nat /\ ring.head \in Nat
    BY RingFields
  <1> DEFINE n == ring.size
             d == Doubled(ring.capacity)
             slots == [k \in 0..d - 1 |-> IF k < n THEN ring.slots[Slot(ring, k)] ELSE << >>]
             r == [capacity |-> d, slots |-> slots, head |-> 0, size |-> n]
  <1>2. Grown(ring) = r
    BY DEF Grown
  <1>3. n \in Nat /\ d \in Nat /\ n < d /\ d > 0 /\ 0 \in Nat /\ n <= d
    BY <1>1 DEF Doubled
  <1>4. r.capacity = d /\ r.slots = slots /\ r.head = 0 /\ r.size = n
    OBVIOUS
  <1>5. /\ Contents(ring) \in Seq(V) /\ Len(Contents(ring)) = n
        /\ \A i \in 1..n : ring.slots[Around(ring, i - 1)] = <<Contents(ring)[i]>>
    BY ContentsAreValues
  <1>6. ASSUME NEW k \in 0..n - 1
        PROVE  /\ k \in 0..d - 1 /\ k + 1 \in 1..n
               /\ slots[k] = <<Contents(ring)[k + 1]>> /\ Contents(ring)[k + 1] \in V
    <2>1. /\ k \in 0..d - 1 /\ k + 1 \in 1..n /\ k < n /\ ring.capacity > 0
          /\ k \in 0..ring.capacity /\ (k + 1) - 1 = k
      BY <1>1, <1>3
    <2>2. Slot(ring, k) = Around(ring, k)
      BY <2>1, SlotIsAround
    <2>3. ring.slots[Around(ring, k)] = <<Contents(ring)[k + 1]>>
      BY <1>5, <2>1
    <2>4. Contents(ring)[k + 1] \in V
      BY <1>5, <2>1, ElementOfSeq
    <2> QED
      BY <2>1, <2>2, <2>3, <2>4
  <1>7. ASSUME NEW k \in 0..d - 1, ~(k \in 0..n - 1)
        PROVE  slots[k] = << >>
    <2>1. ~(k < n)
      BY <1>3, <1>7
    <2> QED
      BY <2>1
  <1>8. slots \in [0..d - 1 -> Cells(V)]
    <2>1. ASSUME NEW k \in 0..d - 1 PROVE slots[k] \in Cells(V)
      BY <1>6, <1>7 DEF Cells
    <2>2. slots = [k \in 0..d - 1 |-> slots[k]]
      OBVIOUS
    <2> HIDE DEF slots
    <2> QED
      BY <2>1, <2>2
  <1>9. \A i \in 0..d - 1 : Around(r, i) = i
    BY <1>3, <1>4 DEF Around, Turn
  <1>10. ASSUME NEW k \in 0..d - 1
         PROVE  slots[k] # << >> <=> \E i \in 0..n - 1 : k = Around(r, i)
    <2>1. CASE k \in 0..n - 1
      <3>1. slots[k] # << >>
        BY <1>6, <2>1, OccupiedIsNotEmpty
      <3> QED
        BY <1>9, <2>1, <3>1
    <2>2. CASE ~(k \in 0..n - 1)
      <3>1. slots[k] = << >>
        BY <1>7, <2>2
      <3>2. \A i \in 0..n - 1 : Around(r, i) = i
        BY <1>6, <1>9
      <3> QED
        BY <2>2, <3>1, <3>2
    <2> QED
      BY <2>1, <2>2
  <1>11. RingOf(r, V)
    <2>1. r = [capacity |-> d, slots |-> slots, head |-> 0, size |-> n]
      OBVIOUS
    <2> HIDE DEF r, slots, d, n
    <2> QED
      BY <1>3, <1>8, <1>10, <2>1, RingFromParts
  <1>12. Contents(r) = Contents(ring)
    <2>1. ASSUME NEW i \in 1..n
          PROVE  r.slots[Around(r, i - 1)] = <<Contents(ring)[i]>>
      <3>1. i - 1 \in 0..n - 1 /\ i - 1 \in 0..d - 1 /\ (i - 1) + 1 = i
        BY <1>3
      <3> QED
        BY <1>4, <1>6, <1>9, <3>1
    <2> HIDE DEF r
    <2> QED
      BY <1>4, <1>5, <1>11, <2>1, SameContents
  <1> QED
    BY <1>2, <1>3, <1>4, <1>11, <1>12

----------------------------------------------------------------------------
(* The theorems.                                                             *)

(* push_back() adds at the end, and afterwards a slot holds something        *)
(* exactly when it is in the ring - whether the ring had to grow, and        *)
(* wherever its head was when it did.                                        *)
THEOREM PushIsAppend ==
  ASSUME NEW V, NEW ring, RingOf(ring, V), NEW v \in V
  PROVE  /\ RingOf(Pushed(ring, v), V)
         /\ Contents(Pushed(ring, v)) = Append(Contents(ring), v)
  <1>1. CASE ring.size = ring.capacity
    <2>1. /\ RingOf(Grown(ring), V) /\ Contents(Grown(ring)) = Contents(ring)
          /\ Grown(ring).size < Grown(ring).capacity
      BY <1>1, GrownHoldsTheSame
    <2>2. Pushed(ring, v) = Placed(Grown(ring), v)
      BY <1>1 DEF Pushed
    <2> QED
      BY <2>1, <2>2, PlacedIsAppended
  <1>2. CASE ring.size # ring.capacity
    <2>1. ring.size < ring.capacity
      BY <1>2, RingFields
    <2>2. Pushed(ring, v) = Placed(ring, v)
      BY <1>2 DEF Pushed
    <2> QED
      BY <2>1, <2>2, PlacedIsAppended
  <1> QED
    BY <1>1, <1>2

(* pop_front() takes out the first value, the one [0] shows, and no other.   *)
THEOREM PopIsTail ==
  ASSUME NEW V, NEW ring, RingOf(ring, V), ring.size > 0
  PROVE  /\ RingOf(Popped(ring), V)
         /\ At(ring, 0) = Head(Contents(ring))
         /\ Contents(Popped(ring)) = Tail(Contents(ring))
  BY PoppedIsTheTail

----------------------------------------------------------------------------
(* UTF-8: the decoder takes exactly the sequences of bytes that encode a     *)
(* scalar value.                                                             *)

(* A lead byte with the continuation bytes it asks for. *)
IsCharacter(s) ==
  \/ Len(s) = 1 /\ s[1] < 128
  \/ /\ Len(s) > 1 /\ Len(Continuations(s[1])) = Len(s) - 1
     /\ \A i \in 1..Len(s) - 1 : s[i + 1] \in Continuations(s[1])[i]

LeadsTwo(b) == 194 <= b /\ b <= 223
LeadsThree(b) == 224 <= b /\ b <= 239
LeadsFour(b) == 240 <= b /\ b <= 244
IsTail(b) == 128 <= b /\ b <= 191

(* Whether the byte t may come second, after a lead byte b of three or four. *)
MayFollow(b, t) ==
  /\ IsTail(t)
  /\ b = 224 => t >= 160
  /\ b = 237 => t <= 159
  /\ b = 240 => t >= 144
  /\ b = 244 => t <= 143

LEMMA Bytes ==
  \A b : b \in Byte <=> b \in Nat /\ b <= 255
  BY DEF Byte

LEMMA Ranges ==
  ASSUME NEW low \in Nat, NEW high \in Nat, NEW t \in Nat
  PROVE  t \in Between(low, high) <=> low <= t /\ t <= high
  BY DEF Between

LEMMA Tails ==
  ASSUME NEW t \in Nat
  PROVE  t \in AnyTail <=> IsTail(t)
  BY Ranges DEF AnyTail, IsTail

LEMMA TwoByteLeads ==
  ASSUME NEW b \in Nat, LeadsTwo(b)
  PROVE  Len(Continuations(b)) = 1 /\ Continuations(b)[1] = AnyTail
  <1>1. Continuations(b) = <<AnyTail>>
    BY DEF Continuations, LeadsTwo
  <1> QED
    BY <1>1

LEMMA ThreeByteLeads ==
  ASSUME NEW b \in Nat, LeadsThree(b)
  PROVE  /\ Len(Continuations(b)) = 2
         /\ \A t \in Nat : /\ t \in Continuations(b)[1] <=> MayFollow(b, t)
                           /\ t \in Continuations(b)[2] <=> IsTail(t)
  <1>1. Len(Continuations(b)) = 2 /\ Continuations(b)[2] = AnyTail
    BY DEF Continuations, LeadsThree
  <1>2. CASE b = 224
    <2>1. Continuations(b)[1] = Between(160, 191)
      BY <1>2 DEF Continuations
    <2>2. \A t \in Nat : t \in Between(160, 191) <=> MayFollow(b, t)
      BY <1>2, Ranges DEF MayFollow, IsTail
    <2> QED
      BY <1>1, <2>1, <2>2, Tails
  <1>3. CASE b = 237
    <2>1. Continuations(b)[1] = Between(128, 159)
      BY <1>3 DEF Continuations
    <2>2. \A t \in Nat : t \in Between(128, 159) <=> MayFollow(b, t)
      BY <1>3, Ranges DEF MayFollow, IsTail
    <2> QED
      BY <1>1, <2>1, <2>2, Tails
  <1>4. CASE b # 224 /\ b # 237
    <2>1. Continuations(b)[1] = AnyTail
      BY <1>4 DEF Continuations, LeadsThree
    <2>2. \A t \in Nat : t \in AnyTail <=> MayFollow(b, t)
      BY <1>4, Tails DEF MayFollow, LeadsThree
    <2> QED
      BY <1>1, <2>1, <2>2, Tails
  <1> QED
    BY <1>2, <1>3, <1>4

LEMMA FourByteLeads ==
  ASSUME NEW b \in Nat, LeadsFour(b)
  PROVE  /\ Len(Continuations(b)) = 3
         /\ \A t \in Nat : /\ t \in Continuations(b)[1] <=> MayFollow(b, t)
                           /\ t \in Continuations(b)[2] <=> IsTail(t)
                           /\ t \in Continuations(b)[3] <=> IsTail(t)
  <1>1. /\ Len(Continuations(b)) = 3
        /\ Continuations(b)[2] = AnyTail /\ Continuations(b)[3] = AnyTail
    BY DEF Continuations, LeadsFour
  <1>2. CASE b = 240
    <2>1. Continuations(b)[1] = Between(144, 191)
      BY <1>2 DEF Continuations
    <2>2. \A t \in Nat : t \in Between(144, 191) <=> MayFollow(b, t)
      BY <1>2, Ranges DEF MayFollow, IsTail
    <2> QED
      BY <1>1, <2>1, <2>2, Tails
  <1>3. CASE b = 244
    <2>1. Continuations(b)[1] = Between(128, 143)
      BY <1>3 DEF Continuations
    <2>2. \A t \in Nat : t \in Between(128, 143) <=> MayFollow(b, t)
      BY <1>3, Ranges DEF MayFollow, IsTail
    <2> QED
      BY <1>1, <2>1, <2>2, Tails
  <1>4. CASE b # 240 /\ b # 244
    <2>1. Continuations(b)[1] = AnyTail
      BY <1>4 DEF Continuations, LeadsFour
    <2>2. \A t \in Nat : t \in AnyTail <=> MayFollow(b, t)
      BY <1>4, Tails DEF MayFollow, LeadsFour
    <2> QED
      BY <1>1, <2>1, <2>2, Tails
  <1> QED
    BY <1>2, <1>3, <1>4

LEMMA UpToFour ==
  /\ \A n : n \in {0, 1, 2, 3} => n \in Nat /\ n < 4
  /\ \A n \in Nat : n < 2 \/ n = 2 \/ n = 3 \/ n = 4 \/ n > 4
  OBVIOUS

LEMMA ContinuationCount ==
  ASSUME NEW b \in Nat
  PROVE  /\ Len(Continuations(b)) \in Nat /\ Len(Continuations(b)) < 4
         /\ Len(Continuations(b)) = 1 <=> LeadsTwo(b)
         /\ Len(Continuations(b)) = 2 <=> LeadsThree(b)
         /\ Len(Continuations(b)) = 3 <=> LeadsFour(b)
  <1>1. ASSUME ~LeadsTwo(b), ~LeadsThree(b), ~LeadsFour(b)
        PROVE  Len(Continuations(b)) = 0
    <2>1. Continuations(b) = << >>
      BY <1>1 DEF Continuations, LeadsTwo, LeadsThree, LeadsFour
    <2> QED
      BY <2>1
  <1>2. /\ LeadsTwo(b) => ~LeadsThree(b) /\ ~LeadsFour(b)
        /\ LeadsThree(b) => ~LeadsFour(b)
    BY DEF LeadsTwo, LeadsThree, LeadsFour
  <1> DEFINE n == Len(Continuations(b))
  <1>3. /\ LeadsTwo(b) => n = 1
        /\ LeadsThree(b) => n = 2
        /\ LeadsFour(b) => n = 3
        /\ ~LeadsTwo(b) /\ ~LeadsThree(b) /\ ~LeadsFour(b) => n = 0
    BY <1>1, TwoByteLeads, ThreeByteLeads, FourByteLeads
  <1> HIDE DEF n
  <1>4. n \in Nat /\ n < 4
    BY <1>3, UpToFour
  <1>5. /\ n = 1 <=> LeadsTwo(b)
        /\ n = 2 <=> LeadsThree(b)
        /\ n = 3 <=> LeadsFour(b)
    BY <1>2, <1>3
  <1> QED
    BY <1>4, <1>5 DEF n

(* The characters of one, two, three and four bytes. *)
Shaped(s) ==
  \/ Len(s) = 1 /\ s[1] < 128
  \/ Len(s) = 2 /\ LeadsTwo(s[1]) /\ IsTail(s[2])
  \/ Len(s) = 3 /\ LeadsThree(s[1]) /\ MayFollow(s[1], s[2]) /\ IsTail(s[3])
  \/ /\ Len(s) = 4 /\ LeadsFour(s[1]) /\ MayFollow(s[1], s[2])
     /\ IsTail(s[3]) /\ IsTail(s[4])

LEMMA CharacterCases ==
  ASSUME NEW s \in Seq(Byte)
  PROVE  IsCharacter(s) <=> Shaped(s)
  <1> DEFINE b == s[1]
             c == Continuations(b)
  <1>1. Len(s) \in Nat /\ \A i \in 1..Len(s) : s[i] \in Nat
    BY Bytes
  <1>2. CASE Len(s) < 2
    BY <1>1, <1>2 DEF IsCharacter, Shaped
  <1>3. CASE Len(s) = 2
    <2>1. IsCharacter(s) <=> Len(c) = 1 /\ s[2] \in c[1]
      BY <1>3 DEF IsCharacter
    <2>2. b \in Nat /\ s[2] \in Nat
      BY <1>1, <1>3
    <2> HIDE DEF b, c
    <2>3. Len(c) = 1 <=> LeadsTwo(b)
      BY <2>2, ContinuationCount DEF c
    <2>4. LeadsTwo(b) => (s[2] \in c[1] <=> IsTail(s[2]))
      BY <2>2, TwoByteLeads, Tails DEF c
    <2> QED
      BY <1>3, <2>1, <2>3, <2>4 DEF b, Shaped
  <1>4. CASE Len(s) = 3
    <2>1. IsCharacter(s) <=> Len(c) = 2 /\ s[2] \in c[1] /\ s[3] \in c[2]
      BY <1>4 DEF IsCharacter
    <2>2. b \in Nat /\ s[2] \in Nat /\ s[3] \in Nat
      BY <1>1, <1>4
    <2> HIDE DEF b, c
    <2>3. Len(c) = 2 <=> LeadsThree(b)
      BY <2>2, ContinuationCount DEF c
    <2>4. LeadsThree(b) => /\ s[2] \in c[1] <=> MayFollow(b, s[2])
                           /\ s[3] \in c[2] <=> IsTail(s[3])
      BY <2>2, ThreeByteLeads DEF c
    <2> QED
      BY <1>4, <2>1, <2>3, <2>4 DEF b, Shaped
  <1>5. CASE Len(s) = 4
    <2>1. IsCharacter(s) <=> Len(c) = 3 /\ s[2] \in c[1] /\ s[3] \in c[2] /\ s[4] \in c[3]
      BY <1>5 DEF IsCharacter
    <2>2. b \in Nat /\ s[2] \in Nat /\ s[3] \in Nat /\ s[4] \in Nat
      BY <1>1, <1>5
    <2> HIDE DEF b, c
    <2>3. Len(c) = 3 <=> LeadsFour(b)
      BY <2>2, ContinuationCount DEF c
    <2>4. LeadsFour(b) => /\ s[2] \in c[1] <=> MayFollow(b, s[2])
                          /\ s[3] \in c[2] <=> IsTail(s[3])
                          /\ s[4] \in c[3] <=> IsTail(s[4])
      BY <2>2, FourByteLeads DEF c
    <2> QED
      BY <1>5, <2>1, <2>3, <2>4 DEF b, Shaped
  <1>6. CASE Len(s) > 4
    <2>1. b \in Nat
      BY <1>1, <1>6
    <2> HIDE DEF b
    <2> DEFINE n == Len(s)
               m == Len(c)
    <2>2. n \in Nat /\ n > 4 /\ m \in Nat /\ m < 4
      BY <1>1, <1>6, <2>1, ContinuationCount DEF c
    <2> HIDE DEF n, m
    <2>3. n # 1 /\ m # n - 1
      BY <2>2
    <2>4. ~IsCharacter(s)
      BY <2>3 DEF IsCharacter, b, c, n, m
    <2> QED
      BY <1>1, <1>6, <2>4 DEF Shaped
  <1>7. Len(s) < 2 \/ Len(s) = 2 \/ Len(s) = 3 \/ Len(s) = 4 \/ Len(s) > 4
    BY <1>1, UpToFour, Zenon
  <1> QED
    BY <1>2, <1>3, <1>4, <1>5, <1>6, <1>7

LEMMA LowBits ==
  ASSUME NEW b \in Nat
  PROVE  /\ IsTail(b) => b % 64 = b - 128
         /\ LeadsTwo(b) => b % 32 = b - 192
         /\ LeadsThree(b) => b % 16 = b - 224
         /\ LeadsFour(b) => b % 8 = b - 240
         /\ b % 8 \in Nat /\ b % 16 \in Nat /\ b % 32 \in Nat /\ b % 64 \in Nat
  BY DEF IsTail, LeadsTwo, LeadsThree, LeadsFour

LEMMA Pair ==
  ASSUME NEW p \in Nat, NEW q \in Nat, NEW s, s = <<p, q>>
  PROVE  s \in Seq(Nat) /\ Len(s) = 2 /\ s[1] = p /\ s[2] = q
  OBVIOUS

LEMMA Triple ==
  ASSUME NEW p \in Nat, NEW q \in Nat, NEW r \in Nat, NEW s, s = <<p, q, r>>
  PROVE  s \in Seq(Nat) /\ Len(s) = 3 /\ s[1] = p /\ s[2] = q /\ s[3] = r
  OBVIOUS

LEMMA Quadruple ==
  ASSUME NEW p \in Nat, NEW q \in Nat, NEW r \in Nat, NEW t \in Nat, NEW s, s = <<p, q, r, t>>
  PROVE  s \in Seq(Nat) /\ Len(s) = 4 /\ s[1] = p /\ s[2] = q /\ s[3] = r /\ s[4] = t
  OBVIOUS

(* The code point of the digits w, x, y and z, of six bits each, and its      *)
(* encoding.                                                                 *)
OfDigits(w, x, y, z) == 262144 * w + 4096 * x + 64 * y + z
IsDigit64(x) == x < 64

LEMMA EncodedInOne ==
  ASSUME NEW c \in Nat, c < 128
  PROVE  Encode(c) = <<c>>
  BY SMT DEF Encode

LEMMA EncodedInTwo ==
  ASSUME NEW c, NEW x \in Nat, NEW y \in Nat,
         c = OfDigits(0, 0, x, y), IsDigit64(y), 2 <= x, x < 32
  PROVE  /\ c \in Nat /\ 128 <= c /\ c < 2048
         /\ Encode(c) \in Seq(Nat) /\ Len(Encode(c)) = 2
         /\ Encode(c)[1] = 192 + x /\ Encode(c)[2] = 128 + y
  <1>0. c \in Nat /\ c = 64 * x + y /\ y < 64
    BY SMT DEF OfDigits, IsDigit64
  <1>1. 128 <= c /\ c < 2048
    BY <1>0, SMT
  <1>2. c \div 64 = x /\ c % 64 = y
    BY <1>0, SMT
  <1> DEFINE p == 192 + x
             q == 128 + y
  <1>3. Encode(c) = <<p, q>>
    BY <1>0, <1>1, <1>2, SMT DEF Encode
  <1>4. p \in Nat /\ q \in Nat
    BY <1>0, SMT
  <1> HIDE DEF p, q
  <1>5. /\ Encode(c) \in Seq(Nat) /\ Len(Encode(c)) = 2
        /\ Encode(c)[1] = p /\ Encode(c)[2] = q
    BY <1>3, <1>4, Pair
  <1> QED
    BY <1>0, <1>1, <1>5, SMT DEF p, q

LEMMA EncodedInThree ==
  ASSUME NEW c, NEW x \in Nat, NEW y \in Nat, NEW z \in Nat,
         c = OfDigits(0, x, y, z), IsDigit64(y), IsDigit64(z), x < 16, x = 0 => y >= 32
  PROVE  /\ c \in Nat /\ 2048 <= c /\ c < 65536
         /\ Encode(c) \in Seq(Nat) /\ Len(Encode(c)) = 3
         /\ Encode(c)[1] = 224 + x /\ Encode(c)[2] = 128 + y /\ Encode(c)[3] = 128 + z
  <1>0. c \in Nat /\ c = 4096 * x + 64 * y + z /\ y < 64 /\ z < 64
    BY SMT DEF OfDigits, IsDigit64
  <1>1. 2048 <= c /\ c < 65536
    BY <1>0, SMT
  <1>2. c \div 4096 = x /\ (c \div 64) % 64 = y /\ c % 64 = z
    <2>1. c = 64 * (64 * x + y) + z /\ 64 * x + y \in Nat
      BY <1>0, SMT
    <2>2. c \div 64 = 64 * x + y /\ c % 64 = z
      BY <1>0, <2>1, SMT
    <2>3. (64 * x + y) % 64 = y
      BY <1>0, SMT
    <2>4. c \div 4096 = x
      BY <1>0, SMT
    <2> QED
      BY <2>2, <2>3, <2>4, SMT
  <1> DEFINE p == 224 + x
             q == 128 + y
             r == 128 + z
  <1>3. Encode(c) = <<p, q, r>>
    BY <1>0, <1>1, <1>2, SMT DEF Encode
  <1>4. p \in Nat /\ q \in Nat /\ r \in Nat
    BY <1>0, SMT
  <1> HIDE DEF p, q, r
  <1>5. /\ Encode(c) \in Seq(Nat) /\ Len(Encode(c)) = 3
        /\ Encode(c)[1] = p /\ Encode(c)[2] = q /\ Encode(c)[3] = r
    BY <1>3, <1>4, Triple
  <1> QED
    BY <1>0, <1>1, <1>5, SMT DEF p, q, r

LEMMA EncodedInFour ==
  ASSUME NEW c, NEW w \in Nat, NEW x \in Nat, NEW y \in Nat, NEW z \in Nat,
         c = OfDigits(w, x, y, z), IsDigit64(x), IsDigit64(y), IsDigit64(z),
         w < 5, w = 0 => x >= 16
  PROVE  /\ c \in Nat /\ 65536 <= c
         /\ Encode(c) \in Seq(Nat) /\ Len(Encode(c)) = 4
         /\ Encode(c)[1] = 240 + w /\ Encode(c)[2] = 128 + x
         /\ Encode(c)[3] = 128 + y /\ Encode(c)[4] = 128 + z
  <1>0. /\ c \in Nat /\ c = 262144 * w + 4096 * x + 64 * y + z
        /\ x < 64 /\ y < 64 /\ z < 64
    BY SMT DEF OfDigits, IsDigit64
  <1>1. 65536 <= c
    BY <1>0, SMT
  <1>2. /\ c \div 262144 = w /\ (c \div 4096) % 64 = x
        /\ (c \div 64) % 64 = y /\ c % 64 = z
    <2>1. /\ c = 64 * (4096 * w + 64 * x + y) + z /\ 4096 * w + 64 * x + y \in Nat
          /\ c = 4096 * (64 * w + x) + (64 * y + z) /\ 64 * w + x \in Nat
          /\ 64 * y + z \in Nat /\ 64 * y + z < 4096
      BY <1>0, SMT
    <2>2. c \div 64 = 4096 * w + 64 * x + y /\ c % 64 = z
      BY <1>0, <2>1, SMT
    <2>3. (4096 * w + 64 * x + y) % 64 = y
      BY <1>0, SMT
    <2>4. c \div 4096 = 64 * w + x
      BY <1>0, <2>1, SMT
    <2>5. (64 * w + x) % 64 = x
      BY <1>0, SMT
    <2>6. c \div 262144 = w
      BY <1>0, SMT
    <2> QED
      BY <2>2, <2>3, <2>4, <2>5, <2>6, SMT
  <1> DEFINE p == 240 + w
             q == 128 + x
             r == 128 + y
             t == 128 + z
  <1>3. Encode(c) = <<p, q, r, t>>
    BY <1>0, <1>1, <1>2, SMT DEF Encode
  <1>4. p \in Nat /\ q \in Nat /\ r \in Nat /\ t \in Nat
    BY <1>0, SMT
  <1> HIDE DEF p, q, r, t
  <1>5. /\ Encode(c) \in Seq(Nat) /\ Len(Encode(c)) = 4
        /\ Encode(c)[1] = p /\ Encode(c)[2] = q /\ Encode(c)[3] = r /\ Encode(c)[4] = t
    BY <1>3, <1>4, Quadruple
  <1> QED
    BY <1>0, <1>1, <1>5, SMT DEF p, q, r, t

LEMMA Scalars ==
  ASSUME NEW w \in Nat, NEW x \in Nat, NEW y \in Nat, NEW z \in Nat,
         IsDigit64(x), IsDigit64(y), IsDigit64(z)
  PROVE  /\ OfDigits(w, x, y, z) < 2048 => IsScalar(OfDigits(w, x, y, z))
         /\ w = 0 /\ x < 16 => (IsScalar(OfDigits(w, x, y, z)) <=> (x = 13 => y < 32))
         /\ OfDigits(w, x, y, z) >= 65536
              => (IsScalar(OfDigits(w, x, y, z)) <=> w < 4 \/ (w = 4 /\ x < 16))
  <1> DEFINE c == OfDigits(w, x, y, z)
  <1>1. /\ c \in Nat /\ c = 262144 * w + 4096 * x + 64 * y + z
        /\ x < 64 /\ y < 64 /\ z < 64
    BY SMT DEF OfDigits, IsDigit64
  <1> HIDE DEF c
  <1>2. c < 2048 => IsScalar(c)
    BY <1>1, SMT DEF IsScalar
  <1>3. w = 0 /\ x < 16 => (IsScalar(c) <=> (x = 13 => y < 32))
    BY <1>1, SMT DEF IsScalar
  <1>4. c >= 65536 => (IsScalar(c) <=> w < 4 \/ (w = 4 /\ x < 16))
    BY <1>1, SMT DEF IsScalar
  <1> QED
    BY <1>2, <1>3, <1>4 DEF c

LEMMA Sixty ==
  ASSUME NEW c \in Nat
  PROVE  /\ c \div 64 \in Nat /\ c % 64 \in Nat /\ c % 64 < 64
         /\ c = 64 * (c \div 64) + (c % 64)
  BY SMT

LEMMA Digits64 ==
  ASSUME NEW c \in Nat
  PROVE  \E w, x, y, z \in Nat :
           IsDigit64(x) /\ IsDigit64(y) /\ IsDigit64(z) /\ c = OfDigits(w, x, y, z)
  <1> DEFINE d == c \div 64
             z == c % 64
             e == d \div 64
             y == d % 64
             w == e \div 64
             x == e % 64
  <1>1. d \in Nat /\ z \in Nat /\ z < 64 /\ c = 64 * d + z
    BY Sixty
  <1>2. e \in Nat /\ y \in Nat /\ y < 64 /\ d = 64 * e + y
    <2> HIDE DEF d
    <2> QED
      BY <1>1, Sixty
  <1>3. w \in Nat /\ x \in Nat /\ x < 64 /\ e = 64 * w + x
    <2> HIDE DEF e
    <2> QED
      BY <1>2, Sixty
  <1> HIDE DEF w, x, y, z, d, e
  <1>4. IsDigit64(x) /\ IsDigit64(y) /\ IsDigit64(z)
    BY <1>1, <1>2, <1>3 DEF IsDigit64
  <1>5. c = OfDigits(w, x, y, z)
    BY <1>1, <1>2, <1>3, SMT DEF OfDigits
  <1> QED
    BY <1>1, <1>2, <1>3, <1>4, <1>5, Zenon

(* A character encodes the code point of its bytes.                          *)
LEMMA CharacterIsEncoded ==
  ASSUME NEW s \in Seq(Byte), IsCharacter(s)
  PROVE  /\ Len(s) \in {1, 2, 3, 4}
         /\ Payload(s) \in Nat
         /\ IsScalar(Payload(s))
         /\ Encode(Payload(s)) = s
  <1>1. s \in Seq(Nat) /\ Len(s) \in Nat /\ \A i \in 1..Len(s) : s[i] \in Nat
    BY Bytes
  <1>2. CASE Len(s) = 1 /\ s[1] < 128
    <2> DEFINE b == s[1]
    <2>1. b \in Nat /\ b < 128
      BY <1>1, <1>2
    <2>2. s = <<b>>
      BY <1>1, <1>2
    <2> HIDE DEF b
    <2>3. Payload(s) = b
      BY <2>2, SMT DEF Payload
    <2>4. IsScalar(b)
      BY <2>1, SMT DEF IsScalar
    <2>5. Encode(b) = s
      BY <2>1, <2>2, EncodedInOne
    <2> QED
      BY <1>2, <2>1, <2>3, <2>4, <2>5
  <1>3. CASE Len(s) = 2 /\ LeadsTwo(s[1]) /\ IsTail(s[2])
    <2> DEFINE x == s[1] - 192
               y == s[2] - 128
               c == OfDigits(0, 0, x, y)
    <2>1. s[1] \in Nat /\ s[2] \in Nat
      BY <1>1, <1>3
    <2>2. /\ x \in Nat /\ 2 <= x /\ x < 32 /\ y \in Nat /\ IsDigit64(y)
          /\ s[1] = 192 + x /\ s[2] = 128 + y
      BY <1>3, <2>1 DEF LeadsTwo, IsTail, IsDigit64
    <2>3. s[1] % 32 = x /\ s[2] % 64 = y
      BY <1>3, <2>1, LowBits
    <2> HIDE DEF x, y
    <2>4. Payload(s) = c
      BY <1>3, <2>2, <2>3, SMT DEF Payload, OfDigits
    <2>5. /\ c \in Nat /\ c < 2048 /\ Encode(c) \in Seq(Nat) /\ Len(Encode(c)) = 2
          /\ Encode(c)[1] = 192 + x /\ Encode(c)[2] = 128 + y
      BY <2>2, EncodedInTwo, SMT
    <2>6. IsScalar(c)
      <3>1. IsDigit64(0) /\ IsDigit64(x)
        BY <2>2 DEF IsDigit64
      <3> QED
        BY <2>2, <2>5, <3>1, Scalars, SMT
    <2> HIDE DEF c
    <2>7. Encode(c) = s
      <3>1. Encode(c)[1] = s[1] /\ Encode(c)[2] = s[2]
        BY <2>2, <2>5
      <3>2. \A i \in 1..Len(s) : Encode(c)[i] = s[i]
        BY <1>3, <3>1
      <3> QED
        BY <1>1, <1>3, <2>5, <3>2, SeqEqual
    <2> QED
      BY <1>3, <2>4, <2>5, <2>6, <2>7, SMT
  <1>4. CASE Len(s) = 3 /\ LeadsThree(s[1]) /\ MayFollow(s[1], s[2]) /\ IsTail(s[3])
    <2> DEFINE x == s[1] - 224
               y == s[2] - 128
               z == s[3] - 128
               c == OfDigits(0, x, y, z)
    <2>1. s[1] \in Nat /\ s[2] \in Nat /\ s[3] \in Nat
      BY <1>1, <1>4
    <2>2. /\ x \in Nat /\ x < 16 /\ y \in Nat /\ IsDigit64(y) /\ z \in Nat /\ IsDigit64(z)
          /\ s[1] = 224 + x /\ s[2] = 128 + y /\ s[3] = 128 + z
      BY <1>4, <2>1, SMTT(30) DEF LeadsThree, MayFollow, IsTail, IsDigit64
    <2>3. (x = 0 => y >= 32) /\ (x = 13 => y < 32)
      BY <1>4, <2>1, SMT DEF MayFollow
    <2>4. s[1] % 16 = x /\ s[2] % 64 = y /\ s[3] % 64 = z
      BY <1>4, <2>1, LowBits, SMTT(30) DEF MayFollow
    <2> HIDE DEF x, y, z
    <2>5. Payload(s) = c
      BY <1>4, <2>2, <2>4, SMT DEF Payload, OfDigits
    <2>6. /\ c \in Nat /\ Encode(c) \in Seq(Nat) /\ Len(Encode(c)) = 3
          /\ Encode(c)[1] = 224 + x /\ Encode(c)[2] = 128 + y /\ Encode(c)[3] = 128 + z
      BY <2>2, <2>3, EncodedInThree, SMT
    <2>7. IsScalar(c)
      <3>1. IsDigit64(x) /\ 0 \in Nat
        BY <2>2 DEF IsDigit64
      <3> QED
        BY <2>2, <2>3, <3>1, Scalars, SMT
    <2> HIDE DEF c
    <2>8. Encode(c) = s
      <3>1. Encode(c)[1] = s[1] /\ Encode(c)[2] = s[2] /\ Encode(c)[3] = s[3]
        BY <2>2, <2>6
      <3>2. \A i \in 1..Len(s) : Encode(c)[i] = s[i]
        BY <1>4, <3>1
      <3> QED
        BY <1>1, <1>4, <2>6, <3>2, SeqEqual, SMTT(30)
    <2> QED
      BY <1>4, <2>5, <2>6, <2>7, <2>8, SMT
  <1>5. CASE /\ Len(s) = 4 /\ LeadsFour(s[1]) /\ MayFollow(s[1], s[2])
             /\ IsTail(s[3]) /\ IsTail(s[4])
    <2> DEFINE w == s[1] - 240
               x == s[2] - 128
               y == s[3] - 128
               z == s[4] - 128
               c == OfDigits(w, x, y, z)
    <2>1. s[1] \in Nat /\ s[2] \in Nat /\ s[3] \in Nat /\ s[4] \in Nat
      BY <1>1, <1>5
    <2>2. /\ w \in Nat /\ w < 5 /\ s[1] = 240 + w
          /\ x \in Nat /\ IsDigit64(x) /\ s[2] = 128 + x
      BY <1>5, <2>1, SMT DEF LeadsFour, MayFollow, IsTail, IsDigit64
    <2>3. /\ y \in Nat /\ IsDigit64(y) /\ s[3] = 128 + y
          /\ z \in Nat /\ IsDigit64(z) /\ s[4] = 128 + z
      BY <1>5, <2>1, SMT DEF IsTail, IsDigit64
    <2>4. (w = 0 => x >= 16) /\ (w = 4 => x < 16)
      BY <1>5, <2>1, SMT DEF MayFollow
    <2>5. s[1] % 8 = w /\ s[2] % 64 = x
      BY <1>5, <2>1, LowBits DEF MayFollow
    <2>6. s[3] % 64 = y /\ s[4] % 64 = z
      BY <1>5, <2>1, LowBits
    <2> HIDE DEF w, x, y, z
    <2>7. Payload(s) = c
      BY <1>5, <2>2, <2>3, <2>5, <2>6, SMT DEF Payload, OfDigits
    <2>8. /\ c \in Nat /\ 65536 <= c /\ Encode(c) \in Seq(Nat) /\ Len(Encode(c)) = 4
          /\ Encode(c)[1] = 240 + w /\ Encode(c)[2] = 128 + x
          /\ Encode(c)[3] = 128 + y /\ Encode(c)[4] = 128 + z
      BY <2>2, <2>3, <2>4, EncodedInFour, SMTT(30)
    <2>9. IsScalar(c)
      BY <2>2, <2>3, <2>4, <2>8, Scalars, SMTT(30)
    <2> HIDE DEF c
    <2>10. Encode(c) = s
      <3>1. /\ Encode(c)[1] = s[1] /\ Encode(c)[2] = s[2]
            /\ Encode(c)[3] = s[3] /\ Encode(c)[4] = s[4]
        BY <2>2, <2>3, <2>8, SMT
      <3>2. \A i \in 1..Len(s) : Encode(c)[i] = s[i]
        BY <1>5, <3>1
      <3>3. Len(Encode(c)) = Len(s) /\ Encode(c) \in Seq(Nat)
        BY <1>5, <2>8, SMT
      <3> QED
        BY <1>1, <3>2, <3>3, SeqEqual
    <2> QED
      BY <1>5, <2>7, <2>8, <2>9, <2>10, SMT
  <1> QED
    BY <1>2, <1>3, <1>4, <1>5, CharacterCases, SMT DEF Shaped

(* And no other bytes encode a scalar value.                                 *)
LEMMA EncodedIsCharacter ==
  ASSUME NEW s \in Seq(Byte), NEW c \in Nat, IsScalar(c), Encode(c) = s
  PROVE  IsCharacter(s)
  <1>1. PICK w \in Nat, x \in Nat, y \in Nat, z \in Nat :
          IsDigit64(x) /\ IsDigit64(y) /\ IsDigit64(z) /\ c = OfDigits(w, x, y, z)
    BY Digits64, Zenon
  <1>2. x < 64 /\ y < 64 /\ z < 64 /\ c = 262144 * w + 4096 * x + 64 * y + z
    BY <1>1, SMT DEF IsDigit64, OfDigits
  <1>3. CASE c < 128
    <2>1. Encode(c) = <<c>>
      BY <1>3, EncodedInOne
    <2>2. Len(s) = 1 /\ s[1] = c
      BY <2>1
    <2> QED
      BY <1>3, <2>2 DEF IsCharacter
  <1>4. CASE 128 <= c /\ c < 2048
    <2> DEFINE v == 64 * x + y
    <2>1. w = 0 /\ v \in Nat /\ c = 64 * v + z /\ 2 <= v /\ v < 32
      BY <1>2, <1>4, SMT
    <2> HIDE DEF v
    <2>2. c = OfDigits(0, 0, v, z)
      BY <2>1, SMT DEF OfDigits
    <2>3. Len(s) = 2 /\ s[1] = 192 + v /\ s[2] = 128 + z
      BY <1>1, <2>1, <2>2, EncodedInTwo, SMT
    <2>4. LeadsTwo(s[1]) /\ IsTail(s[2])
      BY <1>2, <2>1, <2>3, SMT DEF LeadsTwo, IsTail
    <2> QED
      BY <2>3, <2>4, CharacterCases DEF Shaped
  <1>5. CASE 2048 <= c /\ c < 65536
    <2>1. w = 0 /\ x < 16 /\ (x = 0 => y >= 32)
      BY <1>2, <1>5, SMT
    <2>2. c = OfDigits(0, x, y, z)
      BY <1>1, <2>1
    <2>3. x = 13 => y < 32
      BY <1>1, <2>1, <2>2, Scalars, SMT
    <2>4. Len(s) = 3 /\ s[1] = 224 + x /\ s[2] = 128 + y /\ s[3] = 128 + z
      BY <1>1, <2>1, <2>2, EncodedInThree, SMT
    <2>5. LeadsThree(s[1]) /\ MayFollow(s[1], s[2]) /\ IsTail(s[3])
      BY <1>2, <2>1, <2>3, <2>4, SMT DEF LeadsThree, MayFollow, IsTail
    <2> QED
      BY <2>4, <2>5, CharacterCases DEF Shaped
  <1>6. CASE 65536 <= c
    <2>1. OfDigits(w, x, y, z) >= 65536 /\ IsScalar(OfDigits(w, x, y, z))
      BY <1>1, <1>6, SMT
    <2>2. w < 4 \/ (w = 4 /\ x < 16)
      BY <1>1, <2>1, Scalars, SMT
    <2>3. w < 5 /\ (w = 0 => x >= 16) /\ (w = 4 => x < 16)
      <3>1. w = 0 => x >= 16
        BY <1>2, <1>6, SMT
      <3> QED
        BY <2>2, <3>1, SMT
    <2>4. Len(s) = 4 /\ s[1] = 240 + w /\ s[2] = 128 + x /\ s[3] = 128 + y /\ s[4] = 128 + z
      BY <1>1, <2>3, EncodedInFour, SMTT(30)
    <2>5. LeadsFour(s[1]) /\ MayFollow(s[1], s[2])
      BY <1>2, <2>3, <2>4, SMT DEF LeadsFour, MayFollow, IsTail
    <2>6. IsTail(s[3]) /\ IsTail(s[4])
      BY <1>2, <2>4, SMT DEF IsTail
    <2> QED
      BY <2>4, <2>5, <2>6, CharacterCases, SMT DEF Shaped
  <1> QED
    BY <1>3, <1>4, <1>5, <1>6, SMT
----------------------------------------------------------------------------
(* The decoder.                                                              *)

Lead(bytes, at) == bytes[at + 1]
Following(bytes, at) == Len(Continuations(Lead(bytes, at)))

(* The first n bytes after the lead byte are there and fit.                  *)
FirstFit(bytes, at, n) ==
  \A i \in 1..n : /\ at + 1 + i <= Len(bytes)
                  /\ bytes[at + 1 + i] \in Continuations(Lead(bytes, at))[i]

Fitting(bytes, at) ==
  CHOOSE n \in 0..Following(bytes, at) :
    /\ FirstFit(bytes, at, n)
    /\ n < Following(bytes, at) => ~FirstFit(bytes, at, n + 1)

LEMMA FittingIsTheLongest ==
  ASSUME NEW bytes \in Seq(Byte), NEW at \in Nat, at < Len(bytes)
  PROVE  /\ Following(bytes, at) \in Nat /\ Following(bytes, at) < 4
         /\ Fitting(bytes, at) \in 0..Following(bytes, at)
         /\ FirstFit(bytes, at, Fitting(bytes, at))
         /\ Fitting(bytes, at) = Following(bytes, at) <=> FirstFit(bytes, at, Following(bytes, at))
  <1> DEFINE count == Following(bytes, at)
             Fits(n) == FirstFit(bytes, at, n)
  <1>1. Lead(bytes, at) \in Nat
    <2>1. at + 1 \in 1..Len(bytes) /\ \A i \in 1..Len(bytes) : bytes[i] \in Nat
      BY Bytes
    <2> QED
      BY <2>1 DEF Lead
  <1>2. count \in Nat /\ count < 4
    BY <1>1, ContinuationCount DEF Following
  <1>3. Fits(0) /\ \A m, n \in Nat : m <= n /\ Fits(n) => Fits(m)
    BY DEF FirstFit
  <1> HIDE DEF count, Fits
  <1>4. \E n \in 0..count : Fits(n) /\ (n < count => ~Fits(n + 1))
    <2>1. CASE count = 0 \/ ~Fits(1)
      <3>1. 0 \in 0..count /\ 0 + 1 = 1 /\ (0 < count => count # 0)
        BY <1>2
      <3> QED
        BY <1>3, <2>1, <3>1
    <2>2. CASE count # 0 /\ Fits(1) /\ (count = 1 \/ ~Fits(2))
      <3>1. 1 \in 0..count /\ 1 + 1 = 2 /\ (1 < count => count # 1)
        BY <1>2, <2>2
      <3> QED
        BY <2>2, <3>1
    <2>3. CASE count # 0 /\ count # 1 /\ Fits(2) /\ (count = 2 \/ ~Fits(3))
      <3>1. 2 \in 0..count /\ 2 + 1 = 3 /\ (2 < count => count # 2)
        BY <1>2, <2>3
      <3> QED
        BY <2>3, <3>1
    <2>4. CASE count # 0 /\ count # 1 /\ count # 2 /\ Fits(3)
      <3>1. 3 \in 0..count /\ ~(3 < count)
        BY <1>2, <2>4
      <3> QED
        BY <2>4, <3>1
    <2> QED
      BY <2>1, <2>2, <2>3, <2>4
  <1> DEFINE fitting == CHOOSE n \in 0..count : Fits(n) /\ (n < count => ~Fits(n + 1))
  <1>5. fitting \in 0..count /\ Fits(fitting) /\ (fitting < count => ~Fits(fitting + 1))
    <2> HIDE DEF fitting
    <2>1. fitting = CHOOSE n \in 0..count : Fits(n) /\ (n < count => ~Fits(n + 1))
      BY DEF fitting
    <2> QED
      BY <1>4, <2>1, Zenon
  <1>6. fitting = Fitting(bytes, at)
    BY DEF Fitting, count, Fits
  <1> HIDE DEF fitting
  <1>7. fitting = count <=> Fits(count)
    <2>1. ASSUME Fits(count), fitting # count PROVE FALSE
      <3>1. fitting < count /\ fitting + 1 \in Nat /\ fitting + 1 <= count
        BY <1>2, <1>5, <2>1
      <3> QED
        BY <1>2, <1>3, <1>5, <2>1, <3>1
    <2> QED
      BY <1>5, <2>1
  <1> QED
    BY <1>2, <1>5, <1>6, <1>7 DEF count, Fits

(* The bytes it decodes. *)
From(bytes, at, n) == SubSeq(bytes, at + 1, at + n)

LEMMA FromProperties ==
  ASSUME NEW bytes \in Seq(Byte), NEW at \in Nat, NEW n \in Nat, n > 0, at + n <= Len(bytes)
  PROVE  /\ From(bytes, at, n) \in Seq(Byte) /\ Len(From(bytes, at, n)) = n
         /\ \A i \in 1..n : From(bytes, at, n)[i] = bytes[at + i] /\ bytes[at + i] \in Nat
         /\ From(bytes, at, n)[1] = Lead(bytes, at)
  <1>1. /\ From(bytes, at, n) \in Seq(Byte)
        /\ Len(From(bytes, at, n)) = n
        /\ \A i \in 1..n : From(bytes, at, n)[i] = bytes[at + i]
    <2>1. \A i \in at + 1..at + n : bytes[i] \in Byte
      BY ElementOfSeq
    <2>2. /\ at + 1 \in Int /\ at + n \in Int /\ at + 1 <= at + n
          /\ (at + n) - (at + 1) + 1 = n /\ \A i \in 1..n : (at + 1) + i - 1 = at + i
      OBVIOUS
    <2> QED
      BY <2>1, <2>2, SubSeqProperties DEF From
  <1>2. \A i \in 1..n : bytes[at + i] \in Nat
    BY Bytes
  <1>3. 1 \in 1..n
    OBVIOUS
  <1>4. From(bytes, at, n)[1] = Lead(bytes, at)
    BY <1>1, <1>3 DEF Lead
  <1> QED
    BY <1>1, <1>2, <1>4

(* It begins with a character of so many bytes when they all fit.            *)
LEMMA CharacterWhenAllFit ==
  ASSUME NEW bytes \in Seq(Byte), NEW at \in Nat, NEW n \in Nat, n > 0, at + n <= Len(bytes)
  PROVE  IsCharacter(From(bytes, at, n))
           <=> \/ n = 1 /\ Lead(bytes, at) < 128
               \/ n > 1 /\ Following(bytes, at) = n - 1 /\ FirstFit(bytes, at, n - 1)
  <1> DEFINE s == From(bytes, at, n)
  <1>1. /\ s \in Seq(Byte) /\ Len(s) = n /\ s[1] = Lead(bytes, at)
        /\ \A i \in 1..n : s[i] = bytes[at + i]
    BY FromProperties
  <1> HIDE DEF s
  <1>2. ASSUME NEW i \in 1..n - 1
        PROVE  /\ s[i + 1] = bytes[at + 1 + i] /\ at + 1 + i <= Len(bytes)
    <2>1. i + 1 \in 1..n /\ at + (i + 1) = at + 1 + i
      OBVIOUS
    <2> QED
      BY <1>1, <2>1
  <1>3. FirstFit(bytes, at, n - 1) <=> \A i \in 1..n - 1 : s[i + 1] \in Continuations(s[1])[i]
    BY <1>1, <1>2 DEF FirstFit
  <1>4. IsCharacter(s) <=> \/ n = 1 /\ s[1] < 128
                           \/ /\ n > 1 /\ Len(Continuations(s[1])) = n - 1
                              /\ \A i \in 1..n - 1 : s[i + 1] \in Continuations(s[1])[i]
    BY <1>1 DEF IsCharacter
  <1>5. Following(bytes, at) = Len(Continuations(s[1]))
    BY <1>1 DEF Following
  <1> QED
    BY <1>1, <1>3, <1>4, <1>5 DEF s

(* What Decode shows, said without its CHOOSE. *)
LEMMA DecodeCases ==
  ASSUME NEW bytes \in Seq(Byte), NEW at \in Nat, at <= Len(bytes)
  PROVE  LET lead == Lead(bytes, at)
             count == Following(bytes, at)
             fit == FirstFit(bytes, at, count)
             next == Decode(bytes, at)
             One == Continued(LeadBits(lead), bytes[at + 2])
             Two == Continued(One, bytes[at + 3])
             Three == Continued(Two, bytes[at + 4])
         IN  /\ at = Len(bytes) => next = Decoded("end", 0, at)
             /\ at < Len(bytes) /\ lead < 128 => next = Decoded("char", lead, at + 1)
             /\ at < Len(bytes) /\ lead >= 128 /\ (count = 0 \/ ~fit)
                  => /\ next.kind = "malformed"
                     /\ next.at \in at + 1..Len(bytes)
             /\ at < Len(bytes) /\ lead >= 128 /\ count > 0 /\ fit
                  => next = Decoded("char", CASE count = 1 -> One [] count = 2 -> Two [] count = 3 -> Three,
                                    at + 1 + count)
  <1> DEFINE lead == Lead(bytes, at)
             count == Following(bytes, at)
             fit == FirstFit(bytes, at, count)
             next == Decode(bytes, at)
             One == Continued(LeadBits(lead), bytes[at + 2])
             Two == Continued(One, bytes[at + 3])
             Three == Continued(Two, bytes[at + 4])
             fitting == Fitting(bytes, at)
             past == at + 1 + fitting
             value == CASE count = 1 -> One [] count = 2 -> Two [] count = 3 -> Three
  <1>1. at = Len(bytes) => next = Decoded("end", 0, at)
    BY DEF Decode
  <1>2. ASSUME at < Len(bytes)
        PROVE  /\ lead < 128 => next = Decoded("char", lead, at + 1)
               /\ lead >= 128 /\ (count = 0 \/ ~fit)
                    => next.kind = "malformed" /\ next.at \in at + 1..Len(bytes)
               /\ lead >= 128 /\ count > 0 /\ fit => next = Decoded("char", value, at + 1 + count)
    <2>1. /\ count \in Nat /\ fitting \in 0..count /\ FirstFit(bytes, at, fitting)
          /\ fitting = count <=> fit
      BY <1>2, FittingIsTheLongest
    <2>2. lead \in Nat /\ Len(bytes) \in Nat
      <3>1. at + 1 \in 1..Len(bytes) /\ Len(bytes) \in Nat /\ \A i \in 1..Len(bytes) : bytes[i] \in Nat
        BY <1>2, Bytes
      <3> QED
        BY <3>1 DEF Lead
    <2>3. next = CASE lead < 128 -> Decoded("char", lead, at + 1)
                   [] lead >= 128 /\ count = 0 -> Decoded("malformed", 0, at + 1)
                   [] lead >= 128 /\ count > fitting ->
                        Decoded("malformed", 0, IF past < Len(bytes) THEN past + 1 ELSE past)
                   [] OTHER -> Decoded("char", value, past)
      <3>1. at # Len(bytes)
        BY <1>2
      <3> QED
        BY <3>1 DEF Decode, Lead, Following, Fitting, FirstFit
    <2>4. past <= Len(bytes) /\ past \in Nat
      <3>1. fitting \in Nat /\ (fitting = 0 \/ fitting \in 1..fitting)
        BY <2>1
      <3>2. CASE fitting = 0
        BY <1>2, <2>2, <3>2
      <3>3. CASE fitting \in 1..fitting
        BY <2>1, <3>1, <3>3 DEF FirstFit
      <3> QED
        BY <3>1, <3>2, <3>3
    <2> HIDE DEF lead, count, fit, next, fitting, value
    <2>5. lead < 128 => next = Decoded("char", lead, at + 1)
      BY <2>2, <2>3
    <2>6. lead >= 128 /\ count = 0 => next = Decoded("malformed", 0, at + 1)
      BY <2>1, <2>2, <2>3
    <2>7. lead >= 128 /\ count > 0 /\ ~fit
            => next = Decoded("malformed", 0, IF past < Len(bytes) THEN past + 1 ELSE past)
      BY <2>1, <2>2, <2>3
    <2>8. lead >= 128 /\ count > 0 /\ fit => next = Decoded("char", value, past) /\ past = at + 1 + count
      BY <2>1, <2>2, <2>3
    <2>9. at + 1 \in at + 1..Len(bytes)
          /\ (IF past < Len(bytes) THEN past + 1 ELSE past) \in at + 1..Len(bytes)
      BY <1>2, <2>1, <2>2, <2>4
    <2>10. \A k, v, a : Decoded(k, v, a).kind = k /\ Decoded(k, v, a).at = a
      BY DEF Decoded
    <2> QED
      BY <2>1, <2>5, <2>6, <2>7, <2>8, <2>9, <2>10
  <1> QED
    BY <1>1, <1>2

(* The code point it computes is the character's.                            *)
LEMMA DecodedValue ==
  ASSUME NEW bytes \in Seq(Byte), NEW at \in Nat, NEW n \in Nat, n > 0, at + n <= Len(bytes),
         IsCharacter(From(bytes, at, n))
  PROVE  /\ Decode(bytes, at) = Decoded("char", Payload(From(bytes, at, n)), at + n)
         /\ n < 5
  <1> DEFINE lead == Lead(bytes, at)
             count == Following(bytes, at)
             s == From(bytes, at, n)
             One == Continued(LeadBits(lead), bytes[at + 2])
             Two == Continued(One, bytes[at + 3])
             Three == Continued(Two, bytes[at + 4])
  <1>1. /\ s \in Seq(Byte) /\ Len(s) = n /\ s[1] = lead
        /\ \A i \in 1..n : s[i] = bytes[at + i] /\ s[i] \in Nat
    BY FromProperties
  <1>2. at < Len(bytes) /\ at <= Len(bytes) /\ Len(bytes) \in Nat /\ lead \in Nat
    <2>1. 1 \in 1..n
      OBVIOUS
    <2> QED
      BY <1>1, <2>1
  <1>3. CASE n = 1 /\ lead < 128
    <2>1. Decode(bytes, at) = Decoded("char", lead, at + 1)
      BY <1>2, <1>3, DecodeCases
    <2>2. Payload(s) = lead
      BY <1>1, <1>3, SMT DEF Payload
    <2> QED
      BY <1>3, <2>1, <2>2
  <1>4. CASE n > 1 /\ count = n - 1 /\ FirstFit(bytes, at, n - 1)
    <2>1. count > 0 /\ FirstFit(bytes, at, count) /\ at + 1 + count = at + n
      BY <1>4
    <2>2. Shaped(s)
      BY <1>1, CharacterCases
    <2>3. lead >= 128
      BY <1>1, <1>2, <1>4, <2>2 DEF Shaped, LeadsTwo, LeadsThree, LeadsFour
    <2>4. Decode(bytes, at)
            = Decoded("char", CASE count = 1 -> One [] count = 2 -> Two [] count = 3 -> Three, at + n)
      BY <1>2, <2>1, <2>3, DecodeCases
    <2>5. CASE n = 2 /\ LeadsTwo(lead)
      <3>1. One = Payload(s)
        <4>1. s[2] = bytes[at + 2]
          BY <1>1, <2>5
        <4>2. LeadBits(lead) = lead % 32
          BY <1>2, <2>5 DEF LeadBits, LeadsTwo
        <4> QED
          BY <1>1, <2>5, <4>1, <4>2, SMT DEF Payload, Continued
      <3>2. count = 1
        BY <1>4, <2>5
      <3> QED
        BY <2>4, <2>5, <3>1, <3>2
    <2>6. CASE n = 3 /\ LeadsThree(lead)
      <3>1. Two = Payload(s)
        <4>1. s[2] = bytes[at + 2] /\ s[3] = bytes[at + 3] /\ s[2] \in Nat /\ s[3] \in Nat
          BY <1>1, <2>6
        <4>2. LeadBits(lead) = lead % 16
          BY <1>2, <2>6 DEF LeadBits, LeadsThree
        <4> DEFINE a == lead % 16
                   b == s[2] % 64
                   d == s[3] % 64
        <4>3. a \in Nat /\ b \in Nat /\ d \in Nat
          BY <1>2, <4>1, LowBits
        <4>4. Payload(s) = 4096 * a + 64 * b + d
          BY <1>1, <2>6, SMT DEF Payload
        <4>5. Two = 64 * (64 * a + b) + d
          BY <4>1, <4>2, SMT DEF Continued
        <4> HIDE DEF a, b, d
        <4> QED
          BY <4>3, <4>4, <4>5, SMT
      <3>2. count = 2
        BY <1>4, <2>6
      <3> QED
        BY <2>4, <2>6, <3>1, <3>2
    <2>7. CASE n = 4 /\ LeadsFour(lead)
      <3>1. Three = Payload(s)
        <4>1. /\ s[2] = bytes[at + 2] /\ s[3] = bytes[at + 3] /\ s[4] = bytes[at + 4]
              /\ s[2] \in Nat /\ s[3] \in Nat /\ s[4] \in Nat
          BY <1>1, <2>7
        <4>2. LeadBits(lead) = lead % 8
          BY <1>2, <2>7 DEF LeadBits, LeadsFour
        <4> DEFINE a == lead % 8
                   b == s[2] % 64
                   d == s[3] % 64
                   e == s[4] % 64
        <4>3. a \in Nat /\ b \in Nat /\ d \in Nat /\ e \in Nat
          BY <1>2, <4>1, LowBits
        <4>4. Payload(s) = 262144 * a + 4096 * b + 64 * d + e
          BY <1>1, <2>7, SMT DEF Payload
        <4>5. Three = 64 * (64 * (64 * a + b) + d) + e
          BY <4>1, <4>2, SMT DEF Continued
        <4> HIDE DEF a, b, d, e
        <4> QED
          BY <4>3, <4>4, <4>5, SMT
      <3>2. count = 3
        BY <1>4, <2>7
      <3> QED
        BY <2>4, <2>7, <3>1, <3>2
    <2> QED
      BY <1>1, <1>4, <2>2, <2>5, <2>6, <2>7 DEF Shaped
  <1>5. (n = 1 /\ lead < 128) \/ (n > 1 /\ count = n - 1 /\ FirstFit(bytes, at, n - 1))
    BY CharacterWhenAllFit
  <1> QED
    BY <1>3, <1>4, <1>5
LEMMA Decoding ==
  ASSUME NEW bytes \in Seq(Byte), NEW at \in Nat, at <= Len(bytes)
  PROVE  LET next == Decode(bytes, at)
         IN  /\ next.kind \in {"char", "end", "malformed"}
             /\ next.kind = "end" <=> at = Len(bytes)
             /\ next.kind # "end" => next.at \in at + 1..Len(bytes)
             /\ next.kind = "char" => \E n \in {1, 2, 3, 4} :
                                        /\ next.at = at + n /\ at + n <= Len(bytes)
                                        /\ IsCharacter(From(bytes, at, n))
  <1> DEFINE next == Decode(bytes, at)
             lead == Lead(bytes, at)
             count == Following(bytes, at)
  <1>1. \A k, v, a : Decoded(k, v, a).kind = k /\ Decoded(k, v, a).at = a
    BY DEF Decoded
  <1>2. CASE at = Len(bytes)
    <2>1. next = Decoded("end", 0, at)
      BY <1>2, DecodeCases
    <2> HIDE DEF next
    <2>2. next.kind = "end"
      BY <1>1, <2>1
    <2> QED
      BY <1>2, <2>2 DEF next
  <1>3. CASE at # Len(bytes)
    <2>1. at < Len(bytes) /\ Len(bytes) \in Nat
      BY <1>3
    <2>2. lead \in Nat /\ count \in Nat /\ count < 4
      <3>1. at + 1 \in 1..Len(bytes) /\ \A i \in 1..Len(bytes) : bytes[i] \in Nat
        BY <2>1, Bytes
      <3>2. lead \in Nat
        BY <3>1 DEF Lead
      <3> QED
        BY <2>1, <3>2, FittingIsTheLongest
    <2>3. CASE lead < 128
      <3>1. next = Decoded("char", lead, at + 1)
        BY <2>1, <2>3, DecodeCases
      <3>2. at + 1 <= Len(bytes) /\ at + 1 \in at + 1..Len(bytes)
        BY <2>1
      <3>3. IsCharacter(From(bytes, at, 1))
        BY <2>3, <3>2, CharacterWhenAllFit
      <3> HIDE DEF next
      <3>4. next.kind = "char" /\ next.at = at + 1
        BY <1>1, <3>1
      <3> QED
        BY <1>3, <3>2, <3>3, <3>4 DEF next
    <2>4. CASE lead >= 128 /\ (count = 0 \/ ~FirstFit(bytes, at, count))
      <3>1. next.kind = "malformed" /\ next.at \in at + 1..Len(bytes)
        BY <2>1, <2>4, DecodeCases
      <3> QED
        BY <1>3, <3>1
    <2>5. CASE lead >= 128 /\ count > 0 /\ FirstFit(bytes, at, count)
      <3> DEFINE n == count + 1
      <3>1. PICK v : next = Decoded("char", v, at + 1 + count)
        BY <2>1, <2>5, DecodeCases
      <3> HIDE DEF next
      <3>2. next.kind = "char" /\ next.at = at + 1 + count
        BY <1>1, <3>1
      <3> HIDE DEF count
      <3>3. n \in {1, 2, 3, 4} /\ n > 1 /\ n \in Nat /\ n - 1 = count /\ next.at = at + n
        BY <2>2, <2>5, <3>2
      <3>4. at + 1 + count <= Len(bytes)
        <4>1. count \in 1..count
          BY <2>2, <2>5
        <4> QED
          BY <2>5, <4>1 DEF FirstFit
      <3>5. at + n <= Len(bytes) /\ next.at \in at + 1..Len(bytes)
        BY <2>1, <2>2, <3>2, <3>3, <3>4
      <3> HIDE DEF n
      <3>6. FirstFit(bytes, at, n - 1) /\ count = n - 1
        BY <2>5, <3>3
      <3>7. IsCharacter(From(bytes, at, n))
        BY <3>3, <3>5, <3>6, CharacterWhenAllFit DEF count
      <3> QED
        BY <1>3, <3>2, <3>3, <3>5, <3>7 DEF next
    <2> QED
      BY <2>2, <2>3, <2>4, <2>5
  <1> QED
    BY <1>2, <1>3

(* The bytes that DecodesUtf8 compares with.                                 *)
AheadOf(bytes, at) ==
  SubSeq(bytes, at + 1, IF at + 4 < Len(bytes) THEN at + 4 ELSE Len(bytes))

LEMMA AheadBeginsAlike ==
  ASSUME NEW bytes \in Seq(Byte), NEW at \in Nat, at <= Len(bytes)
  PROVE  /\ AheadOf(bytes, at) = << >> <=> at = Len(bytes)
         /\ Len(AheadOf(bytes, at)) \in Nat
         /\ \A n \in {1, 2, 3, 4} : n <= Len(AheadOf(bytes, at)) <=> at + n <= Len(bytes)
         /\ \A n \in {1, 2, 3, 4} :
              n <= Len(AheadOf(bytes, at)) => SubSeq(AheadOf(bytes, at), 1, n) = From(bytes, at, n)
  <1> DEFINE last == IF at + 4 < Len(bytes) THEN at + 4 ELSE Len(bytes)
             ahead == AheadOf(bytes, at)
  <1>1. Len(bytes) \in Nat /\ last \in Nat /\ last <= Len(bytes) /\ last >= at
    OBVIOUS
  <1>2. \A n \in {1, 2, 3, 4} : at + n <= last <=> at + n <= Len(bytes)
    BY <1>1
  <1>3. last = at <=> at = Len(bytes)
    BY <1>1
  <1>4. ahead = SubSeq(bytes, at + 1, last)
    BY DEF AheadOf
  <1> HIDE DEF last, ahead
  <1>5. /\ ahead \in Seq(Byte) /\ Len(ahead) = last - at
        /\ \A i \in 1..last - at : ahead[i] = bytes[at + i]
    <2>1. \A i \in at + 1..last : bytes[i] \in Byte
      BY <1>1, ElementOfSeq
    <2>2. /\ at + 1 \in Int /\ last \in Int /\ last - (at + 1) + 1 = last - at
          /\ (IF at + 1 <= last THEN last - (at + 1) + 1 ELSE 0) = last - at
          /\ \A i \in 1..last - at : (at + 1) + i - 1 = at + i
      BY <1>1
    <2> QED
      BY <1>4, <2>1, <2>2, SubSeqProperties
  <1>6. ASSUME NEW n \in Nat, n > 0, n <= Len(ahead), at + n <= Len(bytes)
        PROVE  SubSeq(ahead, 1, n) = From(bytes, at, n)
    <2>1. /\ SubSeq(ahead, 1, n) \in Seq(Byte) /\ Len(SubSeq(ahead, 1, n)) = n
          /\ \A i \in 1..n : SubSeq(ahead, 1, n)[i] = ahead[i]
      <3>1. \A i \in 1..n : ahead[i] \in Byte
        BY <1>1, <1>5, <1>6, ElementOfSeq
      <3>2. 1 \in Int /\ n \in Int /\ 1 <= n /\ n - 1 + 1 = n /\ \A i \in 1..n : 1 + i - 1 = i
        BY <1>6
      <3> QED
        BY <3>1, <3>2, SubSeqProperties
    <2>2. /\ From(bytes, at, n) \in Seq(Byte) /\ Len(From(bytes, at, n)) = n
          /\ \A i \in 1..n : From(bytes, at, n)[i] = bytes[at + i]
      BY <1>6, FromProperties
    <2>3. \A i \in 1..n : SubSeq(ahead, 1, n)[i] = From(bytes, at, n)[i]
      <3> DEFINE m == last - at
      <3>1. m \in Nat /\ n <= m
        BY <1>1, <1>5, <1>6
      <3> HIDE DEF m
      <3>2. \A i \in 1..n : i \in 1..m
        BY <3>1
      <3>3. \A i \in 1..n : ahead[i] = bytes[at + i]
        BY <1>5, <3>2 DEF m
      <3> QED
        BY <2>1, <2>2, <3>3
    <2> QED
      BY <2>1, <2>2, <2>3, SeqEqual
  <1>7. ahead = << >> <=> last = at
    BY <1>1, <1>5, EmptySeq
  <1>8. \A n \in {1, 2, 3, 4} : n <= last - at <=> at + n <= last
    BY <1>1
  <1>9. Len(ahead) \in Nat
    BY <1>1, <1>5
  <1>10. \A n \in {1, 2, 3, 4} : n \in Nat /\ n > 0
    OBVIOUS
  <1>11. \A n \in {1, 2, 3, 4} : n <= Len(ahead) <=> at + n <= Len(bytes)
    BY <1>2, <1>5, <1>8
  <1>12. \A n \in {1, 2, 3, 4} : n <= Len(ahead) => SubSeq(ahead, 1, n) = From(bytes, at, n)
    BY <1>6, <1>10, <1>11
  <1> QED
    BY <1>3, <1>7, <1>9, <1>11, <1>12 DEF ahead

LEMMA DecoderIsUtf8 ==
  ASSUME NEW bytes \in Seq(Byte), NEW at \in Nat, at <= Len(bytes)
  PROVE  LET ahead == AheadOf(bytes, at)
             next == Decode(bytes, at)
         IN  /\ next.kind = "char" <=> WellFormed(ahead) > 0
             /\ next.kind = "char" => SubSeq(bytes, at + 1, next.at) = Encode(next.value)
             /\ next.kind = "end" <=> ahead = << >>
  <1> DEFINE ahead == AheadOf(bytes, at)
             next == Decode(bytes, at)
             Encodes(n) == /\ n <= Len(ahead)
                           /\ IsScalar(Payload(SubSeq(ahead, 1, n)))
                           /\ Encode(Payload(SubSeq(ahead, 1, n))) = SubSeq(ahead, 1, n)
  <1>1. \A n \in {1, 2, 3, 4} : n \in Nat /\ n > 0
    OBVIOUS
  <1>2. ASSUME NEW n \in {1, 2, 3, 4}
        PROVE  Encodes(n) <=> at + n <= Len(bytes) /\ IsCharacter(From(bytes, at, n))
    <2> DEFINE s == From(bytes, at, n)
    <2>1. n <= Len(ahead) <=> at + n <= Len(bytes)
      BY AheadBeginsAlike
    <2>2. CASE n <= Len(ahead)
      <3>1. at + n <= Len(bytes) /\ SubSeq(ahead, 1, n) = s
        BY <2>1, <2>2, AheadBeginsAlike
      <3>2. s \in Seq(Byte)
        BY <1>1, <3>1, FromProperties
      <3>3. IsCharacter(s) => IsScalar(Payload(s)) /\ Encode(Payload(s)) = s
        BY <3>2, CharacterIsEncoded
      <3>4. IsScalar(Payload(s)) /\ Encode(Payload(s)) = s => IsCharacter(s)
        <4>1. IsScalar(Payload(s)) => Payload(s) \in Nat
          BY SMT DEF IsScalar
        <4> QED
          BY <3>2, <4>1, EncodedIsCharacter
      <3> HIDE DEF s, ahead
      <3>5. Encodes(n) <=> IsScalar(Payload(s)) /\ Encode(Payload(s)) = s
        BY <2>2, <3>1
      <3> QED
        BY <3>1, <3>3, <3>4, <3>5 DEF s
    <2>3. CASE ~(n <= Len(ahead))
      <3>1. ~Encodes(n) /\ ~(at + n <= Len(bytes))
        BY <2>1, <2>3
      <3> QED
        BY <3>1
    <2> QED
      BY <2>2, <2>3
  <1>3. WellFormed(ahead) > 0 <=> \E n \in {1, 2, 3, 4} : Encodes(n)
    <2>1. 1..4 = {1, 2, 3, 4}
      OBVIOUS
    <2>2. WellFormed(ahead) = IF \E n \in 1..4 : Encodes(n) THEN CHOOSE n \in 1..4 : Encodes(n) ELSE 0
      BY DEF WellFormed
    <2> HIDE DEF Encodes
    <2>3. CASE \E n \in 1..4 : Encodes(n)
      <3>1. WellFormed(ahead) = CHOOSE n \in 1..4 : Encodes(n)
        BY <2>2, <2>3
      <3>2. WellFormed(ahead) \in 1..4
        BY <2>3, <3>1, Zenon
      <3> QED
        BY <2>1, <2>3, <3>2
    <2>4. CASE ~\E n \in 1..4 : Encodes(n)
      BY <2>1, <2>2, <2>4
    <2> QED
      BY <2>3, <2>4
  <1>4. next.kind = "char" <=> \E n \in {1, 2, 3, 4} : at + n <= Len(bytes) /\ IsCharacter(From(bytes, at, n))
    <2>1. ASSUME NEW n \in {1, 2, 3, 4}, at + n <= Len(bytes), IsCharacter(From(bytes, at, n))
          PROVE  next.kind = "char"
      <3>1. next = Decoded("char", Payload(From(bytes, at, n)), at + n)
        BY <1>1, <2>1, DecodedValue
      <3> HIDE DEF next
      <3> QED
        BY <3>1 DEF Decoded
    <2> QED
      BY <2>1, Decoding
  <1>5. next.kind = "char" <=> WellFormed(ahead) > 0
    <2> HIDE DEF next, ahead, Encodes
    <2> QED
      BY <1>2, <1>3, <1>4
  <1>6. ASSUME next.kind = "char"
        PROVE  SubSeq(bytes, at + 1, next.at) = Encode(next.value)
    <2>1. PICK n \in {1, 2, 3, 4} : at + n <= Len(bytes) /\ IsCharacter(From(bytes, at, n))
      BY <1>4, <1>6
    <2>2. next = Decoded("char", Payload(From(bytes, at, n)), at + n)
      BY <1>1, <2>1, DecodedValue
    <2>3. From(bytes, at, n) \in Seq(Byte)
      BY <1>1, <2>1, FromProperties
    <2>4. Encode(Payload(From(bytes, at, n))) = From(bytes, at, n)
      BY <2>1, <2>3, CharacterIsEncoded
    <2> HIDE DEF next
    <2>5. next.at = at + n /\ next.value = Payload(From(bytes, at, n))
      BY <2>2 DEF Decoded
    <2> QED
      BY <2>4, <2>5 DEF From
  <1>7. next.kind = "end" <=> ahead = << >>
    BY AheadBeginsAlike, Decoding
  <1> QED
    BY <1>5, <1>6, <1>7
----------------------------------------------------------------------------
(* The inductive invariant.                                                  *)

Elements(s) == {s[i] : i \in 1..Len(s)}
Sequence(s) == s \in Seq(Elements(s))

Busy == {"trivia", "word", "integer", "suffix", "fraction", "operator", "reference"}
Places == [line : Nat \ {0}, column : Nat \ {0}]

ReaderOf(bytes, r) ==
  /\ r = [at |-> r.at, ring |-> r.ring]
  /\ r.at \in Nat /\ r.at <= Len(bytes)
  /\ RingOf(r.ring, Nat) /\ r.ring.capacity = Capacity

ReaderHolds == text \in Texts /\ ReaderOf(text, reader)

LexingHolds ==
  /\ location \in Places
  /\ state \in Busy \cup {"idle"}
  /\ suffix_digits \in Nat
  /\ building \in BOOLEAN

HistoryHolds ==
  /\ Sequence(made)
  /\ taken \in Seq(Elements(made))
  /\ RingOf(buffer, Elements(made))

(* The calls of lex() the client may still make; a peek in progress leaves   *)
(* enough of them for what it is to buffer.                                  *)
Left == MaxLexemes(text) - Len(made)

RequestHolds ==
  /\ request = NoRequest \/ request \in [op : {"peek", "read"}, offset : 0..MaxPeek]
  /\ request = NoRequest => state = "idle"
  /\ Left >= 0
  /\ state # "idle" => Left >= 1
  /\ Awaited => Len(made) > 0
  /\ request.op = "read" => buffer.size = 0
  /\ request.op = "peek" =>
       /\ buffer.size <= request.offset
       /\ state = "idle" => request.offset - buffer.size <= Left
       /\ state # "idle" => request.offset - buffer.size + 1 <= Left

(* LexemesInOrder of any history, any lexemes given and any part of it told. *)
Chosen(s, n) == {i \in 1..n : s[i].outcome = "lexeme"}
Among(s, n) == Cardinality(Chosen(s, n))
Ordered(s, given, n) ==
  /\ Len(given) = Among(s, n)
  /\ \A i \in 1..n : s[i].outcome = "lexeme" => given[Among(s, i)] = s[i]
OrderHolds == Ordered(made, Given, Told)

IInv ==
  ReaderHolds /\ LexingHolds /\ HistoryHolds /\ RequestHolds /\ OrderHolds /\ StoreHoldsTheLexemes

----------------------------------------------------------------------------
(* Histories.                                                                *)

LEMMA SeqOfMore ==
  ASSUME NEW V, NEW W, V \subseteq W, NEW s \in Seq(V)
  PROVE  s \in Seq(W)
  <1>1. /\ Len(s) \in Nat /\ s = [i \in 1..Len(s) |-> s[i]] /\ \A i \in 1..Len(s) : s[i] \in W
    BY ElementOfSeq
  <1>2. s \in [1..Len(s) -> W]
    BY <1>1
  <1> QED
    BY <1>1, <1>2

LEMMA RingOfMore ==
  ASSUME NEW V, NEW W, V \subseteq W, NEW ring, RingOf(ring, V)
  PROVE  RingOf(ring, W)
  <1>1. Cells(V) \subseteq Cells(W)
    BY DEF Cells
  <1>2. ring.slots \in [0..ring.capacity - 1 -> Cells(W)]
    BY <1>1 DEF RingOf
  <1> QED
    BY <1>2 DEF RingOf

LEMMA HistoryGrows ==
  ASSUME NEW s, Sequence(s), NEW x
  PROVE  /\ Sequence(Append(s, x))
         /\ Elements(s) \subseteq Elements(Append(s, x))
         /\ Len(s) \in Nat /\ Len(Append(s, x)) = Len(s) + 1
         /\ \A i \in 1..Len(s) : Append(s, x)[i] = s[i]
         /\ Append(s, x)[Len(s) + 1] = x
  <1> DEFINE t == Append(s, x)
             V == Elements(s) \cup {x}
  <1>1. s \in Seq(V) /\ x \in V
    <2>1. s \in Seq(Elements(s)) /\ Elements(s) \subseteq V
      BY DEF Sequence
    <2> HIDE DEF V
    <2>2. s \in Seq(V)
      BY <2>1, SeqOfMore
    <2> QED
      BY <2>2 DEF V
  <1> HIDE DEF V
  <1>2. /\ t \in Seq(V) /\ Len(s) \in Nat /\ Len(t) = Len(s) + 1
        /\ \A i \in 1..Len(s) : t[i] = s[i]
        /\ t[Len(s) + 1] = x
    BY <1>1, AppendProperties
  <1> HIDE DEF t
  <1>3. \A i \in 1..Len(t) : i \in 1..Len(s) \/ i = Len(s) + 1
    BY <1>2
  <1>4. Elements(s) \subseteq Elements(t)
    BY <1>2 DEF Elements
  <1>5. t = [i \in 1..Len(t) |-> t[i]]
    BY <1>2, LenProperties
  <1>6. t \in [1..Len(t) -> Elements(t)]
    BY <1>5 DEF Elements
  <1>7. t \in Seq(Elements(t))
    BY <1>2, <1>6
  <1> QED
    BY <1>2, <1>4, <1>7 DEF t, Sequence

----------------------------------------------------------------------------
(* Counting the lexemes of a history.                                        *)

LEMMA AmongCounts ==
  ASSUME NEW s, NEW n \in Nat
  PROVE  /\ IsFiniteSet(Chosen(s, n)) /\ Among(s, n) \in Nat
         /\ Among(s, n + 1) = IF s[n + 1].outcome = "lexeme" THEN Among(s, n) + 1 ELSE Among(s, n)
  <1>1. IsFiniteSet(1..n) /\ Chosen(s, n) \subseteq 1..n
    BY FS_Interval DEF Chosen
  <1>2. IsFiniteSet(Chosen(s, n)) /\ Among(s, n) \in Nat
    BY <1>1, FS_Subset, FS_CardinalityType DEF Among
  <1>3. 1..n + 1 = 1..n \cup {n + 1} /\ ~(n + 1 \in 1..n)
    OBVIOUS
  <1>4. CASE s[n + 1].outcome = "lexeme"
    <2>1. Chosen(s, n + 1) = Chosen(s, n) \cup {n + 1} /\ ~(n + 1 \in Chosen(s, n))
      BY <1>3, <1>4 DEF Chosen
    <2> QED
      BY <1>2, <1>4, <2>1, FS_AddElement DEF Among
  <1>5. CASE s[n + 1].outcome # "lexeme"
    <2>1. Chosen(s, n + 1) = Chosen(s, n)
      BY <1>3, <1>5 DEF Chosen
    <2> QED
      BY <1>2, <1>5, <2>1 DEF Among
  <1> QED
    BY <1>2, <1>4, <1>5

LEMMA AmongRises ==
  ASSUME NEW s, NEW n \in Nat, NEW i \in 1..n, s[i].outcome = "lexeme"
  PROVE  Among(s, i) \in 1..Among(s, n)
  <1>1. i \in Nat /\ i - 1 \in Nat /\ (i - 1) + 1 = i
    OBVIOUS
  <1>2. Among(s, i) = Among(s, i - 1) + 1 /\ Among(s, i - 1) \in Nat
    BY <1>1, AmongCounts
  <1>3. Chosen(s, i) \subseteq Chosen(s, n)
    BY DEF Chosen
  <1>4. Among(s, i) <= Among(s, n) /\ Among(s, n) \in Nat
    BY <1>3, AmongCounts, FS_Subset DEF Among
  <1> QED
    BY <1>2, <1>4

LEMMA OrderedAlike ==
  ASSUME NEW s, NEW t, NEW n \in Nat, \A i \in 1..n : s[i] = t[i], NEW given, Ordered(s, given, n)
  PROVE  Ordered(t, given, n)
  <1>1. \A i \in 1..n : Chosen(s, i) = Chosen(t, i)
    BY DEF Chosen
  <1>2. Chosen(s, n) = Chosen(t, n)
    BY DEF Chosen
  <1> QED
    BY <1>1, <1>2 DEF Ordered, Among

(* An error adds nothing to the order; a lexeme is given next.               *)
LEMMA OrderedOn ==
  ASSUME NEW s, NEW n \in Nat, NEW V, NEW given \in Seq(V), Ordered(s, given, n)
  PROVE  /\ s[n + 1].outcome # "lexeme" => Ordered(s, given, n + 1)
         /\ s[n + 1].outcome = "lexeme" /\ s[n + 1] \in V => Ordered(s, Append(given, s[n + 1]), n + 1)
  <1>1. \A i \in 1..n + 1 : i \in 1..n \/ i = n + 1
    OBVIOUS
  <1>2. ASSUME s[n + 1].outcome # "lexeme"
        PROVE  Ordered(s, given, n + 1)
    <2>1. Among(s, n + 1) = Among(s, n)
      BY <1>2, AmongCounts
    <2> QED
      BY <1>1, <1>2, <2>1 DEF Ordered
  <1>3. ASSUME s[n + 1].outcome = "lexeme", s[n + 1] \in V
        PROVE  Ordered(s, Append(given, s[n + 1]), n + 1)
    <2> DEFINE x == s[n + 1]
               m == Among(s, n)
    <2>1. Among(s, n + 1) = m + 1 /\ m \in Nat /\ Len(given) = m
      BY <1>3, AmongCounts DEF Ordered
    <2>2. /\ Len(Append(given, x)) = m + 1
          /\ \A k \in 1..m : Append(given, x)[k] = given[k]
          /\ Append(given, x)[m + 1] = x
      BY <1>3, <2>1, AppendProperties
    <2>3. ASSUME NEW i \in 1..n, s[i].outcome = "lexeme"
          PROVE  Append(given, x)[Among(s, i)] = s[i]
      <3>1. Among(s, i) \in 1..m
        BY <2>3, AmongRises
      <3> QED
        BY <2>2, <2>3, <3>1 DEF Ordered
    <2> HIDE DEF m, x
    <2>4. Append(given, x)[Among(s, n + 1)] = s[n + 1]
      BY <2>1, <2>2 DEF x
    <2>5. \A i \in 1..n + 1 : s[i].outcome = "lexeme" => Append(given, x)[Among(s, i)] = s[i]
      BY <1>1, <2>3, <2>4
    <2> QED
      BY <2>1, <2>2, <2>5 DEF Ordered, x
  <1> QED
    BY <1>2, <1>3

----------------------------------------------------------------------------
(* The steps of lex().                                                       *)

LEMMA TextIsBytes ==
  ASSUME text \in Texts
  PROVE  text \in Seq(Byte) /\ Len(text) \in Nat /\ MaxLexemes(text) \in Nat
  <1>1. text \in Seq(Byte) /\ MaxLexemes(text) \in Nat
    BY LexerAssumption
  <1> QED
    BY <1>1, LenProperties

LEMMA MovedRight ==
  ASSUME NEW loc \in Places, NEW n \in Nat
  PROVE  Right(loc, n) \in Places
  BY DEF Right, Places

LEMMA NextLine ==
  ASSUME NEW loc \in Places
  PROVE  [line |-> loc.line + 1, column |-> 1] \in Places
  BY DEF Places

(* Consuming one character. *)
LEMMA ReadHolds ==
  ASSUME NEW bytes, NEW r, ReaderOf(bytes, r), r.ring.size > 0
  PROVE  /\ ReaderOf(bytes, Read(r))
         /\ Read(r).at = r.at
         /\ Read(r).ring.size = r.ring.size - 1
  <1>1. RingOf(Popped(r.ring), Nat)
    BY PopIsTail DEF ReaderOf
  <1>2. Read(r) = [at |-> r.at, ring |-> Popped(r.ring)]
    BY DEF ReaderOf, Read
  <1>3. /\ r.ring = [capacity |-> r.ring.capacity, slots |-> r.ring.slots,
                     head |-> r.ring.head, size |-> r.ring.size]
    BY DEF ReaderOf, RingOf
  <1>4. Popped(r.ring).capacity = r.ring.capacity /\ Popped(r.ring).size = r.ring.size - 1
    BY <1>3 DEF Popped
  <1>5. Read(r).at = r.at /\ Read(r).ring = Popped(r.ring)
    BY <1>2
  <1> QED
    BY <1>1, <1>2, <1>4, <1>5 DEF ReaderOf

(* What a step of lex() does to the characters: nothing, or it consumes one, *)
(* or the three of `mut`.                                                    *)
ReadsOn ==
  \/ reader' = reader
  \/ reader.ring.size > 0 /\ reader' = Read(reader)
  \/ reader.ring.size > 2 /\ reader' = Read(Read(Read(reader)))

LEMMA ReadsOnHolds ==
  ASSUME NEW bytes, ReaderOf(bytes, reader), ReadsOn
  PROVE  ReaderOf(bytes, reader')
  <1>1. reader.ring.size \in Nat
    BY RingFields DEF ReaderOf
  <1>2. CASE reader' = reader
    BY <1>2
  <1>3. CASE reader.ring.size > 0 /\ reader' = Read(reader)
    BY <1>3, ReadHolds
  <1>4. CASE reader.ring.size > 2 /\ reader' = Read(Read(Read(reader)))
    <2> DEFINE r == Read(reader)
               q == Read(r)
    <2>1. ReaderOf(bytes, r) /\ r.ring.size = reader.ring.size - 1 /\ r.ring.size > 0
      BY <1>1, <1>4, ReadHolds
    <2>2. r.ring.size > 1 /\ r.ring.size \in Nat
      BY <1>1, <1>4, <2>1
    <2> HIDE DEF r
    <2>3. ReaderOf(bytes, q) /\ q.ring.size > 0
      BY <2>1, <2>2, ReadHolds
    <2> HIDE DEF q
    <2>4. ReaderOf(bytes, Read(q))
      BY <2>3, ReadHolds
    <2> QED
      BY <1>4, <2>4 DEF q, r
  <1> QED
    BY <1>2, <1>3, <1>4 DEF ReadsOn

(* A step of lex() goes on, and has then less before it, or ends the call.   *)
Goes ==
  /\ state' \in Busy
  /\ Unread' < Unread
  /\ UNCHANGED <<made, building, spellings>>

Ends ==
  /\ state' = "idle"
  /\ building' = FALSE
  /\ draft' = ""
  /\ \E x : /\ made' = Append(made, x)
            /\ spellings' = spellings \cup (IF x.outcome = "lexeme" THEN {x.spelling} ELSE {})

LexMoves ==
  /\ state # "idle"
  /\ UNCHANGED <<text, lookahead>>
  /\ location' \in Places /\ suffix_digits' \in Nat
  /\ ReaderOf(text, reader')
  /\ Goes \/ Ends

LEMMA UnreadFalls ==
  ASSUME NEW bytes, ReaderOf(bytes, reader), Len(bytes) \in Nat, text = bytes, text' = bytes,
         \/ /\ reader.ring.size > 0 /\ reader' = Read(reader)
         \/ /\ reader'.at > reader.at /\ reader'.ring.size = reader.ring.size + 1
            /\ reader'.at \in Nat
  PROVE  Unread' < Unread
  <1> DEFINE n == Len(bytes)
             a == reader.at
             k == reader.ring.size
             b == reader'.at
             l == reader'.ring.size
  <1>1. n \in Nat /\ a \in Nat /\ k \in Nat
    BY RingFields DEF ReaderOf
  <1>2. (b = a /\ l = k - 1) \/ (b \in Nat /\ b > a /\ l = k + 1)
    BY ReadHolds
  <1>3. Unread = 2 * (n - a) + k /\ Unread' = 2 * (n - b) + l
    BY DEF Unread
  <1> HIDE DEF n, a, k, b, l
  <1>4. 2 * (n - b) + l < 2 * (n - a) + k
    BY <1>1, <1>2
  <1> QED
    BY <1>3, <1>4

LEMMA Extending ==
  ASSUME IInv, state # "idle", reader.ring.size > 0,
         NEW next \in Busy, NEW start, Extend(next, start)
  PROVE  LexMoves
  <1>1. reader' = Read(reader) /\ state' = next /\ location' = Right(location, 1) /\ text' = text
    BY DEF Extend
  <1>2. ReaderOf(text, reader) /\ Len(text) \in Nat
    BY TextIsBytes DEF IInv, ReaderHolds
  <1>3. ReaderOf(text, reader')
    BY <1>1, <1>2, ReadHolds
  <1>4. Unread' < Unread
    BY <1>1, <1>2, UnreadFalls
  <1>5. location' \in Places
    BY <1>1, MovedRight DEF IInv, LexingHolds
  <1>6. suffix_digits' \in Nat
    BY DEF Extend, IInv, LexingHolds
  <1>7. UNCHANGED <<lookahead, made, building, spellings>>
    BY DEF Extend
  <1> QED
    BY <1>1, <1>3, <1>4, <1>5, <1>6, <1>7 DEF LexMoves, Goes, lookahead

LEMMA Skipping ==
  ASSUME IInv, state # "idle", reader.ring.size > 0, NEW there \in Places, Skip(there)
  PROVE  LexMoves
  <1>1. reader' = Read(reader) /\ state' = state /\ location' = there /\ text' = text
    BY DEF Skip
  <1>2. ReaderOf(text, reader) /\ Len(text) \in Nat
    BY TextIsBytes DEF IInv, ReaderHolds
  <1>3. ReaderOf(text, reader')
    BY <1>1, <1>2, ReadHolds
  <1>4. Unread' < Unread
    BY <1>1, <1>2, UnreadFalls
  <1>5. UNCHANGED <<lookahead, made, building, spellings, suffix_digits>>
    BY DEF Skip, store
  <1>6. suffix_digits \in Nat /\ state \in Busy
    BY DEF IInv, LexingHolds
  <1> QED
    BY <1>1, <1>3, <1>4, <1>5, <1>6 DEF LexMoves, Goes, lookahead

LEMMA Returning ==
  ASSUME IInv, state # "idle", ReadsOn,
         NEW token, NEW spelling, NEW start, NEW there \in Places, Return(token, spelling, start, there)
  PROVE  LexMoves
  <1>1. ReaderOf(text, reader')
    BY ReadsOnHolds DEF IInv, ReaderHolds
  <1> DEFINE x == Lexeme(token, spelling, start, IF token = "eof" THEN start ELSE Right(there, -1))
  <1>2. made' = Append(made, x) /\ x.outcome = "lexeme" /\ x.spelling = spelling
    <2>1. made' = Append(made, x)
      BY DEF Return
    <2>2. \A e : Lexeme(token, spelling, start, e).outcome = "lexeme"
                /\ Lexeme(token, spelling, start, e).spelling = spelling
      BY DEF Lexeme
    <2> QED
      BY <2>1, <2>2
  <1> HIDE DEF x
  <1>3. Ends
    BY <1>2 DEF Return, Ends
  <1>4. /\ UNCHANGED <<text, lookahead>> /\ location' \in Places /\ suffix_digits' \in Nat
    BY DEF Return, IInv, LexingHolds
  <1> QED
    BY <1>1, <1>3, <1>4 DEF LexMoves

LEMMA Throwing ==
  ASSUME IInv, state # "idle", ReaderOf(text, reader'),
         NEW kind \in {"lex_error", "decode_error"}, NEW start, NEW there \in Places,
         Throw(kind, start, there)
  PROVE  LexMoves
  <1> DEFINE x == Failure(kind, start)
  <1>1. made' = Append(made, x) /\ x.outcome = kind
    BY DEF Throw, Failure
  <1> HIDE DEF x
  <1>2. x.outcome # "lexeme" /\ spellings' = spellings
    BY <1>1 DEF Throw
  <1>3. Ends
    BY <1>1, <1>2 DEF Throw, Ends
  <1>4. /\ UNCHANGED <<text, lookahead>> /\ location' \in Places /\ suffix_digits' \in Nat
    BY DEF Throw, IInv, LexingHolds
  <1> QED
    BY <1>3, <1>4 DEF LexMoves

LEMMA DecodesMoves ==
  ASSUME IInv, Decodes
  PROVE  LexMoves
  <1> DEFINE next == Decode(text, reader.at)
  <1>1. /\ ReaderOf(text, reader) /\ text \in Seq(Byte) /\ Len(text) \in Nat
        /\ location \in Places /\ state \in Busy /\ suffix_digits \in Nat
    BY TextIsBytes DEF IInv, ReaderHolds, LexingHolds, Decodes
  <1>2. /\ reader.at \in Nat /\ reader.at <= Len(text)
        /\ RingOf(reader.ring, Nat) /\ reader.ring.capacity = 4
    BY <1>1 DEF ReaderOf, Capacity
  <1>3. state # "idle" /\ next.kind # "end" /\ ~(reader.ring.size > Peeks)
    BY DEF Decodes, Peeked, AtEnd
  <1>4. next.at \in Nat /\ next.at > reader.at /\ next.at <= Len(text)
    <2>1. next.at \in reader.at + 1..Len(text)
      BY <1>1, <1>2, <1>3, Decoding
    <2> HIDE DEF next
    <2> QED
      BY <1>1, <1>2, <2>1
  <1>5. CASE /\ next.kind = "char"
             /\ reader' = [at |-> next.at, ring |-> Placed(reader.ring, next.value)]
             /\ UNCHANGED <<text, lexing, store, made, lookahead>>
    <2>1. next.value \in Nat
      <3>1. PICK n \in {1, 2, 3, 4} : /\ reader.at + n <= Len(text)
                                      /\ IsCharacter(From(text, reader.at, n))
        BY <1>1, <1>2, <1>5, Decoding
      <3>2. n \in Nat /\ n > 0
        OBVIOUS
      <3>3. next = Decoded("char", Payload(From(text, reader.at, n)), reader.at + n)
        BY <1>1, <1>2, <3>1, <3>2, DecodedValue
      <3>4. From(text, reader.at, n) \in Seq(Byte)
        BY <1>1, <1>2, <3>1, <3>2, FromProperties
      <3>5. Payload(From(text, reader.at, n)) \in Nat
        BY <3>1, <3>4, CharacterIsEncoded
      <3> HIDE DEF next
      <3> QED
        BY <3>3, <3>5 DEF Decoded
    <2>2. reader.ring.size \in Nat /\ reader.ring.size < reader.ring.capacity
      <3>1. Peeks \in {0, 3} /\ reader.ring.size \in Nat
        BY <1>2, RingFields DEF Peeks
      <3> QED
        BY <1>2, <1>3, <3>1
    <2> HIDE DEF next
    <2>3. RingOf(Placed(reader.ring, next.value), Nat)
      BY <1>2, <2>1, <2>2, PlacedIsAppended
    <2>4. reader.ring = [capacity |-> reader.ring.capacity, slots |-> reader.ring.slots,
                         head |-> reader.ring.head, size |-> reader.ring.size]
      BY <1>2 DEF RingOf
    <2>5. /\ Placed(reader.ring, next.value).capacity = reader.ring.capacity
          /\ Placed(reader.ring, next.value).size = reader.ring.size + 1
      BY <2>4 DEF Placed
    <2>6. /\ reader'.at = next.at /\ reader'.ring = Placed(reader.ring, next.value)
          /\ reader' = [at |-> reader'.at, ring |-> reader'.ring]
      BY <1>5
    <2>7. ReaderOf(text, reader')
      BY <1>2, <1>4, <2>3, <2>5, <2>6 DEF ReaderOf, Capacity
    <2>8. Unread' < Unread
      <3>1. reader'.at > reader.at /\ reader'.ring.size = reader.ring.size + 1 /\ reader'.at \in Nat
        BY <1>4, <2>5, <2>6
      <3> QED
        BY <1>1, <1>5, <3>1, UnreadFalls
    <2>9. /\ UNCHANGED <<text, lookahead, made, building, spellings>>
          /\ state' = state /\ location' = location /\ suffix_digits' = suffix_digits
      BY <1>5 DEF lexing, store
    <2> QED
      BY <1>1, <1>3, <2>7, <2>8, <2>9 DEF LexMoves, Goes, lookahead
  <1>6. CASE /\ reader' = [reader EXCEPT !.at = next.at]
             /\ Throw("decode_error", Nowhere, location)
    <2> HIDE DEF next
    <2>1. reader' = [at |-> next.at, ring |-> reader.ring]
      BY <1>1, <1>6 DEF ReaderOf
    <2>2. ReaderOf(text, reader')
      BY <1>1, <1>4, <2>1 DEF ReaderOf
    <2> QED
      BY <1>1, <1>3, <1>6, <2>2, Throwing
  <1> QED
    BY <1>5, <1>6 DEF Decodes

(* A step that looks for a character finds one: "end" is not among them.     *)
LEMMA LookShows ==
  ASSUME Look # "end"
  PROVE  reader.ring.size > 0
  BY DEF Look, Ahead

LEMMA EndIsNoCharacter ==
  /\ ~("end" \in Alpha) /\ ~("end" \in Digit) /\ ~("end" \in Blank)
  /\ ~("end" \in InWord) /\ ~("end" \in SingleToken) /\ ~("end" \in Reference)
  /\ Seconds("end") = {} /\ \A c : ~("end" \in Seconds(c))
  <1>1. ~("end" \in Alpha)
    BY DEF Alpha, Range, LowerCase, UpperCase
  <1>2. ~("end" \in Digit)
    BY DEF Digit, Range, Digits
  <1>3. ~("end" \in InWord)
    BY <1>1, <1>2 DEF InWord
  <1>4. ~("end" \in Blank) /\ ~("end" \in SingleToken) /\ ~("end" \in Reference)
    BY DEF Blank, SingleToken, Reference
  <1>5. Seconds("end") = {} /\ \A c : ~("end" \in Seconds(c))
    BY DEF Seconds
  <1> QED
    BY <1>1, <1>2, <1>3, <1>4, <1>5

LEMMA LexSteps ==
  ASSUME IInv, LexStep
  PROVE  LexMoves
  <1>1. /\ location \in Places /\ Right(location, 1) \in Places /\ Right(location, 3) \in Places
        /\ [line |-> location.line + 1, column |-> 1] \in Places
    BY MovedRight, NextLine DEF IInv, LexingHolds
  <1>2. ASSUME NEW s \in Busy, In(s)
        PROVE  state = s /\ state # "idle"
    BY <1>2 DEF In, Busy
  <1>3. ReaderOf(text, reader)
    BY DEF IInv, ReaderHolds
  <1>4. CASE Decodes
    BY <1>4, DecodesMoves
  <1>5. CASE EndOfText
    BY <1>1, <1>2, <1>5, Returning DEF EndOfText, ReadsOn, Busy
  <1>6. CASE SkipNewline
    <2>1. state # "idle" /\ Look # "end"
      BY <1>2, <1>6 DEF SkipNewline, Busy
    <2> QED
      BY <1>1, <1>6, <2>1, LookShows, Skipping DEF SkipNewline
  <1>7. CASE SkipBlank
    <2>1. state # "idle" /\ Look # "end"
      BY <1>2, <1>7, EndIsNoCharacter DEF SkipBlank, Busy
    <2> QED
      BY <1>1, <1>7, <2>1, LookShows, Skipping DEF SkipBlank
  <1>8. CASE Punctuation
    <2>1. state # "idle" /\ Look # "end"
      BY <1>2, <1>8, EndIsNoCharacter DEF Punctuation, Busy
    <2>2. ReadsOn
      BY <1>8, <2>1, LookShows DEF Punctuation, ReadsOn
    <2> QED
      BY <1>1, <1>8, <2>1, <2>2, Returning DEF Punctuation
  <1>9. CASE UnknownCharacter
    <2>1. state # "idle" /\ Look # "end"
      BY <1>2, <1>9 DEF UnknownCharacter, Busy
    <2>2. ReaderOf(text, reader')
      BY <1>3, <1>9, <2>1, LookShows, ReadHolds DEF UnknownCharacter
    <2> QED
      BY <1>1, <1>9, <2>1, <2>2, Throwing DEF UnknownCharacter
  <1>10. CASE BeginOperator
    <2>1. state # "idle" /\ Look # "end"
      BY <1>2, <1>10, EndIsNoCharacter DEF BeginOperator, Busy
    <2> QED
      BY <1>10, <2>1, LookShows, Extending DEF BeginOperator, Busy
  <1>11. CASE LongOperator
    <2>1. state # "idle" /\ Look # "end"
      BY <1>2, <1>11, EndIsNoCharacter DEF LongOperator, Busy
    <2>2. ReadsOn
      BY <1>11, <2>1, LookShows DEF LongOperator, ReadsOn
    <2> QED
      BY <1>1, <1>11, <2>1, <2>2, Returning DEF LongOperator
  <1>12. CASE ShortOperator
    BY <1>1, <1>2, <1>12, Returning DEF ShortOperator, ReadsOn, Busy
  <1>13. CASE LoneBang
    BY <1>1, <1>2, <1>3, <1>13, Throwing DEF LoneBang, Busy
  <1>14. CASE BeginReference
    <2>1. state # "idle" /\ Look # "end"
      BY <1>2, <1>14, EndIsNoCharacter DEF BeginReference, Busy
    <2> QED
      BY <1>14, <2>1, LookShows, Extending DEF BeginReference, Busy
  <1>15. CASE MutReference
    <2>1. state # "idle" /\ Ahead(2) # "end"
      BY <1>2, <1>15 DEF MutReference, BeforeMut, Busy
    <2>2. reader.ring.size > 2
      BY <1>3, <2>1, RingFields DEF Ahead, ReaderOf
    <2>3. ReadsOn
      BY <1>15, <2>2 DEF MutReference, ReadsOn
    <2> QED
      BY <1>1, <1>15, <2>1, <2>3, Returning DEF MutReference
  <1>16. CASE PlainReference
    BY <1>1, <1>2, <1>16, Returning DEF PlainReference, ReadsOn, Busy
  <1>17. CASE BeginWord
    <2>1. state # "idle" /\ Look # "end"
      BY <1>2, <1>17, EndIsNoCharacter DEF BeginWord, Busy
    <2> QED
      BY <1>17, <2>1, LookShows, Extending DEF BeginWord, Busy
  <1>18. CASE ContinueWord
    <2>1. state # "idle" /\ Look # "end"
      BY <1>2, <1>18, EndIsNoCharacter DEF ContinueWord, Busy
    <2> QED
      BY <1>18, <2>1, LookShows, Extending DEF ContinueWord, Busy
  <1>19. CASE EndWord
    <2>1. state # "idle" /\ ReadsOn
      BY <1>2, <1>19 DEF EndWord, ReadsOn, Busy
    <2> QED
      BY <1>1, <1>19, <2>1, Returning DEF EndWord
  <1>20. CASE BeginNumber
    <2>1. state # "idle" /\ Look # "end"
      BY <1>2, <1>20, EndIsNoCharacter DEF BeginNumber, Busy
    <2> QED
      BY <1>20, <2>1, LookShows, Extending DEF BeginNumber, Busy
  <1>21. CASE ContinueNumber
    <2>1. state \in Busy /\ state # "idle" /\ Look # "end"
      BY <1>21, EndIsNoCharacter DEF ContinueNumber, In, Busy
    <2> QED
      BY <1>21, <2>1, LookShows, Extending DEF ContinueNumber
  <1>22. CASE BeginFraction
    <2>1. state # "idle" /\ Look # "end"
      BY <1>2, <1>22 DEF BeginFraction, Busy
    <2> QED
      BY <1>22, <2>1, LookShows, Extending DEF BeginFraction, Busy
  <1>23. CASE BeginSuffix
    <2>1. state # "idle" /\ Look # "end"
      BY <1>2, <1>23 DEF BeginSuffix, Busy
    <2> QED
      BY <1>23, <2>1, LookShows, Extending DEF BeginSuffix, Busy
  <1>24. CASE EndFloat
    <2>1. state # "idle" /\ Look # "end"
      BY <1>24 DEF EndFloat, In
    <2>2. ReadsOn
      BY <1>24, <2>1, LookShows DEF EndFloat, ReadsOn
    <2> QED
      BY <1>1, <1>24, <2>1, <2>2, Returning DEF EndFloat
  <1>25. CASE EndFraction
    BY <1>1, <1>2, <1>25, Returning DEF EndFraction, ReadsOn, Busy
  <1>26. CASE EndInteger
    <2>1. state # "idle" /\ ReadsOn
      BY <1>26 DEF EndInteger, In, ReadsOn
    <2> QED
      BY <1>1, <1>26, <2>1, Returning DEF EndInteger
  <1>27. CASE BareSuffix
    BY <1>1, <1>2, <1>3, <1>27, Throwing DEF BareSuffix, Busy
  <1> QED
    BY <1>4, <1>5, <1>6, <1>7, <1>8, <1>9, <1>10, <1>11, <1>12, <1>13, <1>14, <1>15, <1>16,
       <1>17, <1>18, <1>19, <1>20, <1>21, <1>22, <1>23, <1>24, <1>25, <1>26, <1>27 DEF LexStep

----------------------------------------------------------------------------
(* The invariant holds from the beginning and is preserved by every step.    *)

LEMMA EmptyRingHolds ==
  ASSUME NEW V, NEW c \in Nat
  PROVE  /\ RingOf(EmptyRing(c), V) /\ Contents(EmptyRing(c)) = << >>
         /\ EmptyRing(c).capacity = c /\ EmptyRing(c).size = 0
  <1> DEFINE slots == [k \in 0..c - 1 |-> << >>]
             r == EmptyRing(c)
  <1>1. r = [capacity |-> c, slots |-> slots, head |-> 0, size |-> 0]
    BY DEF EmptyRing
  <1>2. slots \in [0..c - 1 -> Cells(V)] /\ \A k \in 0..c - 1 : slots[k] = << >>
    BY DEF Cells
  <1> HIDE DEF slots, r
  <1>3. \A k \in 0..c - 1 : slots[k] # << >> <=> \E i \in 0..0 - 1 : k = Around(r, i)
    <2>1. \A i : ~(i \in 0..0 - 1)
      OBVIOUS
    <2> QED
      BY <1>2, <2>1
  <1>4. RingOf(r, V)
    <2>1. 0 \in Nat /\ 0 <= c /\ (c > 0 => 0 < c) /\ (c = 0 => 0 = 0)
      OBVIOUS
    <2> QED
      BY <1>1, <1>2, <1>3, <2>1, RingFromParts
  <1>5. r.capacity = c /\ r.size = 0
    BY <1>1
  <1>6. Contents(r) = << >>
    BY <1>4, <1>5, ContentsAreValues, EmptySeq
  <1> QED
    BY <1>4, <1>5, <1>6 DEF r

LEMMA InitHolds ==
  ASSUME Init
  PROVE  IInv
  <1>1. ReaderHolds
    <2>1. reader.at = 0 /\ reader.ring = EmptyRing(Capacity) /\ reader = [at |-> 0, ring |-> EmptyRing(Capacity)]
      BY DEF Init
    <2>2. RingOf(reader.ring, Nat) /\ reader.ring.capacity = Capacity
      BY <2>1, EmptyRingHolds DEF Capacity
    <2>3. text \in Texts /\ Len(text) \in Nat
      BY TextIsBytes DEF Init
    <2> QED
      BY <2>1, <2>2, <2>3 DEF ReaderHolds, ReaderOf
  <1>2. LexingHolds
    <2>1. location = [line |-> 1, column |-> 1] /\ state = "idle" /\ suffix_digits = 0 /\ building = FALSE
      BY DEF Init
    <2>2. location \in Places
      BY <2>1 DEF Places
    <2> QED
      BY <2>1, <2>2 DEF LexingHolds
  <1>3. made = << >> /\ taken = << >> /\ Len(made) = 0 /\ buffer = EmptyRing(0)
    BY DEF Init
  <1>4. HistoryHolds
    BY <1>3, EmptySeq, EmptyRingHolds DEF HistoryHolds, Sequence
  <1>5. Left \in Nat
    <2>1. text \in Texts
      BY DEF Init
    <2>2. MaxLexemes(text) \in Nat
      BY <2>1, TextIsBytes
    <2> QED
      BY <1>3, <2>2 DEF Left
  <1>6. RequestHolds
    <2>1. request = NoRequest /\ state = "idle"
      BY DEF Init
    <2>2. request.op # "peek" /\ request.op # "read"
      BY <2>1 DEF NoRequest
    <2> QED
      BY <1>5, <2>1, <2>2 DEF RequestHolds, Awaited
  <1>7. OrderHolds
    <2>1. Told = 0
      BY <1>3 DEF Init, Told, Awaited
    <2>2. Given = << >>
      BY <1>3, EmptyRingHolds DEF Given
    <2>3. Chosen(made, 0) = {}
      BY DEF Chosen
    <2>4. Among(made, 0) = 0
      BY <2>3, FS_EmptySet DEF Among
    <2> QED
      BY <2>1, <2>2, <2>4 DEF OrderHolds, Ordered
  <1>8. StoreHoldsTheLexemes
    <2>1. DOMAIN made = {}
      BY <1>3
    <2> QED
      BY <2>1 DEF Init, StoreHoldsTheLexemes
  <1> QED
    BY <1>1, <1>2, <1>4, <1>6, <1>7, <1>8 DEF IInv

SpellingsOf(s) == {s[i].spelling : i \in {j \in DOMAIN s : s[j].outcome = "lexeme"}}

LEMMA SpellingsGrow ==
  ASSUME NEW s, Sequence(s), NEW x
  PROVE  SpellingsOf(Append(s, x))
           = SpellingsOf(s) \cup (IF x.outcome = "lexeme" THEN {x.spelling} ELSE {})
  <1> DEFINE t == Append(s, x)
             n == Len(s)
  <1>1. /\ n \in Nat /\ Len(t) = n + 1 /\ \A i \in 1..n : t[i] = s[i]
        /\ t[n + 1] = x
    BY HistoryGrows
  <1>2. DOMAIN s = 1..n /\ DOMAIN t = 1..n + 1
    <2>1. Sequence(t)
      BY HistoryGrows
    <2> QED
      BY <1>1, <2>1, LenProperties DEF Sequence
  <1> HIDE DEF t, n
  <1>3. 1..n + 1 = 1..n \cup {n + 1}
    BY <1>1
  <1>4. {j \in 1..n + 1 : t[j].outcome = "lexeme"}
          = {j \in 1..n : s[j].outcome = "lexeme"} \cup (IF x.outcome = "lexeme" THEN {n + 1} ELSE {})
    BY <1>1, <1>3
  <1>5. SpellingsOf(t) = SpellingsOf(s) \cup (IF x.outcome = "lexeme" THEN {x.spelling} ELSE {})
    BY <1>1, <1>2, <1>4 DEF SpellingsOf
  <1> QED
    BY <1>5 DEF t

LEMMA Facts ==
  ASSUME IInv
  PROVE  /\ Sequence(made) /\ Len(made) \in Nat /\ MaxLexemes(text) \in Nat /\ Left \in Int
         /\ buffer.size \in Nat /\ Given \in Seq(Elements(made))
         /\ Told \in Nat /\ Told <= Len(made) /\ Told = IF Awaited THEN Len(made) - 1 ELSE Len(made)
         /\ request # NoRequest => request.op \in {"peek", "read"} /\ request.offset \in Nat
  <1>1. Sequence(made) /\ Len(made) \in Nat
    BY HistoryGrows DEF IInv, HistoryHolds
  <1>2. MaxLexemes(text) \in Nat
    BY TextIsBytes DEF IInv, ReaderHolds
  <1>3. Left \in Int
    BY <1>1, <1>2 DEF Left
  <1>4. buffer.size \in Nat
    BY RingFields DEF IInv, HistoryHolds
  <1>5. taken \in Seq(Elements(made)) /\ Contents(buffer) \in Seq(Elements(made))
    BY ContentsAreValues DEF IInv, HistoryHolds
  <1>6. Given \in Seq(Elements(made))
    BY <1>5, ConcatProperties DEF Given
  <1>7. Awaited => Len(made) > 0
    BY DEF IInv, RequestHolds
  <1>8. request # NoRequest => request.op \in {"peek", "read"} /\ request.offset \in Nat
    BY LexerAssumption DEF IInv, RequestHolds
  <1>9. Told = IF Awaited THEN Len(made) - 1 ELSE Len(made)
    BY DEF Told
  <1>10. Told \in Nat /\ Told <= Len(made)
    BY <1>1, <1>7, <1>9
  <1> QED
    BY <1>1, <1>2, <1>3, <1>4, <1>6, <1>8, <1>9, <1>10

LEMMA LexPreserves ==
  ASSUME IInv, LexMoves
  PROVE  IInv'
  <1>1. /\ state # "idle" /\ text' = text /\ buffer' = buffer /\ request' = request /\ taken' = taken
        /\ request # NoRequest
    BY DEF LexMoves, lookahead, IInv, RequestHolds
  <1>2. Sequence(made) /\ Len(made) \in Nat /\ MaxLexemes(text) \in Nat
    BY Facts
  <1>3. /\ Len(made') \in Nat /\ Len(made') >= Len(made)
        /\ \A i \in 1..Len(made) : made'[i] = made[i]
        /\ Sequence(made') /\ Elements(made) \subseteq Elements(made')
        /\ Goes => made' = made
        /\ Ends => Len(made') = Len(made) + 1
    <2>1. CASE Goes
      <3>1. ~Ends
        BY <2>1 DEF Goes, Ends, Busy
      <3> QED
        BY <1>2, <2>1, <3>1 DEF Goes
    <2>2. CASE Ends
      <3>1. PICK x : made' = Append(made, x)
        BY <2>2 DEF Ends
      <3>2. ~Goes
        BY <2>2 DEF Goes, Ends, Busy
      <3> QED
        BY <1>2, <3>1, <3>2, HistoryGrows
    <2> QED
      BY <2>1, <2>2 DEF LexMoves
  <1>4. ReaderHolds'
    BY <1>1 DEF LexMoves, IInv, ReaderHolds
  <1>5. LexingHolds'
    <2>1. state' \in Busy \cup {"idle"} /\ building' \in BOOLEAN
      BY DEF LexMoves, Goes, Ends, IInv, LexingHolds
    <2> QED
      BY <2>1 DEF LexMoves, LexingHolds
  <1>6. HistoryHolds'
    BY <1>1, <1>3, SeqOfMore, RingOfMore DEF IInv, HistoryHolds
  <1>7. RequestHolds'
    <2>1. /\ Left \in Int /\ Left' \in Int /\ buffer.size \in Nat /\ request.offset \in Nat
          /\ request.op \in {"peek", "read"}
      <3>1. Left' = MaxLexemes(text) - Len(made')
        BY <1>1 DEF Left
      <3> QED
        BY <1>1, <1>2, <1>3, <3>1, Facts
    <2>2. /\ request \in [op : {"peek", "read"}, offset : 0..MaxPeek] /\ Left >= 1
          /\ request.op = "read" => buffer.size = 0
          /\ request.op = "peek" => /\ buffer.size <= request.offset
                                    /\ request.offset - buffer.size + 1 <= Left
      BY <1>1 DEF IInv, RequestHolds
    <2>3. CASE Goes
      <3>1. state' # "idle" /\ Left' = Left
        BY <1>1, <2>3 DEF Goes, Busy, Left
      <3>2. ~Awaited'
        BY <3>1 DEF Awaited
      <3> QED
        BY <1>1, <2>1, <2>2, <3>1, <3>2 DEF RequestHolds
    <2>4. CASE Ends
      <3>1. state' = "idle" /\ Left' = Left - 1 /\ Len(made') > 0
        <4>1. Len(made') = Len(made) + 1 /\ state' = "idle"
          BY <1>3, <2>4 DEF Ends
        <4>2. Left = MaxLexemes(text) - Len(made) /\ Left' = MaxLexemes(text) - Len(made')
          BY <1>1 DEF Left
        <4> QED
          BY <1>2, <4>1, <4>2
      <3>2. request.op = "peek" => request.offset - buffer.size <= Left'
        BY <2>1, <2>2, <3>1
      <3>3. Left' >= 0
        BY <2>1, <2>2, <3>1
      <3> QED
        BY <1>1, <2>1, <2>2, <3>1, <3>2, <3>3 DEF RequestHolds
    <2> QED
      BY <2>3, <2>4 DEF LexMoves
  <1>8. OrderHolds'
    <2>1. Told = Len(made) /\ Given' = Given
      BY <1>1 DEF Told, Awaited, Given
    <2>2. Told' = Len(made)
      <3>1. CASE Goes
        BY <1>3, <3>1 DEF Goes, Busy, Told, Awaited
      <3>2. CASE Ends
        <4>1. Awaited' /\ Len(made') = Len(made) + 1
          BY <1>1, <1>3, <3>2 DEF Ends, Awaited
        <4>2. Told' = Len(made') - 1
          BY <4>1 DEF Told
        <4> QED
          BY <1>2, <4>1, <4>2
      <3> QED
        BY <3>1, <3>2 DEF LexMoves
    <2>3. Ordered(made, Given, Len(made))
      BY <2>1 DEF IInv, OrderHolds
    <2>4. Ordered(made', Given, Len(made))
      BY <1>2, <1>3, <2>3, OrderedAlike
    <2> QED
      BY <2>1, <2>2, <2>4 DEF OrderHolds
  <1>9. StoreHoldsTheLexemes'
    <2>1. /\ building <=> state # "idle"
          /\ spellings = SpellingsOf(made)
      BY DEF IInv, StoreHoldsTheLexemes, SpellingsOf
    <2>2. CASE Goes
      <3>1. state' # "idle" /\ building' = building /\ spellings' = spellings /\ made' = made
        BY <2>2 DEF Goes, Busy
      <3>2. building' /\ spellings' = SpellingsOf(made')
        BY <1>1, <2>1, <3>1
      <3> QED
        BY <3>1, <3>2 DEF StoreHoldsTheLexemes, SpellingsOf
    <2>3. CASE Ends
      <3>1. spellings' = SpellingsOf(made')
        BY <1>2, <2>1, <2>3, SpellingsGrow DEF Ends
      <3> QED
        BY <2>3, <3>1 DEF Ends, StoreHoldsTheLexemes, SpellingsOf
    <2> QED
      BY <2>2, <2>3 DEF LexMoves
  <1> QED
    BY <1>4, <1>5, <1>6, <1>7, <1>8, <1>9 DEF IInv

----------------------------------------------------------------------------
(* The steps of the client and of the reader's calls.                        *)

LEMMA Calling ==
  ASSUME IInv, Lex
  PROVE  /\ ReaderHolds' /\ LexingHolds' /\ StoreHoldsTheLexemes'
         /\ text' = text /\ made' = made /\ state' = "trivia"
  <1>1. /\ text' = text /\ reader' = reader /\ location' = location /\ spellings' = spellings
        /\ made' = made /\ state' = "trivia" /\ building' = TRUE /\ suffix_digits' = 0
    BY DEF Lex, characters
  <1>2. ReaderHolds'
    BY <1>1 DEF IInv, ReaderHolds
  <1>3. LexingHolds'
    BY <1>1 DEF IInv, LexingHolds, Busy
  <1>4. StoreHoldsTheLexemes'
    BY <1>1 DEF IInv, StoreHoldsTheLexemes
  <1> QED
    BY <1>1, <1>2, <1>3, <1>4

LEMMA Resting ==
  ASSUME IInv, UNCHANGED <<characters, lexing, store, made>>
  PROVE  /\ ReaderHolds' /\ LexingHolds' /\ StoreHoldsTheLexemes'
         /\ text' = text /\ made' = made /\ state' = state
  <1>1. /\ text' = text /\ reader' = reader /\ location' = location /\ spellings' = spellings
        /\ made' = made /\ state' = state /\ building' = building /\ suffix_digits' = suffix_digits
        /\ draft' = draft
    BY DEF characters, lexing, store
  <1>2. ReaderHolds'
    BY <1>1 DEF IInv, ReaderHolds
  <1>3. LexingHolds'
    BY <1>1 DEF IInv, LexingHolds
  <1>4. StoreHoldsTheLexemes'
    BY <1>1 DEF IInv, StoreHoldsTheLexemes
  <1> QED
    BY <1>1, <1>2, <1>3, <1>4

(* Nothing is told and nothing given. *)
LEMMA SameOrder ==
  ASSUME IInv, made' = made, Told' = Told, Given' = Given
  PROVE  OrderHolds'
  BY DEF IInv, OrderHolds

(* The latest lexeme is given, or the latest error told.                     *)
LEMMA NextInOrder ==
  ASSUME IInv, Awaited, made' = made, Told' = Len(made),
         \/ Latest.outcome # "lexeme" /\ Given' = Given
         \/ Latest.outcome = "lexeme" /\ Given' = Append(Given, Latest)
  PROVE  OrderHolds'
  <1>1. /\ Told \in Nat /\ Told + 1 = Len(made) /\ Given \in Seq(Elements(made))
        /\ Len(made) \in Nat
    BY Facts
  <1>2. Latest = made[Told + 1] /\ Latest \in Elements(made)
    <2>1. Len(made) \in 1..Len(made)
      BY <1>1
    <2> QED
      BY <1>1, <2>1 DEF Latest, Elements
  <1>3. Ordered(made, Given, Told)
    BY DEF IInv, OrderHolds
  <1>4. Ordered(made, Given', Told + 1)
    BY <1>1, <1>2, <1>3, OrderedOn
  <1> QED
    BY <1>1, <1>4 DEF OrderHolds

LEMMA LatestIsMade ==
  ASSUME IInv, Awaited
  PROVE  Latest \in Elements(made)
  <1>1. Len(made) \in Nat /\ Len(made) > 0
    BY Facts DEF IInv, RequestHolds
  <1>2. Len(made) \in 1..Len(made)
    BY <1>1
  <1> QED
    BY <1>2 DEF Latest, Elements

LEMMA PeekPreserves ==
  ASSUME IInv, NEW n \in 0..MaxPeek, Peek(n)
  PROVE  IInv'
  <1>1. /\ state = "idle" /\ request = NoRequest /\ buffer' = buffer /\ taken' = taken
        /\ request' = [op |-> "peek", offset |-> n] /\ buffer.size <= n
        /\ Lex
    BY DEF Peek
  <1>2. /\ ReaderHolds' /\ LexingHolds' /\ StoreHoldsTheLexemes'
        /\ text' = text /\ made' = made /\ state' = "trivia"
    BY <1>1, Calling
  <1>3. HistoryHolds'
    BY <1>1, <1>2 DEF IInv, HistoryHolds
  <1>4. /\ n \in Nat /\ buffer.size \in Nat /\ Len(made) \in Nat /\ MaxLexemes(text) \in Nat
        /\ Len(made) + n + 1 - buffer.size <= MaxLexemes(text)
    BY Facts, LexerAssumption DEF Peek
  <1>5. Left' = MaxLexemes(text) - Len(made)
    BY <1>2 DEF Left
  <1>6. Left' >= 1 /\ n - buffer.size + 1 <= Left'
    BY <1>1, <1>4, <1>5
  <1>7. RequestHolds'
    <2>1. /\ request' \in [op : {"peek", "read"}, offset : 0..MaxPeek]
          /\ request'.op = "peek" /\ request'.offset = n /\ request'.op # "read"
      BY <1>1
    <2>2. Left' >= 0 /\ request' # NoRequest /\ ~Awaited'
      BY <1>1, <1>2, <1>4, <1>5, <1>6 DEF NoRequest, Awaited
    <2> QED
      BY <1>1, <1>2, <1>6, <2>1, <2>2 DEF RequestHolds
  <1>8. OrderHolds'
    <2>1. Told = Len(made) /\ Told' = Len(made) /\ Given' = Given
      BY <1>1, <1>2 DEF Told, Awaited, Given
    <2> QED
      BY <1>2, <2>1, SameOrder
  <1> QED
    BY <1>2, <1>3, <1>7, <1>8 DEF IInv

LEMMA MovedOver ==
  ASSUME NEW V, NEW s \in Seq(V), NEW c \in Seq(V), Len(c) > 0
  PROVE  /\ Head(c) \in V
         /\ Append(s, Head(c)) \in Seq(V)
         /\ Append(s, Head(c)) \o Tail(c) = s \o c
  <1>1. c # << >>
    BY EmptySeq
  <1>2. Head(c) \in V /\ Tail(c) \in Seq(V) /\ c = <<Head(c)>> \o Tail(c)
    BY <1>1, HeadTailProperties, SMT
  <1>3. <<Head(c)>> \in Seq(V) /\ Append(s, Head(c)) = s \o <<Head(c)>>
    BY <1>2, AppendIsConcat
  <1>4. (s \o <<Head(c)>>) \o Tail(c) = s \o (<<Head(c)>> \o Tail(c))
    BY <1>2, <1>3, ConcatAssociative
  <1> QED
    BY <1>2, <1>3, <1>4, AppendProperties

LEMMA ReadBufferedPreserves ==
  ASSUME IInv, ReadBuffered
  PROVE  IInv'
  <1>1. /\ state = "idle" /\ request = NoRequest /\ request' = request /\ buffer.size > 0
        /\ taken' = Append(taken, At(buffer, 0)) /\ buffer' = Popped(buffer)
    BY DEF ReadBuffered
  <1>2. /\ ReaderHolds' /\ LexingHolds' /\ StoreHoldsTheLexemes'
        /\ text' = text /\ made' = made /\ state' = state
    BY Resting DEF ReadBuffered
  <1>3. /\ RingOf(buffer, Elements(made)) /\ taken \in Seq(Elements(made)) /\ Sequence(made)
        /\ Left >= 0
    BY DEF IInv, HistoryHolds, RequestHolds
  <1>4. /\ RingOf(Popped(buffer), Elements(made)) /\ At(buffer, 0) = Head(Contents(buffer))
        /\ Contents(Popped(buffer)) = Tail(Contents(buffer))
    BY <1>1, <1>3, PopIsTail
  <1>5. Contents(buffer) \in Seq(Elements(made)) /\ Len(Contents(buffer)) > 0
    BY <1>1, <1>3, ContentsAreValues
  <1>6. taken' \in Seq(Elements(made)) /\ Given' = Given
    BY <1>1, <1>3, <1>4, <1>5, MovedOver DEF Given
  <1>7. HistoryHolds'
    BY <1>1, <1>2, <1>3, <1>4, <1>6 DEF HistoryHolds
  <1>8. RequestHolds'
    <2>1. Left' = Left /\ request'.op # "peek" /\ request'.op # "read" /\ ~Awaited'
      BY <1>1, <1>2 DEF Left, NoRequest, Awaited
    <2> QED
      BY <1>1, <1>2, <1>3, <2>1 DEF RequestHolds
  <1>9. OrderHolds'
    <2>1. Told' = Told
      BY <1>1, <1>2 DEF Told, Awaited
    <2> QED
      BY <1>2, <1>6, <2>1, SameOrder
  <1> QED
    BY <1>2, <1>7, <1>8, <1>9 DEF IInv

LEMMA ReadThroughPreserves ==
  ASSUME IInv, ReadThrough
  PROVE  IInv'
  <1>1. /\ state = "idle" /\ request = NoRequest /\ buffer' = buffer /\ taken' = taken
        /\ request' = [op |-> "read", offset |-> 0] /\ buffer.size = 0
        /\ Lex /\ Len(made) < MaxLexemes(text)
    BY DEF ReadThrough
  <1>2. /\ ReaderHolds' /\ LexingHolds' /\ StoreHoldsTheLexemes'
        /\ text' = text /\ made' = made /\ state' = "trivia"
    BY <1>1, Calling
  <1>3. HistoryHolds'
    BY <1>1, <1>2 DEF IInv, HistoryHolds
  <1>4. Left' = MaxLexemes(text) - Len(made) /\ Len(made) \in Nat /\ MaxLexemes(text) \in Nat
    BY <1>2, Facts DEF Left
  <1>5. Left' >= 1 /\ Left' >= 0
    BY <1>1, <1>4
  <1>6. RequestHolds'
    <2>1. /\ request' \in [op : {"peek", "read"}, offset : 0..MaxPeek]
          /\ request'.op = "read" /\ request'.op # "peek"
      BY <1>1, LexerAssumption
    <2>2. request' # NoRequest /\ ~Awaited'
      BY <1>1, <1>2 DEF NoRequest, Awaited
    <2> QED
      BY <1>1, <1>2, <1>5, <2>1, <2>2 DEF RequestHolds
  <1>7. OrderHolds'
    <2>1. Told = Len(made) /\ Told' = Len(made) /\ Given' = Given
      BY <1>1, <1>2 DEF Told, Awaited, Given
    <2> QED
      BY <1>2, <2>1, SameOrder
  <1> QED
    BY <1>2, <1>3, <1>6, <1>7 DEF IInv

LEMMA PropagatePreserves ==
  ASSUME IInv, Propagate
  PROVE  IInv'
  <1>1. /\ Awaited /\ state = "idle" /\ Latest.outcome # "lexeme" /\ request' = NoRequest
        /\ buffer' = buffer /\ taken' = taken
    BY DEF Propagate, Awaited
  <1>2. /\ ReaderHolds' /\ LexingHolds' /\ StoreHoldsTheLexemes'
        /\ text' = text /\ made' = made /\ state' = state
    BY Resting DEF Propagate
  <1>3. HistoryHolds'
    BY <1>1, <1>2 DEF IInv, HistoryHolds
  <1>4. RequestHolds'
    <2>1. Left' = Left /\ request'.op # "peek" /\ request'.op # "read" /\ ~Awaited'
      BY <1>1, <1>2 DEF Left, NoRequest, Awaited
    <2>2. Left >= 0
      BY DEF IInv, RequestHolds
    <2> QED
      BY <1>1, <1>2, <2>1, <2>2 DEF RequestHolds
  <1>5. OrderHolds'
    <2>1. Told' = Len(made) /\ Given' = Given
      BY <1>1, <1>2 DEF Told, Awaited, Given
    <2> QED
      BY <1>1, <1>2, <2>1, NextInOrder
  <1> QED
    BY <1>2, <1>3, <1>4, <1>5 DEF IInv

LEMMA ReadReturnsPreserves ==
  ASSUME IInv, ReadReturns
  PROVE  IInv'
  <1>1. /\ Awaited /\ state = "idle" /\ Latest.outcome = "lexeme" /\ request' = NoRequest
        /\ buffer' = buffer /\ taken' = Append(taken, Latest) /\ request.op = "read"
    BY DEF ReadReturns, Awaited
  <1>2. /\ ReaderHolds' /\ LexingHolds' /\ StoreHoldsTheLexemes'
        /\ text' = text /\ made' = made /\ state' = state
    BY Resting DEF ReadReturns
  <1>3. /\ RingOf(buffer, Elements(made)) /\ taken \in Seq(Elements(made)) /\ Sequence(made)
        /\ Left >= 0 /\ buffer.size = 0 /\ Latest \in Elements(made)
    BY <1>1, LatestIsMade DEF IInv, HistoryHolds, RequestHolds
  <1>4. taken' \in Seq(Elements(made))
    BY <1>1, <1>3, AppendProperties
  <1>5. Given = taken /\ Given' = taken'
    <2>1. Contents(buffer) = << >>
      BY <1>3, ContentsAreValues, EmptySeq
    <2> QED
      BY <1>1, <1>3, <1>4, <2>1, ConcatEmptySeq DEF Given
  <1>6. HistoryHolds'
    BY <1>1, <1>2, <1>3, <1>4 DEF HistoryHolds
  <1>7. RequestHolds'
    <2>1. Left' = Left /\ request'.op # "peek" /\ request'.op # "read" /\ ~Awaited'
      BY <1>1, <1>2 DEF Left, NoRequest, Awaited
    <2> QED
      BY <1>1, <1>2, <1>3, <2>1 DEF RequestHolds
  <1>8. OrderHolds'
    <2>1. Told' = Len(made)
      BY <1>1, <1>2 DEF Told, Awaited
    <2> QED
      BY <1>1, <1>2, <1>5, <2>1, NextInOrder
  <1> QED
    BY <1>2, <1>6, <1>7, <1>8 DEF IInv

LEMMA PeekContinuesPreserves ==
  ASSUME IInv, PeekContinues
  PROVE  IInv'
  <1>1. /\ Awaited /\ state = "idle" /\ Latest.outcome = "lexeme" /\ request # NoRequest
        /\ buffer' = Pushed(buffer, Latest) /\ taken' = taken /\ request.op = "peek"
    BY DEF PeekContinues, Awaited
  <1>2. /\ RingOf(buffer, Elements(made)) /\ taken \in Seq(Elements(made)) /\ Sequence(made)
        /\ Left >= 0 /\ request.offset - buffer.size <= Left /\ Latest \in Elements(made)
        /\ request \in [op : {"peek", "read"}, offset : 0..MaxPeek]
    BY <1>1, LatestIsMade DEF IInv, HistoryHolds, RequestHolds
  <1>3. /\ RingOf(buffer', Elements(made))
        /\ Contents(buffer') = Append(Contents(buffer), Latest)
    BY <1>1, <1>2, PushIsAppend
  <1>4. Contents(buffer) \in Seq(Elements(made)) /\ Len(Contents(buffer)) = buffer.size
    BY <1>2, ContentsAreValues
  <1>5. buffer'.size = buffer.size + 1
    <2>1. Len(Contents(buffer')) = buffer'.size
      BY <1>3, ContentsAreValues
    <2> QED
      BY <1>2, <1>3, <1>4, <2>1, AppendProperties
  <1>6. Given' = Append(Given, Latest)
    <2>1. taken \o Append(Contents(buffer), Latest) = Append(taken \o Contents(buffer), Latest)
      <3> DEFINE c == Contents(buffer)
      <3>1. <<Latest>> \in Seq(Elements(made)) /\ Append(c, Latest) = c \o <<Latest>>
        BY <1>2, <1>4, AppendIsConcat
      <3>2. /\ taken \o c \in Seq(Elements(made))
            /\ Append(taken \o c, Latest) = (taken \o c) \o <<Latest>>
        BY <1>2, <1>4, ConcatProperties, AppendIsConcat
      <3>3. taken \o (c \o <<Latest>>) = (taken \o c) \o <<Latest>>
        BY <1>2, <1>4, <3>1, ConcatAssociative
      <3> QED
        BY <3>1, <3>2, <3>3
    <2> QED
      BY <1>1, <1>3, <2>1 DEF Given
  <1>7. Left \in Int /\ buffer.size \in Nat /\ request.offset \in Nat
    BY <1>1, Facts
  <1>8. CASE /\ request' = NoRequest
             /\ UNCHANGED <<characters, lexing, store, made>>
    <2>1. /\ ReaderHolds' /\ LexingHolds' /\ StoreHoldsTheLexemes'
          /\ text' = text /\ made' = made /\ state' = state
      BY <1>8, Resting
    <2>2. HistoryHolds'
      BY <1>1, <1>2, <1>3, <2>1 DEF HistoryHolds
    <2>3. RequestHolds'
      <3>1. Left' = Left /\ request'.op # "peek" /\ request'.op # "read" /\ ~Awaited'
        BY <1>8, <2>1 DEF Left, NoRequest, Awaited
      <3> QED
        BY <1>1, <1>2, <1>8, <2>1, <3>1 DEF RequestHolds
    <2>4. OrderHolds'
      <3>1. Told' = Len(made)
        BY <1>8, <2>1 DEF Told, Awaited
      <3> QED
        BY <1>1, <1>6, <2>1, <3>1, NextInOrder
    <2> QED
      BY <2>1, <2>2, <2>3, <2>4 DEF IInv
  <1>9. CASE Lex /\ request' = request /\ ~(buffer.size + 1 > request.offset)
    <2>1. /\ ReaderHolds' /\ LexingHolds' /\ StoreHoldsTheLexemes'
          /\ text' = text /\ made' = made /\ state' = "trivia"
      BY <1>9, Calling
    <2>2. HistoryHolds'
      BY <1>1, <1>2, <1>3, <2>1 DEF HistoryHolds
    <2>3. RequestHolds'
      <3>1. Left' = Left /\ request'.op = "peek" /\ request'.op # "read" /\ ~Awaited'
        BY <1>1, <1>9, <2>1 DEF Left, Awaited
      <3>2. /\ Left' >= 1 /\ buffer'.size <= request'.offset
            /\ request'.offset - buffer'.size + 1 <= Left'
        BY <1>2, <1>5, <1>7, <1>9, <3>1
      <3> QED
        BY <1>1, <1>2, <1>9, <2>1, <3>1, <3>2 DEF RequestHolds
    <2>4. OrderHolds'
      <3>1. Told' = Len(made)
        BY <2>1 DEF Told, Awaited
      <3> QED
        BY <1>1, <1>6, <2>1, <3>1, NextInOrder
    <2> QED
      BY <2>1, <2>2, <2>3, <2>4 DEF IInv
  <1> QED
    BY <1>8, <1>9 DEF PeekContinues

LEMMA NothingPreserves ==
  ASSUME IInv, UNCHANGED vars
  PROVE  IInv'
  <1>1. /\ UNCHANGED <<characters, lexing, store, made>>
        /\ buffer' = buffer /\ request' = request /\ taken' = taken
    BY DEF vars, lookahead
  <1>2. /\ ReaderHolds' /\ LexingHolds' /\ StoreHoldsTheLexemes'
        /\ text' = text /\ made' = made /\ state' = state
    BY <1>1, Resting
  <1>3. HistoryHolds'
    BY <1>1, <1>2 DEF IInv, HistoryHolds
  <1>4. RequestHolds'
    BY <1>1, <1>2 DEF IInv, RequestHolds, Awaited, Left
  <1>5. OrderHolds'
    BY <1>1, <1>2 DEF IInv, OrderHolds, Told, Awaited, Given
  <1> QED
    BY <1>2, <1>3, <1>4, <1>5 DEF IInv

LEMMA NextPreserves ==
  ASSUME IInv, [Next]_vars
  PROVE  IInv'
  <1>1. CASE LexStep
    BY <1>1, LexSteps, LexPreserves
  <1>2. ASSUME NEW n \in 0..MaxPeek, Peek(n)
        PROVE  IInv'
    BY <1>2, PeekPreserves
  <1>3. CASE Done
    BY <1>3, NothingPreserves DEF Done
  <1>4. CASE UNCHANGED vars
    BY <1>4, NothingPreserves
  <1> QED
    BY <1>1, <1>2, <1>3, <1>4, ReadBufferedPreserves, ReadThroughPreserves, PropagatePreserves,
       ReadReturnsPreserves, PeekContinuesPreserves
       DEF Next, Client, Step

----------------------------------------------------------------------------
(* The theorems.                                                             *)

(* The invariant in all its parts: the two rings, what lex() is doing, how   *)
(* many calls of it are left, and the order of what it gave.                 *)
THEOREM Invariant == Spec => []IInv
  <1>1. Init => IInv
    BY InitHolds
  <1>2. IInv /\ [Next]_vars => IInv'
    BY NextPreserves
  <1> QED
    BY <1>1, <1>2, PTL DEF Spec

LEMMA InvariantImpliesTypes ==
  ASSUME IInv
  PROVE  TypeOK
  <1>1. text \in Seq(Byte) /\ Len(text) \in Nat /\ MaxLexemes(text) \in Nat
    BY TextIsBytes DEF IInv, ReaderHolds
  <1>2. \A i \in DOMAIN text : text[i] \in Byte
    BY <1>1, ElementOfSeq, LenProperties
  <1>3. reader.at \in 0..Len(text) /\ IsRing(reader.ring)
    BY <1>1 DEF IInv, ReaderHolds, ReaderOf, RingOf
  <1>4. /\ location.line \in Nat \ {0} /\ location.column \in Nat \ {0}
        /\ state \in Busy \cup {"idle"} /\ suffix_digits \in Nat /\ building \in BOOLEAN
    BY DEF IInv, LexingHolds, Places
  <1>5. Len(made) <= MaxLexemes(text)
    <2>1. Len(made) \in Nat /\ Left >= 0
      BY Facts DEF IInv, RequestHolds
    <2> QED
      BY <1>1, <2>1 DEF Left
  <1>6. IsRing(buffer)
    BY DEF IInv, HistoryHolds, RingOf
  <1>7. request \in [op : {"none", "peek", "read"}, offset : 0..MaxPeek]
    <2>1. request = NoRequest \/ request \in [op : {"peek", "read"}, offset : 0..MaxPeek]
      BY DEF IInv, RequestHolds
    <2>2. 0 \in 0..MaxPeek
      BY LexerAssumption
    <2> QED
      BY <2>1, <2>2 DEF NoRequest
  <1> QED
    BY <1>2, <1>3, <1>4, <1>5, <1>6, <1>7 DEF TypeOK, Busy

(* Whatever the texts and however far the client peeks: the decoder stays in *)
(* its text, both rings keep their shape, locations count from 1, and lex()  *)
(* is called no more often than the bound allows.                            *)
THEOREM TypesHold == Spec => []TypeOK
  <1>1. IInv => TypeOK
    BY InvariantImpliesTypes
  <1> QED
    BY <1>1, Invariant, PTL

(* Utf8_char_input_stream decodes every text as UTF-8: wherever it is, a     *)
(* character comes out exactly when the next bytes encode a scalar value,    *)
(* and it is that value; the end is reported at the end only.                *)
THEOREM TextIsDecoded == Spec => []DecodesUtf8
  <1>1. ASSUME IInv
        PROVE  DecodesUtf8
    <2>1. text \in Seq(Byte) /\ reader.at \in Nat /\ reader.at <= Len(text)
      BY <1>1, TextIsBytes DEF IInv, ReaderHolds, ReaderOf
    <2> QED
      BY <2>1, DecoderIsUtf8 DEF DecodesUtf8, AheadOf
  <1> QED
    BY <1>1, Invariant, PTL

(* Nothing is lost, repeated or reordered between lex() and the parser,      *)
(* however far it peeks and however often the lookahead ring grows.          *)
THEOREM OrderIsKept == Spec => []LexemesInOrder
  <1>1. ASSUME IInv
        PROVE  LexemesInOrder
    <2>1. LiveSlots(buffer) /\ LiveSlots(reader.ring)
      BY <1>1 DEF IInv, ReaderHolds, ReaderOf, HistoryHolds, RingOf
    <2>2. Ordered(made, Given, Told)
      BY <1>1 DEF IInv, OrderHolds
    <2>3. \A n : LexemesAmong(n) = Among(made, n)
      BY DEF LexemesAmong, Among, Chosen
    <2> QED
      BY <2>1, <2>2, <2>3 DEF LexemesInOrder, Ordered
  <1> QED
    BY <1>1, Invariant, PTL

(* An error cancels the build it interrupts, and the table has the spellings *)
(* of the lexemes and nothing else.                                          *)
THEOREM StoreIsKept == Spec => []StoreHoldsTheLexemes
  <1>1. IInv => StoreHoldsTheLexemes
    BY DEF IInv
  <1> QED
    BY <1>1, Invariant, PTL

(* No call of lex() goes on for ever, on any text: each of its steps has     *)
(* less of the text before it than the last, or ends the call, and what is   *)
(* before it is a natural number.                                            *)
THEOREM LexingEnds == Spec => EveryLexEnds /\ [](Unread \in Nat)
  <1>1. ASSUME IInv, [Next]_vars
        PROVE  [state # "idle" => state' = "idle" \/ Unread' < Unread]_vars
    <2>1. ASSUME state # "idle", ~(UNCHANGED vars)
          PROVE  state' = "idle" \/ Unread' < Unread
      <3>1. LexStep
        BY <1>1, <2>1 DEF Next, Client, Step, Peek, ReadBuffered, ReadThrough, Done, Propagate,
           ReadReturns, PeekContinues, Awaited
      <3>2. Goes \/ Ends
        BY <1>1, <3>1, LexSteps DEF LexMoves
      <3> QED
        BY <3>2 DEF Goes, Ends
    <2> QED
      BY <2>1
  <1>2. ASSUME IInv
        PROVE  Unread \in Nat
    <2>1. /\ Len(text) \in Nat /\ reader.at \in Nat /\ reader.at <= Len(text)
          /\ reader.ring.size \in Nat
      BY <1>2, TextIsBytes, RingFields DEF IInv, ReaderHolds, ReaderOf
    <2> QED
      BY <2>1 DEF Unread
  <1> QED
    BY <1>1, <1>2, Invariant, PTL DEF Spec, EveryLexEnds
=============================================================================
