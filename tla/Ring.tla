------------------------------- MODULE Ring -------------------------------
(* The ring both lookahead buffers are made of: Ring_buffer                 *)
(* (src/code/lexing/include/lexing/ring_buffer.h), which grows, and the one  *)
(* inside Char_input_stream_peeker, which does not.  A slot is << >> when    *)
(* nothing lives in it and <<v>> when v does.                               *)
EXTENDS Integers, Sequences

EmptyRing(capacity) ==
  [capacity |-> capacity, slots |-> [k \in 0..capacity - 1 |-> << >>], head |-> 0, size |-> 0]

(* The source masks with capacity - 1; capacities are powers of two. *)
Slot(ring, i) == (ring.head + i) % ring.capacity

At(ring, i) == ring.slots[Slot(ring, i)][1]

Placed(ring, v) ==
  [ring EXCEPT !.slots = [@ EXCEPT ![Slot(ring, ring.size)] = <<v>>], !.size = @ + 1]

Popped(ring) ==
  [ring EXCEPT !.slots = [@ EXCEPT ![ring.head] = << >>],
               !.head = Slot(ring, 1),
               !.size = @ - 1]

Doubled(capacity) == IF capacity = 0 THEN 4 ELSE 2 * capacity

Grown_KeepsHead(ring) ==       \* mutant: the elements are moved, _head is not reset
  [capacity |-> Doubled(ring.capacity),
   slots |-> [k \in 0..Doubled(ring.capacity) - 1 |->
                IF k < ring.size THEN ring.slots[Slot(ring, k)] ELSE << >>],
   head |-> ring.head,
   size |-> ring.size]

(* The elements are moved in order from the head, so the new head is 0. *)
Grown(ring) ==
  [capacity |-> Doubled(ring.capacity),
   slots |-> [k \in 0..Doubled(ring.capacity) - 1 |->
                IF k < ring.size THEN ring.slots[Slot(ring, k)] ELSE << >>],
   head |-> 0,
   size |-> ring.size]

Pushed(ring, v) ==
  Placed(IF ring.size = ring.capacity THEN Grown(ring) ELSE ring, v)

(* What is in the ring, first element first. *)
Contents(ring) == [i \in 1..ring.size |-> At(ring, i - 1)]

IsRing(ring) ==
  /\ ring.capacity \in Nat /\ ring.size \in 0..ring.capacity
  /\ ring.head \in Nat /\ (ring.capacity > 0 => ring.head < ring.capacity)
  /\ ring.capacity = 0 => ring.head = 0
  /\ DOMAIN ring.slots = 0..ring.capacity - 1

(* Something lives in a slot exactly when it is one of `size` from `head`:   *)
(* nothing is destroyed twice or never, nothing dead is read.                *)
LiveSlots(ring) ==
  \A k \in DOMAIN ring.slots :
    ring.slots[k] # << >> <=> \E i \in 0..ring.size - 1 : k = Slot(ring, i)
============================================================================
