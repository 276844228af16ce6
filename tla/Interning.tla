--------------------------- MODULE Interning ---------------------------
(* What a spelling table promises: a list of different texts that only     *)
(* grows, in which a text's handle is its place.                           *)
EXTENDS Naturals, Sequences

VARIABLES
  known,      \* the texts, each at its handle
  answer      \* the last text asked for, and the handle given: 0 for none

NoAnswer == [text |-> << >>, handle |-> 0]

Knows(text) == \E h \in DOMAIN known : known[h] = text

Init == known = << >> /\ answer = NoAnswer

(* A text is known already. *)
Recall ==
  /\ \E h \in DOMAIN known : answer' = [text |-> known[h], handle |-> h]
  /\ UNCHANGED known

(* A text is new. *)
Learn ==
  /\ ~Knows(answer'.text)
  /\ known' = Append(known, answer'.text)
  /\ answer'.handle = Len(known) + 1

(* A text is looked up and not there. *)
Miss ==
  /\ ~Knows(answer'.text)
  /\ answer'.handle = 0
  /\ UNCHANGED known

Next == Recall \/ Learn \/ Miss

Spec == Init /\ [][Next]_<<known, answer>>
============================================================================
