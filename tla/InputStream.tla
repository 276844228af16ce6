---------------------------- MODULE InputStream ----------------------------
(* What an Input_stream promises its callers (input_stream.h:17-22): a call  *)
(* gives the next bytes of the text, once and in order, at least one while   *)
(* there are any and never more than were asked for.  After a call that      *)
(* throws the position is undefined, and so is everything after it.          *)
EXTENDS Integers, Sequences

CONSTANTS Unasked, Thrown     \* "no call is under way", "the call threw"

VARIABLES
  text,        \* the bytes there are to read
  taken,       \* those that calls have returned
  asked,       \* the size of the caller's buffer, or Unasked
  answer,      \* what the last call returned
  broken       \* a call has thrown

vars == <<text, taken, asked, answer, broken>>

Init ==
  /\ taken = << >>
  /\ asked = Unasked
  /\ answer = 0
  /\ broken = FALSE

Ask ==
  /\ asked = Unasked
  /\ asked' \in Nat
  /\ UNCHANGED <<text, taken, answer, broken>>

Answer ==
  /\ asked # Unasked
  /\ \E n \in 0..asked :
       /\ n = 0 => asked = 0 \/ Len(taken) = Len(text)
       /\ Len(taken) + n <= Len(text)
       /\ taken' = SubSeq(text, 1, Len(taken) + n)
       /\ answer' = n
  /\ asked' = Unasked
  /\ UNCHANGED <<text, broken>>

Throw ==
  /\ asked # Unasked
  /\ asked' = Unasked
  /\ answer' = Thrown
  /\ broken' = TRUE
  /\ UNCHANGED <<text, taken>>

Undefined ==
  /\ broken
  /\ broken'
  /\ UNCHANGED text

Next == Ask \/ Answer \/ Throw \/ Undefined

Spec == Init /\ [][Next]_vars
============================================================================
