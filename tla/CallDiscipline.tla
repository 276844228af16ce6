------------------------- MODULE CallDiscipline -------------------------
(* What calls and returns promise the code that makes them: every activation *)
(* has registers of its own, a caller keeps those below the window it hands  *)
(* to its callee, and it resumes with them, its stack pointer and its        *)
(* position intact, but for the one register it asked the result in.         *)
EXTENDS Integers, Sequences

VARIABLES
  active,       \* an activation is running
  position, stack_pointer,
  window,       \* the registers the running activation can name
  suspended     \* its callers, the oldest first

vars == <<active, position, stack_pointer, window, suspended>>

Nowhere == -1

Init == active = FALSE /\ suspended = << >>

(* The host enters or leaves; while inactive nothing else is promised. *)
Enter ==
  /\ ~active
  /\ suspended' = << >>

Leave ==
  /\ active
  /\ active' = FALSE
  /\ suspended' = << >>

(* Any instruction of the running activation. *)
Compute ==
  /\ active /\ active'
  /\ Len(window') = Len(window)
  /\ UNCHANGED suspended

(* The callee's window starts at the caller's register b; it may bring new   *)
(* registers with it.                                                        *)
Invoke ==
  /\ active /\ active'
  /\ \E b \in 0..Len(window) :
       LET shared == SubSeq(window, b + 1, Len(window))
       IN  /\ Len(suspended') = Len(suspended) + 1
           /\ SubSeq(suspended', 1, Len(suspended)) = suspended
           /\ LET caller == suspended'[Len(suspended) + 1]
              IN  /\ caller.kept = SubSeq(window, 1, b)
                  /\ caller.stack_pointer = stack_pointer
                  /\ caller.resume = position + 1
           /\ SubSeq(window', 1, Len(shared)) = shared
  /\ UNCHANGED stack_pointer

Resume ==
  /\ active /\ active'
  /\ suspended # << >>
  /\ LET caller == suspended[Len(suspended)]
         all == caller.kept \o window
     IN  /\ suspended' = SubSeq(suspended, 1, Len(suspended) - 1)
         /\ position' = caller.resume
         /\ stack_pointer' = caller.stack_pointer
         /\ IF caller.dst = Nowhere THEN window' = all
            ELSE \E r \in 1..Len(window) :
                   window' = [all EXCEPT ![caller.dst + 1] = window[r]]

Next == Enter \/ Leave \/ Compute \/ Invoke \/ Resume

Spec == Init /\ [][Next]_vars
============================================================================
