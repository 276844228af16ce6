------------------------ MODULE MCSpellingTable ------------------------
(* Instances of SpellingTable: all the texts of up to two characters, with   *)
(* hashes that collide, and two buckets that become four and then eight.    *)
EXTENDS SpellingTable

CONSTANTS a, b     \* characters

(* Texts that begin with b are at home in the last bucket, whence a probe    *)
(* wraps around.                                                             *)
ByFirst == [text \in Text |-> IF text = << >> \/ text[1] = a THEN 0 ELSE 7]
============================================================================
