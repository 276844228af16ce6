---------------------------- MODULE Words ----------------------------
(* The 64-bit register words of the virtual machine, the integer views the  *)
(* instructions take of them (int8_t .. int64_t), the byte memory they are  *)
(* spilled to, and the tagged pointers that address it                      *)
(* (src/code/vm/include/vm/pointer.h, the functors and the get_/set_        *)
(* register_value templates of the VM).                                     *)
(*                                                                          *)
(* A word is WordBytes bytes of base ByteModulus, least significant first.  *)
(* The program has ByteModulus = 256 and WordBytes = 8; ByteWeight[n] is    *)
(* ByteModulus^n, given as a function so that the provers see a plain       *)
(* number.  A C++ integer type is named by its number of bytes.             *)
EXTENDS Integers, Sequences

CONSTANTS ByteModulus, WordBytes, ByteWeight

ASSUME WordsAssumption ==
  /\ ByteModulus \in Nat /\ ByteModulus > 1
  /\ WordBytes \in 1..8
  /\ ByteWeight \in [0..WordBytes -> Nat \ {0}]
  /\ ByteWeight[0] = 1
  /\ \A n \in 0..WordBytes - 1 : ByteWeight[n + 1] = ByteModulus * ByteWeight[n]
  /\ ByteWeight[WordBytes] % 4 = 0

Byte == 0..ByteModulus - 1
WordModulus == ByteWeight[WordBytes]
Word == 0..WordModulus - 1
Size == 1..WordBytes        \* sizeof of an integer operand

(* static_cast<intN_t>: the low n bytes of v as a two's complement number.   *)
Signed(v, n) ==
  LET low == v % ByteWeight[n]
  IN  IF 2 * low < ByteWeight[n] THEN low ELSE low - ByteWeight[n]

(* static_cast<uint64_t> of an integer of any width. *)
ToWord(x) == x % WordModulus

(* An n-byte value widened to a register: sign extension. *)
Extended(v, n) == ToWord(Signed(v, n))

(* C++ division truncates towards zero. *)
Quotient(a, b) ==
  LET abs(x) == IF x < 0 THEN -x ELSE x
      q == abs(a) \div abs(b)
  IN  IF (a < 0) = (b < 0) THEN q ELSE -q

Remainder(a, b) == a - b * Quotient(a, b)

ArithmeticFn == {"add", "sub", "mul", "div", "mod"}
ComparisonFn == {"eq", "ne", "lt", "le", "gt", "ge"}
UnaryFn == {"sx", "neg"}

(* The quotient of two n-byte integers traps on a zero divisor, and on the   *)
(* one quotient that does not fit.                                           *)
Divides(fn, n, a, b) ==
  fn \in {"div", "mod"} => /\ b # 0
                           /\ ~(b = -1 /\ 2 * a = -ByteWeight[n])

Compare(fn, a, b) ==
  CASE fn = "eq" -> a = b
    [] fn = "ne" -> a # b
    [] fn = "lt" -> a < b
    [] fn = "le" -> a <= b
    [] fn = "gt" -> a > b
    [] fn = "ge" -> a >= b

Arithmetic(fn, a, b) ==
  CASE fn = "add" -> a + b
    [] fn = "sub" -> a - b
    [] fn = "mul" -> a * b
    [] fn = "div" -> Quotient(a, b)
    [] fn = "mod" -> Remainder(a, b)

(* The word an n-byte binary instruction leaves in its destination.  The     *)
(* language leaves signed overflow undefined; the operands are not known     *)
(* when the functors are compiled, and what they leave is the sum, product   *)
(* or negation cut to the width, at every width.                             *)
BinaryResult(fn, n, a, b) ==
  IF fn \in ComparisonFn THEN IF Compare(fn, a, b) THEN 1 ELSE 0
                         ELSE Extended(Arithmetic(fn, a, b), n)

UnaryResult(fn, n, a) == IF fn = "sx" THEN ToWord(a) ELSE Extended(-a, n)

----------------------------------------------------------------------------
(* Byte memory: memcpy of the low n bytes of a word, and back. *)

ByteOf(v, k) == (v \div ByteWeight[k]) % ByteModulus

StoreBytes(memory, address, n, v) ==
  [a \in DOMAIN memory |-> IF a \in address..address + n - 1
                           THEN ByteOf(v, a - address) ELSE memory[a]]

(* A word has at most eight bytes (WordsAssumption). *)
LoadBytes(memory, address, n) ==
  LET part(k) == IF k < n THEN memory[address + k] * ByteWeight[k] ELSE 0
  IN  part(0) + part(1) + part(2) + part(3) + part(4) + part(5) + part(6) + part(7)

InMemory(memory, address, n) == address..address + n - 1 \subseteq DOMAIN memory

----------------------------------------------------------------------------
(* Tagged pointers: the space is the top two bits of the word.  A pointer    *)
(* is built by OR, so an offset that is not below SpaceSize (a negative one) *)
(* spoils the tag.                                                           *)

SpaceSize == WordModulus \div 4
StackSpace == 1
HeapSpace == 2
ConstantSpace == 3

TwoBitOr(s, t) == (IF (s % 2) + (t % 2) > 0 THEN 1 ELSE 0)
                    + (IF (s \div 2) + (t \div 2) > 0 THEN 2 ELSE 0)

PointerTo(space, offset) ==
  LET w == ToWord(offset)
  IN  TwoBitOr(space, w \div SpaceSize) * SpaceSize + (w % SpaceSize)

PointerSpace(w) == w \div SpaceSize
PointerOffset(w) == w % SpaceSize
============================================================================
