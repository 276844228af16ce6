------------------------- MODULE MCModuleBuilder -------------------------
(* Instances of ModuleBuilder: code with jumps (bytes base 4, so a narrow   *)
(* offset is -2..1 and a wide one -8..7), constants and functions (bytes    *)
(* base 2, so an index is 0..3).                                            *)
EXTENDS ModuleBuilder, TLC

CONSTANTS f1, f2, f3, f4, f5     \* function names

Weights4 == [n \in 0..2 |-> 4 ^ n]
Weights2 == [n \in 0..2 |-> 2 ^ n]

Instr(op, operands) == [op |-> op, operands |-> operands]

JumpInstructions ==
  {Instr(Exit, << >>), Instr(Ret, <<4>>), Instr(Load, <<3, -2, 3>>), Instr(MovI, <<-3, 1>>)}
JumpConditionSet == {<< >>, <<3>>, <<4>>}

TableInstructions == {Instr(RetVoid, << >>), Instr(Ret, <<2>>)}
TableConstants == {<<0>>, <<1>>, <<0, 1>>, <<1, 0>>, <<1, 1, 0>>}
None == {}

TwoNames == {f1, f2}
FiveNames == {f1, f2, f3, f4, f5}
NameSymmetry == Permutations(FiveNames)
============================================================================
