------------------------ MODULE MCVirtualMachine ------------------------
(* Instances of VirtualMachine: hand-written modules in the style of        *)
(* src/code/vm/test/vm_test.cpp, and every small program over an alphabet.  *)
(* Bytes are base 8 and a word is two of them, so the types are a 1-byte    *)
(* integer (-4..3) and a 2-byte one (-32..31).                              *)
EXTENDS VirtualMachine

MCByteWeight == [n \in 0..2 |-> 8 ^ n]

(* Instructions, operands in the order the emitter takes them. *)
Blank == [op |-> "exit", fn |-> "none", lhs |-> 0, rhs |-> 0, dst |-> 0, imm |-> 0,
          size |-> 2, callee |-> 0]
MovI(n, d) == [Blank EXCEPT !.op = "mov_i", !.imm = n, !.dst = d]
Move(s, d) == [Blank EXCEPT !.op = "mov", !.lhs = s, !.dst = d]
LookupK(k, d) == [Blank EXCEPT !.op = "lookup_k", !.rhs = k, !.dst = d]
Un(fn, n, s, d) == [Blank EXCEPT !.op = "unary", !.fn = fn, !.size = n, !.lhs = s, !.dst = d]
Bin(fn, l, r, d) == [Blank EXCEPT !.op = "binary", !.fn = fn, !.lhs = l, !.rhs = r, !.dst = d]
BinK(fn, n, l, k, d) ==
  [Blank EXCEPT !.op = "binary_k", !.fn = fn, !.size = n, !.lhs = l, !.rhs = k, !.dst = d]
BinI(fn, l, n, d) == [Blank EXCEPT !.op = "binary_i", !.fn = fn, !.lhs = l, !.imm = n, !.dst = d]
Ld(n, b, o, d) == [Blank EXCEPT !.op = "load", !.size = n, !.lhs = b, !.imm = o, !.dst = d]
St(n, b, o, s) == [Blank EXCEPT !.op = "store", !.size = n, !.lhs = b, !.imm = o, !.rhs = s]
LdSp(n, o, d) == [Blank EXCEPT !.op = "load_sp", !.size = n, !.imm = o, !.dst = d]
StSp(n, o, s) == [Blank EXCEPT !.op = "store_sp", !.size = n, !.imm = o, !.rhs = s]
MovSp(o, d) == [Blank EXCEPT !.op = "mov_sp_i", !.imm = o, !.dst = d]
AllocaI(n) == [Blank EXCEPT !.op = "alloca_i", !.imm = n]
AllocaR(s) == [Blank EXCEPT !.op = "alloca", !.lhs = s]
Jmp(o) == [Blank EXCEPT !.op = "jmp_i", !.imm = o]
Jnz(s, o) == [Blank EXCEPT !.op = "jnz_i", !.lhs = s, !.imm = o]
CallI(f, b, d) == [Blank EXCEPT !.op = "call_i", !.callee = f, !.lhs = b, !.dst = d]
CallVoid(f, b) == [Blank EXCEPT !.op = "call_void_i", !.callee = f, !.lhs = b]
Ret(s) == [Blank EXCEPT !.op = "ret", !.lhs = s]
RetVoid == [Blank EXCEPT !.op = "ret_void"]
Exit == Blank

(* A module from its top-level code and the bodies of its functions; a       *)
(* function is [parameters, type, registers, body].                          *)
Entry(parameters, type, count, body) ==
  [parameters |-> parameters, type |-> type, count |-> count, body |-> body]

Module(count, top, fns, constants, table) ==
  LET Ends[f \in 0..Len(fns)] ==
        IF f = 0 THEN Len(top) ELSE Ends[f - 1] + Len(fns[f].body)
      total == Ends[Len(fns)]
      ownerOf(p) == IF p <= Len(top) THEN 0
                    ELSE CHOOSE f \in 1..Len(fns) : Ends[f - 1] < p /\ p <= Ends[f]
  IN  [code |-> [p \in 1..total |->
                   IF ownerOf(p) = 0 THEN top[p]
                   ELSE fns[ownerOf(p)].body[p - Ends[ownerOf(p) - 1]]],
       owner |-> [p \in 1..total |-> ownerOf(p)],
       functions |-> [f \in 1..Len(fns) |->
                        [position |-> Ends[f - 1] + 1,
                         parameter_types |-> fns[f].parameters,
                         return_type |-> fns[f].type,
                         register_count |-> fns[f].count]],
       top_level_registers |-> count,
       constant_data |-> constants,
       constant_table |-> table]

----------------------------------------------------------------------------
(* The library: recursion with a spilled local, a callee that writes through *)
(* a pointer to its caller's local, constants, a loop, and failures at       *)
(* depth.                                                                    *)

Factorial ==
  Entry(<<2>>, 2, 3,
    << BinI("le", 0, 1, 1), Jnz(1, 7),
       AllocaI(2), StSp(2, 0, 0), BinI("sub", 0, 1, 2), CallI(1, 2, 1), LdSp(2, 0, 0),
       Bin("mul", 0, 1, 1), Ret(1),
       MovI(1, 1), Ret(1) >>)

(* bump(p) doubles what p points to; twice(n) = 2 * n through a local.       *)
Bump ==
  Entry(<<2>>, VoidType, 2,
    << Ld(2, 0, 0, 1), Bin("add", 1, 1, 1), St(2, 0, 0, 1), RetVoid >>)
Twice ==
  Entry(<<2>>, 2, 3,
    << MovI(2, 1), AllocaR(1), StSp(2, 0, 0), MovSp(0, 1), CallVoid(2, 1), LdSp(2, 0, 0),
       Ret(0) >>)

(* flag(n): n # 0, counting n down to 0 in a loop and negating on the way.   *)
Flag ==
  Entry(<<2>>, BoolType, 3,
    << MovI(0, 1), Jnz(0, 1), Ret(1),
       MovI(1, 1), BinI("sub", 0, 1, 0), Jnz(0, -2), Jmp(0), Un("neg", 2, 1, 1),
       Un("sx", 1, 1, 1), Ret(1) >>)

(* offset(n): n + 3 - 2, constants read by binary_k and through a pointer.   *)
Offset ==
  Entry(<<1>>, 1, 3,
    << LookupK(2, 1), Ld(1, 1, 0, 1), BinK("add", 1, 0, 1, 2), Move(2, 0),
       Bin("sub", 2, 1, 0), Ret(0) >>)

Arithmetics == Module(0, <<Exit>>, <<Factorial, Bump, Twice, Flag, Offset>>,
                      <<3, 2, 7>>, <<0, 1>>)

(* Failures: a store through a null pointer two calls deep with stack        *)
(* allocated, unbounded recursion, an exit in a callee, and a parameter of a *)
(* type the host cannot pass.                                                *)
Poke == Entry(<< >>, VoidType, 1, << AllocaI(1), MovI(0, 0), St(1, 0, 0, 0), RetVoid >>)
Deep == Entry(<<2>>, 2, 2, << AllocaI(1), CallVoid(1, 1), Ret(0) >>)
Endless == Entry(<< >>, 2, 1, << CallI(3, 1, 0), Ret(0) >>)
Quit == Entry(<< >>, VoidType, 0, << Exit >>)
Vague == Entry(<<1, VoidType>>, VoidType, 2, << CallVoid(4, 0), RetVoid >>)

Failures == Module(2, << MovI(2, 1), CallI(2, 1, 0), Exit >>,
                   <<Poke, Deep, Endless, Quit, Vague>>, << >>, << >>)

(* Top-level code that calls, and meets `exit` in a callee. *)
TopLevel == Module(3, << MovI(3, 1), CallI(1, 1, 0), Move(0, 1), Jmp(0), Exit >>,
                   <<Factorial, Entry(<<2>>, 2, 1, <<Ret(0)>>)>>, << >>, << >>)
Stops == Module(1, << CallVoid(1, 0), Exit >>, << Quit >>, << >>, << >>)

LibraryModules == {Arithmetics}
FailureModules == {Failures, TopLevel, Stops}

I1(n) == [type |-> 1, value |-> n]
I2(n) == [type |-> 2, value |-> n]
LibraryArguments == {<<I2(0)>>, <<I2(3)>>, <<I1(-3)>>}
FailureArguments == {<< >>, <<I2(2)>>, <<I1(1), [type |-> VoidType, value |-> 0]>>}

(* A call that gives a value gives the one the function's source denotes:    *)
(* windows, stack frames, jumps and memory together compute it.              *)
Factorials == <<1, 2, 6, 24>>
Denoted(f, n) ==
  CASE f = 1 -> IF n = 0 THEN 1 ELSE Factorials[n]
    [] f = 3 -> 2 * n
    [] f = 4 -> IF n = 0 THEN 0 ELSE 1
    [] f = 5 -> Signed(Signed(n + 3, 1) - 2, 1)
CallsComputeTheirFunction ==
  [][ /\ status = "call" /\ module = Arithmetics
      /\ result'.kind = "value"
      => result'.value = Denoted(guard.function, guard.arguments[1].value) ]_vars

----------------------------------------------------------------------------
(* Every well-formed module of two functions over a small alphabet: a value  *)
(* function of three instructions and a void function of two, in any order   *)
(* of calls (mutual recursion included), jumps, exits, stack accesses in and *)
(* out of bounds, and stores through untagged words.                         *)

ValueBody == {CallI(1, 1, 0), CallVoid(2, 1), Jnz(0, -2), StSp(1, -1, 0)}
VoidBody == {CallI(1, 0, 0), AllocaI(1), St(1, 0, 0, 0), Exit}

SmallModules ==
  {m \in {Module(1, <<CallI(1, 0, 0), Exit>>,
                 <<Entry(<< >>, 2, 2, <<a, b, Ret(0)>>),
                   Entry(<< >>, VoidType, 1, <<c, RetVoid>>)>>, << >>, << >>) :
            a \in ValueBody, b \in ValueBody, c \in VoidBody} : WellFormed(m)}

(* The host of a small program loads small programs only, and the host of    *)
(* the failures the failures only, so that the registers one leaves behind   *)
(* do not multiply the states of all the others.                             *)
HardModules == FailureModules \cup SmallModules
OneFamily(m, n) == m = NoModule \/ (m \in SmallModules <=> n \in SmallModules)
HardSpec == Init /\ [][Next /\ OneFamily(module, module')]_vars
============================================================================
