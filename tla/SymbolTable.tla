---------------------------- MODULE SymbolTable ----------------------------
(* benson::Symbol_table: a global scope and a stack of nested ones, in which  *)
(* a function's scope is a barrier.                                           *)
EXTENDS Integers, Sequences, SequencesExt, TLC

(* A binding is an Object_binding or a constant; a scope maps names to them.  *)
ObjectBinding(type, register) == [object |-> type, register |-> register]
IsObjectBinding(binding) == "object" \in DOMAIN binding

NoSymbols == [name \in {} |-> name]
Symbol(name, binding) == [x \in {name} |-> binding]

(* Symbols with more of them, which hide those they share a name with. *)
Hiding(symbols, more) ==
  [x \in DOMAIN symbols \union DOMAIN more |-> IF x \in DOMAIN more THEN more[x] ELSE symbols[x]]

(* declare_object() and declare_value(): the innermost scope's earlier        *)
(* binding of the name gives way.                                             *)
Declared(table, name, binding) ==
  IF table.scopes = << >>
  THEN [table EXCEPT !.global = Hiding(@, Symbol(name, binding))]
  ELSE [table EXCEPT !.scopes[Len(table.scopes)].symbols = Hiding(@, Symbol(name, binding))]

Searched_PastBarrier(table) ==     \* mutant: a barrier stops nothing
  DOMAIN table.scopes

(* The scopes lookup() searches before the global one: those above the        *)
(* innermost barrier, and the barrier.                                        *)
Searched(table) ==
  {i \in DOMAIN table.scopes :
     \A j \in i + 1..Len(table.scopes) : ~table.scopes[j].is_barrier}

(* The binding in scope, or none. *)
Lookup(table, name) ==
  LET found == {i \in Searched(table) : name \in DOMAIN table.scopes[i].symbols}
  IN  IF found # {}
      THEN <<table.scopes[CHOOSE i \in found : \A j \in found : j <= i].symbols[name]>>
      ELSE IF name \in DOMAIN table.global THEN <<table.global[name]>> ELSE << >>

PushScope(table, is_barrier) ==
  [table EXCEPT !.scopes = Append(@, [symbols |-> NoSymbols, is_barrier |-> is_barrier])]

PopScope_Merged(table) ==     \* mutant: the bindings outlive the block
  LET n == Len(table.scopes)
      merged == table.scopes[n].symbols
      rest == [table EXCEPT !.scopes = Front(@)]
  IN  IF n < 2 THEN rest
      ELSE [rest EXCEPT !.scopes[n - 1].symbols = Hiding(@, merged)]

PopScope(table) == [table EXCEPT !.scopes = Front(@)]
============================================================================
