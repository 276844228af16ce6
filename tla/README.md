# A verification of the bensonlang compiler and virtual machine

TLA+ modules for the parts of this repository that decide what a program means:
the byte and character streams, the lexer and the parser; the front end that
compiles an AST to HLIR and evaluates what is constant, the HLIR interpreter, the
table that names are interned in, the bytecode assembler, and the register machine
that runs bytecode. TLC checks the modules on small instances; TLAPS proves the
invariants of the machine, the assembler, the table, the byte stream and the lexer
with its reader for every instance, that the parser keeps every lexeme of every text,
that the front end ends every block of every program once and lets no register be read
before it is defined, that the machine, the table and the stream
implement their abstract specifications, that the decoder takes UTF-8 and nothing
else, and that the ring of the lookahead buffers is a queue.

Paths below are relative to the repository (`src/code/...` is the code); a line
number is the line in the file as it is in this commit.

## 1. Inventory

The pipeline (`src/docs/wiki/overview.md`) is bytes → characters → lexemes → AST →
HLIR → interpreter. A second back end (LLIR → bytecode → VM) is under
construction: its libraries exist and are tested, and no pass feeds them yet.
Everything runs on one thread, nothing is persisted, and the parts interact by
calls; there are no callbacks and no messages. What is hard is therefore not
interleaving but state that survives a failure, state shared by activations,
indices computed before and used after something moved, and limits.

| Component (code) | State it keeps | Operations | What must be right |
|---|---|---|---|
| Streams (`streams/`) | a 4 KiB buffer with `_pos`/`_end`; the peeker's ring | `read_bytes`, `read_characters`, `peek`, `read` | every byte once and in order over short reads, `EINTR`, end of file and a refill that throws; the decoder consumes what it reports; the ring never serves a stale slot |
| Lexer (`lexing/lexeme_stream`) | position in the source, lookahead of three characters, a spelling builder | `lex()` | lexemes are the longest prefix, with the right line and column, also at the end of the file and after an error |
| Lexeme reader (`lexing/lexeme_stream_reader`, `ring_buffer`) | a growing ring of lexemes | `peek`, `read` | a FIFO: nothing lost or reordered when it grows while wrapped around |
| Spelling table (`spelling/`) | byte store, entries, hash buckets, one builder in progress | `builder`/`append`/`finalize`/cancel, `intern`, `lookup`, `rehash` | equal texts get equal handles, a handle denotes its text forever, the probe always ends |
| AST (`ast/`) | immutable data | — | every node has the span of its text |
| Parser (`parsing/`) | the lexeme reader | one method per construct | precedence and associativity as declared; no lexeme skipped; ends at the end of the file |
| HLIR (`hlir/`) | types interned by pointer; functions, blocks, instructions; the interpreter's registers and fuel | type pool, `interpret` | equal types are one type; every block ends once; nothing is read before it is written |
| Symbol table (`frontend/symbol_table`) | a global scope, a stack of scopes, some of them barriers | `declare_*`, `lookup`, `push_scope`, `pop_scope` | a name is visible exactly where its definition has run; a function never sees another's locals |
| Front end (`frontend/compile`) | symbol table, current function and block, register types, translation unit, diagnostics | one method per AST node | what is folded, inlined, branched on and merged means what the source means; state is right again after every diagnostic |
| Bytecode builder and writer (`bytecode/`) | module under construction, write position, labels, jumps to patch | `emit_*`, `make_label`, `place_label`, `declare_function`, `place_function`, `constant`, `build` | decoding gives back what was emitted; jumps land at labels, calls at bodies; a constant handle denotes its bytes |
| Virtual machine (`vm/`) | register file, stack, call stack, window base, instruction pointer | `load`, `run`, `call` and one handler per opcode | windows in bounds and private to their activation; the host gets its machine back however a call ends |
| LLIR (`llir/`), source map, source positions, hashing | data, or a pure function | — | — |
| `benson` driver (`benson/`) | — | `run` | wiring |

Interactions: the lexer writes into the spelling table through a builder while it
reads characters; the parser pulls lexemes through the reader; the front end calls
the interpreter in the middle of compiling (a call with constant arguments is run
at once, on functions that may be unfinished); the host and the machine share the
register file and the call stack across nested `run` and `call`.

The hazards these behaviours lead to are listed in `PROJECT.json`, each at the
line where it bites with the properties that cover it. The ones that shaped the
models most: windows that overlap their caller's and grow while they do
(vm.cpp:424-440); exceptions that strike between a frame push and the growth it is
for (vm.cpp:436, :704); `exit` inside a callee (vm.cpp:599); a failed `build()`
that has already patched some jumps (module_builder.cpp:132); constants that share
bytes past each other's ends (module_builder.cpp:146); scopes and current function
after a diagnostic (compile.cpp:22, :1179); evaluation of a function still being
compiled (compile.cpp:798); merges of if chains that were partly folded
(compile.cpp:882-960); a bucket found before the rehash that moves it
(spelling.h:112); a buffer left as it was by a refill that threw
(buffered_input_stream.h:53); characters consumed before the error that reports
them (utf8_char_input_stream.h:75, lexeme_stream.cpp:308); expressions rewrapped
after the fact by the operators that follow them (parser.cpp:189).

## 2. What models what

| Module | Models | Correspondence |
|---|---|---|
| `Words` | `vm/pointer.h`, the functors and register accessors of `vm.cpp` | A word is `WordBytes` bytes of base `ByteModulus` (8 and 256 in the program); sign extension, wrapping arithmetic, truncating division, byte stores and loads, tagged pointers built by OR |
| `VirtualMachine` | `vm.cpp`, `vm.h` | One variable per member of `Virtual_machine`; `guard` is the C++ frame of the active `call()` (its `State_guard` and locals), `status` says whether the host is inside `run` or `call`. One action per handler family, one per host operation |
| `CallDiscipline` | nothing: the abstract specification of calls and returns | Activations with private windows on a stack |
| `ModuleBuilder` | `module_builder.cpp`, `bytecode_writer.cpp`, the decoding part of `vm.cpp` (`Fetched`) | One variable per member; `listing`, `marks`, `handles`, `product` are history: what the client asked for |
| `Hlir` | `hlir/` | Types, operands and blocks as values; `Interpret` is `interpret()` as a machine: a run is its activations (`Entry` makes one for a call) and its fuel, `Advanced` one step of it (`Executed` an instruction, `Left` the end of a block), and `Interpret` takes as many steps as a run can have (`Longest`: fuel bounds the instructions, and no activation is in a block twice) |
| `SymbolTable` | `symbol_table.cpp` | Operators over a table value, one per member function |
| `SpellingTable` | `spelling.h` | One variable per member; `step`, `request`, `index`, `fresh`, `moved` are the locals of the loop an operation is in, and an iteration of a loop is an action. `draft` and `answer` are history: what the client appended, and what it was told |
| `Interning` | nothing: the abstract specification of the table | A list of different texts that only grows |
| `InputStream` | `input_stream.h:17-22`: the abstract specification of a byte stream | What a call may answer: more of the text, nothing only at its end; after an exception, anything |
| `ByteStream` | `buffered_input_stream.h` over `posix_input_stream.h` | One variable per member; `step` is where in `read_bytes` a call is, and each `read(2)` an action that gives as many bytes as it likes, is interrupted, or fails. `delivered` and `broken` are history |
| `Utf8` | the decoder of `utf8_char_input_stream.h` | `Decode` is `decode_codepoint()`, with how far it consumes, and `Continuations` the table of its cases; `WellFormed`, `Payload` and `Encode` say what UTF-8 is |
| `Ring` | `ring_buffer.h` and the ring of `char_input_stream_peeker.h` | Operators over a ring value: slots, head, size; a slot with nothing alive in it is empty |
| `Lexer` | `lexeme_stream.cpp`, `lexeme_stream_reader.cpp`, with `Utf8` and two `Ring`s | `lex()` is a loop over its state: one action per iteration, `Decodes` for one turn of `peek()`'s loop, `Peek` and `Read` for the parser's calls. Its promises to the parser are at the end |
| `LexicalGrammar` | nothing: what lexing is, and that `lex()` does it | The lexemes of a text by longest match over its characters, with the place of each |
| `Parser` | `parser.cpp`, `ast/src/operator.cpp` | The C++ call stack as a variable: an activation is the node it builds and the rest of its function. What a function reads unconditionally is a list of steps, every place where it looks at the next token and chooses an action |
| `Trees` | `ast/ast.h` (`Written`), `ast/src/source_span.cpp` (`SpanOf`), the table in `language.md` | The members of a node in the order they are written, the text of a tree (`Yield`), the precedence table as a condition on trees; the parser's promises about trees are at the end |
| `Grammar` | nothing: the language, and that the parser accepts it | The language as the sentences of a context-free grammar |
| `Frontend` | `compile.cpp` | The C++ recursion as a stack machine: `control` is the call being made or the operand being returned, `stack` the callers waiting. One action per place where a method starts, continues after a nested call, or ends. The `part` of an if frame is the index of the loop over the else-if parts |
| `MCVirtualMachine`, `MCModuleBuilder`, `MCSpellingTable`, `MCFrontend`, `MCByteStream`, `MCLexer`, `MCParser` | instances | programs, instruction sets, hashes, trees and texts for TLC; `MCFrontend` also has an evaluator of source trees |
| `FrontendInvariant` | no code: the invariants of the front end | The definitions that `Frontend_proofs` is about, which are many |
| `VirtualMachine_proofs`, `ModuleBuilder_proofs`, `SpellingTable_proofs`, `ByteStream_proofs`, `Lexer_proofs`, `Trees_proofs`, `Parser_proofs`, `Frontend_proofs` | proofs | see section 5 |

`VirtualMachine` and `ModuleBuilder` extend `Words`; `VirtualMachine` instantiates
`CallDiscipline`, `SpellingTable` instantiates `Interning` and `ByteStream`
`InputStream`, each with a refinement mapping; `Frontend` extends `Hlir` and
`SymbolTable`, `Lexer` extends `Utf8` and `Ring`, `LexicalGrammar` extends
`Lexer`, and `Grammar` extends `Trees`, which extends `Parser`.

Choices a reader should know of:

- *Errors are part of every action.* A refused call, a bad allocation, a
  diagnostic, a refused `build()` are disjuncts of the operation that meets them.
  `MaxRegisters` and `MaxCallDepth` are where the allocator gives up.
- *Undefined behaviour ends the model.* An unchecked stack access outside the
  array, a trapping division, a patch outside the code lead to a state
  (`"undefined"`) after which nothing is promised. A failed assert ends the front
  end's pass with the outcome `"assertion"`, an exception nobody catches with
  `"escaped"`.
- *Positions.* In `VirtualMachine` a position counts instructions, and the narrow
  and wide forms of an instruction are one; the encoding is `ModuleBuilder`'s
  subject, where a position counts bytes and `BuiltCodeIsTheListing` decodes them
  again as the machine does.
- *Modules are well formed* (`WellFormed`): the code is what `module.h:22` calls the
  emitter's contract. The machine checks none of it at run time, so without it
  nothing holds.
- *Probes are steps.* `SpellingTable` runs its loops one iteration at a time, so that
  whether they end is a question. The steps of one operation never interleave with
  another's. A client with a `Builder` may look texts up but interns none: the
  table has an assert against two builders and none against this, and the lexer,
  the only user of a `Builder`, keeps to it.
- *Signed overflow wraps.* `ADD_I32` and the like compute on signed types, whose
  overflow C++ leaves undefined; the machine of the model wraps around, as the build's
  does.
- *A diagnostic is a count.* Wording and spans are left out.
- *After an exception* a stream is not restored: `_pos` is 0 and `_end` still the
  old one, so a further call may repeat bytes. `InputStream` promises nothing from
  then on; that what the caller is given are still bytes of the text, and none from
  beyond what was read, is `NothingInvented`. The program reads no further.
- *Errors consume text.* The decoder has consumed the bytes it rejects, the lexer
  the characters of the token it gives up (`lex_error`) and the offending one. Since
  `&` and `^` look three characters ahead for `mut` before they are returned, a
  malformed character there is reported in place of the operator, which is lost,
  and lexing goes on after that character; `LexicalGrammar` says the same without
  the states.
- *The lexer's positions* are lines and columns; a source is one file, and its
  identity is left out.
- *The parser chooses its input as it reads it.* The lexeme that `peek()` shows is
  any token the input set allows, or an exception of the lexer, so one behaviour
  stands for every text with that beginning. Recursion has no bound in the code
  (a deeply nested text overflows the C++ stack); the bound here is the text's
  length.

## 3. What is checked

| Run | Instance | Distinct states | Shows |
|---|---|---|---|
| `vm_library` | five hand-written functions: recursion with a spilled local, a callee storing through a pointer to its caller's local, a loop, constants, two integer widths; any sequence of calls | 282 thousand | `WindowsInBounds`, `ReturnsMatch`; `ActivationsArePrivate` (the machine implements `CallDiscipline`); `CallsComputeTheirFunction` (each result is what the function denotes, on a machine earlier calls left longer); `EveryRunEnds` |
| `vm_failures` | a store through an untagged pointer two calls deep, unbounded recursion, `exit` in a callee, an argument the host cannot pass, mixed with `run` and reloading | 604 thousand | `CallsHideTheirFrames`: whatever a call does and however it ends, the host's pointer, window, stack and frames are untouched; `ActivationsArePrivate` for these programs too; `IInv`, the inductive invariant of the proofs |
| `builder_jumps` | jumps with no, a narrow and a wide condition, forwards and backwards over instructions of every shape, two labels, repeated `build()` | 795 thousand | `BuiltCodeIsTheListing`: decoding the built bytes gives what was emitted, every jump lands at its label, after any number of failed builds; `NeverUndefined`; `IInv` |
| `builder_tables` | five functions and five constants where an index is 0..3; constants that overlap | 360 thousand | `FunctionsEnterTheirBodies`, `ConstantsKeepTheirBytes`, up to and past the limits; `IInv` with tables that fill up |
| `builder_reuse` | two modules from one builder | — | refutes `FunctionsEnterTheirBodies` for the second |
| `spelling_table` | the seven texts of up to two characters, three entries, two buckets that become four and then eight, texts at home in the first and in the last bucket only | 376 thousand | `HandlesDenoteTheirTexts` (the table implements `Interning`: a handle denotes its text forever, a text has one handle, an operation answers for the text it was asked for); `EmptyBucket`, `EveryOperationReturns`; `IInv` |
| `streams` | texts of up to seven bytes, a buffer of three, requests for 0 to 7 bytes, every length `read(2)` may give, interruptions and errors | 376 thousand | `KeepsThePromise` (the buffer implements `InputStream`), `BytesInOrder`, `NothingInvented` (also after an exception), `EveryReadReturns`; `TypeOK` |
| `lexer` | texts of up to five symbols for every case of `lex()`, three sentences, byte sequences at every boundary of UTF-8; a client that peeks up to five lexemes ahead | 361 thousand | `LexemesAreTheText` (tokens, spellings and spans are those of `LexicalGrammar`, errors included, and `eof` for ever after); `DecodesUtf8`; `LexemesInOrder`; `StoreHoldsTheLexemes`; `EveryLexEnds`; `TypeOK` |
| `parser` | all texts of two tokens, and longer ones (6 to 13) over the tokens of each construct, with a lexer that may throw anywhere | 273 thousand | `EveryLexemeOnce`, `PrecedenceHolds`, `AcceptsTheLanguage`, `SpansAreTheText`, `EveryParseEnds`; `TypeOK` |
| `frontend_programs` | 649 units: every if expression over a small grammar (constant, runtime and mixed else-if chains), early returns, scopes and closures over nothing, recursion run while it is compiled, literals and operators at the ends of `Int8`, types built from types and every pair of them as parameter and argument, every diagnostic, every way the pass can end | 41 thousand | `CompiledCodeMeansItsSource`: global constants, types included, and compiled functions agree with an evaluator of the tree on every argument (a unit that the pass leaves with an exception has nothing to compare, nor has a function that gets stuck in both); `BlocksEndOnce`; `DefinedBeforeRead`; `TopLevelIsTopLevel`; `TypeOK` |
| `frontend_leaked_scope` | the same units | — | refutes `RegistersAreTheFunctions`, the assert at `compile.cpp:568` |
| `frontend_result_types` | units with an if expression without else | — | refutes `ReturnsWhatItDeclares` |

Every property of a passing run has a mutant: a definition changed the way a
plausible bug would change it (the operators marked `mutant` in the modules), for
which the same run finds the property violated.

### Bounds, and why they are enough

- *Words.* Bytes of base 8 and words of two bytes for the machine: two integer
  widths, with sign, wrap-around and truncation at each, and a tag in the top two
  bits that an offset can spoil. Base 4 and 2 for the builder: a narrow offset is
  -2..1 and a wide one -8..7, an index 0..3, so that code of twelve bytes has jumps
  at, below and above every limit, and five functions exceed the table.
- *Depth.* Three or four frames: a callee that is also a caller between two others
  is the deepest pattern a frame's fields can distinguish, and the next level is
  where allocation fails. `MaxRegisters` of 8 lets three host calls lengthen the
  file before it is full.
- *Labels and builds.* Two labels and one module: two jumps to one label, crossing
  jumps, and a build that fails at the second jump. Reuse of the builder is the
  subject of `builder_reuse`.
- *Texts.* Three entries and two homes make probes of every length from none to
  three, one that wraps around, and two rehashes, the second of which moves entries
  that had collided. Seven texts include the empty one, prefixes of one another and
  equal lengths.
- *Bytes.* A buffer of three takes a request of 3 or more past the buffer, serves
  one of 1 or 2 from it, and one of up to 7 mixes both, twice over. Texts of 0 to 7
  bytes end at every step of that.
- *Lexemes.* The alphabet has a symbol for every test `lex()` makes, one two-byte
  character, one that is no UTF-8 and one cut off in the middle; three symbols and
  the four after a digit reach every state and every way out of it, five the longest
  lookahead (`&mut` and what follows). Sentences have more lexemes than the reader's
  ring has slots at first (4), so that it grows, with its head anywhere. UTF-8 is
  tested at the first and last byte of each range the decoder distinguishes.
- *Tokens.* Each set of tokens is that of one construct with what may follow it:
  lengths are those at which a construct nests or repeats once (three operators of
  two levels; an `else if` chain of two; two parameters or arguments).
- *Trees.* The if grammar has up to three conditions, of which each may be false or
  true at compile time or unknown; that covers every prefix that is folded away
  and every place where runtime branches begin. `Compatible` decides which units that
  mix pointers and arrays are diagnosed, and the evaluator has no answer of its own to
  compare that with. `Fuel` is 12 and `Calls` 6; a comparison where either evaluation
  runs out is skipped, and the recursion of the instances is shallower than that.

`SYMMETRY NameSymmetry` in `builder_tables` permutes function names: no definition
looks at a name other than for equality. `CHECK_DEADLOCK FALSE` appears where the
system really stops: a compilation pass ends, a builder's client stops at its
bounds, and a machine that has met undefined behaviour (which the wild stores of
`vm_failures` reach) makes no further step. Streams, lexer and parser are checked
for deadlock; the parser's one final step is `Done`.

### Fairness

`VirtualMachine`, `SpellingTable` and `ByteStream` have `WF_vars(Step)`: nothing leaves a loop of
the table before its end, so an operation under way always takes its next step; the
client need never ask again. In the machine, `run()` (vm.cpp:596) is a loop
that executes an instruction whenever it has not returned, so a machine inside
`run` or `call` always takes its next step. The host is free never to call again.
`EveryRunEnds` is checked for programs that do end; unbounded recursion ends in
the allocator. In the byte stream the same holds of `read_bytes`, where it
also means that `read(2)` is not interrupted for ever (then the loop of
`posix_input_stream.h:40` would spin, which is no fault of the stream); the parser has
`WF_vars(Next)`, since each of its lexemes comes from a call of `lex()` that ends.
`EveryLexEnds` needs no fairness: it says that a measure drops with every step.

## 4. What the checks found

Three places where the code and what the repository says of it differ
(`PROJECT.json`, `findings`):

1. **A diagnostic leaks scopes** (`compile.cpp:1179`, also `:859`). `push_scope()` is
   undone by a plain `pop_scope()` that a `Compilation_error` skips, while
   `compile()` continues with the next statement. In
   `let f = fn(x: Int32): Int32 => w; let z = x;` the second statement finds `x` in
   the dead scope and fails the assert at `:568` instead of giving a second
   diagnostic. `_current_function` and its companions are restored by
   `Scoped_assign` (`TopLevelIsTopLevel` holds); the scopes are not.
2. **An if without else can return Void from an Int32 function** (`compile.cpp:924`).
   The edge that skips the branch passes no argument to the merge parameter.
   `fn(x: Int32): Int32 => if x == 0 { x }` compiles, and gives Void for every other
   `x`.
3. **A builder is good for one module** (`module_builder.cpp:137`). `build()` resets
   the module and not the position, the labels or the jumps to patch. Nothing
   forbids a second module, and nothing in the repository makes one.

Observations that no run refutes:

- `vm.h:212-215` puts the return slot "immediately past the callee's last register";
  `vm.cpp:703` puts it at the end of the register file, which never shrinks. The
  value is right (`CallsComputeTheirFunction`); the file grows with each non-void call.
- The comment at `parser.cpp:147-149` has the operand of a prefix operator parsed one
  level below it; the call at `:191` passes the operator's own level. Both give
  the same trees: prefix operators nest either way.
- A statement that begins with an `if` or a block goes on as an expression:
  `{ } (x);` is a call. The grammar of the wiki does not say otherwise.

## 5. What is proved

All theorems hold for every value of the constants that satisfies the named
assumptions, which TLC evaluates in every run:

- `WordsAssumption`: a byte has at least two values, a word is one to eight bytes,
  and `ByteWeight` is the powers of the base, the highest divisible by four (the
  tag). `VirtualMachineAssumption`: the modules are well formed, the limits are
  natural numbers. `ModuleBuilderAssumption`: the client's operands fit `uint16_t` or
  `int16_t`, as the operand classes guarantee; constants are not empty.
  `SpellingTableAssumption`: the hash is a function of the text, and there are at
  least two buckets to begin with (with one, the first insertion would rehash an
  empty table, which `rehash()` can do and the model's loop does not show).
  `ByteStreamAssumption`: the buffer is not empty, texts are sequences of bytes and
  requests natural numbers. `LexerAssumption`: texts are sequences of bytes, and the
  bounds on the client are natural numbers. `InputsAssumption`: what the texts begin with
  is a sequence of tokens. `HlirAssumption`: the fuel is a natural
  number. `FrontendAssumption`: a program has a length, a natural number; nothing is
  assumed of its trees.

**Virtual machine** (`VirtualMachine_proofs`).

- `Invariance`: `Spec => []IInv`, with
  `IInv == TypeOK /\ WindowsInBounds /\ ReturnsMatch /\ StubBelowFirstFrame /\ GuardHolds`.
- `TypeCorrect`, `WindowsStayInBounds`, `ReturnsAlwaysMatch` are its conjuncts;
  `HostIsUntouched`: `Spec => CallsHideTheirFrames`.

`WindowsInBounds` alone is not inductive. A return goes to the position, window
and register its frame recorded, so the property must speak of every suspended
activation and not just of the running one, and `ReturnsMatch` must say that the
frame was pushed for a function of the same kind. The bottom frame of a `call()`
leads to the exit stub, which belongs to no function: `StubBelowFirstFrame` says
which frame that is and that the host's window and stack pointer are in it, which
is also what makes `HostIsUntouched` true when the last return, rather than
`State_guard`, restores them. `GuardHolds` keeps the host's frames below `Floor`.
The step proof has one lemma per action; instructions that touch neither the
frames nor the length of the register file share `LocalStep`.

**The machine implements `CallDiscipline`** (the end of `VirtualMachine_proofs`).

- `ActivationsStayPrivate`: `Spec => ActivationsArePrivate`, for every set of
  well-formed modules; `WindowsStayOrderly`: `Spec => []Orderly`, which it needs.

In the code an activation has no registers: it has an offset into one register
file that every activation shares, and a frame is four numbers. That the callee,
its callees, and the growth of the file never touch what a caller keeps is not in
`IInv`. A store to the running window leaves the pieces that callers keep alone
only if all of them lie before it, which is what `Orderly` adds: from the lowest
activation of the run up, each window begins where the one below does or after,
and the last begins inside the file. A call extends this order by `lhs`, a return
drops its last element, and `run()` and `call()` start with one. The argument has
three parts: what a step inside an activation does to the frames and the
registers before its window (`StepsOfTheMachine`: nothing), what pushing and
popping a frame do to the list of suspended callers (`PushedCallers`,
`PoppedCallers`, on sequences, for any file and frames), and the two matched with
`Invoke` and `Resume`: for a return, that what the caller kept and the callee's
window joined are the caller's window again, with one register written.

**Module builder** (`ModuleBuilder_proofs`).

- `BuilderInvariance`: `Spec => []IInv`, with
  `IInv == TypeOK /\ TablesFit /\ FirstModule /\ ConstantsKeepTheirBytes`.
- `ConstantsKeep`, for any number of modules; `FirstModuleEnters`
  (`FunctionsEnterTheirBodies`) and `PatchingIsDefined` (`NeverUndefined`), for a
  builder that builds one (`MaxBuilds = 1`; the run `builder_reuse` shows that the
  hypothesis is needed).

`FirstModule` ties the writer's position to the end of the code, what was placed
to the address of the instruction its mark names, and every jump to be patched to
two bytes inside the code; patching in a failed build changes neither. Constants
rest on the blob only ever being appended to.

- `FirstModuleReadsAsListed`: `BuiltCodeIsTheListing` for a builder that builds one
  module, for every byte size, instruction set, sequence of operations and number of
  failed builds.

`BuiltCodeIsTheListing` speaks of code that is finished, so it says nothing of the
operations that lead there. `Listed` does: every label placed is at the address of
the entry its mark names, and every entry of the listing is either final (its bytes
are its encoding, its offset leads to its label, and no jump to be patched touches
it) or pending (a wide jump whose two last bytes are the patch of exactly one
unresolved jump with its label). A narrow form chosen too early, an offset counted
from the wrong end or two patches that overlap would break it long before a build.
Each operation only adds to a draft (`Grows`), which keeps final entries final and
pending ones pending; a failed build rewrites bytes of pending offsets only, which
is why it can be tried again; a build that succeeds patches every jump, and a pending
entry becomes final because nothing else covers its two bytes (`PendingBuilt`). That
a final entry decodes to its listing is arithmetic: base-`ByteModulus` digits put
together are the operand modulo its width, and `Signed` recovers an operand in range
(`Decoded`).

**Spelling table** (`SpellingTable_proofs`).

- `TableIsIndexed`: `Spec => []IInv`, with
  `IInv == TypeOK /\ StoreHolds /\ TextsDiffer /\ Indexes(buckets, ...) /\ ~Full(...) /\ LoopsHold`.
- `ALoopHasItsEnd` (`EmptyBucket`) and `TheTableKeepsItsPromise`
  (`HandlesDenoteTheirTexts`: the refinement of `Interning`).

That a probe which stops at an empty bucket may conclude that the text is nowhere
is the heart of it: `Indexes` says that each entry is in one bucket and that the way
there from its home has no empty one, `LoopsHold` what a probe has seen so far, and
`PassedOrder` that of two buckets on the way around the table one comes first.
During a rehash the same is said of the new buckets and the entries moved so far.
`StoreHolds` keeps the committed entries before the place a cancelled build cuts
the store off at, so the texts of entries change in no step but the one that adds
one. `EmptyBucket` follows from the two-thirds limit by the pigeonhole principle.

**Byte stream** (`ByteStream_proofs`).

- `StreamInvariance`: `Spec => []IInv`, with
  `IInv == TypeOK /\ CallHolds /\ BytesHold /\ NothingInvented`; `StreamTypes`,
  `BytesStayInOrder` (`BytesInOrder`), `NothingIsInvented`.
- `StreamKeepsThePromise`: `Spec => KeepsThePromise`, the refinement of `InputStream`.

That bytes come in order is not inductive: what the caller gets next is in three
places (what this call has copied, what is left in the buffer, what `read(2)` has
not given), and `BytesHold` says that these are consecutive pieces of the text.
`CallHolds` ties the step a call is at to what it still misses, which is where an
off-by-one between bypassing the buffer and refilling it would be. After an
exception `BytesHold` is lost, `NothingInvented` is not.

**Lexer and reader** (`Lexer_proofs`), for every set of texts, however long and whether
or not they are UTF-8, and however far the client peeks.

- `Invariant`: `Spec => []IInv`, with
  `IInv == ReaderHolds /\ LexingHolds /\ HistoryHolds /\ RequestHolds /\ OrderHolds /\ StoreHoldsTheLexemes`.
- `TypesHold` (`TypeOK`), `TextIsDecoded` (`DecodesUtf8`), `OrderIsKept`
  (`LexemesInOrder`), `StoreIsKept` (`StoreHoldsTheLexemes`), `LexingEnds`
  (`EveryLexEnds`, and that its measure is a natural number).
- `PushIsAppend` and `PopIsTail`: for every capacity, head and size, the operations of
  the ring are those of a queue on `Contents`, and a slot is alive exactly when it is
  part of it. They rest on `(head + i) % capacity` being different for different `i`
  below the capacity, through the wrap-around; growing copies in order and puts the
  head at 0.

The proof has three layers. The rings: `RingOf` is the shape both have at all times,
with live slots and no others, and `ReaderHolds` and `HistoryHolds` put them in it.
The decoder: `DecodesUtf8` compares the code's table of lead bytes with the definition
of UTF-8, which says nothing of lead bytes. `CharacterIsEncoded` goes from the table
to the definition, one lead byte range after the other: the bytes it admits are the
encoding of their payload, and the payload is a scalar value, neither a surrogate nor
past the last plane. `EncodedIsCharacter` goes back: a scalar value is three or four
digits of six bits, and its encoding is in the table. `FittingIsTheLongest` and
`DecodeCases` say that the decoder stops where the table first does not fit. And the
loop: every step of `lex()` is one of two kinds (`LexSteps`), it goes on with less
before it or it ends the call with one entry more in the history and one spelling
more in the table if that is a lexeme. The measure counts a byte not yet decoded
twice and a character not yet consumed once, so that decoding makes it smaller too.

`LexemesInOrder` is about what the client has been told, and is not inductive:
between the return of `lex()` and the client's step the history is one ahead, which
`Told` accounts for, and `read()` hands the new lexeme past the buffer, which is right
only because the buffer is empty then (`RequestHolds`). `RequestHolds` also counts the
calls of `lex()` a `peek()` still needs, which keeps the bound on the client from
being passed in the middle of a peek.

**Parser** (`Parser_proofs`, on `Trees_proofs`), for every text, however long and deeply
nested, and whether or not it is in the language.

- `LexemesHold` (`EveryLexemeOnce`), from
  `IInv == Types /\ Activations(stack) /\ TextRead`; `TypesHold` (`TypeOK`) from `IInv`,
  `PInv` below and `Callees`.

`EveryLexemeOnce` says that the trees in the activations, outermost first, are the
lexemes read. It is not inductive, since a return puts one of these trees into another,
at a member that may not be the last one written, and what follows an expression may
wrap it in a new node. `Form` is what makes both right. It says of an activation that
each of its remaining steps belongs to a place of the node it builds, that these
places come in the order they are written and after everything built so far
(`StepsInTurn`, `NextIsBlank`), that items and commas take turns (`TurnsTaken`), that
the operators of an expression come last (`OperatorsLast`), that a `none` node has
nothing in it yet (`NotYetChosen`), that a block's `tail` is there when it is turned
into a statement (`TailRead`), and that a node has a lexeme in it or will have one
(`Worded`): otherwise a node without any could be left behind as if it were a leaf.
`Activations` says that of the whole call stack, and that each activation but the
innermost waits in the call of the one above. Every step then either keeps the text of
an activation or adds the lexeme read at its end (`Keeps`, `Gains`), and a return joins
two consecutive texts (`FrontStack`).

What the text of a tree is, is recursive: `Levels` takes a row of trees apart one level
at a time, and `FlattenSeq` is a recursive function over sequences. `ReadsAs` says
that a row is the text after as many levels as the text is long, and all that is used
of it are two facts: taking two rows apart together gives what taking them apart
separately gives, if the shorter way is waited for (`Worded` bounds the depth by the
text), and a node reads as its members. Both are by induction over the number of
levels. The library's induction theorems take an operator, which the provers cannot
instantiate; `SetInduction` is induction stated of a set of numbers and follows from
`WFMin`, which has no such parameter.

- `TableIsFollowed` (`PrecedenceHolds`), from `PInv`, on top of `IInv`.

The precedence table is a condition on finished trees, at every depth, and the parser
never has a finished tree in its hands when it decides: it has a node that lacks
members, a level, and one token. `PInv` says what that is worth. Of every activation
(`AllRun`), `Shape` says that the members already there fit the node by the table
(`Fitting`), that the members at a node's edges are there or some remaining step will
bring them (`Complete`), and that each call still to be made is at a level whose results
will fit (`RightCalls`); `Role` says what kinds of node the function can return, which
is how the caller knows. Of the innermost one (`TopRests`), `Stops` says what the token
in hand cannot be. A function's body is read at the loosest level, so when it ends the
next token is no operator at all (`Halt`), and this must still be so for every node
that ends in that function; that is what makes it impossible to apply an operator to
one. Likewise `Stopped`: after the operand of a binary operator the next token binds
less tightly than the operator's right side, so what is wrapped as a left operand is
`Shut`. Nothing is known of the token while none is in hand, and nothing needs to be:
every read puts a lexeme at the end of the node, so that no function ends it any more
(`Opens`), and what is asked of the next token holds of the token the callee stopped at.
`Shut` is `Closed` at every depth, as `NodesOf` stops at a depth that grows with the text.
The levels a left-associative operator passes to its right operand (`RightLevel`) and
demands of its left one (`LeftRow`) come together in `ProperBinds`, the table itself.

- `TypesHold` (`TypeOK`): what the activation above a call has become is a node the
  function called may return. `Role` says so while the parser runs; when it has ended
  or thrown the stack is as it was, which `Callees` carries over (`EndsAsItIs`).
- `SpansHold` (`SpansAreTheText`), from `IInv /\ PInv`.

`source_span()` is recursive in the code: of most nodes it takes a first and a last
member and the span of each, and of an `if` or a `while` the block of the last part, so
what it finds depends on members it does not look for being absent. The model follows
these edges `Deepest` steps down, where a leaf stays what it is. `SpansAreTheText` asks
that one has come to the first and the last lexeme of the text. An `Heir` of level n
is a finished tree, proper by the table at every depth, whose text is reached within n
levels; each step along an edge leads from an heir to an heir one level nearer its
leaves with the same extreme lexeme (`HullHeir`, `EdgeIsExtreme`). That a step leads
to the first or last member written, and not to one beside it, is where `PInv` is needed: it
says which members a finished node must have (`FirstOfHull`, `LastOfHull`, and
`HeirWhile` and `HeirIf` where two steps are taken at once). That the members of a
proper tree are proper is `AllSoundParts`: a row of trees is apart after as many levels
as it has text, and so are its parts.

**Front end** (`Frontend_proofs`), for every set of programs, also of trees the parser
would not build.

- `Invariant`: `Spec => []IInv`, with
  `IInv == diagnostics \in Nat /\ StackFormed /\ ControlFits /\ FunctionsFormed /\ Outcomes /\ Waiting`.
- `NextStatementIsAtTopLevel` (`TopLevelIsTopLevel`) and `EveryBlockEndsOnce`
  (`BlocksEndOnce`).

`BlocksEndOnce` looks at the current block, and the current block is often one that was
put aside long before: the block a nested function was met in, the merge block of an
if, the block for its next part. So the invariant must speak of what every caller on
the C++ stack will come back to. `Waiting` does. Its first half, `Levelled`, says which
function is compiled over each frame: only a `body` frame changes it, and what it saved
is the function below, or no function at all. Its second half, `Owned`, says that the
block a frame waits for (`Pending`) is a block of that function without a terminator,
that no other frame waits for the same one, and that it is not current. That is why a
return, which ends the current block and opens a dead one, cannot spoil a merge, nor
one branch another; and why nothing but a diagnostic can leave a block open: with no
diagnostic every open block is current or waited for, and when the stack is empty
there is none. A diagnostic drops frames and leaves their blocks open, which is what
keeps that part conditional; `UnwoundToTop` shows that what it restores is the state
the outermost `body` frame saved, and `Levelled` that this is no function.

There is one lemma per action (`...Keeps`), on a few about what happens to `Levelled` and
`Owned` when a frame is pushed, replaced or dropped and when blocks are added or ended.
This part of the proof never asks what `Interpret` or `Compatible` answer or what is in
the symbol table, so these two theorems do not depend on the types of the program, its
scopes, or how an evaluation at compile time ends. The levels are bound by an existential, which
TLC cannot enumerate; they are a function of the stack.

- `TypesInvariant`: `Spec => []TypesHold`, on top of `IInv`, with
  `TypesHold == OfDifferentTypes(types) /\ FunctionsHaveTypes /\ Counted(current, functions) /\ SavedCounted(...)`.
- `EqualTypesAreOneType` (`TypesDiffer /\ FunctionsHaveTypes`) and
  `EveryRegisterHasItsType` (`RegistersCounted`), parts of the front end's `TypeOK`.

`_register_types` is moved away when a nested function begins and moved back when it
ends, so that it fits the current function says nothing of the one that will be
current next. `SavedCounted` says it of every function put aside. It survives the
emission of code because that goes to another function: functions under compilation
are in the order they were begun, innermost last, so none is the current one again.
Most steps are `Quiet`: they leave the pool, the functions and the current one alone
and move at most one frame that is no function's.

- `SoundInvariant`: `Spec => [](Sound /\ Tally)`, with `Sound == WellMade /\ Flow`.
- `EveryReadIsDefined` (`DefinedBeforeRead`): no path through a function reads a register
  before what defines it.
- `FunctionsKnowTheirRegisters`: the assert of `type_of_register()` can fail outside of
  functions only, which is where `Frontend_leaked_scope` makes it fail.
- `TypeCorrect` (`TypeOK`): with `TypesInvariant`, also that a name in the function table
  is that of a function of the unit, and that a statement has one diagnostic at most.

`DefinedBeforeRead` looks at the code that is emitted; why it holds is a matter of when
names can be found, so the invariant relates the two. `Flow` says that there are four
functions, bound by an existential as the levels are:

- `avail[f][b]`: the registers that are defined when block `b` of function `f` is entered,
  on every path. `CodeFlows` says that it is so of the emitted code: an instruction reads
  what is available at the block's start or defined in the block before it, and a jump
  leads only to blocks that need no more than is defined where it is.
- `level[d]`: the function that is compiled over the frame at depth `d`, as above;
- `open[d]`: how many scopes are open there;
- `known[d]`: the registers a caller at depth `d` may rely on when it is current again.

A name is found if it is in an open scope above the innermost barrier (`SeenIn`), and
what can be found at depth `d` is in `known[d]`. What is known only shrinks downwards:
a register defined in a branch is known over the branch's frame only, and the scope its
name is in is closed before that frame goes on. So when the merge block becomes current
(`MergeWaits`), what its frame knows is what is available there: what was defined where
the if began, to which the block adds its own parameter. After a `return` a dead block follows, to which
all that was available may be promised, as nothing jumps there.

That `DefinedBeforeRead` follows from `CodeFlows` is an induction over the number of
jumps (`KnownIsDefined`): if a register is not in `avail` of a block that a path reaches
while avoiding the register's definitions, it is in none of the blocks on the path.

What `Interpret` answers is asked for after all, since a constant it returns is emitted,
named and called: it is a constant of a type of the pool, and a function of the unit if
that type is a function type. `RunGood` says so of a run, `Advanced` preserves it, and
`Interpret` is one of the steps; since the operands are registers of the function
(`CodeInside`, which `CodeFlows` implies), no step is outside its register file.

**Not proved, and left to TLC:**

- `EveryRunEnds`, `EveryOperationReturns`, `EveryReadReturns` and `EveryParseEnds`:
  liveness under fairness.
- `AcceptsTheLanguage`, `LexemesAreTheText` and `CompiledCodeMeansItsSource`: they compare
  with recursive definitions (`Strings`, `Lexemes`, `Meaning`) written as `RECURSIVE`
  operators, to which no theorem can refer. `CallsComputeTheirFunction` is about the
  programs of `MCVirtualMachine`.

## 6. What is not modelled

- *In modelled parts.* Floating point (constants, instructions, expressions);
  in the front end, integer types other than `Int8` and `Int32` with the literals
  too large for them, and the overflow of `Int32`, which is undefined (in the
  machine, a type is its size); the opcodes that differ from a modelled one only in their
  code; the builder's name-to-index map, which is the set of declared names.
- *Parts.* The stream over `std::istream`, which the program does not use, and the
  output stream. LLIR, source positions, the source map: data without operations,
  or not used.
  The hash function: its users need only that it is a function. The driver:
  straight-line wiring and conversion of arguments.

## 7. Plan

Done, in this order because it is the order of what a mistake would cost: the
machine, the builder, the front end with HLIR and the symbol table; the spelling
table, which every name goes through; the streams; the lexer over them with its
reader; the parser.

Next:

1. Front end: while loops, dereferences and index expressions as the language
   gets them (today they are refused, and modelled so); the unit as a
   program, with the driver's choice of `main` and its arguments (the hazards at
   `compile.cpp:1145`, `:1096` and `run.cpp:84`).
2. The parser composed with the front end, so that trees are those of texts.
