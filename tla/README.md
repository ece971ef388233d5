# RaychelScript in TLA+

This directory holds a TLA+ development of RaychelScript: modules that model its
components, TLC configurations that check them on small instances, and theorems
about them that the TLA+ proof system (TLAPS) checks for all instances.

## The system

RaychelScript is a small language of numeric scripts. A script declares inputs and
outputs and has a body of assignments, conditionals, loops and pure functions. The
components form a pipeline that is put together with `operator|`; everything runs in
the thread of the caller. There is no concurrency; the only state that outlives a call
is the floating-point environment of the thread.

    source -> Lexer -> Parser -> AST -> Interpreter
                                   \-> Assembler -> VMData -> VM
                                                      |  \-> rasm write / read (RSBF file) -> VM
                                                      \-> NativeAssembler -> NativeRuntime

| Component | State | Operations | What makes it correct | Here |
|---|---|---|---|---|
| Lexer (`Lexer/src/Lexer.cpp`) | the tokens so far, the current token, bits for numbers and comments, the depth of parentheses, a failure bit | one step per character | tokens are what the text looks like, nothing gets lost | `Lexer`, `Frontend` |
| Parser: config block (`ConfigBlock.cpp`, `Parser.cpp`) | the values of the entries | one step per line | inputs and outputs are those of one line each, both blocks exist | `ConfigBlock`, `Frontend` |
| Parser: body block (`BodyBlock.cpp`) | `ParsingContext`: a stack of scopes that refer to node lists, a stack of conditionals, a bit for functions | one handler per kind of line | the stacks stay aligned, the AST has the shape of the text, exactly the grammar is accepted, a line becomes the node that it is | `BodyBlock`, `Expression`, `Frontend` |
| Assembler (`Assembler.cpp`, `AssemblingContext.h`) | scopes with names and free intermediates, frames being filled, marked functions | one function per kind of node | the program computes what the AST says; no two values share a cell; operands are in their frame, jumps in their code | `Assembler`, `Compiled` |
| VM (`VM.cpp`) | call stack, stack pointer, memory, flag, error | one handler per instruction | calls nest and are transparent to the caller, limits are reported, memory is not left | `VM` |
| Interpreter (`Interpreter.cpp`) | vectors of constants and variables, scopes with indices into them, flags | one handler per kind of node | it computes what the script means; indices stay valid, calls are pure | `Interpreter`, `Interpretation` |
| rasm (`read.cpp`, `write.cpp`) | a stream | read, write | reading returns what was written, a truncated file is refused | `Rasm`, `Compiled` |
| NativeRuntime (`ScriptRunner.h`, `Linux64.cpp`) | the handle of a shared object | load, run, move, destroy | a handle is closed once | not modelled |
| NativeAssembler | - | - | cannot be compiled at this commit (it uses removed members of `VMData`) | not modelled |
| pipes, indentation, printing, test drivers | - | - | no state of their own | not modelled |

What is hard here is not concurrency but long sequences of legal steps over state that
refers to other state: stack pointers that are recomputed rather than recorded,
references into node lists that move, indices into vectors that shrink, one bit that
stands for a fact about a stack, floating-point exceptions that nobody clears, a result in
a register that the next one overwrites, scans that decide by the depth of parentheses, and
limits that are compared in one place only. `PROJECT.json` lists these hazards with their
lines.

## The modules

    Tree (nodes) <- AST <- Interpreter, Semantics, Assembler
    BodyLine <- BodyGrammar (abstract), BodyBlock (implements it)
    Lexer <- ConfigBlock, Expression;  these and BodyBlock <- Frontend    text  -> AST
    Interpreter, Semantics <- Interpretation                              AST   -> values
    VM, Assembler, Rasm <- Compiled                                       AST   -> values
    Compiled, Semantics <- CompiledMeaning

    VM <- VMProofs        BodyBlock <- BodyProofs        Rasm <- RasmProofs
    Interpreter <- InterpreterLemmas <- InterpreterSteps <- InterpreterProofs
    Assembler <- AssemblerProofs
    Compiled, AssemblerProofs, RasmProofs, VMProofs <- CompiledProofs

`Tree` has the nodes of an AST (`NodeData.h`) and what the parser promises of each
(`WellFormedNode`); `AST` has the programs that the interpreter and the assembler are
given. That the parser keeps the promise is a property of `Frontend`.

### VM: the virtual machine

`VM.tla` models `VM/src/VM.cpp`: one action per instruction handler (handlers that
differ only in the floating-point operation share one action: `handle_arithmetic`,
`handle_update`, `handle_compare`), `execute` and `reject` for the entry of `execute`,
`finish` for its exit. The phase says where control is:

| phase | code |
|---|---|
| `idle` | outside of `execute` |
| `running` | in the `while` loop of `do_execute` |
| `halted` | the loop has ended, by `hlt` or because a handler has set an error |
| `wild` | an access has left the memory: undefined behaviour, the model stops there |

`stack`, `sp`, `mem`, `flag` and `error` are the members of `VMState`; `sp` is an index
where the code has a pointer; `fe` is the FE_DIVBYZERO and FE_INVALID bits of the thread.
`calls` is a history variable: what each suspended frame was when it made its call. No
action reads it.

Doubles are the constant `Value`; the floating-point unit is the constant operators
`Compute`, `Compare` and `Raised`, of which only the types are assumed. Programs are
those an Assembler may emit (`WellFormed`: operands in the frame, jumps in the code, the
last instruction of a frame is `hlt` or `ret`); files written by hand are out of scope,
and so is the code's `unknown_opcode`.

`MCVM.tla` gives TLC an arithmetic on -3 .. 3 with NaN and saturation, a family of
callers and callees with every instruction (`CallFamily`, 6468 programs) and five
programs compiled by hand from scripts, among them the README's absolute value and a
recursive sum.

| Run | Shows |
|---|---|
| `vm` | Types; `CallsNest`, `HaltsOutermost`, `LimitsReported`, `NoUnderflow` and `CallsArePure`, with 4 frames and 10 cells, so that recursion reaches both the end of the call stack and the end of the memory; `LeavesMemoryWhenFull`: no access leaves the memory while it has room for the frames there are and one more of the program's largest size |
| `vm_factorial` | violated: a factorial fails for an exception that an earlier instruction, or an earlier execution, raised |
| `vm_absolute` | violated: the README's example returns its input, since all inputs go to `memory[1]` and the outputs come from there |

Only `jsr` compares the stack pointer with the end of the memory; `put` and the window of a
new frame reach further. So accesses may leave the memory, and in the run `vm` some do
(`wild`); `LeavesMemoryWhenFull` says how early. Of compiled programs, on 5 frames and 60
cells, where 6 frames of the largest size fit, the run `compiled` checks `StaysInMemory` (no
access leaves it at all) and `Terminates` (programs without backward jumps end, recursive
ones included). Two calls deep is where a caller's caller first matters; recursion goes four deep. Two
executions in a row are reachable (nothing bounds their number), so state that survives
an execution is covered. Fairness is `WF_vars(Step \/ finish)`: the thread that has
entered `execute` keeps running. Nothing obliges anyone to call `execute`.

### BodyBlock: the body block of the parser

`BodyLine.tla` declares what the parser tells apart of a line: the construct, the type of
its expression, the mangled name of a function. `BodyBlock.tla` models
`parse_body_block`: the action `parse_line` is one iteration of its loop, the call of the
handler and the placing of the node included, `finish` is what follows the loop. The AST
is the sequence `lists` of node lists; a node refers to its bodies by index, a scope to
the list it appends to, as the `reference_wrapper`s of the code do. `crashed` is the
outcome of the undefined read at `BodyBlock.cpp:501`. Every error of an expression is
`invalid_construct`: which of the codes it is makes no difference to the scopes.

`BodyGrammar.tla` is the abstract specification: a stack of open constructs, no lists,
no conditionals, no bit. `BodyBlock` implements it under the mapping `Grammar`: `open` is
the types of the scopes above the global one, `last` the kind of the last node of the
open function, `defined` the names that `ast.functions` holds. The grammar promises nothing
of a function with an empty body (`undefined`); that the code does not do what the README
says of it is the run `body_return`.

| Run | Shows |
|---|---|
| `body` | for all sequences of seven lines out of 30 (every construct with every type of expression, two functions): types, `ScopesNest`, `ConditionalsMatch`, `ImplementsGrammar`, and `AstIsText`: each node is in the body that its position in the text says, computed from the text alone, and in order |
| `body_return` | violated: `fn` directly followed by `endfn` is not refused with `missing_return` |

Seven lines hold a function with a conditional with a loop in it and their footers in any
order, and a conditional with both bodies nested in another. The parser may stop
(it returns), so these runs do not check for deadlock. There is no liveness: the loop is
over the lines of a file.

### Interpreter: execution of the AST

`Interpreter.tla` models `Interpreter/src/Interpreter.cpp`. The code recurses through
`execute_node`; the model keeps that recursion in the sequence `control`, with a frame for
each handler that is running:

| field of a frame | code |
|---|---|
| `node` | the argument of the handler; `[type |-> "program"]` for `interpret` |
| `at` | the call of `execute_node` that the handler waits for |
| `rest` | the nodes that a range-based loop of the handler has yet to execute |
| `values` | the handler's local doubles (`first`, `argument_values`) |
| `scoped` | a `ScopePusher` of the handler is alive |

There is one action per handler, with a disjunct for each stretch between two calls of
`execute_node`. `execute_body` is the loop over the body that `handle_conditional_construct`
and `handle_loop` share. The destructor of a `ScopePusher` is `pop_scope`, preceded by
`erase_entry` once for each entry of the scope, in any order, as the iteration order of an
`unordered_map` is left open. It runs at the end of a body and on the way out after an
error (`propagate_error`). An `erase` past the end is undefined: it crashes, or drops the
last entry. `constants`, `variables`, `scopes`, `result`, `flags`, `current_descriptor` and
`load_references` are the members of `State`; indices count from 1. `saved` is a history
variable, the caller's store at each running call; no action reads it. The constant `Node`
is the set of nodes, so that a node's children are nodes without a recursive definition.
Configuration variables and the two node types that no parser makes are left out.

`Semantics.tla` is the reference: what a script means, by recursion on its syntax, with
environments that map names to values and none of the interpreter's machinery. Its only
operational notion is the order in which errors are found. It follows the code where no
document speaks: a constant that is declared without a value reads 0 and can be assigned
once. Updates by what is not a number, which the parser logs but accepts, have no meaning.
`Interpretation.tla` puts the two together.

`MCScripts.tla` has 972 programs that call a function of two parameters, two
statements and a return (declarations, conditionals, loops, recursive calls, assignments
to what is not visible, constant or global) and nine scripts by hand: the examples of the
README, `fib.rsc`, one after `features.rsc`, and one for errors below every kind of scope. Each is
run, by `MCInterpreter.tla`, with ten maps of parameters, right and wrong ones.

| Run | Shows |
|---|---|
| `interp` | types, and every scope has its handler; `DescriptorsAreValid`, `CallsArePure`, `CallsLeaveNothing`, `ReferencesAreLoaded`, `ReturnLeaves`; `AgreesWithMeaning`: the value of every global name, or the error, is the script's; `Ends` |
| `interp_division` | violated: a division does not notice that the result of a call is zero |
| `interp_erase` | violated: leaving the README's `f(base, exponent)` may erase past the end of the constants |

`AgreesWithMeaning` does not cover divisors and factorials that are the result of a call:
no program of the family has one, and `interp_division` is what happens to them. The
interpreter does not bound recursion; the programs do, and their loops, so no bound
is needed. Fairness is `WF_vars(Next)`: the thread that has called `interpret` keeps
running. It may stop afterwards, so these runs do not check for deadlock.

### Assembler, Rasm, Compiled, CompiledMeaning: the compiled way

`Assembler.tla` models `Assembler/src/Assembler.cpp` and `AssemblingContext.h`: one action
per handler, with the recursion in `control` as in `Interpreter`. The handlers of nodes
with two operands (`Operators`), and those of conditionals and loops (`Constructs`), share
their steps where the code repeats itself. `frames`, `immediates`, `scopes`, `marked` and
`pending` are the members of the context; `index` is what the last handler has returned.

* A handler that fails returns its error through every caller (`give_up`). One macro,
  `TRY`, takes the code `ok` in place of an index for an error too and passes it on, so
  the rest of a statement is dropped without an error; the model has this.
* An index that is no byte, or a jump offset that is no signed byte, fails the assertion
  of `make_memory_index`: the stage `asserted`, where the model stops.
* The loop that ends a call gives an argument's cell free and emits its `put`, one argument
  for each step, so that the arguments that are left are still seen to be held.
* The size of a frame is a byte and wraps (`AssemblingContext.h:236`), after which the frame
  gives out A and the cells of its first variables again; the assertion sees only what has
  wrapped already. `wrapped` is a history variable that says that it has; no action of the
  Assembler reads it, and `Compiled` executes only what has not.

`Rasm.tla` has `write_rsbf` and `read_rsbf` as functions between programs and sequences of
bytes: magic word, version, sizes, words of opcodes and indices, big-endian. The eight
bytes of a double are opaque. A stream that cannot be opened or written is left out, and so
is what has been written before a vector is met whose length is no word (`IsCounted`), which
is refused.

`Compiled.tla` composes these with `VM`: assemble, `write`, `read_and_execute`, `run`,
`return`. The machine executes what has been read from the file. `CompiledMeaning.tla` compares
what it computes with `Semantics`; it is a module of its own because `Semantics` is recursive,
and no proof can be about a module that is.

| Run | Shows |
|---|---|
| `compiled` | `CellsAreDisjoint`: no variable, free intermediate or operand that waits shares its cell with another while the frame has not wrapped; `EmitsWellFormed`: the program is one that `VM` (and its proofs) assume; `FileIsComplete`: the file is read back as written, and every strict prefix is refused; `CompiledAgreesWithMeaning`: the machine computes what `Semantics` says; `NamesAreResolved`: what the interpreter would refuse for its names while running is refused here beforehand; `AssemblerTypeOK`: types, and offsets in range; `StaysInMemory` and `Terminates` of `VM` |
| `compiled_comparison` | violated: `if in + 1 < in + in` computes both sides into A |

The instance (`MCCompiled.tla`) has differences, quotients and calls over each pair of
operands (a variable, a number, a unary and a binary operation, a call), in each place where
an expression can be (assignment, update, condition, body of a loop, arguments of calls);
every pair of statements in a function; the scripts of the README; a recursion without end;
bodies of instructions just within and just beyond what a jump can pass; and 260 variables,
more than a frame can count. The other operations are assembled by the same code and occur
in the scripts and statements. A memory of 60 cells is (StackSize + 1) * MaxFrame. Fairness: the thread that has
entered `assemble` or `execute` keeps running (`WF(assemble)`, `WF(run \/ return)`);
nobody is obliged to write a file or to execute it. The pipeline stops after it is done, so
these runs do not check for deadlock.

What `CompiledAgreesWithMeaning` leaves out, because the code does something else: more
than one input (`vm_absolute` shows what `execute` does with inputs; two inputs are written
to the same cell), comparisons of A with itself (`compiled_comparison`), floating-point
faults (`vm_factorial`), and the statement `WithoutValues` of `MCScripts`, which reads a
variable that it declares without a value: no instruction sets its cell (`Assembler.cpp:178`),
which in a loop or a function holds what it held the last time, where
`shared/test/features.rsc:8` says "implicitly initialized to 0". Frames that have wrapped
are not executed. Constants are variables in compiled code: it does not refuse to assign to
one twice.

### Lexer, ConfigBlock, Expression, Frontend: from text to AST

These modules, but for `Frontend`, have no variables: the components compute a result from
their argument and keep nothing.

`Lexer.tla` folds `read`, an iteration of the loop of `_lex_raw`, over the symbols of a
text; its record is the local variables of that function. A symbol is a character, or
several letters in a row, which the lexer treats alike. `current_token.back()` of an empty
token (`Lexer.cpp:91`) is undefined: `Frontend` lets it crash or return `invalid_token`.
`ConfigBlock.tla` finds the blocks and reads the entries. `Expression.tla` has the
patterns of `parse_statement_or_expression` in the order in which they are tried,
`match_token_pattern`, `find_arithmetic_operator` and the node that each match becomes;
where the code returns an error the node is `Refused`. `Frontend.tla` composes them with
`BodyBlock`: `lex`, `parse` up to the body, one `parse_line` for each line, `finish`.

| Run | Shows |
|---|---|
| `front` | `LexesTheText`: the tokens are those of a reference definition that looks at each word by itself, and an error is returned if and only if there is a word that is none; `ConfigIsRead`; `NothingIsLost`: an accepted line's node has all tokens of the line; `MakesWellFormed`: every AST is one that Interpreter and Assembler assume; `ParsesBack`: a script that is written with every operand in parentheses, with or without spaces, comments and empty lines, is parsed to the AST that was written |
| `front_parenthesis` | violated: a script with the lines `b=(` and `b=1` is lexed without an error, and nothing of the second line is among its tokens |

The texts (`MCFrontend.tla`): all of up to four symbols out of ten and up to six out of
three (`Texts1`); config blocks with every line of up to three tokens (`Texts2`); bodies of
one line of up to four tokens out of twelve, five out of five, and of calls and function
headers (`Texts3`); bodies of up to three lines out of twelve (`Texts4`); and scripts
written out, with operators on operators (`Writing`). Four tokens suffice for two operators
next to each other, a parenthesis that is closed before it is opened, and an operand that is
missing; five of `a - ^ ( )` for the operator on either side of a parenthesis. `README.md:105`
of the repository advises parentheses; what is parsed without them is not compared with
anything but its tokens. The parser stops at the end, so these runs do not check for
deadlock, and have no liveness: each step consumes a line. `front_parenthesis` has texts of its
own (`Unclosed`): a parenthesis that is not closed in its line, and a line after it.

## What is proved

The theorems hold for every value of the constants that satisfies the named assumptions
of the modules.

`VMProofs.tla` (`SizeAssumption`: the memory holds one frame of the largest size;
`ValueAssumption`: the floating-point operators return values; `CallerAssumption`: inputs
are values; `ProgramAssumption`: programs are well formed). No property is inductive
alone: that `ret` finds the caller's window needs that the windows lie end to end, that
the code cannot be left needs that the frames of the stack are the program's, that a
suspended frame stays untouched needs that the windows of *all* suspended frames, not
just of neighbours, are below the running one. The inductive invariant `IInv` joins
`TypeOK`, `ProgOK`, `RunningOK` (the outermost frame, and no other, runs the code outside
of functions), `CallsNest`, `WindowsOrdered`, `HaltsOutermost`, `LimitsReported` and
`NoUnderflow`; one lemma per group of handlers shows that it is preserved. From it:
`TypeCorrect`, `FramesNest`, `SuccessIsOutermost`, `LimitsHold`, `NeverUnderflows`,
`PureCalls` (an action property, from the step of `ret`), and `NoWildAccess`
(`LeavesMemoryWhenFull`, for every size of the call stack and of the memory), which adds to
the invariant (`RoomInv`) that with frames of at most n cells the window of the k-th frame
begins at most (k - 1) * n cells into the memory.

`BodyProofs.tla` (`LinesAssumption`: lines are records of the kinds of `BodyLine`). The
stacks of `ParsingContext` are treated as data: `ContextOK` relates a stack of scopes, a
stack of conditionals and the bit, and there is one lemma for each change a handler makes
to them (`PushPlain`, `PushConditional`, `SwitchBody`, `PopScope`, `Grow`). What
`ScopesNest` and `ConditionalsMatch` lack to be inductive is `Apart`: no two scopes *can*
refer to the same list. A conditional's scope owns both of its bodies, so that `else` may
move it to the other one. From `Invariance`: `TypeCorrect`, `ScopesAreNested`,
`ConditionalsAreMatched`.

The module's last part proves `Refinement`: `BodyBlock` implements `BodyGrammar`, so for
texts of every length the parser accepts what the grammar accepts and refuses the rest.
`Views` says that what the grammar asks of the open constructs is what the parser asks of
its scopes; then each handler is shown to be a step of the grammar. That a nested node is
not taken for the last one of the function's body is where `ScopesNest` (no two scopes on
one list) is needed.

`AstIsTheText` proves `AstIsText` for every text: each line that makes a node has exactly one,
in the body where the text puts it, and bodies are in the order of their lines. The property
compares the AST with a definition by counting lines; what makes it inductive is `TextInv`,
which ties the scopes to the text as well. Each scope above the first has a header line, one
level deeper than that of the scope below, and nothing since has closed it (`Shape`); functions of the text are defined
and its lines have their nodes where they belong (`Text`); each scope refers to the body of
its header that is being read, and its conditional knows the other one (`Room`). The
property's operators are restated for any text, lists and functions, so that
values before and after a line can be compared. A line then leaves the scopes alone
(`PlainLine`), opens one (`HeaderLine`), closes one (`FooterLine`) or moves one to its other body
(`ElseLine`). The latter is where the alignment of the two stacks is needed: `else` finds the
other body through the top of `conditionals`, which must be the entry of the top scope.

`InterpreterLemmas.tla`, `InterpreterSteps.tla` and `InterpreterProofs.tla` (the assumptions
of `AST.tla`: nodes and programs are well formed, which the run `front` checks of what is
parsed; parameters are finite maps; the arithmetic returns values). Neither the vectors nor
the indices into them say to whom an element belongs: the inductive invariant `IInv` does.

* `StoreOK`: the scopes own the two vectors, each scope a part at the end of what the
  scopes below it own. `Base(scopes, s, kind)` is the number of names that the first s
  scopes bind to that kind; it is where the part of scope s + 1 begins, and the length of
  the vector after the last. While a scope is popped its remaining indices may be too large
  (`Settled`), but they never reach into the part of another scope, so that erasing an
  entry shrinks the right part in whatever order the names come. No two names of a scope
  have the same descriptor, so that a name erases its own.
* `SavedOK`: each running call has saved a prefix of the vectors and scopes that ends where
  its function's scope begins, and those are all scopes that do not inherit. Since a name is
  looked up no further than such a scope, an assignment never reaches what is saved
  (`CurrentFacts`, `AssignKeeps`).
* `HandlersOK`: each handler on the stack waits at a place that it has, for a node that it
  has called (`ControlOK`); scopes and the handlers that are to pop them correspond one to
  one (`DepthOK`). The arguments a call has evaluated and those that are left are as many as
  the function has: that is why the constants of its scope are there.
* `ModesOK`: `load_references` is what the innermost handler, or the operand it is about to
  evaluate, needs (`ModeOK`); after a return only bodies, and the loops around them, are left
  (`ReturnOK`); what a left-hand side refers to is visible while the assignment waits
  (`CurrentOK`). The comparison and the body of a function do not set the mode: that it is
  right after a call is because a function's body ends in a return, which sets it.

`InterpreterLemmas` has the lemmas about these parts as data (binding a name, pushing a
scope, erasing an entry, popping, saving; the stack of handlers when one goes on, calls or
returns); `InterpreterSteps` the invariant and one lemma for each handler;
`InterpreterProofs` the end of a scope, errors, the program level, and the theorems:
`InterpreterTypes`, `InterpreterDescriptors`, `FunctionsArePure`, `ReferencesAreRead` and,
as properties of steps, `CallsRestore` (the prefix that was saved is all there is once the
scope of the function is gone, because the vectors are exactly as long as what the scopes
own) and `ReturnsLeave`. The last one is about programs whose returns are in functions: it
takes a set `out` of nodes without returns, in their bodies too, from which the program's
statements are. The parser refuses any other program (`BodyBlock.cpp:384`: "Return
statements can only appear inside a function body!"). A return outside of one would not
be followed by the end of a function, which is what clears its flag.

`AssemblerProofs.tla` (the assumptions of `AST.tla`, as for the Interpreter; -1.0 is a
value) is about one run of the Assembler on one script of any size. What an index refers to,
a jump over, or a cell is used for depends on how much has been emitted by the time it
matters; no property of the runs says anything about that, so each needs parts of the
inductive invariant `IInv` that none of them states:

* `ControlInv`: each handler waits at a place that it has for a node that it has called, with
  as many indices and jumps as it has by then, and the jumps behind the last instruction.
  `ScopesInv`: there is one scope for each handler that is in a body, on top of the frame's
  own, which does not inherit.
* `CodeInv`: what has been emitted is safe in its frame (`InstructionOK`), for the frame as large as it
  is *now*: it only grows, and so do the immediates and the marked functions (`CodeGrown`).
  The frames that are done are complete (`CompleteCode`); in the one that is being filled every
  jump goes to an instruction or to the one that comes next, but for the jumps of the bodies that are
  open (`OpenCode`), each of which is patched by the handler that holds its index.
* `IndexInv`: the indices that handlers hold, and the one that was just returned, are
  operands, and one that is assigned to is a cell.
* `CellsInv`: a *use* of a cell is a name in a scope, a free intermediate of a scope, or an
  intermediate that a handler holds. Different uses have different cells, none of which is A
  (`CellsApart`). The lemmas on cells follow one through its life: it is given out
  (`NewIndex`, or one that was free), held, named or given back, and its scope is popped.
  This is more than `CellsAreDisjoint` says. That an argument's cell is given back once only
  rests on it.

All but the first two parts is about frames that have not wrapped: one that has gives out
cells twice. So `CellsAreDisjoint` holds until a frame has given out its 256th cell and not
longer, and `AssemblerCells` has this as its second part: no step sets `wrapped` unless
`LastCellIsTaken`, that is, the frame has 255 cells and is given one more, or begins with
as many names (`WrapsAtTheLast`). What is proved of the compiled pipeline's machine
(`CompiledWellFormed`, `CompiledRuns` and what follows from them) is under the same condition. There is one lemma for each handler; those of calls, conditionals and loops are
split by where the handler waits. Returns are the exception to code being
closed: one outside of functions would leave a frame that has no caller. So the invariant has a
parameter, a set `out` of nodes that holds the statements outside of functions and those of
their bodies; `OutAssumption` is satisfied by `Node` itself, which is all that `AssemblerTypes` and
`AssemblerCells` need.

`RasmProofs.tla` (no assumptions) proves `FilesSurvive`: for data with constants and frames of any
number and length that a word can count, `read_rsbf` of what `write_rsbf` has made is the data, and of
any strict prefix of it a failure. Both sentences come of one statement about each
reader: of a file that *has* some bytes from a position on, as far as the file goes (`Has`), the
reader returns the value that they stand for and the position behind them if all of them are there
(`Result`), and fails otherwise. A file that is cut has the bytes of the whole one in this sense,
so no reader needs a case for where the cut is. `WordIs` and `InstructionWord` are the arithmetic of the
words, with the signs of jumps. The bytes of vectors are folds, and reading frames is a recursive
function; what they are for each length is by induction up to a number (`UpTo`), stated with
a set of numbers and proved from the least number that is not in it, since the library's
induction rules take an operator.

`CompiledProofs.tla` puts the components' proofs together. `Proved` is the instance of
`AssemblerProofs` for the scripts, `Files` that of `RasmProofs`, and `Machine` that of `VMProofs` for
all programs that `VM` assumes anything of (`AllPrograms`) with any number of outputs. `CompiledTypes` and
`CompiledCells` are the Assembler's theorems for the pipeline. `CompiledWellFormed` is where the proofs
meet: what `VMProofs` assumes of programs (`WellFormed`) is what the Assembler's invariant
gives of a script that is done (`AssembledIsWellFormed`). Its hypotheses:

* `ReturnsAreInFunctions`: for some `out` as above no node of `out` is a return. The parser refuses
  any other script (`BodyBlock.cpp:384`).
* `MaxFrame >= 256`: the sizes and the cells of frames are bytes; `MaxFrame` is the VM's bound
  on them. In the runs it is smaller, since the scripts need no more.

`CompiledFiles` states `FileIsComplete` of every script, also of one whose frames have wrapped around:
what the Assembler's invariant says of types makes the data one that `FilesSurvive` is about
(`AssembledIsData`), and `PipelineOK` says that what is in the file is what has been assembled.

`CompiledRuns` is a refinement: the pipeline implements the specification `Machine`, with the identity as the mapping. The
steps of Assembler and file leave the machine alone, `read_and_execute` is `execute` of a
well-formed program, and the rest are steps of the machine. Hence `CompiledNests` (the
VM's invariants for whatever script was compiled, without an assumption on programs) and
`CompiledStaysInMemory` (`LeavesMemoryWhenFull` of compiled scripts). How much memory there
is the caller of `execute` says; by default there are 128 frames and 1024 cells (`VM.h:132`).
`ShippedSizes` says what follows for these: scripts with frames of at most 7 cells stay in
the memory however deep they recurse, for 129 such frames fit. A frame of n cells, n > 7,
leaves no guarantee from the depth of 1024 / n on: there `put` or the new frame may write outside
before `jsr` finds the stack pointer there.

Only model-checked, because the prover cannot do it: the liveness properties `Terminates`
and `Ends`; `AgreesWithMeaning`,
`CompiledAgreesWithMeaning`, `NamesAreResolved`, `LexesTheText`, `NothingIsLost`, `ConfigIsRead` and
`ParsesBack`, where what the code computes is compared with a definition by recursion (or a fold)
on scripts or texts. Only model-checked so far: `MakesWellFormed` and the types of `Frontend`. The proofs
about Interpreter and Assembler meet the parser there: they assume `NodeAssumption` and
`ProgramAssumption`, and the run `front` checks them of what is parsed.

## Findings

* `vm_absolute`: inputs and outputs share `memory[1]` (`VM.cpp:557-576`), so the README's
  absolute value example returns its input.
* `vm_factorial`: `fac` tests sticky floating-point exceptions (`VM.cpp:166-170`).
* `body_return`: `endfn` after an empty body reads the last element of an empty vector
  (`BodyBlock.cpp:501`) where the README promises an error.
* `interp_division`: the zero flag that a division tests (`Interpreter.cpp:408`) is cleared
  at the end of every call (`Interpreter.cpp:663`).
* `interp_erase`: `pop_scope` erases by indices that earlier erasures have made stale
  (`Interpreter.cpp:194-209`). libstdc++ happens to iterate over two entries in the harmless
  order; other libraries, or three entries, need not.
* `compiled_comparison`: a comparison with both sides in the register compares A with itself
  (`Assembler.cpp:312`); arithmetic saves one side (`Assembler.cpp:107`).
* `front_parenthesis`: a newline with a parenthesis still open ends the lexer's loop with
  success (`Lexer.cpp:119-122`), so the rest of the script is dropped;
  `unmatched_parenthesis` is never returned.

## Not modelled

* NativeAssembler uses members that `VMData` no longer has, so it cannot be compiled at
  this commit; it prints text and keeps no state of interest.
* NativeRuntime loads what would come of the NativeAssembler's output. Its one hazard, a
  moved-from `ScriptRunner` that closes its handle again (`Linux64.cpp:77`), is listed.
* Pipes hand on a result or an error. `WalkAST`, `PrintAST`, logging and indentation print.
  The drivers run one script.
* Left out of modelled components: `_parse_no_config_check` and `lex_until_invalid_or_eof`,
  which only tests use; numbers that `from_chars` finds out of range; configuration
  variables, which the interpreter only logs; the stream checks before lexing and the
  files that cannot be opened; the node types that no parser makes.

## Plan

1. The types of `Frontend`, and `MakesWellFormed` for the nodes that `Expression` makes of the
   operands it is given, which needs no recursion on the text.
2. The lifetime of a `ScriptRunner`'s handle under moves.
