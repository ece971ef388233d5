---------------------------------- MODULE VM ----------------------------------
(***************************************************************************)
(* The virtual machine of RaychelScript (VM/src/VM.cpp): one thread that   *)
(* executes compiled programs one after the other.  An execution has a     *)
(* call stack of StackSize frames and a memory of MemSize cells.  The      *)
(* running frame sees the window of memory that starts at the stack        *)
(* pointer; cell 0 of the window is the result register A.                 *)
(*                                                                         *)
(* A double is an element of Value and the floating-point unit is the      *)
(* constant operators Compute, Compare and Raised.  The FE_DIVBYZERO and   *)
(* FE_INVALID bits of the thread's floating-point environment are state:   *)
(* nothing in the repository ever clears them.                             *)
(***************************************************************************)
EXTENDS Integers, Sequences

CONSTANTS
    Value,              \* the doubles
    Zero,               \* 0.0
    Compute(_, _, _),   \* Compute(op, x, y): the result of an arithmetic instruction
    Compare(_, _, _),   \* Compare(op, x, y): the outcome of a comparison
    Raised(_, _, _),    \* Raised(op, x, y): the FE_* bits that computing it sets
    Inputs,             \* the sequences of input values a caller may pass
    OutputSlots,        \* the numbers of output slots a caller may provide
    Programs,           \* the compiled programs (VMData) an execution may be given
    StackSize,          \* the number of call frames
    MemSize,            \* the number of memory cells
    MaxFrame            \* an upper bound on the size of a frame (a uint8_t in the code)

-------------------------------------------------------------------------------
(***************************************************************************)
(* Programs.  A program is a record                                        *)
(*   [inputs, outputs : Nat, immediates : Seq(Value), frames : Seq(frame)] *)
(* with a frame [size : Nat, code : Seq(instruction)].  frames[1] is the   *)
(* code outside of every function; the operand of jsr counts from 0.       *)
(***************************************************************************)
Exception == {"divbyzero", "invalid"}

ArithmeticOps == {"add", "sub", "mul", "pow"}       \* A := a op b
UpdateOps     == {"inc", "dec", "mas", "pas"}       \* a := a op b
RelationalOps == {"clt", "cgt", "ceq", "cne"}       \* flag := a op b
OpCode        == ArithmeticOps \cup UpdateOps \cup RelationalOps \cup
                 {"mov", "div", "das", "mag", "fac", "jpz", "jmp", "hlt", "jsr", "ret", "put"}

ReadsFirst  == OpCode \ {"jpz", "jmp", "hlt", "jsr", "ret"}
ReadsSecond == ArithmeticOps \cup UpdateOps \cup RelationalOps \cup {"div", "das"}

IsLocal(frame, i)      == /\ i.type \in {"stack", "intermediate"}
                          /\ i.value \in 0 .. frame.size - 1
IsOperand(p, frame, i) == \/ IsLocal(frame, i)
                          \/ /\ i.type = "immediate"
                             /\ i.value \in 0 .. Len(p.immediates) - 1

\* What the Assembler guarantees of the k-th instruction of the f-th frame of p.
WellFormedInstruction(p, f, k) ==
    LET frame == p.frames[f]
        ins   == frame.code[k]
    IN  /\ ins.op \in OpCode
        /\ ins.op \in ReadsFirst  => IsOperand(p, frame, ins.a)
        /\ ins.op \in ReadsSecond => IsOperand(p, frame, ins.b)
        /\ ins.op \in UpdateOps \cup {"das"} => IsLocal(frame, ins.a)
        /\ ins.op = "mov" => IsLocal(frame, ins.b)
        /\ ins.op = "put" => ins.b.value \in 1 .. MaxFrame - 1
        /\ ins.op \in {"jpz", "jmp"} => /\ ins.a.value \in -128 .. 127
                                        /\ k + ins.a.value \in 1 .. Len(frame.code)
        /\ ins.op = "jsr" => ins.a.value \in 1 .. Len(p.frames) - 1
        /\ ins.op = "hlt" => f = 1
        /\ ins.op = "ret" => f # 1
        /\ k = Len(frame.code) => ins.op = IF f = 1 THEN "hlt" ELSE "ret"

WellFormedFrame(p, f) ==
    LET frame == p.frames[f]
    IN  /\ frame.size \in 1 .. MaxFrame
        /\ Len(frame.code) \in Nat \ {0}
        /\ DOMAIN frame.code = 1 .. Len(frame.code)
        /\ \A k \in 1 .. Len(frame.code) : WellFormedInstruction(p, f, k)

WellFormed(p) ==
    /\ p.inputs \in Nat
    /\ p.outputs \in Nat
    /\ p.immediates \in Seq(Value)
    /\ Len(p.frames) \in Nat \ {0}
    /\ \A f \in 1 .. Len(p.frames) : WellFormedFrame(p, f)
    /\ 1 + p.inputs + p.outputs =< p.frames[1].size

ASSUME SizeAssumption ==
    /\ StackSize \in Nat \ {0}
    /\ MaxFrame \in Nat \ {0}
    /\ MemSize \in Nat
    /\ MemSize >= MaxFrame

ASSUME ValueAssumption ==
    /\ Zero \in Value
    /\ \A op \in OpCode, x \in Value, y \in Value :
          /\ Compute(op, x, y) \in Value
          /\ Compare(op, x, y) \in BOOLEAN
          /\ Raised(op, x, y) \subseteq Exception

ASSUME CallerAssumption ==
    /\ Inputs \subseteq Seq(Value)
    /\ OutputSlots \subseteq Nat

ASSUME ProgramAssumption == \A p \in Programs : WellFormed(p)
-------------------------------------------------------------------------------
VARIABLES
    phase,      \* "idle": no execution; "running"; "halted": do_execute is about to return;
                \* "wild": memory outside of the buffer was touched, nothing is known any more
    prog,       \* the program of the current (or the last) execution
    input,      \* and the input values it was given
    stack,      \* the call frames [fn, ip], the running one last
    sp,         \* the stack pointer, as the index of the cell it points to
    mem,        \* the memory cells
    flag,       \* the result of the last comparison
    error,      \* VMState::error
    fe,         \* the FE_* bits that are set in the thread's floating-point environment
    result,     \* the error code of the last execution
    outputs,    \* the output slots of its caller
    calls       \* history: what each suspended frame was when it made its call

caller  == <<prog, input, result, outputs>>
vars    == <<phase, prog, input, stack, sp, mem, flag, error, fe, result, outputs, calls>>

Address   == 0 .. MemSize - 1
ErrorCode == {"ok", "mismatched_inputs", "mismatched_outputs", "stack_overflow",
              "stack_underflow", "divide_by_zero", "invalid_operand", "memory_overflow"}

depth       == Len(stack)
Frame(i)    == prog.frames[stack[i].fn]
FrameSize   == Frame(depth).size
Instruction == Frame(depth).code[stack[depth].ip]

(***************************************************************************)
(* Operands.  Touched is the set of cells that the current instruction     *)
(* reads or writes relative to the stack pointer; a division whose divisor *)
(* is zero stops before it looks at its first operand.                     *)
(***************************************************************************)
Cells(i) == IF i.type = "immediate" THEN {} ELSE {sp + i.value}
Fetch(i) == IF i.type = "immediate" THEN prog.immediates[i.value + 1] ELSE mem[sp + i.value]
ValueA   == Fetch(Instruction.a)
ValueB   == Fetch(Instruction.b)

Divides       == Instruction.op \in {"div", "das"}
DividesByZero == /\ Divides
                 /\ Cells(Instruction.b) \subseteq Address
                 /\ ValueB = Zero

Touched ==
    UNION { IF Instruction.op \in ReadsFirst /\ ~DividesByZero
              THEN Cells(Instruction.a) ELSE {},
            IF Instruction.op \in ReadsSecond THEN Cells(Instruction.b) ELSE {},
            IF Instruction.op = "mov" THEN {sp + Instruction.b.value} ELSE {},
            IF Instruction.op = "put" THEN {sp + FrameSize + Instruction.b.value} ELSE {} }

(***************************************************************************)
(* The dispatch of do_execute, by computed goto (VM.cpp defines the        *)
(* EXECUTION_TYPE): next() fetches an instruction of the running frame,    *)
(* advances its instruction pointer and yields the label of its handler,   *)
(* unless the halt flag is set.                                            *)
(***************************************************************************)
Dispatch(ops) == /\ phase = "running"
                 /\ Instruction.op \in ops
                 /\ Touched \subseteq Address

Advance(n) == stack' = [stack EXCEPT ![depth].ip = @ + n]

Result(v) == mem' = [mem EXCEPT ![sp] = v]
Raise(op) == fe' = fe \cup Raised(op, ValueA, ValueB)

\* RAYCHELSCRIPT_VM_THROW: set the error and the halt flag.
Throw(code) == /\ error' = code
               /\ phase' = "halted"

NoThrow == UNCHANGED <<phase, error>>
NoCall  == UNCHANGED <<sp, calls>>

(***************************************************************************)
(* The instruction handlers.                                               *)
(***************************************************************************)
handle_mov ==
    /\ Dispatch({"mov"})
    /\ mem' = [mem EXCEPT ![sp + Instruction.b.value] = ValueA]
    /\ Advance(1)
    /\ NoThrow /\ NoCall /\ UNCHANGED <<flag, fe, caller>>

\* add, sub, mul and pow
handle_arithmetic ==
    /\ Dispatch(ArithmeticOps)
    /\ Result(Compute(Instruction.op, ValueA, ValueB))
    /\ Raise(Instruction.op)
    /\ Advance(1)
    /\ NoThrow /\ NoCall /\ UNCHANGED <<flag, caller>>

handle_div ==
    /\ Dispatch({"div"})
    /\ IF ValueB = Zero
         THEN Throw("divide_by_zero") /\ UNCHANGED <<mem, fe>>
         ELSE Result(Compute("div", ValueA, ValueB)) /\ Raise("div") /\ NoThrow
    /\ Advance(1)
    /\ NoCall /\ UNCHANGED <<flag, caller>>

handle_mag ==
    /\ Dispatch({"mag"})
    /\ Result(Compute("mag", ValueA, Zero))
    /\ Advance(1)
    /\ NoThrow /\ NoCall /\ UNCHANGED <<flag, fe, caller>>

\* The result is stored, then the bits are tested: whichever computation set them.
handle_fac ==
    /\ Dispatch({"fac"})
    /\ Result(Compute("fac", ValueA, Zero))
    /\ fe' = fe \cup Raised("fac", ValueA, Zero)
    /\ IF "divbyzero" \in fe' THEN Throw("divide_by_zero")
       ELSE IF "invalid" \in fe' THEN Throw("invalid_operand")
       ELSE NoThrow
    /\ Advance(1)
    /\ NoCall /\ UNCHANGED <<flag, caller>>

\* inc, dec, mas and pas
handle_update ==
    /\ Dispatch(UpdateOps)
    /\ mem' = [mem EXCEPT ![sp + Instruction.a.value] = Compute(Instruction.op, ValueA, ValueB)]
    /\ Raise(Instruction.op)
    /\ Advance(1)
    /\ NoThrow /\ NoCall /\ UNCHANGED <<flag, caller>>

handle_das ==
    /\ Dispatch({"das"})
    /\ IF ValueB = Zero
         THEN Throw("divide_by_zero") /\ UNCHANGED <<mem, fe>>
         ELSE /\ mem' = [mem EXCEPT ![sp + Instruction.a.value] = Compute("das", ValueA, ValueB)]
              /\ Raise("das")
              /\ NoThrow
    /\ Advance(1)
    /\ NoCall /\ UNCHANGED <<flag, caller>>

\* clt, cgt, ceq and cne
handle_compare ==
    /\ Dispatch(RelationalOps)
    /\ flag' = Compare(Instruction.op, ValueA, ValueB)
    /\ Raise(Instruction.op)
    /\ Advance(1)
    /\ NoThrow /\ NoCall /\ UNCHANGED <<mem, caller>>

\* mutant of handle_jpz: the one the dispatch has added is not taken off
handle_jpz_long ==
    /\ Dispatch({"jpz"})
    /\ Advance(IF flag THEN 1 ELSE 1 + Instruction.a.value)
    /\ NoThrow /\ NoCall /\ UNCHANGED <<mem, flag, fe, caller>>

\* The dispatch has already advanced the instruction pointer by one.
handle_jpz ==
    /\ Dispatch({"jpz"})
    /\ Advance(IF flag THEN 1 ELSE 1 + (Instruction.a.value - 1))
    /\ NoThrow /\ NoCall /\ UNCHANGED <<mem, flag, fe, caller>>

handle_jmp ==
    /\ Dispatch({"jmp"})
    /\ Advance(1 + (Instruction.a.value - 1))
    /\ NoThrow /\ NoCall /\ UNCHANGED <<mem, flag, fe, caller>>

\* Return from do_execute without an error.
handle_hlt ==
    /\ Dispatch({"hlt"})
    /\ phase' = "halted"
    /\ Advance(1)
    /\ NoCall /\ UNCHANGED <<mem, flag, error, fe, caller>>

\* An argument of the next call goes beyond the running frame's window.
handle_put ==
    /\ Dispatch({"put"})
    /\ mem' = [mem EXCEPT ![sp + FrameSize + Instruction.b.value] = ValueA]
    /\ Advance(1)
    /\ NoThrow /\ NoCall /\ UNCHANGED <<flag, fe, caller>>

\* mutants of StackFull: compared with the end of the stack; not checked
StackFull_end == depth = StackSize + 1
StackFull_never == FALSE

\* push_frame: the running frame is the last one the call stack has room for.
StackFull == depth = StackSize

\* mutant of CalleeWindow: the callee's size instead of the caller's
CalleeWindow_own == sp + prog.frames[Instruction.a.value + 1].size

\* where the window of the frame that is called begins
CalleeWindow == sp + FrameSize

\* mutant of handle_jsr: the caller's instruction pointer stays at the call
handle_jsr_again ==
    /\ Dispatch({"jsr"})
    /\ sp' = CalleeWindow
    /\ IF sp' >= MemSize
         THEN Throw("memory_overflow") /\ Advance(1) /\ UNCHANGED calls
       ELSE IF StackFull
         THEN Throw("stack_overflow") /\ Advance(1) /\ UNCHANGED calls
         ELSE /\ stack' = Append(stack, [fn |-> Instruction.a.value + 1, ip |-> 1])
              /\ calls' = Append(calls, [base |-> sp, ip |-> stack[depth].ip, mem |-> mem])
              /\ NoThrow
    /\ UNCHANGED <<mem, flag, fe, caller>>

\* The stack pointer moves before anything is checked.
handle_jsr ==
    /\ Dispatch({"jsr"})
    /\ sp' = CalleeWindow
    /\ IF sp' >= MemSize
         THEN Throw("memory_overflow") /\ Advance(1) /\ UNCHANGED calls
       ELSE IF StackFull
         THEN Throw("stack_overflow") /\ Advance(1) /\ UNCHANGED calls
         ELSE /\ stack' = Append([stack EXCEPT ![depth].ip = @ + 1],
                                 [fn |-> Instruction.a.value + 1, ip |-> 1])
              /\ calls' = Append(calls, [base |-> sp, ip |-> stack[depth].ip + 1, mem |-> mem])
              /\ NoThrow
    /\ UNCHANGED <<mem, flag, fe, caller>>

\* mutant of AtBeginningOfStack: off by one
AtBeginningOfStack_off == depth =< 2

AtBeginningOfStack == depth = 1

\* mutants of CallerWindow: the size of the frame that returns; the stack pointer stays
CallerWindow_own == sp - FrameSize
CallerWindow_here == sp

CallerWindow == sp - Frame(depth - 1).size

\* mutant of handle_ret: the result is read after the stack pointer has moved
handle_ret_late ==
    /\ Dispatch({"ret"})
    /\ IF AtBeginningOfStack
         THEN Throw("stack_underflow") /\ Advance(1) /\ UNCHANGED <<sp, mem, calls>>
         ELSE /\ sp' = CallerWindow
              /\ stack' = SubSeq(stack, 1, depth - 1)
              /\ calls' = SubSeq(calls, 1, depth - 2)
              /\ NoThrow /\ UNCHANGED mem
    /\ UNCHANGED <<flag, fe, caller>>

\* The result of the call is the callee's A; it becomes the caller's A.
handle_ret ==
    /\ Dispatch({"ret"})
    /\ IF AtBeginningOfStack
         THEN Throw("stack_underflow") /\ Advance(1) /\ UNCHANGED <<sp, mem, calls>>
         ELSE /\ sp' = CallerWindow
              /\ mem' = [mem EXCEPT ![sp'] = mem[sp]]
              /\ stack' = SubSeq(stack, 1, depth - 1)
              /\ calls' = SubSeq(calls, 1, depth - 2)
              /\ NoThrow
    /\ UNCHANGED <<flag, fe, caller>>

\* An access outside of the memory is undefined behaviour: the model stops there.
touch_outside_memory ==
    /\ phase = "running"
    /\ ~(Touched \subseteq Address)
    /\ phase' = "wild"
    /\ UNCHANGED <<stack, sp, mem, flag, error, fe, calls, caller>>

Step == \/ handle_mov  \/ handle_arithmetic \/ handle_div \/ handle_mag \/ handle_fac
        \/ handle_update \/ handle_das \/ handle_compare \/ handle_jpz \/ handle_jmp
        \/ handle_hlt \/ handle_put \/ handle_jsr \/ handle_ret
        \/ touch_outside_memory

-------------------------------------------------------------------------------
(***************************************************************************)
(* execute.  The VMState, the call stack and the memory live as long as    *)
(* the execution.  Memory is zeroed and every input is stored in           *)
(* memory[1]: the index i is never advanced, so the last input remains.    *)
(***************************************************************************)
NoProgram == [inputs |-> 0, outputs |-> 0, immediates |-> << >>, frames |-> << >>]

InitialMemory(in) ==
    [a \in Address |-> IF a = 1 /\ in # << >> THEN in[Len(in)] ELSE Zero]

Init ==
    /\ phase = "idle"
    /\ prog = NoProgram
    /\ input = << >>
    /\ stack = << >>
    /\ sp = 0
    /\ mem = InitialMemory(<< >>)
    /\ flag = FALSE
    /\ error = "ok"
    /\ fe = {}
    /\ result = "ok"
    /\ outputs = << >>
    /\ calls = << >>

\* in: the input values; slots: the number of output slots of the caller
execute(p, in, slots) ==
    /\ Len(in) = p.inputs
    /\ slots = p.outputs
    /\ phase' = "running"
    /\ prog' = p
    /\ input' = in
    /\ stack' = << [fn |-> 1, ip |-> 1] >>
    /\ mem' = InitialMemory(in)
    /\ result' = "ok"
    /\ outputs' = [j \in 1 .. slots |-> Zero]
    /\ UNCHANGED <<sp, flag, error, fe, calls>>

\* Bail out early if the numbers of inputs or outputs do not match.
reject(p, in, slots) ==
    /\ Len(in) # p.inputs \/ slots # p.outputs
    /\ result' = IF Len(in) # p.inputs THEN "mismatched_inputs" ELSE "mismatched_outputs"
    /\ outputs' = [j \in 1 .. slots |-> Zero]
    /\ UNCHANGED <<phase, prog, input, stack, sp, mem, flag, error, fe, calls>>

\* do_execute has returned: the outputs are copied from memory[1 + j] on success only.
finish ==
    /\ phase = "halted"
    /\ phase' = "idle"
    /\ result' = error
    /\ outputs' = IF error = "ok" THEN [j \in DOMAIN outputs |-> mem[j]] ELSE outputs
    /\ prog' = NoProgram
    /\ input' = << >>
    /\ stack' = << >>
    /\ sp' = 0
    /\ mem' = InitialMemory(<< >>)
    /\ flag' = FALSE
    /\ error' = "ok"
    /\ calls' = << >>
    /\ UNCHANGED fe

\* Nothing is said of a process that has touched memory it does not own.
lost ==
    /\ phase = "wild"
    /\ UNCHANGED vars

Call == /\ phase = "idle"
        /\ \E p \in Programs, in \in Inputs, slots \in OutputSlots :
              execute(p, in, slots) \/ reject(p, in, slots)

Next == Call \/ Step \/ finish \/ lost

\* The thread that has entered execute keeps executing; nobody is obliged to call it.
Spec == Init /\ [][Next]_vars /\ WF_vars(Step \/ finish)

-------------------------------------------------------------------------------
(***************************************************************************)
(* Properties.                                                             *)
(***************************************************************************)
CallFrame  == [fn : Nat \ {0}, ip : Nat \ {0}]
CallRecord == [base : Nat, ip : Nat \ {0}, mem : [Address -> Value]]

\* Every variable has its type, and every frame is a frame of the program and
\* its instruction pointer points into its code (nothing runs off the end).
TypeOK ==
    /\ phase \in {"idle", "running", "halted", "wild"}
    /\ input \in Seq(Value)
    /\ stack \in Seq(CallFrame)
    /\ sp \in Nat
    /\ mem \in [Address -> Value]
    /\ flag \in BOOLEAN
    /\ error \in ErrorCode
    /\ fe \subseteq Exception
    /\ result \in ErrorCode
    /\ outputs \in Seq(Value)
    /\ calls \in Seq(CallRecord)
    /\ phase = "running" => \A i \in 1 .. depth :
                              /\ stack[i].fn \in 1 .. Len(prog.frames)
                              /\ stack[i].ip \in 1 .. Len(Frame(i).code)

\* However calls nest and whatever the callees do: the windows of the frames lie
\* end to end, the stack pointer is at the running frame's window, and of every
\* suspended frame neither the return address nor any cell up to the end of its
\* window has changed since it made its call (jsr, ret and put move the stack
\* pointer and write through it without any record of where a frame began).
CallsNest ==
    phase = "running" =>
      /\ Len(calls) = depth - 1
      /\ sp = IF depth = 1 THEN 0
              ELSE calls[depth - 1].base + Frame(depth - 1).size
      /\ \A i \in 1 .. Len(calls) :
           /\ calls[i].base = IF i = 1 THEN 0 ELSE calls[i - 1].base + Frame(i - 1).size
           /\ calls[i].ip = stack[i].ip
           /\ \A a \in 0 .. calls[i].base + Frame(i).size - 1 : mem[a] = calls[i].mem[a]

\* A program that ends without an error has returned from every call: the cells
\* that execute copies to the outputs are those of the outermost frame.
HaltsOutermost == phase = "halted" /\ error = "ok" => depth = 1 /\ sp = 0

\* A limit is reported when it is reached, never before, and no instruction is
\* executed with more frames than the call stack holds or with the stack pointer
\* outside of the memory (push_frame compares with the last frame of the stack).
LimitsReported ==
    /\ depth =< StackSize
    /\ phase = "running" => sp < MemSize
    /\ phase = "halted" /\ error = "stack_overflow" => depth = StackSize /\ sp < MemSize
    /\ phase = "halted" /\ error = "memory_overflow" => sp >= MemSize

\* Compiled code never returns from the outermost frame.
NoUnderflow == error # "stack_underflow" /\ result # "stack_underflow"

\* A call is transparent to its caller, however deep it went: after ret the
\* caller continues where it left off, in its own window, and no cell up to the
\* end of its window differs from what it was at the call, except A, which holds
\* the callee's A (README: functions cannot change anything that is not local).
ReturnsToCaller ==
    LET call == calls[Len(calls)]
    IN  /\ stack'[depth - 1].fn = stack[depth - 1].fn
        /\ stack'[depth - 1].ip = call.ip
        /\ sp' = call.base
        /\ mem'[sp'] = mem[sp]
        /\ \A a \in 0 .. sp' + Frame(depth - 1).size - 1 : a # sp' => mem'[a] = call.mem[a]
CallsArePure ==
    [][(phase = "running" /\ Instruction.op = "ret" /\ phase' = "running") => ReturnsToCaller]_vars

\* No access leaves the memory.
StaysInMemory == phase # "wild"

\* No frame of p has more than n cells, or puts an argument into the n-th one or later.
FitsIn(p, n) ==
    \A f \in 1 .. Len(p.frames) :
      /\ p.frames[f].size =< n
      /\ \A k \in 1 .. Len(p.frames[f].code) :
           p.frames[f].code[k].op = "put" => p.frames[f].code[k].b.value < n

\* The memory has room for the frames there are and one more, all of the program's largest size.
HasRoom == \E n \in 1 .. MaxFrame : FitsIn(prog, n) /\ (depth + 1) * n =< MemSize

\* Only jsr compares the stack pointer with the end of the memory, while put and the
\* window of a frame reach further: still no access leaves the memory before calls are so
\* deep that one frame more might not fit.  Whatever has been called and has returned
\* before leaves no cell behind that is lost for the calls to come.
LeavesMemoryWhenFull == HasRoom => StaysInMemory

\* A factorial reports a fault only if computing it raises one.
FactorialFaultsAreItsOwn ==
    [][(phase = "running" /\ Instruction.op = "fac" /\ phase' = "halted")
         => Raised("fac", ValueA, Zero) # {}]_vars

\* The call stack bounds recursion, so a program whose jumps all go forward ends,
\* with a result or with an error.
LoopFree(p) == \A f \in 1 .. Len(p.frames) : \A k \in 1 .. Len(p.frames[f].code) :
                  p.frames[f].code[k].op \in {"jpz", "jmp"} => p.frames[f].code[k].a.value > 0
Terminates == (phase = "running" /\ LoopFree(prog)) ~> (phase \in {"idle", "wild"})
===============================================================================
