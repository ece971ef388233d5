------------------------------- MODULE VMProofs -------------------------------
(***************************************************************************)
(* Theorems about VM, for every set of well-formed programs, every         *)
(* arithmetic and every size of the call stack and of the memory.          *)
(***************************************************************************)
EXTENDS VM, TLAPS

\* What the code relies on between two instructions, beyond the properties of VM.
ProgOK == prog \in Programs \cup {NoProgram}

\* The outermost frame, and no other, runs the code outside of every function;
\* an execution starts at the bottom of the memory and of the call stack, and has
\* as many output slots as its program has outputs.
RunningOK ==
    /\ phase \in {"idle", "running"} => error = "ok"
    /\ phase = "idle" => sp = 0 /\ calls = << >>
    /\ phase \in {"running", "halted"} => prog \in Programs /\ Len(outputs) = prog.outputs
    /\ phase = "running" =>
         /\ depth \in 1 .. StackSize
         /\ \A i \in 1 .. depth : stack[i].fn = 1 <=> i = 1

\* The windows of the suspended frames are in the order of the call stack, below
\* the window of the running frame: CallsNest says so of neighbours only.
WindowsOrdered ==
    phase = "running" =>
      \A i \in 1 .. Len(calls) :
        /\ calls[i].base + Frame(i).size =< sp
        /\ \A j \in i + 1 .. Len(calls) : calls[i].base + Frame(i).size =< calls[j].base

IInv == /\ TypeOK /\ ProgOK /\ RunningOK /\ CallsNest /\ WindowsOrdered
        /\ HaltsOutermost /\ LimitsReported /\ NoUnderflow

-------------------------------------------------------------------------------
\* The running frame and its instruction are those of a well-formed program.
LEMMA RunningCode ==
    ASSUME TypeOK, RunningOK, phase = "running"
    PROVE  /\ WellFormed(prog)
           /\ depth \in Nat \ {0}
           /\ \A i \in 1 .. depth : /\ stack[i].fn \in 1 .. Len(prog.frames)
                                    /\ Frame(i).size \in 1 .. MaxFrame
                                    /\ Len(Frame(i).code) \in Nat \ {0}
           /\ stack[depth].ip \in 1 .. Len(Frame(depth).code)
           /\ WellFormedInstruction(prog, stack[depth].fn, stack[depth].ip)
<1>1. WellFormed(prog)
  BY ProgramAssumption DEF RunningOK
<1>2. depth \in Nat \ {0}
  BY SizeAssumption DEF RunningOK
<1>3. ASSUME NEW i \in 1 .. depth
      PROVE  /\ stack[i].fn \in 1 .. Len(prog.frames)
             /\ WellFormedFrame(prog, stack[i].fn)
             /\ stack[i].ip \in 1 .. Len(Frame(i).code)
  BY <1>1 DEF TypeOK, WellFormed
<1>4. \A i \in 1 .. depth : /\ Frame(i).size \in 1 .. MaxFrame
                            /\ Len(Frame(i).code) \in Nat \ {0}
  BY <1>3 DEF WellFormedFrame, Frame
<1>5. WellFormedInstruction(prog, stack[depth].fn, stack[depth].ip)
  BY <1>2, <1>3, SMTT(60) DEF WellFormedFrame, Frame
<1> QED
  BY <1>1, <1>2, <1>3, <1>4, <1>5

\* The operands of an instruction that touches no cell outside of the memory are values.
LEMMA OperandValues ==
    ASSUME TypeOK, RunningOK, phase = "running", Touched \subseteq Address
    PROVE  /\ Instruction.op \in ReadsSecond => ValueB \in Value
           /\ Instruction.op \in ReadsFirst /\ ~(Divides /\ ValueB = Zero) => ValueA \in Value
<1> DEFINE ins == Instruction
           frame == prog.frames[stack[depth].fn]
<1>1. /\ ins.op \in ReadsFirst  => IsOperand(prog, frame, ins.a)
      /\ ins.op \in ReadsSecond => IsOperand(prog, frame, ins.b)
  BY RunningCode DEF WellFormedInstruction, Instruction, Frame
<1>2. prog.immediates \in Seq(Value)
  BY RunningCode DEF WellFormed
<1>3. ASSUME NEW o, IsOperand(prog, frame, o), Cells(o) \subseteq Address
      PROVE  Fetch(o) \in Value
  <2>1. CASE o.type = "immediate"
    <3>1. o.value \in 0 .. Len(prog.immediates) - 1
      BY <1>3, <2>1 DEF IsOperand, IsLocal
    <3> QED
      BY <1>2, <2>1, <3>1 DEF Fetch
  <2>2. CASE o.type # "immediate"
    BY <1>3, <2>2 DEF Fetch, Cells, TypeOK
  <2> QED
    BY <2>1, <2>2
<1>4. ins.op \in ReadsSecond => Cells(ins.b) \subseteq Address
  BY DEF Touched
<1>5. ins.op \in ReadsFirst /\ ~(Divides /\ ValueB = Zero) => Cells(ins.a) \subseteq Address
  BY DEF Touched, DividesByZero
<1> QED
  BY <1>1, <1>3, <1>4, <1>5 DEF ValueA, ValueB

-------------------------------------------------------------------------------
(***************************************************************************)
(* Every handler but jsr and ret is a local step: it leaves the stack      *)
(* pointer and the suspended frames alone and writes no cell below the     *)
(* window of the running frame.                                            *)
(***************************************************************************)
AdvancesTo(n) ==
    /\ Advance(n)
    /\ stack[depth].ip + n \in Nat \ {0}
    /\ phase' = "running" => stack[depth].ip + n =< Len(Frame(depth).code)

LocalStep ==
    /\ phase = "running"
    /\ phase' \in {"running", "halted"}
    /\ UNCHANGED <<prog, input, sp, result, outputs, calls>>
    /\ \E n \in Int : AdvancesTo(n)
    /\ mem' \in [Address -> Value]
    /\ \A a \in 0 .. sp - 1 : mem'[a] = mem[a]
    /\ flag' \in BOOLEAN
    /\ fe' \subseteq Exception
    /\ error' \in {"ok", "divide_by_zero", "invalid_operand"}
    /\ phase' = "running" => error' = "ok"
    /\ phase' = "halted" /\ error' = "ok" => depth = 1

LEMMA LocalStepPreserves == IInv /\ LocalStep => IInv'
<1> SUFFICES ASSUME IInv, LocalStep PROVE IInv'
  OBVIOUS
<1> USE DEF IInv
<1>0. PICK n \in Int : /\ stack' = [stack EXCEPT ![depth].ip = @ + n]
                       /\ stack[depth].ip + n \in Nat \ {0}
                       /\ phase' = "running" => stack[depth].ip + n =< Len(Frame(depth).code)
  BY DEF LocalStep, AdvancesTo, Advance
<1>1. /\ phase = "running"
      /\ UNCHANGED <<prog, input, sp, result, outputs, calls>>
      /\ phase' \in {"running", "halted"}
  BY DEF LocalStep
<1>2. /\ depth \in 1 .. StackSize
      /\ stack \in Seq(CallFrame)
      /\ \A i \in 1 .. depth : stack[i] \in CallFrame
  BY <1>1 DEF RunningOK, TypeOK, depth
<1>3. /\ depth' = depth
      /\ stack' \in Seq(CallFrame)
      /\ \A i \in 1 .. depth : stack'[i].fn = stack[i].fn
      /\ \A i \in 1 .. depth - 1 : stack'[i].ip = stack[i].ip
      /\ stack'[depth].ip = stack[depth].ip + n
  <2> DEFINE top == [stack[depth] EXCEPT !.ip = @ + n]
  <2>1. top \in CallFrame /\ top.fn = stack[depth].fn /\ top.ip = stack[depth].ip + n
    <3>1. ASSUME NEW r \in CallFrame, r.ip + n \in Nat \ {0}
          PROVE  LET t == [r EXCEPT !.ip = r.ip + n]
                 IN  t \in CallFrame /\ t.fn = r.fn /\ t.ip = r.ip + n
      BY <3>1 DEF CallFrame
    <3> QED
      BY <1>0, <1>2, <3>1
  <2>2. stack' = [stack EXCEPT ![depth] = top]
    BY <1>0
  <2> HIDE DEF top
  <2> QED
    BY <1>2, <2>1, <2>2 DEF depth
<1>4. \A i \in 1 .. depth : Frame(i)' = Frame(i)
  BY <1>1, <1>3 DEF Frame
<1>5. Len(calls) = depth - 1
  BY <1>1 DEF CallsNest
<1>6. TypeOK'
  <2>1. phase' = "running" => \A i \in 1 .. depth' : /\ stack'[i].fn \in 1 .. Len(prog'.frames)
                                                     /\ stack'[i].ip \in 1 .. Len(Frame(i)'.code)
    BY <1>0, <1>1, <1>2, <1>3, <1>4, RunningCode, SMTT(60) DEF TypeOK
  <2> QED
    BY <2>1, <1>1, <1>3 DEF TypeOK, LocalStep, ErrorCode
<1>7. ProgOK' /\ RunningOK'
  BY <1>1, <1>2, <1>3 DEF ProgOK, RunningOK, LocalStep
<1>8. CallsNest'
  <2>1. \A i \in 1 .. Len(calls) : calls[i].base + Frame(i).size =< sp
    BY <1>1 DEF WindowsOrdered
  <2>2. \A i \in 1 .. Len(calls) : calls[i].base \in Nat /\ Frame(i).size \in Nat
    <3>1. calls \in Seq(CallRecord)
      BY DEF TypeOK
    <3>2. ASSUME NEW i \in 1 .. Len(calls) PROVE calls[i].base \in Nat
      <4>1. calls[i] \in CallRecord
        BY <3>1
      <4> QED
        BY <4>1 DEF CallRecord
    <3>3. \A i \in 1 .. depth : Frame(i).size \in 1 .. MaxFrame
      BY <1>1, RunningCode
    <3> QED
      BY <1>2, <1>5, <3>2, <3>3, SizeAssumption
  <2>3. ASSUME NEW i \in 1 .. Len(calls), NEW a \in 0 .. calls[i].base + Frame(i).size - 1
        PROVE  mem'[a] = calls[i].mem[a]
    <3>1. a \in 0 .. sp - 1
      BY <2>1, <2>2, <2>3, SMTT(60) DEF TypeOK
    <3> QED
      BY <1>1, <2>3, <3>1 DEF CallsNest, LocalStep
  <2> QED
    <3>1. Len(calls)' = depth' - 1 /\ calls' = calls /\ sp' = sp
      BY <1>1, <1>3, <1>5
    <3>2. \A i \in 1 .. Len(calls) : Frame(i)' = Frame(i) /\ stack'[i].ip = stack[i].ip
      BY <1>2, <1>3, <1>4, <1>5
    <3>3. depth # 1 => Frame(depth - 1)' = Frame(depth - 1)
      BY <1>1, <1>2, <1>3 DEF Frame
    <3>4. \A i \in 1 .. Len(calls) : i # 1 => Frame(i - 1)' = Frame(i - 1)
      BY <1>2, <1>4, <1>5
    <3> QED
      BY <1>1, <1>3, <2>3, <3>1, <3>2, <3>3, <3>4 DEF CallsNest
<1>9. WindowsOrdered'
  BY <1>1, <1>2, <1>3, <1>4, <1>5, SMTT(60) DEF WindowsOrdered
<1>10. HaltsOutermost' /\ LimitsReported' /\ NoUnderflow'
  BY <1>1, <1>2, <1>3, <1>5
     DEF LocalStep, HaltsOutermost, LimitsReported, NoUnderflow, CallsNest, RunningOK
<1> QED
  BY <1>6, <1>7, <1>8, <1>9, <1>10

\* After any instruction but hlt, ret and the jumps comes another one.
LEMMA NextInstruction ==
    ASSUME IInv, phase = "running", Instruction.op \notin {"hlt", "ret"}
    PROVE  /\ stack[depth].ip + 1 \in Nat \ {0}
           /\ stack[depth].ip + 1 =< Len(Frame(depth).code)
<1>1. stack[depth].ip # Len(Frame(depth).code)
  BY RunningCode DEF WellFormedInstruction, Instruction, Frame, IInv
<1> QED
  BY <1>1, RunningCode DEF IInv

\* A write to a cell of the memory that is not below the window of the running frame.
LEMMA LocalWrite ==
    ASSUME IInv, NEW c \in Address, c >= sp, NEW v \in Value, mem' = [mem EXCEPT ![c] = v]
    PROVE  /\ mem' \in [Address -> Value]
           /\ \A a \in 0 .. sp - 1 : mem'[a] = mem[a]
<1>1. mem \in [Address -> Value] /\ sp \in Nat
  BY DEF IInv, TypeOK
<1> QED
  BY <1>1 DEF Address

\* The dispatched instruction, its operands and the register A.
LEMMA Dispatched ==
    ASSUME IInv, NEW ops, Dispatch(ops)
    PROVE  /\ phase = "running"
           /\ error = "ok"
           /\ Instruction.op \in ops
           /\ sp \in Address
           /\ mem \in [Address -> Value]
           /\ flag \in BOOLEAN
           /\ fe \subseteq Exception
           /\ WellFormedInstruction(prog, stack[depth].fn, stack[depth].ip)
           /\ Instruction.op \in ReadsSecond => ValueB \in Value
           /\ Instruction.op \in ReadsFirst /\ ~(Divides /\ ValueB = Zero) => ValueA \in Value
<1>1. /\ phase = "running"
      /\ Instruction.op \in ops
      /\ Touched \subseteq Address
  BY DEF Dispatch
<1>2. sp \in Address
  BY <1>1, SizeAssumption DEF IInv, LimitsReported, TypeOK, Address
<1>3. error = "ok"
  BY <1>1 DEF IInv, RunningOK
<1>4. TypeOK /\ RunningOK
  BY DEF IInv
<1> QED
  BY <1>1, <1>2, <1>3, <1>4, RunningCode, OperandValues DEF TypeOK

\* What is left to show of a handler that goes on to the next instruction.
LEMMA StepsLocally ==
    ASSUME IInv, NEW ops, Dispatch(ops), ops \cap {"hlt", "ret"} = {},
           Advance(1), NoCall, UNCHANGED caller,
           mem' \in [Address -> Value],
           \A a \in 0 .. sp - 1 : mem'[a] = mem[a],
           flag' \in BOOLEAN, fe' \subseteq Exception,
           \/ NoThrow
           \/ \E code \in {"divide_by_zero", "invalid_operand"} : Throw(code)
    PROVE  LocalStep
<1>1. AdvancesTo(1)
  BY Dispatched, NextInstruction DEF AdvancesTo
<1> QED
  BY <1>1, Dispatched DEF LocalStep, NoThrow, NoCall, caller, Throw

LEMMA MovIsLocal == IInv /\ handle_mov => LocalStep
<1> SUFFICES ASSUME IInv, handle_mov PROVE LocalStep
  OBVIOUS
<1>1. Dispatch({"mov"})
  BY DEF handle_mov
<1>2. ValueA \in Value
  BY <1>1, Dispatched DEF ReadsFirst, OpCode, Divides
<1>3. sp + Instruction.b.value \in Address /\ sp + Instruction.b.value >= sp
  <2>1. IsLocal(Frame(depth), Instruction.b)
    <3>1. /\ Instruction.op = "mov"
          /\ WellFormedInstruction(prog, stack[depth].fn, stack[depth].ip)
      BY <1>1, Dispatched
    <3> QED
      BY <3>1 DEF WellFormedInstruction, Instruction, Frame
  <2>2. sp + Instruction.b.value \in Touched
    BY <1>1, Dispatched DEF Touched
  <2>3. Instruction.b.value \in Nat
    BY <1>1, <2>1, Dispatched, RunningCode, SizeAssumption DEF IsLocal, IInv
  <2>4. sp + Instruction.b.value \in Address
    BY <1>1, <2>2 DEF Dispatch
  <2>5. sp \in Nat
    BY DEF IInv, TypeOK
  <2> QED
    BY <2>3, <2>4, <2>5
<1>4. /\ mem' \in [Address -> Value]
      /\ \A a \in 0 .. sp - 1 : mem'[a] = mem[a]
  BY <1>2, <1>3, LocalWrite DEF handle_mov
<1> QED
  BY <1>1, <1>4, StepsLocally, Dispatched DEF handle_mov

\* A write to the register A.
LEMMA ResultWrite ==
    ASSUME IInv, NEW ops, Dispatch(ops), NEW v \in Value, Result(v)
    PROVE  /\ mem' \in [Address -> Value]
           /\ \A a \in 0 .. sp - 1 : mem'[a] = mem[a]
<1>1. sp \in Address /\ sp >= sp
  BY Dispatched DEF Address
<1> QED
  BY <1>1, LocalWrite DEF Result

\* The set of exceptions only grows by exceptions.
LEMMA Raises ==
    ASSUME fe \subseteq Exception, NEW op \in OpCode, NEW v \in Value, NEW w \in Value,
           fe' = fe \cup Raised(op, v, w)
    PROVE  fe' \subseteq Exception
BY ValueAssumption

LEMMA ArithmeticIsLocal == IInv /\ handle_arithmetic => LocalStep
<1> SUFFICES ASSUME IInv, handle_arithmetic PROVE LocalStep
  OBVIOUS
<1>1. Dispatch(ArithmeticOps)
  BY DEF handle_arithmetic
<1>2. Instruction.op \in OpCode /\ ValueA \in Value /\ ValueB \in Value
  BY <1>1, Dispatched DEF ReadsFirst, ReadsSecond, ArithmeticOps, OpCode, Divides
<1>3. /\ mem' \in [Address -> Value]
      /\ \A a \in 0 .. sp - 1 : mem'[a] = mem[a]
  BY <1>1, <1>2, ValueAssumption, ResultWrite DEF handle_arithmetic
<1>4. fe' \subseteq Exception
  BY <1>1, <1>2, Dispatched, Raises DEF handle_arithmetic, Raise
<1>5. ArithmeticOps \cap {"hlt", "ret"} = {}
  BY DEF ArithmeticOps
<1> QED
  BY <1>1, <1>3, <1>4, <1>5, StepsLocally, Dispatched DEF handle_arithmetic

LEMMA DivIsLocal == IInv /\ handle_div => LocalStep
<1> SUFFICES ASSUME IInv, handle_div PROVE LocalStep
  OBVIOUS
<1>1. Dispatch({"div"})
  BY DEF handle_div
<1>2. ValueB \in Value
  BY <1>1, Dispatched DEF ReadsSecond
<1>3. CASE ValueB = Zero
  <2>1. Throw("divide_by_zero") /\ UNCHANGED <<mem, fe>>
    BY <1>3 DEF handle_div
  <2> QED
    BY <1>1, <2>1, StepsLocally, Dispatched DEF handle_div
<1>4. CASE ValueB # Zero
  <2>1. Result(Compute("div", ValueA, ValueB)) /\ Raise("div") /\ NoThrow
    BY <1>4 DEF handle_div
  <2>2. ValueA \in Value /\ "div" \in OpCode
    BY <1>1, <1>4, Dispatched DEF ReadsFirst, OpCode
  <2>3. /\ mem' \in [Address -> Value]
        /\ \A a \in 0 .. sp - 1 : mem'[a] = mem[a]
    BY <1>1, <1>2, <2>1, <2>2, ValueAssumption, ResultWrite
  <2>4. fe' \subseteq Exception
    BY <1>1, <1>2, <2>1, <2>2, Dispatched, Raises DEF Raise
  <2> QED
    BY <1>1, <2>1, <2>3, <2>4, StepsLocally, Dispatched DEF handle_div
<1> QED
  BY <1>3, <1>4

LEMMA MagIsLocal == IInv /\ handle_mag => LocalStep
<1> SUFFICES ASSUME IInv, handle_mag PROVE LocalStep
  OBVIOUS
<1>1. Dispatch({"mag"})
  BY DEF handle_mag
<1>2. ValueA \in Value /\ "mag" \in OpCode
  BY <1>1, Dispatched DEF ReadsFirst, OpCode, Divides
<1>3. /\ mem' \in [Address -> Value]
      /\ \A a \in 0 .. sp - 1 : mem'[a] = mem[a]
  BY <1>1, <1>2, ValueAssumption, ResultWrite DEF handle_mag
<1> QED
  BY <1>1, <1>3, StepsLocally, Dispatched DEF handle_mag

LEMMA FacIsLocal == IInv /\ handle_fac => LocalStep
<1> SUFFICES ASSUME IInv, handle_fac PROVE LocalStep
  OBVIOUS
<1>1. Dispatch({"fac"})
  BY DEF handle_fac
<1>2. ValueA \in Value /\ "fac" \in OpCode /\ Zero \in Value
  BY <1>1, ValueAssumption, Dispatched DEF ReadsFirst, OpCode, Divides
<1>3. /\ mem' \in [Address -> Value]
      /\ \A a \in 0 .. sp - 1 : mem'[a] = mem[a]
  BY <1>1, <1>2, ValueAssumption, ResultWrite DEF handle_fac
<1>4. fe' \subseteq Exception
  BY <1>1, <1>2, Dispatched, Raises DEF handle_fac
<1>5. NoThrow \/ \E code \in {"divide_by_zero", "invalid_operand"} : Throw(code)
  BY DEF handle_fac
<1> QED
  BY <1>1, <1>3, <1>4, <1>5, StepsLocally, Dispatched DEF handle_fac

\* The first operand of an update instruction is a cell of the running frame's window.
LEMMA UpdatedCell ==
    ASSUME IInv, Dispatch(UpdateOps \cup {"das"}), ~(Divides /\ ValueB = Zero)
    PROVE  /\ sp + Instruction.a.value \in Address
           /\ sp + Instruction.a.value >= sp
<1>1. /\ Instruction.op \in UpdateOps \cup {"das"}
      /\ WellFormedInstruction(prog, stack[depth].fn, stack[depth].ip)
  BY Dispatched
<1>2. IsLocal(Frame(depth), Instruction.a)
  BY <1>1 DEF WellFormedInstruction, Instruction, Frame
<1>3. Instruction.a.value \in Nat
  BY <1>1, <1>2, Dispatched, RunningCode, SizeAssumption DEF IsLocal, IInv
<1>4. Cells(Instruction.a) \subseteq Address
  BY <1>1 DEF Touched, DividesByZero, Dispatch, ReadsFirst, OpCode, UpdateOps
<1>5. sp + Instruction.a.value \in Address
  BY <1>2, <1>4 DEF Cells, IsLocal
<1>6. sp \in Nat
  BY DEF IInv, TypeOK
<1> QED
  BY <1>3, <1>5, <1>6

LEMMA UpdateIsLocal == IInv /\ handle_update => LocalStep
<1> SUFFICES ASSUME IInv, handle_update PROVE LocalStep
  OBVIOUS
<1>1. Dispatch(UpdateOps) /\ Dispatch(UpdateOps \cup {"das"})
  BY DEF handle_update, Dispatch
<1>2. Instruction.op \in OpCode /\ ValueA \in Value /\ ValueB \in Value /\ ~Divides
  BY <1>1, Dispatched DEF ReadsFirst, ReadsSecond, UpdateOps, OpCode, Divides
<1>3. /\ mem' \in [Address -> Value]
      /\ \A a \in 0 .. sp - 1 : mem'[a] = mem[a]
  BY <1>1, <1>2, UpdatedCell, ValueAssumption, LocalWrite DEF handle_update
<1>4. fe' \subseteq Exception
  BY <1>1, <1>2, Dispatched, Raises DEF handle_update, Raise
<1>5. UpdateOps \cap {"hlt", "ret"} = {}
  BY DEF UpdateOps
<1> QED
  BY <1>1, <1>3, <1>4, <1>5, StepsLocally, Dispatched DEF handle_update

LEMMA DasIsLocal == IInv /\ handle_das => LocalStep
<1> SUFFICES ASSUME IInv, handle_das PROVE LocalStep
  OBVIOUS
<1>1. Dispatch({"das"}) /\ Dispatch(UpdateOps \cup {"das"})
  BY DEF handle_das, Dispatch
<1>2. ValueB \in Value
  BY <1>1, Dispatched DEF ReadsSecond
<1>3. CASE ValueB = Zero
  <2>1. Throw("divide_by_zero") /\ UNCHANGED <<mem, fe>>
    BY <1>3 DEF handle_das
  <2> QED
    BY <1>1, <2>1, StepsLocally, Dispatched DEF handle_das
<1>4. CASE ValueB # Zero
  <2>1. /\ mem' = [mem EXCEPT ![sp + Instruction.a.value] = Compute("das", ValueA, ValueB)]
        /\ Raise("das")
        /\ NoThrow
    BY <1>4 DEF handle_das
  <2>2. ValueA \in Value /\ "das" \in OpCode
    BY <1>1, <1>4, Dispatched DEF ReadsFirst, OpCode
  <2>3. /\ mem' \in [Address -> Value]
        /\ \A a \in 0 .. sp - 1 : mem'[a] = mem[a]
    BY <1>1, <1>2, <1>4, <2>1, <2>2, UpdatedCell, ValueAssumption, LocalWrite
  <2>4. fe' \subseteq Exception
    BY <1>1, <1>2, <2>1, <2>2, Dispatched, Raises DEF Raise
  <2> QED
    BY <1>1, <2>1, <2>3, <2>4, StepsLocally, Dispatched DEF handle_das
<1> QED
  BY <1>3, <1>4

LEMMA CompareIsLocal == IInv /\ handle_compare => LocalStep
<1> SUFFICES ASSUME IInv, handle_compare PROVE LocalStep
  OBVIOUS
<1>1. Dispatch(RelationalOps)
  BY DEF handle_compare
<1>2. Instruction.op \in OpCode /\ ValueA \in Value /\ ValueB \in Value
  BY <1>1, Dispatched DEF ReadsFirst, ReadsSecond, RelationalOps, OpCode, Divides
<1>3. flag' \in BOOLEAN
  BY <1>2, ValueAssumption DEF handle_compare
<1>4. fe' \subseteq Exception
  BY <1>1, <1>2, Dispatched, Raises DEF handle_compare, Raise
<1>5. RelationalOps \cap {"hlt", "ret"} = {}
  BY DEF RelationalOps
<1> QED
  BY <1>1, <1>3, <1>4, <1>5, StepsLocally, Dispatched DEF handle_compare

LEMMA PutIsLocal == IInv /\ handle_put => LocalStep
<1> SUFFICES ASSUME IInv, handle_put PROVE LocalStep
  OBVIOUS
<1>1. Dispatch({"put"})
  BY DEF handle_put
<1>2. ValueA \in Value
  BY <1>1, Dispatched DEF ReadsFirst, OpCode, Divides
<1> DEFINE cell == sp + FrameSize + Instruction.b.value
<1>3. cell \in Address
  BY <1>1, Dispatched DEF Touched, Dispatch
<1>4. Instruction.b.value \in Nat
  <2>1. Instruction.b.value \in 1 .. MaxFrame - 1
    <3>1. /\ Instruction.op = "put"
          /\ WellFormedInstruction(prog, stack[depth].fn, stack[depth].ip)
      BY <1>1, Dispatched
    <3> QED
      BY <3>1 DEF WellFormedInstruction, Instruction, Frame
  <2> QED
    BY <2>1, SizeAssumption
<1>5. FrameSize \in Nat
  BY <1>1, Dispatched, RunningCode, SizeAssumption DEF FrameSize, IInv
<1>6. cell >= sp
  BY <1>4, <1>5 DEF IInv, TypeOK
<1>7. /\ mem' \in [Address -> Value]
      /\ \A a \in 0 .. sp - 1 : mem'[a] = mem[a]
  BY <1>2, <1>3, <1>6, LocalWrite DEF handle_put
<1> QED
  BY <1>1, <1>7, StepsLocally, Dispatched DEF handle_put

\* A jump goes to an instruction of the same frame.
LEMMA JumpIsLocal == IInv /\ (handle_jpz \/ handle_jmp) => LocalStep
<1> SUFFICES ASSUME IInv, handle_jpz \/ handle_jmp PROVE LocalStep
  OBVIOUS
<1>1. Dispatch({"jpz", "jmp"})
  BY DEF handle_jpz, handle_jmp, Dispatch
<1> DEFINE offset == Instruction.a.value
<1>2. /\ offset \in Int
      /\ stack[depth].ip + offset \in 1 .. Len(Frame(depth).code)
  <2>1. /\ Instruction.op \in {"jpz", "jmp"}
        /\ WellFormedInstruction(prog, stack[depth].fn, stack[depth].ip)
    BY <1>1, Dispatched
  <2>2. Instruction.a.value \in Int
    <3>1. Instruction.a.value \in -128 .. 127
      BY <2>1 DEF WellFormedInstruction, Instruction, Frame
    <3>2. \A v \in -128 .. 127 : v \in Int
      OBVIOUS
    <3> QED
      BY <3>1, <3>2
  <2>3. stack[depth].ip + Instruction.a.value \in 1 .. Len(Frame(depth).code)
    BY <2>1 DEF WellFormedInstruction, Instruction, Frame
  <2> QED
    BY <2>2, <2>3
<1>3. Advance(1) \/ Advance(offset)
  BY <1>2 DEF handle_jpz, handle_jmp
<1> HIDE DEF offset
<1>4. \E n \in Int : AdvancesTo(n)
  <2>1. CASE Advance(1)
    BY <1>1, <2>1, NextInstruction, Dispatched DEF AdvancesTo
  <2>2. CASE Advance(offset)
    BY <1>2, <2>2, <1>1, Dispatched, RunningCode, SMTT(60) DEF AdvancesTo, IInv
  <2> QED
    BY <1>3, <2>1, <2>2
<1> QED
  BY <1>1, <1>4, Dispatched DEF LocalStep, handle_jpz, handle_jmp, NoThrow, NoCall, caller

LEMMA HltIsLocal == IInv /\ handle_hlt => LocalStep
<1> SUFFICES ASSUME IInv, handle_hlt PROVE LocalStep
  OBVIOUS
<1>1. Dispatch({"hlt"})
  BY DEF handle_hlt
<1>2. stack[depth].fn = 1
  <2>1. /\ Instruction.op = "hlt"
        /\ WellFormedInstruction(prog, stack[depth].fn, stack[depth].ip)
    BY <1>1, Dispatched
  <2> QED
    BY <2>1 DEF WellFormedInstruction, Instruction, Frame
<1>3. depth = 1
  BY <1>1, <1>2, Dispatched DEF IInv, RunningOK
<1>4. AdvancesTo(1)
  BY <1>1, Dispatched, RunningCode DEF AdvancesTo, handle_hlt, IInv
<1> QED
  BY <1>1, <1>3, <1>4, Dispatched DEF LocalStep, handle_hlt, NoCall, caller

-------------------------------------------------------------------------------
\* What a call that succeeds and a return do to the windows.
Pushes == /\ sp' = sp + FrameSize
          /\ depth' = depth + 1 /\ Len(calls') = depth
          /\ \A i \in 1 .. depth - 1 : calls'[i] = calls[i]
          /\ calls'[depth].base = sp
Pops   == /\ depth \in Nat /\ depth > 1
          /\ sp' = calls[depth - 1].base
          /\ depth' = depth - 1 /\ Len(calls') = depth - 2
          /\ \A i \in 1 .. depth - 2 : calls'[i] = calls[i]

\* jsr: the frame it suspends is recorded where the next window begins.
LEMMA JsrPreserves == IInv /\ handle_jsr => IInv' /\ (phase' = "halted" \/ Pushes)
<1> SUFFICES ASSUME IInv, handle_jsr PROVE IInv' /\ (phase' = "halted" \/ Pushes)
  OBVIOUS
<1> USE DEF IInv
<1>1. /\ phase = "running" /\ error = "ok"
      /\ Instruction.op = "jsr"
      /\ WellFormedInstruction(prog, stack[depth].fn, stack[depth].ip)
      /\ UNCHANGED <<mem, flag, fe, prog, input, result, outputs>>
      /\ sp' = sp + FrameSize
  BY Dispatched DEF handle_jsr, caller, CalleeWindow
<1>2. /\ depth \in 1 .. StackSize /\ depth \in Nat
      /\ stack \in Seq(CallFrame) /\ \A i \in 1 .. depth : stack[i] \in CallFrame
      /\ calls \in Seq(CallRecord) /\ Len(calls) = depth - 1
      /\ sp \in Nat /\ FrameSize \in 1 .. MaxFrame /\ sp' \in Nat
  <2>1. depth \in 1 .. StackSize /\ depth \in Nat /\ FrameSize \in 1 .. MaxFrame
    BY <1>1, RunningCode, SizeAssumption DEF RunningOK, FrameSize
  <2>2. stack \in Seq(CallFrame) /\ calls \in Seq(CallRecord) /\ sp \in Nat
    BY DEF TypeOK
  <2>3. \A i \in 1 .. depth : stack[i] \in CallFrame
    BY <2>2 DEF depth
  <2>4. sp' \in Nat
    BY <1>1, <2>1, <2>2, SizeAssumption
  <2> QED
    BY <1>1, <2>1, <2>2, <2>3, <2>4 DEF CallsNest
<1> DEFINE advanced == [stack EXCEPT ![depth].ip = @ + 1]
<1>3. /\ advanced \in Seq(CallFrame)
      /\ Len(advanced) = depth
      /\ \A i \in 1 .. depth : advanced[i].fn = stack[i].fn
      /\ \A i \in 1 .. depth - 1 : advanced[i].ip = stack[i].ip
      /\ advanced[depth].ip = stack[depth].ip + 1
  <2> DEFINE top == [stack[depth] EXCEPT !.ip = @ + 1]
  <2>1. top \in CallFrame /\ top.fn = stack[depth].fn /\ top.ip = stack[depth].ip + 1
    <3>1. ASSUME NEW r \in CallFrame
          PROVE  LET t == [r EXCEPT !.ip = r.ip + 1]
                 IN  t \in CallFrame /\ t.fn = r.fn /\ t.ip = r.ip + 1
      BY DEF CallFrame
    <3> QED
      BY <1>2, <3>1
  <2>2. advanced = [stack EXCEPT ![depth] = top]
    OBVIOUS
  <2> HIDE DEF top, advanced
  <2> QED
    BY <1>2, <2>1, <2>2 DEF depth
<1>4. CASE phase' = "halted"
  <2>1. /\ stack' = advanced
        /\ UNCHANGED calls
        /\ \/ error' = "memory_overflow" /\ sp' >= MemSize
           \/ error' = "stack_overflow" /\ sp' < MemSize /\ depth = StackSize
    BY <1>1, <1>2, <1>4, SizeAssumption
       DEF handle_jsr, Throw, NoThrow, Advance, StackFull
  <2> HIDE DEF advanced
  <2>2. stack' \in Seq(CallFrame) /\ depth' = depth
    BY <1>3, <2>1 DEF depth
  <2>3. TypeOK'
    BY <1>1, <1>2, <1>4, <2>1, <2>2 DEF TypeOK, ErrorCode
  <2> QED
    BY <1>1, <1>2, <1>4, <2>1, <2>2, <2>3
       DEF ProgOK, RunningOK, CallsNest, WindowsOrdered, HaltsOutermost, LimitsReported, NoUnderflow
<1>5. CASE phase' # "halted"
  <2> DEFINE callee == [fn |-> Instruction.a.value + 1, ip |-> 1]
             record == [base |-> sp, ip |-> stack[depth].ip + 1, mem |-> mem]
  <2>1. /\ stack' = Append(advanced, callee)
        /\ calls' = Append(calls, record)
        /\ phase' = "running" /\ error' = "ok"
        /\ sp' < MemSize /\ depth # StackSize
    <3>1. ~(sp' >= MemSize) /\ ~StackFull
      BY <1>5 DEF handle_jsr, Throw
    <3>2. sp' < MemSize
      BY <1>2, <3>1, SizeAssumption
    <3> QED
      BY <1>1, <3>1, <3>2 DEF handle_jsr, NoThrow, StackFull
  <2>2. /\ callee \in CallFrame
        /\ callee.fn \in 2 .. Len(prog.frames)
        /\ callee.ip = 1
    <3>1. Instruction.a.value \in 1 .. Len(prog.frames) - 1
      BY <1>1 DEF WellFormedInstruction, Instruction, Frame
    <3>2. Len(prog.frames) \in Nat
      BY <1>1, RunningCode DEF WellFormed
    <3> QED
      BY <3>1, <3>2 DEF CallFrame
  <2>3. /\ record \in CallRecord
        /\ record.base = sp /\ record.ip = stack[depth].ip + 1 /\ record.mem = mem
    <3>1. stack[depth].ip + 1 \in Nat \ {0} /\ mem \in [Address -> Value]
      BY <1>1, NextInstruction DEF TypeOK
    <3> QED
      BY <1>2, <3>1 DEF CallRecord
  <2> HIDE DEF advanced, callee, record
  <2>4. /\ depth' = depth + 1
        /\ stack' \in Seq(CallFrame)
        /\ \A i \in 1 .. depth : stack'[i] = advanced[i]
        /\ stack'[depth + 1] = callee
    BY <1>2, <1>3, <2>1, <2>2 DEF depth
  <2>5. /\ calls' \in Seq(CallRecord) /\ Len(calls') = depth
        /\ \A i \in 1 .. depth - 1 : calls'[i] = calls[i]
        /\ calls'[depth] = record
    BY <1>2, <2>1, <2>3
  <2>6. \A i \in 1 .. depth : Frame(i)' = Frame(i)
    BY <1>1, <1>2, <1>3, <2>4 DEF Frame
  <2>7. TypeOK'
    <3>1. \A i \in 1 .. depth : /\ stack'[i].fn \in 1 .. Len(prog'.frames)
                                 /\ stack'[i].ip \in 1 .. Len(Frame(i)'.code)
      <4>1. stack[depth].ip + 1 \in 1 .. Len(Frame(depth).code)
        BY <1>1, NextInstruction, RunningCode
      <4>2. \A i \in 1 .. depth : /\ stack[i].fn \in 1 .. Len(prog.frames)
                                   /\ stack[i].ip \in 1 .. Len(Frame(i).code)
        BY <1>1 DEF TypeOK
      <4> QED
        <5>1. ASSUME NEW i \in 1 .. depth
              PROVE  stack'[i].fn = stack[i].fn /\ stack'[i].ip \in 1 .. Len(Frame(i).code)
          <6>1. stack'[i].fn = stack[i].fn /\ stack'[i].ip = advanced[i].ip
            BY <1>3, <2>4
          <6>2. CASE i = depth
            BY <1>3, <4>1, <6>1, <6>2
          <6>3. CASE i # depth
            <7>1. i \in 1 .. depth - 1
              BY <1>2, <6>3
            <7> QED
              BY <1>3, <4>2, <6>1, <7>1
          <6> QED
            BY <6>2, <6>3
        <5> QED
          BY <1>1, <2>6, <4>2, <5>1
    <3>2. /\ stack'[depth + 1].fn \in 1 .. Len(prog'.frames)
          /\ stack'[depth + 1].ip \in 1 .. Len(prog'.frames[stack'[depth + 1].fn].code)
      <4>1. callee.fn \in 1 .. Len(prog.frames)
        BY <1>1, <2>2, RunningCode DEF WellFormed
      <4>2. Len(prog.frames[callee.fn].code) \in Nat \ {0}
        BY <1>1, <4>1, RunningCode DEF WellFormed, WellFormedFrame
      <4> QED
        BY <1>1, <2>2, <2>4, <4>1, <4>2
    <3>3. \A i \in 1 .. depth' : /\ stack'[i].fn \in 1 .. Len(prog'.frames)
                                  /\ stack'[i].ip \in 1 .. Len(Frame(i)'.code)
      <4>1. \A i \in 1 .. depth' : i \in 1 .. depth \/ i = depth + 1
        BY <1>2, <2>4
      <4>2. \A i \in 1 .. depth' : Frame(i)' = prog'.frames[stack'[i].fn]
        BY DEF Frame
      <4> QED
        BY <4>1, <4>2, <3>1, <3>2, Zenon
    <3> QED
      BY <1>1, <1>2, <2>1, <2>4, <2>5, <3>3 DEF TypeOK
  <2>8. ProgOK' /\ RunningOK'
    <3>1. depth' \in 1 .. StackSize
      BY <1>2, <2>1, <2>4, SizeAssumption, SMTT(60)
    <3>2. prog \in Programs /\ \A i \in 1 .. depth : stack[i].fn = 1 <=> i = 1
      BY <1>1 DEF RunningOK
    <3>3. \A i \in 1 .. depth : stack'[i].fn = 1 <=> i = 1
      BY <1>3, <2>4, <3>2
    <3>4. stack'[depth + 1].fn # 1 /\ depth + 1 # 1
      BY <1>2, <2>2, <2>4
    <3>5. \A i \in 1 .. depth' : stack'[i].fn = 1 <=> i = 1
      BY <1>2, <2>4, <3>3, <3>4
    <3> QED
      BY <1>1, <2>1, <3>1, <3>2, <3>5 DEF ProgOK, RunningOK
  <2>9. sp' = sp + Frame(depth).size
    BY <1>1 DEF FrameSize
  <2>10. CallsNest'
    <3>1. sp = IF depth = 1 THEN 0 ELSE calls[depth - 1].base + Frame(depth - 1).size
      BY <1>1 DEF CallsNest
    <3>2. \A i \in 1 .. depth - 1 :
            /\ calls[i].base = IF i = 1 THEN 0 ELSE calls[i - 1].base + Frame(i - 1).size
            /\ calls[i].ip = stack[i].ip
            /\ \A a \in 0 .. calls[i].base + Frame(i).size - 1 : mem[a] = calls[i].mem[a]
      BY <1>1, <1>2 DEF CallsNest
    <3>3. \A i \in 1 .. depth :
            /\ calls'[i].base = IF i = 1 THEN 0 ELSE calls'[i - 1].base + Frame(i - 1).size
            /\ calls'[i].ip = stack'[i].ip
            /\ \A a \in 0 .. calls'[i].base + Frame(i).size - 1 : mem[a] = calls'[i].mem[a]
      <4>1. ASSUME NEW i \in 1 .. depth - 1
            PROVE  /\ calls'[i].base = IF i = 1 THEN 0 ELSE calls'[i - 1].base + Frame(i - 1).size
                   /\ calls'[i].ip = stack'[i].ip
                   /\ \A a \in 0 .. calls'[i].base + Frame(i).size - 1 : mem[a] = calls'[i].mem[a]
        <5>1. i \in 1 .. depth /\ calls'[i] = calls[i] /\ stack'[i].ip = stack[i].ip
          BY <1>2, <1>3, <2>4, <2>5
        <5>2. i # 1 => i - 1 \in 1 .. depth - 1 /\ calls'[i - 1] = calls[i - 1]
          BY <1>2, <2>5
        <5> QED
          BY <3>2, <5>1, <5>2
      <4>2. /\ calls'[depth].base = IF depth = 1 THEN 0
                                    ELSE calls'[depth - 1].base + Frame(depth - 1).size
            /\ calls'[depth].ip = stack'[depth].ip
            /\ \A a \in 0 .. calls'[depth].base + Frame(depth).size - 1 :
                  mem[a] = calls'[depth].mem[a]
        <5>1. /\ calls'[depth].base = sp /\ calls'[depth].ip = stack[depth].ip + 1
              /\ calls'[depth].mem = mem
          BY <2>3, <2>5
        <5>2. depth # 1 => calls'[depth - 1] = calls[depth - 1]
          BY <1>2, <2>5
        <5>3. stack'[depth].ip = stack[depth].ip + 1
          BY <1>2, <1>3, <2>4
        <5> QED
          BY <3>1, <5>1, <5>2, <5>3
      <4> QED
        BY <1>2, <4>1, <4>2
    <3>4. \A i \in 1 .. depth : i # 1 => Frame(i - 1)' = Frame(i - 1)
      BY <1>2, <2>6
    <3>5. Frame(depth - 1)' = Frame(depth)
      BY <1>1, <1>2, <1>3, <2>4 DEF Frame
    <3>6. sp' = calls'[depth].base + Frame(depth).size
      BY <2>3, <2>5, <2>9
    <3> QED
      <4>1. Len(calls') = depth' - 1
        BY <1>2, <2>4, <2>5
      <4>2. sp' = IF depth' = 1 THEN 0 ELSE calls'[depth' - 1].base + Frame(depth - 1)'.size
        BY <1>2, <2>4, <3>5, <3>6
      <4>3. \A i \in 1 .. Len(calls') :
              /\ calls'[i].base = IF i = 1 THEN 0 ELSE calls'[i - 1].base + Frame(i - 1)'.size
              /\ calls'[i].ip = stack'[i].ip
              /\ \A a \in 0 .. calls'[i].base + Frame(i)'.size - 1 : mem'[a] = calls'[i].mem[a]
        BY <1>1, <2>5, <2>6, <3>3, <3>4
      <4> QED
        BY <4>1, <4>2, <4>3 DEF CallsNest
  <2>11. WindowsOrdered'
    <3>1. ASSUME NEW i \in 1 .. depth
          PROVE  /\ calls'[i].base + Frame(i).size =< sp'
                 /\ \A j \in i + 1 .. depth : calls'[i].base + Frame(i).size =< calls'[j].base
      <4>1. CASE i = depth
        BY <1>2, <2>3, <2>5, <2>9, <4>1
      <4>2. CASE i # depth
        <5>1. /\ i \in 1 .. depth - 1
              /\ calls[i].base + Frame(i).size =< sp
              /\ \A j \in i + 1 .. depth - 1 : calls[i].base + Frame(i).size =< calls[j].base
          BY <1>1, <1>2, <4>2 DEF WindowsOrdered
        <5>2. calls[i].base \in Nat
          <6>1. calls[i] \in CallRecord
            BY <1>2, <5>1
          <6> QED
            BY <6>1 DEF CallRecord
        <5>3. Frame(i).size \in Nat /\ FrameSize \in Nat
          BY <1>1, <1>2, RunningCode, SizeAssumption, SMTT(60)
        <5> QED
          <6>1. calls'[i] = calls[i] /\ calls'[depth].base = sp
            BY <2>3, <2>5, <5>1
          <6>2. calls[i].base + Frame(i).size =< sp'
            BY <1>1, <1>2, <5>1, <5>2, <5>3
          <6>3. ASSUME NEW j \in i + 1 .. depth
                PROVE  calls[i].base + Frame(i).size =< calls'[j].base
            <7>1. j = depth \/ (j \in i + 1 .. depth - 1 /\ j \in 1 .. depth - 1)
              BY <1>2, <5>1
            <7> QED
              BY <2>5, <5>1, <6>1, <7>1
          <6> QED
            BY <6>1, <6>2, <6>3
      <4> QED
        BY <4>1, <4>2
    <3> QED
      BY <2>5, <2>6, <3>1 DEF WindowsOrdered
  <2>12. HaltsOutermost' /\ LimitsReported' /\ NoUnderflow'
    BY <1>1, <1>2, <2>1, <2>4, SizeAssumption DEF HaltsOutermost, LimitsReported, NoUnderflow
  <2>13. Pushes
    BY <1>1, <2>3, <2>4, <2>5 DEF Pushes
  <2> QED
    BY <2>7, <2>8, <2>10, <2>11, <2>12, <2>13
<1> QED
  BY <1>4, <1>5

\* ret: the window that comes before the running one is the caller's.
LEMMA RetPreserves == IInv /\ handle_ret => IInv' /\ ReturnsToCaller /\ Pops
<1> SUFFICES ASSUME IInv, handle_ret PROVE IInv' /\ ReturnsToCaller /\ Pops
  OBVIOUS
<1> USE DEF IInv
<1>1. /\ phase = "running" /\ error = "ok"
      /\ Instruction.op = "ret"
      /\ WellFormedInstruction(prog, stack[depth].fn, stack[depth].ip)
      /\ UNCHANGED <<flag, fe, prog, input, result, outputs>>
      /\ sp \in Address /\ mem \in [Address -> Value]
  BY Dispatched DEF handle_ret, caller
<1>2. /\ depth \in 2 .. StackSize /\ depth \in Nat
      /\ stack \in Seq(CallFrame)
      /\ calls \in Seq(CallRecord) /\ Len(calls) = depth - 1
  <2>1. depth \in 1 .. StackSize /\ \A i \in 1 .. depth : stack[i].fn = 1 <=> i = 1
    BY <1>1 DEF RunningOK
  <2>2. stack[depth].fn # 1
    BY <1>1 DEF WellFormedInstruction, Instruction, Frame
  <2> QED
    BY <1>1, <2>1, <2>2, SizeAssumption DEF TypeOK, CallsNest
<1>3. /\ phase' = "running" /\ error' = "ok"
      /\ sp' = sp - Frame(depth - 1).size
      /\ mem' = [mem EXCEPT ![sp'] = mem[sp]]
      /\ stack' = SubSeq(stack, 1, depth - 1)
      /\ calls' = SubSeq(calls, 1, depth - 2)
  <2>1. ~AtBeginningOfStack
    BY <1>2 DEF AtBeginningOfStack
  <2> QED
    BY <1>1, <2>1 DEF handle_ret, NoThrow, CallerWindow
<1>4. /\ depth' = depth - 1 /\ stack' \in Seq(CallFrame)
      /\ \A i \in 1 .. depth - 1 : stack'[i] = stack[i]
  BY <1>2, <1>3 DEF depth
<1>5. /\ calls' \in Seq(CallRecord) /\ Len(calls') = depth - 2
      /\ \A i \in 1 .. depth - 2 : calls'[i] = calls[i]
  BY <1>2, <1>3
<1>6. \A i \in 1 .. depth - 1 : Frame(i)' = Frame(i) /\ Frame(i).size \in Nat
  <2>1. \A i \in 1 .. depth - 1 : Frame(i)' = Frame(i)
    BY <1>1, <1>4 DEF Frame
  <2>2. \A i \in 1 .. depth - 1 : Frame(i).size \in Nat
    BY <1>1, <1>2, RunningCode, SizeAssumption
  <2> QED
    BY <2>1, <2>2
<1>7. \A i \in 1 .. depth - 1 :
        /\ calls[i].base \in Nat
        /\ calls[i].base = IF i = 1 THEN 0 ELSE calls[i - 1].base + Frame(i - 1).size
        /\ calls[i].ip = stack[i].ip
        /\ \A a \in 0 .. calls[i].base + Frame(i).size - 1 : mem[a] = calls[i].mem[a]
        /\ \A j \in i + 1 .. depth - 1 : calls[i].base + Frame(i).size =< calls[j].base
  <2>1. \A i \in 1 .. depth - 1 : calls[i] \in CallRecord
    BY <1>2
  <2>2. \A i \in 1 .. depth - 1 : calls[i].base \in Nat
    BY <2>1 DEF CallRecord
  <2> QED
    BY <1>1, <1>2, <2>2 DEF CallsNest, WindowsOrdered
<1>8. sp' = calls[depth - 1].base /\ sp' \in Nat /\ sp' =< sp
  <2>1. sp = calls[depth - 1].base + Frame(depth - 1).size
    BY <1>1, <1>2 DEF CallsNest
  <2>2. calls[depth - 1].base \in Nat /\ Frame(depth - 1).size \in Nat
    BY <1>2, <1>6, <1>7
  <2> QED
    BY <1>3, <2>1, <2>2
<1>9. sp' \in Address /\ mem' \in [Address -> Value]
  <2>1. sp' \in Address
    BY <1>1, <1>8, SizeAssumption DEF Address
  <2> QED
    BY <1>1, <1>3, <2>1
<1>10. \A a \in Address : a # sp' => mem'[a] = mem[a]
  BY <1>1, <1>3, <1>9
<1>11. TypeOK'
  <2>1. \A i \in 1 .. depth' : /\ stack'[i].fn \in 1 .. Len(prog'.frames)
                                /\ stack'[i].ip \in 1 .. Len(Frame(i)'.code)
    <3>1. \A i \in 1 .. depth : /\ stack[i].fn \in 1 .. Len(prog.frames)
                                 /\ stack[i].ip \in 1 .. Len(Frame(i).code)
      BY <1>1 DEF TypeOK
    <3> QED
      <4>1. depth' = depth - 1 /\ prog' = prog
        BY <1>1, <1>4
      <4>2. ASSUME NEW i \in 1 .. depth - 1
            PROVE  /\ stack'[i].fn \in 1 .. Len(prog.frames)
                   /\ stack'[i].ip \in 1 .. Len(Frame(i)'.code)
        <5>1. i \in 1 .. depth /\ stack'[i] = stack[i] /\ Frame(i)' = Frame(i)
          BY <1>2, <1>4, <1>6
        <5> QED
          BY <3>1, <5>1
      <4> QED
        BY <4>1, <4>2
  <2> QED
    BY <1>1, <1>3, <1>4, <1>5, <1>8, <1>9, <2>1 DEF TypeOK
<1>12. ProgOK' /\ RunningOK'
  <2>1. depth' \in 1 .. StackSize
    BY <1>2, <1>4, SizeAssumption
  <2>2. prog \in Programs /\ \A i \in 1 .. depth : stack[i].fn = 1 <=> i = 1
    BY <1>1 DEF RunningOK
  <2>3. \A i \in 1 .. depth' : stack'[i].fn = 1 <=> i = 1
    BY <1>2, <1>4, <2>2
  <2> QED
    BY <1>1, <1>3, <2>1, <2>2, <2>3 DEF ProgOK, RunningOK
<1>13. CallsNest'
  <2>1. Len(calls') = depth' - 1
    BY <1>2, <1>4, <1>5
  <2>2. sp' = IF depth' = 1 THEN 0 ELSE calls'[depth' - 1].base + Frame(depth - 1)'.size
    <3>1. depth - 1 # 1 => Frame(depth - 1)' = Frame(depth - 2)
      BY <1>1, <1>2, <1>4 DEF Frame
    <3>2. calls[depth - 1].base = IF depth - 1 = 1 THEN 0
                                  ELSE calls[depth - 2].base + Frame(depth - 2).size
      <4>1. depth - 1 \in 1 .. depth - 1 /\ (depth - 1) - 1 = depth - 2
        BY <1>2
      <4> QED
        BY <1>7, <4>1
    <3>3. depth - 1 # 1 => calls'[depth - 2] = calls[depth - 2]
      BY <1>2, <1>5
    <3> QED
      BY <1>2, <1>4, <1>8, <3>1, <3>2, <3>3
  <2>3. ASSUME NEW i \in 1 .. depth - 2
        PROVE  /\ calls'[i].base = IF i = 1 THEN 0 ELSE calls'[i - 1].base + Frame(i - 1)'.size
               /\ calls'[i].ip = stack'[i].ip
               /\ \A a \in 0 .. calls'[i].base + Frame(i)'.size - 1 : mem'[a] = calls'[i].mem[a]
    <3>1. /\ i \in 1 .. depth - 1 /\ depth - 1 \in i + 1 .. depth - 1
          /\ calls'[i] = calls[i] /\ stack'[i] = stack[i] /\ Frame(i)' = Frame(i)
      BY <1>2, <1>4, <1>5, <1>6
    <3>2. i # 1 => calls'[i - 1] = calls[i - 1] /\ Frame(i - 1)' = Frame(i - 1)
      BY <1>2, <1>5, <1>6
    <3>3. ASSUME NEW a \in 0 .. calls[i].base + Frame(i).size - 1
          PROVE  mem'[a] = calls[i].mem[a]
      <4>1. calls[i].base + Frame(i).size =< sp'
        BY <1>7, <1>8, <3>1
      <4>2. a \in Address /\ a # sp'
        BY <1>6, <1>7, <1>8, <1>9, <3>1, <4>1, SizeAssumption, SMTT(60) DEF Address
      <4> QED
        BY <1>7, <1>10, <3>1, <4>2
    <3> QED
      BY <1>7, <3>1, <3>2, <3>3
  <2> QED
    BY <1>5, <2>1, <2>2, <2>3 DEF CallsNest
<1>14. WindowsOrdered'
  <2>1. ASSUME NEW i \in 1 .. depth - 2
        PROVE  /\ calls'[i].base + Frame(i)'.size =< sp'
               /\ \A j \in i + 1 .. depth - 2 : calls'[i].base + Frame(i)'.size =< calls'[j].base
    <3>1. /\ i \in 1 .. depth - 1 /\ depth - 1 \in i + 1 .. depth - 1
          /\ calls'[i] = calls[i] /\ Frame(i)' = Frame(i)
      BY <1>2, <1>5, <1>6
    <3>2. \A j \in i + 1 .. depth - 2 : j \in i + 1 .. depth - 1 /\ calls'[j] = calls[j]
      BY <1>2, <1>5
    <3> QED
      BY <1>7, <1>8, <3>1, <3>2
  <2> QED
    BY <1>5, <2>1 DEF WindowsOrdered
<1>15. HaltsOutermost' /\ LimitsReported' /\ NoUnderflow'
  BY <1>1, <1>2, <1>3, <1>4, <1>9, SizeAssumption
     DEF HaltsOutermost, LimitsReported, NoUnderflow, Address
<1>16. ReturnsToCaller
  <2>1. depth - 1 \in 1 .. depth - 1 /\ depth - 1 = Len(calls)
    BY <1>2
  <2>2. ASSUME NEW a \in 0 .. sp' + Frame(depth - 1).size - 1, a # sp'
        PROVE  mem'[a] = calls[depth - 1].mem[a]
    <3>1. mem[a] = calls[depth - 1].mem[a]
      BY <1>7, <1>8, <2>1
    <3>2. a \in Address
      <4>1. sp' + Frame(depth - 1).size = sp
        BY <1>1, <1>2, <1>8 DEF CallsNest
      <4> QED
        <5>1. a \in 0 .. sp - 1
          <6>1. \A n, m \in Nat : n + m = sp => 0 .. n + m - 1 = 0 .. sp - 1
            OBVIOUS
          <6> QED
            BY <1>2, <1>6, <1>8, <2>2, <4>1, <6>1, SMTT(60)
        <5>2. sp \in 0 .. MemSize - 1
          BY <1>1 DEF Address
        <5> QED
          BY <5>1, <5>2, SizeAssumption DEF Address
    <3> QED
      BY <1>10, <2>2, <3>1, <3>2
  <2>3. mem'[sp'] = mem[sp]
    BY <1>1, <1>3, <1>9
  <2> QED
    BY <1>4, <1>7, <1>8, <2>1, <2>2, <2>3 DEF ReturnsToCaller
<1>17. Pops
  BY <1>2, <1>4, <1>5, <1>8 DEF Pops
<1> QED
  BY <1>11, <1>12, <1>13, <1>14, <1>15, <1>16, <1>17

-------------------------------------------------------------------------------
LEMMA InitialMemoryType ==
    ASSUME NEW in \in Seq(Value)
    PROVE  InitialMemory(in) \in [Address -> Value]
<1>1. in # << >> => in[Len(in)] \in Value
  OBVIOUS
<1> QED
  BY <1>1, ValueAssumption DEF InitialMemory

LEMMA InitEstablishes == Init => IInv
<1> SUFFICES ASSUME Init PROVE IInv
  OBVIOUS
<1>1. mem \in [Address -> Value]
  <2>1. << >> \in Seq(Value)
    OBVIOUS
  <2> QED
    BY <2>1, InitialMemoryType DEF Init
<1>2. /\ phase = "idle" /\ prog = NoProgram /\ input = << >> /\ stack = << >> /\ sp = 0
      /\ flag = FALSE /\ error = "ok" /\ fe = {} /\ result = "ok" /\ outputs = << >>
      /\ calls = << >>
  BY DEF Init
<1>3. TypeOK
  <2>1. \A S : << >> \in Seq(S)
    OBVIOUS
  <2> QED
    BY <1>1, <1>2, <2>1 DEF TypeOK, ErrorCode
<1>4. depth = 0
  BY <1>2 DEF depth
<1> QED
  BY <1>2, <1>3, <1>4, SizeAssumption
     DEF IInv, ProgOK, RunningOK, CallsNest, WindowsOrdered, HaltsOutermost, LimitsReported,
         NoUnderflow

\* execute starts the outermost frame at the bottom of the call stack.
LEMMA ExecutePreserves ==
    ASSUME IInv, phase = "idle", NEW p \in Programs, NEW in \in Inputs,
           NEW slots \in OutputSlots, execute(p, in, slots)
    PROVE  IInv'
<1>1. WellFormed(p) /\ in \in Seq(Value) /\ slots \in Nat
  BY ProgramAssumption, CallerAssumption
<1>2. /\ phase' = "running" /\ prog' = p /\ input' = in
      /\ stack' = << [fn |-> 1, ip |-> 1] >>
      /\ mem' = InitialMemory(in)
      /\ result' = "ok" /\ outputs' = [j \in 1 .. slots |-> Zero]
      /\ UNCHANGED <<sp, flag, error, fe, calls>>
  BY DEF execute
<1>3. depth' = 1 /\ stack' \in Seq(CallFrame) /\ stack'[1].fn = 1 /\ stack'[1].ip = 1
  BY <1>2 DEF depth, CallFrame
<1>4. error = "ok" /\ sp = 0 /\ calls = << >> /\ result \in ErrorCode
  BY DEF IInv, RunningOK, TypeOK
<1>5. TypeOK'
  <2>1. outputs' \in Seq(Value)
    BY <1>1, <1>2, ValueAssumption
  <2>2. mem' \in [Address -> Value]
    BY <1>1, <1>2, InitialMemoryType
  <2>3. \A i \in 1 .. depth' : /\ stack'[i].fn \in 1 .. Len(prog'.frames)
                                /\ stack'[i].ip \in 1 .. Len(Frame(i)'.code)
    BY <1>1, <1>2, <1>3, SMTT(60) DEF WellFormed, WellFormedFrame, Frame
  <2> QED
    BY <1>1, <1>2, <1>3, <1>4, <2>1, <2>2, <2>3 DEF IInv, TypeOK, ErrorCode
<1>6. ProgOK' /\ RunningOK'
  <2>1. Len(outputs') = p.outputs
    BY <1>1, <1>2 DEF execute
  <2> QED
    <3>1. depth' \in 1 .. StackSize /\ \A i \in 1 .. depth' : stack'[i].fn = 1 <=> i = 1
      BY <1>3, SizeAssumption
    <3> QED
      BY <1>2, <1>4, <2>1, <3>1 DEF ProgOK, RunningOK
<1>7. Len(calls') = 0 /\ sp' = 0 /\ error' = "ok"
  BY <1>2, <1>4
<1>8. CallsNest' /\ WindowsOrdered'
  BY <1>3, <1>7 DEF CallsNest, WindowsOrdered
<1>9. HaltsOutermost' /\ LimitsReported' /\ NoUnderflow'
  BY <1>2, <1>3, <1>7, SizeAssumption DEF HaltsOutermost, LimitsReported, NoUnderflow
<1> QED
  BY <1>5, <1>6, <1>8, <1>9 DEF IInv

LEMMA CallPreserves == IInv /\ Call => IInv'
<1> SUFFICES ASSUME IInv, phase = "idle", NEW p \in Programs, NEW in \in Inputs,
                    NEW slots \in OutputSlots, execute(p, in, slots) \/ reject(p, in, slots)
             PROVE  IInv'
  BY DEF Call
<1>1. CASE execute(p, in, slots)
  BY <1>1, ExecutePreserves
<1>2. CASE reject(p, in, slots)
  <2>1. outputs' \in Seq(Value)
    BY <1>2, ValueAssumption, CallerAssumption DEF reject
  <2>2. /\ result' \in {"mismatched_inputs", "mismatched_outputs"}
        /\ UNCHANGED <<phase, prog, input, stack, sp, mem, flag, error, fe, calls>>
    BY <1>2 DEF reject
  <2>3. depth' = depth
    BY <2>2 DEF depth
  <2>4. TypeOK'
    BY <2>1, <2>2, <2>3 DEF IInv, TypeOK, ErrorCode
  <2> QED
    BY <2>2, <2>3, <2>4 DEF IInv, ProgOK, RunningOK, CallsNest, WindowsOrdered, HaltsOutermost,
                            LimitsReported, NoUnderflow
<1> QED
  BY <1>1, <1>2

LEMMA FinishPreserves == IInv /\ finish => IInv'
<1> SUFFICES ASSUME IInv, finish PROVE IInv'
  OBVIOUS
<1>1. /\ phase = "halted" /\ phase' = "idle" /\ result' = error /\ error' = "ok"
      /\ prog' = NoProgram /\ input' = << >> /\ stack' = << >> /\ sp' = 0
      /\ mem' = InitialMemory(<< >>) /\ flag' = FALSE /\ calls' = << >> /\ fe' = fe
  BY DEF finish
<1>2. depth' = 0
  BY <1>1 DEF depth
<1>3. outputs' \in Seq(Value)
  <2>1. CASE error = "ok"
    <3>1. outputs \in Seq(Value) /\ Len(outputs) = prog.outputs /\ WellFormed(prog)
      BY <1>1, ProgramAssumption DEF IInv, TypeOK, RunningOK
    <3>2. /\ prog.outputs \in Nat /\ prog.inputs \in Nat
          /\ 1 + prog.inputs + prog.outputs =< prog.frames[1].size
          /\ prog.frames[1].size \in 1 .. MaxFrame
      BY <3>1 DEF WellFormed, WellFormedFrame
    <3>3. DOMAIN outputs = 1 .. prog.outputs
      BY <3>1
    <3>4. \A j \in DOMAIN outputs : mem[j] \in Value
      <4>1. \A j \in 1 .. prog.outputs : j \in 0 .. MemSize - 1
        BY <3>2, SizeAssumption
      <4> QED
        BY <3>3, <4>1 DEF IInv, TypeOK, Address
    <3>5. outputs' = [j \in 1 .. prog.outputs |-> mem[j]]
      BY <2>1, <3>3 DEF finish
    <3> QED
      BY <3>2, <3>3, <3>4, <3>5, SMTT(60)
  <2>2. CASE error # "ok"
    BY <2>2 DEF finish, IInv, TypeOK
  <2> QED
    BY <2>1, <2>2
<1>4. TypeOK'
  <2>1. \A S : << >> \in Seq(S)
    OBVIOUS
  <2>2. mem' \in [Address -> Value]
    BY <1>1, <2>1, InitialMemoryType
  <2>3. fe \subseteq Exception /\ error \in ErrorCode
    BY DEF IInv, TypeOK
  <2> QED
    BY <1>1, <1>3, <2>1, <2>2, <2>3 DEF TypeOK, ErrorCode
<1> QED
  BY <1>1, <1>2, <1>4, SizeAssumption
     DEF IInv, ProgOK, RunningOK, CallsNest, WindowsOrdered, HaltsOutermost, LimitsReported,
         NoUnderflow

LEMMA TouchPreserves == IInv /\ touch_outside_memory => IInv'
<1> SUFFICES ASSUME IInv, touch_outside_memory PROVE IInv'
  OBVIOUS
<1>1. /\ phase' = "wild"
      /\ UNCHANGED <<stack, sp, mem, flag, error, fe, calls, prog, input, result, outputs>>
  BY DEF touch_outside_memory, caller
<1>2. depth' = depth
  BY <1>1 DEF depth
<1> QED
  BY <1>1, <1>2 DEF IInv, TypeOK, ProgOK, RunningOK, CallsNest, WindowsOrdered, HaltsOutermost,
                    LimitsReported, NoUnderflow

LEMMA StutterPreserves == IInv /\ UNCHANGED vars => IInv'
<1> SUFFICES ASSUME IInv, UNCHANGED vars PROVE IInv'
  OBVIOUS
<1>1. depth' = depth /\ \A i : Frame(i)' = Frame(i)
  BY DEF vars, depth, Frame
<1>2. TypeOK'
  BY <1>1 DEF IInv, TypeOK, vars
<1>3. ProgOK' /\ RunningOK'
  BY <1>1 DEF IInv, ProgOK, RunningOK, vars
<1>4. CallsNest'
  BY <1>1 DEF IInv, CallsNest, vars
<1>5. WindowsOrdered'
  BY <1>1 DEF IInv, WindowsOrdered, vars
<1>6. HaltsOutermost' /\ LimitsReported' /\ NoUnderflow'
  BY <1>1 DEF IInv, HaltsOutermost, LimitsReported, NoUnderflow, vars
<1> QED
  BY <1>2, <1>3, <1>4, <1>5, <1>6 DEF IInv

\* The instructions whose handlers are local steps.
LEMMA LocalHandlers ==
    ASSUME IInv,
           handle_mov \/ handle_arithmetic \/ handle_div \/ handle_mag \/ handle_fac \/ handle_update
             \/ handle_das \/ handle_compare \/ handle_put \/ handle_jpz \/ handle_jmp \/ handle_hlt
    PROVE  LocalStep
BY MovIsLocal, ArithmeticIsLocal, DivIsLocal, MagIsLocal, FacIsLocal, UpdateIsLocal, DasIsLocal,
   CompareIsLocal, PutIsLocal, JumpIsLocal, HltIsLocal

LEMMA NextPreserves == IInv /\ [Next]_vars => IInv'
<1> SUFFICES ASSUME IInv, [Next]_vars PROVE IInv'
  OBVIOUS
<1>1. CASE Call
  BY <1>1, CallPreserves
<1>2. CASE handle_mov \/ handle_arithmetic \/ handle_div \/ handle_mag \/ handle_fac \/ handle_update
           \/ handle_das \/ handle_compare \/ handle_put \/ handle_jpz \/ handle_jmp \/ handle_hlt
  BY <1>2, LocalStepPreserves, LocalHandlers
<1>3. CASE handle_jsr
  BY <1>3, JsrPreserves
<1>4. CASE handle_ret
  BY <1>4, RetPreserves
<1>5. CASE touch_outside_memory
  BY <1>5, TouchPreserves
<1>6. CASE finish
  BY <1>6, FinishPreserves
<1>7. CASE lost \/ UNCHANGED vars
  BY <1>7, StutterPreserves DEF lost
<1> QED
  BY <1>1, <1>2, <1>3, <1>4, <1>5, <1>6, <1>7 DEF Next, Step

-------------------------------------------------------------------------------
\* The inductive invariant: every property below is a part of it or a step from it.
THEOREM Invariance == Spec => []IInv
<1>1. Init => IInv
  BY InitEstablishes
<1>2. IInv /\ [Next]_vars => IInv'
  BY NextPreserves
<1> QED
  BY <1>1, <1>2, PTL DEF Spec

\* Every variable has its type and no instruction pointer leaves the code of its frame.
THEOREM TypeCorrect == Spec => []TypeOK
BY Invariance, PTL DEF IInv

\* Frames nest: windows end to end, suspended frames unchanged.
THEOREM FramesNest == Spec => []CallsNest
BY Invariance, PTL DEF IInv

\* A successful execution has returned from every call.
THEOREM SuccessIsOutermost == Spec => []HaltsOutermost
BY Invariance, PTL DEF IInv

\* The call stack and the memory end exactly where their limits are reported.
THEOREM LimitsHold == Spec => []LimitsReported
BY Invariance, PTL DEF IInv

\* Compiled code never pops the outermost frame.
THEOREM NeverUnderflows == Spec => []NoUnderflow
BY Invariance, PTL DEF IInv

\* A call changes nothing of its caller but A.
THEOREM PureCalls == Spec => CallsArePure
<1> DEFINE Return == phase = "running" /\ Instruction.op = "ret" /\ phase' = "running"
<1>1. IInv /\ [Next]_vars => [Return => ReturnsToCaller]_vars
  <2> SUFFICES ASSUME IInv, Next, Return PROVE ReturnsToCaller
    OBVIOUS
  <2>1. handle_ret
    BY DEF Next, Step, Call, finish, lost, touch_outside_memory, handle_mov, handle_arithmetic,
           handle_div, handle_mag, handle_fac, handle_update, handle_das, handle_compare,
           handle_jpz, handle_jmp, handle_hlt, handle_put, handle_jsr, Dispatch,
           ArithmeticOps, UpdateOps, RelationalOps
  <2> QED
    BY <2>1, RetPreserves
<1>2. Spec => []IInv
  BY Invariance
<1> QED
  BY <1>1, <1>2, PTL DEF Spec, CallsArePure

-------------------------------------------------------------------------------
(***************************************************************************)
(* Where the windows are.  If no frame of the program has more than n      *)
(* cells, the window of the k-th frame begins at most (k - 1) * n cells    *)
(* into the memory, whatever has been called before: the frames and one    *)
(* more reach no further than (depth + 1) * n.                             *)
(***************************************************************************)
Below(n, k) == (k - 1) * n

Within(n) == /\ sp =< Below(n, depth)
             /\ \A i \in 1 .. Len(calls) : calls[i].base =< Below(n, i)

RoomInv == /\ LeavesMemoryWhenFull
           /\ phase = "running" => \A n \in 1 .. MaxFrame : FitsIn(prog, n) => Within(n)

LEMMA BelowSteps ==
    ASSUME NEW n \in Nat, NEW k \in Nat \ {0}
    PROVE  /\ Below(n, k) \in Nat
           /\ Below(n, k + 1) = Below(n, k) + n
           /\ (k + 1) * n = Below(n, k) + 2 * n
<1>1. k - 1 \in Nat /\ (k + 1) - 1 = (k - 1) + 1 /\ k + 1 = (k - 1) + 2
  OBVIOUS
<1>2. \A j \in Nat : j * n \in Nat /\ (j + 1) * n = j * n + n /\ (j + 2) * n = j * n + 2 * n
  OBVIOUS
<1> QED
  BY <1>1, <1>2 DEF Below

\* The cells an instruction may touch are in the windows of the running frame and
\* of the frame after it.
LEMMA TouchedIsNear ==
    ASSUME IInv, phase = "running", NEW n \in Nat, FitsIn(prog, n), NEW c \in Touched
    PROVE  c \in sp .. sp + 2 * n - 1
<1> DEFINE ins == Instruction
           frame == prog.frames[stack[depth].fn]
<1>1. /\ WellFormedInstruction(prog, stack[depth].fn, stack[depth].ip)
      /\ FrameSize \in 1 .. n /\ frame.size = FrameSize
      /\ ins.op = "put" => ins.b.value < n
      /\ sp \in Nat
  <2>1. /\ WellFormedInstruction(prog, stack[depth].fn, stack[depth].ip)
        /\ stack[depth].fn \in 1 .. Len(prog.frames)
        /\ stack[depth].ip \in 1 .. Len(frame.code)
        /\ FrameSize \in 1 .. MaxFrame /\ sp \in Nat /\ MaxFrame \in Nat
    BY RunningCode, SizeAssumption, SMTT(60) DEF IInv, FrameSize, Frame, TypeOK
  <2>2. frame.size = FrameSize /\ ins = frame.code[stack[depth].ip]
    BY DEF FrameSize, Frame, Instruction
  <2>3. frame.size =< n /\ (ins.op = "put" => ins.b.value < n)
    BY <2>1, <2>2 DEF FitsIn
  <2> HIDE DEF ins, frame
  <2> QED
    BY <2>1, <2>2, <2>3
<1>2. /\ ins.op \in ReadsFirst  => IsOperand(prog, frame, ins.a)
      /\ ins.op \in ReadsSecond => IsOperand(prog, frame, ins.b)
      /\ ins.op = "mov" => IsLocal(frame, ins.b)
      /\ ins.op = "put" => ins.b.value \in Nat /\ ins.b.value < n
  <2>1. WellFormedInstruction(prog, stack[depth].fn, stack[depth].ip)
    BY <1>1
  <2>2. /\ ins.op \in ReadsFirst  => IsOperand(prog, frame, ins.a)
        /\ ins.op \in ReadsSecond => IsOperand(prog, frame, ins.b)
        /\ ins.op = "mov" => IsLocal(frame, ins.b)
        /\ ins.op = "put" => ins.b.value \in 1 .. MaxFrame - 1
    <3>1. ins = frame.code[stack[depth].ip]
      BY DEF Instruction, Frame
    <3> HIDE DEF ins
    <3>2. /\ ins.op \in ReadsFirst  => IsOperand(prog, frame, ins.a)
          /\ ins.op \in ReadsSecond => IsOperand(prog, frame, ins.b)
          /\ ins.op = "mov" => IsLocal(frame, ins.b)
      BY <2>1, <3>1, Zenon DEF WellFormedInstruction
    <3>3. ins.op = "put" => ins.b.value \in 1 .. MaxFrame - 1
      BY <2>1, <3>1, Zenon DEF WellFormedInstruction
    <3> QED
      BY <3>2, <3>3
  <2> HIDE DEF ins, frame
  <2>3. MaxFrame \in Nat /\ (ins.op = "put" => ins.b.value < n)
    BY <1>1, SizeAssumption
  <2> QED
    BY <2>2, <2>3
<1> HIDE DEF ins, frame
<1>3. ASSUME NEW o, IsLocal(frame, o) PROVE sp + o.value \in sp .. sp + 2 * n - 1
  BY <1>1, <1>3 DEF IsLocal
<1>4. ASSUME NEW o, IsOperand(prog, frame, o), c \in Cells(o)
      PROVE  c \in sp .. sp + 2 * n - 1
  BY <1>3, <1>4 DEF IsOperand, Cells
<1>5. \/ ins.op \in ReadsFirst /\ c \in Cells(ins.a)
      \/ ins.op \in ReadsSecond /\ c \in Cells(ins.b)
      \/ ins.op = "mov" /\ c = sp + ins.b.value
      \/ ins.op = "put" /\ c = sp + FrameSize + ins.b.value
  BY DEF Touched, ins
<1>6. CASE ins.op = "put" /\ c = sp + FrameSize + ins.b.value
  BY <1>1, <1>2, <1>6
<1> QED
  BY <1>2, <1>3, <1>4, <1>5, <1>6

\* Every way the machine can step, for its windows.
LEMMA Windows ==
    ASSUME IInv, [Next]_vars
    PROVE  \/ phase' \in {"idle", "halted"}
           \/ touch_outside_memory
           \/ phase' = "wild" /\ phase = "wild"
           \/ phase' = "running" /\ depth' = 1 /\ sp' = 0 /\ Len(calls') = 0
           \/ phase' = "running" /\ phase = "running" /\ UNCHANGED <<prog, sp, calls, depth>>
           \/ phase' = "running" /\ phase = "running" /\ prog' = prog /\ (Pushes \/ Pops)
<1>1. CASE Call
  <2>1. CASE phase' = "running"
    <3>1. stack' = << [fn |-> 1, ip |-> 1] >> /\ UNCHANGED <<sp, calls>> /\ phase = "idle"
      BY <1>1, <2>1 DEF Call, execute, reject
    <3> QED
      BY <2>1, <3>1 DEF IInv, RunningOK, depth
  <2>2. CASE phase' # "running"
    BY <1>1, <2>2 DEF Call, execute, reject
  <2> QED
    BY <2>1, <2>2
<1>2. CASE handle_mov \/ handle_arithmetic \/ handle_div \/ handle_mag \/ handle_fac \/ handle_update
           \/ handle_das \/ handle_compare \/ handle_put \/ handle_jpz \/ handle_jmp \/ handle_hlt
  <2>1. LocalStep
    BY <1>2, LocalHandlers
  <2>2. depth' = depth
    <3>1. PICK n \in Int : stack' = [stack EXCEPT ![depth].ip = @ + n]
      BY <2>1 DEF LocalStep, AdvancesTo, Advance
    <3> QED
      BY <3>1 DEF depth, IInv, TypeOK
  <2> QED
    BY <2>1, <2>2 DEF LocalStep
<1>3. CASE handle_jsr
  BY <1>3, JsrPreserves DEF handle_jsr, Dispatch, Throw, NoThrow, caller
<1>4. CASE handle_ret
  BY <1>4, RetPreserves DEF handle_ret, Dispatch, Throw, NoThrow, caller
<1>5. CASE finish \/ lost \/ UNCHANGED vars
  BY <1>5 DEF finish, lost, vars, IInv, TypeOK, depth
<1> QED
  BY <1>1, <1>2, <1>3, <1>4, <1>5 DEF Next, Step

\* While there is room for the frames and one more, nothing outside is touched.
LEMMA TouchedIsInside ==
    ASSUME IInv, RoomInv, phase = "running", HasRoom
    PROVE  Touched \subseteq Address
<1>1. PICK n \in 1 .. MaxFrame : FitsIn(prog, n) /\ (depth + 1) * n =< MemSize
  BY DEF HasRoom
<1>2. n \in Nat /\ depth \in Nat \ {0} /\ sp \in Nat /\ MemSize \in Nat
  BY RunningCode, SizeAssumption DEF IInv, TypeOK
<1>3. sp =< Below(n, depth)
  BY <1>1 DEF RoomInv, Within
<1>4. Below(n, depth) \in Nat /\ (depth + 1) * n = Below(n, depth) + 2 * n
  BY <1>2, BelowSteps
<1>5. sp + 2 * n =< MemSize
  BY <1>1, <1>2, <1>3, <1>4
<1>6. sp .. sp + 2 * n - 1 \subseteq Address
  BY <1>2, <1>5 DEF Address
<1> QED
  BY <1>1, <1>2, <1>6, TouchedIsNear

LEMMA RoomPreserved ==
    ASSUME IInv, RoomInv, [Next]_vars
    PROVE  RoomInv'
<1>1. ASSUME phase = "running"
      PROVE  /\ depth \in Nat \ {0}
             /\ sp \in Nat
             /\ FrameSize \in Nat
             /\ Len(calls) = depth - 1
             /\ \A n \in 1 .. MaxFrame : FitsIn(prog, n) => FrameSize =< n
  <2>1. /\ depth \in Nat \ {0} /\ sp \in Nat /\ Len(calls) = depth - 1
        /\ FrameSize \in Nat /\ stack[depth].fn \in 1 .. Len(prog.frames)
    BY <1>1, RunningCode, SizeAssumption DEF IInv, TypeOK, CallsNest, FrameSize
  <2>2. \A n \in 1 .. MaxFrame : FitsIn(prog, n) => FrameSize =< n
    BY <2>1 DEF FitsIn, FrameSize, Frame
  <2> QED
    BY <2>1, <2>2
<1>2. CASE phase' \in {"idle", "halted"}
  BY <1>2 DEF RoomInv, LeavesMemoryWhenFull, StaysInMemory
<1>3. CASE touch_outside_memory
  <2>1. phase = "running" /\ ~HasRoom /\ phase' = "wild"
    BY <1>3, TouchedIsInside DEF touch_outside_memory
  <2>2. prog' = prog /\ depth' = depth
    BY <1>3 DEF touch_outside_memory, caller, depth
  <2>3. ~HasRoom'
    BY <2>1, <2>2 DEF HasRoom, FitsIn
  <2> QED
    BY <2>1, <2>3 DEF RoomInv, LeavesMemoryWhenFull
<1>4. CASE phase' = "wild" /\ phase = "wild"
  <2>1. UNCHANGED vars
    BY <1>4 DEF Next, Call, Step, finish, lost, touch_outside_memory, handle_mov, handle_arithmetic,
           handle_div, handle_mag, handle_fac, handle_update, handle_das, handle_compare,
           handle_jpz, handle_jmp, handle_hlt, handle_put, handle_jsr, handle_ret, Dispatch
  <2> QED
    BY <1>4, <2>1 DEF vars, RoomInv, LeavesMemoryWhenFull, StaysInMemory, HasRoom, FitsIn, depth
<1>5. CASE phase' = "running" /\ depth' = 1 /\ sp' = 0 /\ Len(calls') = 0
  <2>1. \A n \in 1 .. MaxFrame : Below(n, 1) = 0
    BY SizeAssumption DEF Below
  <2>2. \A n \in 1 .. MaxFrame : Within(n)'
    BY <1>5, <2>1 DEF Within
  <2> QED
    BY <1>5, <2>2 DEF RoomInv, LeavesMemoryWhenFull, StaysInMemory
<1>6. ASSUME phase' = "running", phase = "running", prog' = prog,
             \A n \in 1 .. MaxFrame : FitsIn(prog, n) /\ Within(n) => Within(n)'
      PROVE  RoomInv'
  <2>1. \A n \in 1 .. MaxFrame : FitsIn(prog, n)' <=> FitsIn(prog, n)
    BY <1>6 DEF FitsIn
  <2> QED
    BY <1>6, <2>1 DEF RoomInv, LeavesMemoryWhenFull, StaysInMemory
<1>7. CASE phase' = "running" /\ phase = "running" /\ UNCHANGED <<prog, sp, calls, depth>>
  <2>1. \A n \in 1 .. MaxFrame : Within(n) => Within(n)'
    BY <1>7 DEF Within
  <2> QED
    BY <1>6, <1>7, <2>1
<1>8. CASE phase' = "running" /\ phase = "running" /\ prog' = prog /\ Pushes
  <2>1. ASSUME NEW n \in 1 .. MaxFrame, FitsIn(prog, n), Within(n)
        PROVE  Within(n)'
    <3>1. n \in Nat
      BY SizeAssumption
    <3>2. Below(n, depth) \in Nat /\ Below(n, depth + 1) = Below(n, depth) + n
      BY <1>1, <1>8, <3>1, BelowSteps
    <3>3. sp' = sp + FrameSize /\ sp =< Below(n, depth) /\ FrameSize =< n
      BY <1>1, <1>8, <2>1 DEF Pushes, Within
    <3>4. sp \in Nat /\ FrameSize \in Nat /\ depth \in Nat \ {0} /\ Len(calls) = depth - 1
      BY <1>1, <1>8
    <3>5. sp' =< Below(n, depth + 1)
      BY <3>1, <3>2, <3>3, <3>4
    <3>6. \A i \in 1 .. depth : calls'[i].base =< Below(n, i)
      <4>1. \A i \in 1 .. depth - 1 : calls'[i].base =< Below(n, i)
        BY <1>8, <2>1, <3>4 DEF Pushes, Within
      <4>2. calls'[depth].base =< Below(n, depth)
        BY <1>8, <3>3 DEF Pushes
      <4> QED
        BY <3>4, <4>1, <4>2
    <3> QED
      BY <1>8, <3>5, <3>6 DEF Pushes, Within
  <2> QED
    BY <1>6, <1>8, <2>1
<1>9. CASE phase' = "running" /\ phase = "running" /\ prog' = prog /\ Pops
  <2>1. ASSUME NEW n \in 1 .. MaxFrame, FitsIn(prog, n), Within(n)
        PROVE  Within(n)'
    <3>1. depth \in Nat \ {0} /\ Len(calls) = depth - 1
      BY <1>1, <1>9
    <3>2. \A i \in 1 .. depth - 1 : calls[i].base =< Below(n, i)
      BY <2>1, <3>1 DEF Within
    <3>3. sp' =< Below(n, depth - 1)
      BY <1>9, <3>1, <3>2 DEF Pops
    <3>4. \A i \in 1 .. depth - 2 : calls'[i].base =< Below(n, i)
      BY <1>9, <3>1, <3>2 DEF Pops
    <3> QED
      BY <1>9, <3>3, <3>4 DEF Pops, Within
  <2> QED
    BY <1>6, <1>9, <2>1
<1> QED
  BY <1>2, <1>3, <1>4, <1>5, <1>7, <1>8, <1>9, Windows

\* However programs recurse and whatever they put: no access leaves the memory as long
\* as it has room for the frames there are and one more.  put, which writes into that
\* one before jsr compares the stack pointer with the end, reaches no further, and no
\* return leaves the stack pointer above where its caller's window begins.
THEOREM NoWildAccess == Spec => []LeavesMemoryWhenFull
<1>1. Init => RoomInv
  BY DEF Init, RoomInv, LeavesMemoryWhenFull, StaysInMemory
<1>2. IInv /\ RoomInv /\ [Next]_vars => RoomInv'
  BY RoomPreserved
<1>3. RoomInv => LeavesMemoryWhenFull
  BY DEF RoomInv
<1> QED
  BY <1>1, <1>2, <1>3, Invariance, PTL DEF Spec
===============================================================================
