-------------------------------- MODULE Compiled --------------------------------
(***************************************************************************)
(* The compiled way of running a script: the Assembler makes frames of     *)
(* instructions, an RSBF file carries them, the virtual machine executes   *)
(* what is read from it (the pipelines of Assembler, rasm and VM).         *)
(***************************************************************************)
EXTENDS VM, FiniteSets

CONSTANTS
    Scripts,            \* the ASTs that are compiled
    Name, FunctionName, Node, Parameters, MinusOne, IsInteger(_)    \* see AST and Assembler

VARIABLES
    stage, ast, control, index, frames, immediates, scopes, marked, pending, ec, wrapped, \* see Assembler
    file,       \* the bytes of the RSBF file
    step        \* what the pipeline has done last: "nothing", "write", "read", "execute", "finish"

Asm  == INSTANCE Assembler WITH Programs <- Scripts
File == INSTANCE Rasm

\* The scripts are what the parser makes; -1.0 and what operators compute are doubles.
ASSUME ScriptAssumption ==
    /\ Asm!NodeAssumption
    /\ Asm!ProgramAssumption
    /\ Asm!ParametersAssumption
    /\ Asm!ValueAssumption
    /\ MinusOne \in Value

assembler == <<stage, ast, control, index, frames, immediates, scopes, marked, pending, ec, wrapped>>
allvars   == <<vars, assembler, file, step>>

-------------------------------------------------------------------------------
\* VMData, as assemble returns it: inputs and outputs are counted in bytes.
Data == [inputs |-> Len(ast.inputs) % 256, outputs |-> Len(ast.outputs) % 256,
         immediates |-> immediates, frames |-> frames]

CompiledInit ==
    /\ Init
    /\ Asm!Init
    /\ file = << >>
    /\ step = "nothing"

assemble ==
    /\ Asm!Next
    /\ UNCHANGED <<vars, file, step>>

write ==
    /\ stage = "done" /\ step = "nothing" /\ File!Writable(Data)
    /\ file' = File!write_rsbf(Data)
    /\ step' = "write"
    /\ UNCHANGED <<vars, assembler>>

\* The program that is read, and executed with some input.  What executing a frame with
\* more cells than its size counts does is left open: VM is about well-formed programs.
read_and_execute ==
    /\ step = "write" /\ ~wrapped
    /\ LET read == File!read_rsbf(file)
       IN  IF read.ec = "ok"
             THEN /\ \E in \in Inputs : execute(read.data, in, read.data.outputs)
                  /\ step' = "execute"
             ELSE /\ UNCHANGED vars
                  /\ step' = "finish"
    /\ UNCHANGED <<assembler, file>>

run ==
    /\ step = "execute"
    /\ Step
    /\ UNCHANGED <<assembler, file, step>>

return ==
    /\ finish
    /\ step' = "finish"
    /\ UNCHANGED <<assembler, file>>

CompiledNext == assemble \/ write \/ read_and_execute \/ run \/ return

\* A thread that has entered assemble or execute keeps executing; nobody is obliged to
\* start a virtual machine with the file.
CompiledSpec == /\ CompiledInit /\ [][CompiledNext]_allvars
                /\ WF_allvars(assemble) /\ WF_allvars(run \/ return)

-------------------------------------------------------------------------------
(***************************************************************************)
(* Properties.                                                             *)
(***************************************************************************)
\* The assembler's own invariants.
AssemblerTypeOK  == Asm!TypeOK
CellsAreDisjoint == Asm!CellsAreDisjoint

\* Assembler.cpp: what is in the register is saved, for it can be overridden.
RegisterIsNotOverridden == Asm!RegisterIsNotOverridden

\* What VM assumes of programs holds of all the assembler makes, as long as no frame gives
\* out its 256th cell: whatever is nested in whatever, every jump stays in its frame, every
\* call goes to a frame there is, every operand is an immediate there is or a cell of the
\* frame, and every frame ends.
EmitsWellFormed == stage = "done" /\ ~wrapped => WellFormed(Data)

\* The file has the program in it, all of it: read back it is what was written, signs
\* of jumps included, and cut anywhere it is refused, although every size in it is
\* taken from the file itself.
FileIsComplete ==
    step = "write" =>
      /\ File!read_rsbf(file) = [ec |-> "ok", data |-> Data]
      /\ \A n \in 0 .. Len(file) - 1 : File!read_rsbf(SubSeq(file, 1, n)).ec = "reading_failure"

===============================================================================
