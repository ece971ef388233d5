---------------------------------- MODULE Rasm ---------------------------------
(***************************************************************************)
(* RSBF files (rasm/src): what the assembler has made, as a sequence of    *)
(* bytes.  Words are big-endian.  The bytes of a double are opaque: the    *)
(* k-th byte of v is the pair <<v, k>>.                                    *)
(*                                                                         *)
(* A reader maps a file and a position to whether it succeeds, what it has *)
(* read and the position after it.                                         *)
(***************************************************************************)
EXTENDS Integers, Sequences, SequencesExt

magic_word     == 983252      \* 0xF00D4
version_number == 6

\* What one, one and a half, two and three bytes count.
Byte   == 256
Twelve == 16 * Byte
Half   == Byte * Byte
Three  == Byte * Half

-------------------------------------------------------------------------------
(***************************************************************************)
(* Instructions as words.                                                  *)
(***************************************************************************)
OpCodes == <<"mov", "add", "sub", "mul", "div", "mag", "fac", "pow", "inc", "dec", "mas", "das", "pas",
             "clt", "cgt", "ceq", "cne", "jpz", "jmp", "hlt", "jsr", "ret", "put">>
ValueTypes == <<"none", "immediate", "stack", "intermediate", "jump_offset">>

\* the code of an enumerator, from 0
CodeOf(enumerators, e) == (CHOOSE k \in DOMAIN enumerators : enumerators[k] = e) - 1

index_to_binary(i) == 16 * (i.value % Byte) + CodeOf(ValueTypes, i.type)
to_binary(ins) ==
    Three * CodeOf(OpCodes, ins.op) + Twelve * index_to_binary(ins.a) + index_to_binary(ins.b)

\* mutant of Signed: an offset is read as an unsigned byte
Signed_never(type, byte) == byte

\* The virtual machine takes the byte of an offset for an int8_t.
Signed(type, byte) == IF type = "jump_offset" /\ byte > 127 THEN byte - Byte ELSE byte

IsIndexWord(w) == w % 16 < Len(ValueTypes)
index_from_binary(w) ==
    LET type == ValueTypes[(w % 16) + 1]
    IN  [type |-> type, value |-> Signed(type, (w \div 16) % Byte)]

IsInstructionWord(w) == /\ w \div Three < Len(OpCodes)
                        /\ IsIndexWord((w \div Twelve) % Twelve)
                        /\ IsIndexWord(w % Twelve)
from_binary(w) == [op |-> OpCodes[(w \div Three) + 1],
                   a  |-> index_from_binary((w \div Twelve) % Twelve),
                   b  |-> index_from_binary(w % Twelve)]

-------------------------------------------------------------------------------
(***************************************************************************)
(* Writing.                                                                *)
(***************************************************************************)
WordBytes(w)   == <<(w \div Three) % Byte, (w \div Half) % Byte, (w \div Byte) % Byte, w % Byte>>
DoubleBytes(v) == [k \in 1 .. 8 |-> <<v, k>>]

\* the size of a vector and the bytes of its elements
write_vector(elements) == WordBytes(Len(elements)) \o FlattenSeq(elements)

write_frame(frame) ==
    <<frame.size>> \o write_vector([k \in DOMAIN frame.code |-> WordBytes(to_binary(frame.code[k]))])

\* Vectors that a word cannot count are refused.
IsCounted(vector) == Len(vector) \div Half < Half
Writable(data)    == /\ IsCounted(data.immediates) /\ IsCounted(data.frames)
                     /\ \A k \in DOMAIN data.frames : IsCounted(data.frames[k].code)

write_rsbf(data) ==
    WordBytes(magic_word) \o WordBytes(version_number)
    \o <<data.inputs, data.outputs>>
    \o write_vector([k \in DOMAIN data.immediates |-> DoubleBytes(data.immediates[k])])
    \o write_vector([k \in DOMAIN data.frames |-> write_frame(data.frames[k])])

-------------------------------------------------------------------------------
(***************************************************************************)
(* Reading.                                                                *)
(***************************************************************************)
Fails             == [ok |-> FALSE, value |-> << >>, next |-> 0]
Reads(value, next) == [ok |-> TRUE, value |-> value, next |-> next]

\* stream.read is good only if all the bytes are there.
Available(file, at, size) == at + size - 1 =< Len(file)

read_byte(file, at) == IF Available(file, at, 1) THEN Reads(file[at], at + 1) ELSE Fails

read_word(file, at) ==
    IF Available(file, at, 4)
      THEN Reads(Three * file[at] + Half * file[at + 1] + Byte * file[at + 2] + file[at + 3], at + 4)
      ELSE Fails

read_double(file, at) == IF Available(file, at, 8) THEN Reads(file[at][1], at + 8) ELSE Fails

read_instruction(file, at) ==
    LET word == read_word(file, at)
    IN  IF word.ok /\ IsInstructionWord(word.value)
          THEN Reads(from_binary(word.value), word.next) ELSE Fails

Width == [instruction |-> 4, double |-> 8]
read_element(type, file, at) == IF type = "instruction" THEN read_instruction(file, at) ELSE read_double(file, at)

\* The number of elements, then the elements, all of one type.
read_vector(type, file, at) ==
    LET size     == read_word(file, at)
        elements == [k \in 1 .. size.value |-> read_element(type, file, size.next + (k - 1) * Width[type])]
    IN  IF size.ok /\ \A k \in 1 .. size.value : elements[k].ok
          THEN Reads([k \in 1 .. size.value |-> elements[k].value], size.next + size.value * Width[type])
          ELSE Fails

read_frame(file, at) ==
    LET size == read_byte(file, at)
        code == read_vector("instruction", file, size.next)
    IN  IF size.ok /\ code.ok
          THEN Reads([size |-> size.value, code |-> code.value], code.next) ELSE Fails

\* Frames differ in width: each begins where the one before it has ended.
read_frames(file, at) ==
    LET size == read_word(file, at)
        first[k \in 0 .. size.value] ==         \* the first k frames
            IF k = 0 THEN Reads(<< >>, size.next)
            ELSE LET before == first[k - 1]
                     frame  == read_frame(file, before.next)
                 IN  IF before.ok /\ frame.ok
                       THEN Reads(Append(before.value, frame.value), frame.next) ELSE Fails
    IN  IF size.ok THEN first[size.value] ELSE Fails

\* V6::do_read
do_read(file, at) ==
    LET inputs     == read_byte(file, at)
        outputs    == read_byte(file, at + 1)
        immediates == read_vector("double", file, at + 2)
        frames     == read_frames(file, immediates.next)
    IN  IF inputs.ok /\ outputs.ok /\ immediates.ok /\ frames.ok
          THEN [ec |-> "ok", data |-> [inputs |-> inputs.value, outputs |-> outputs.value,
                                       immediates |-> immediates.value, frames |-> frames.value]]
          ELSE [ec |-> "reading_failure", data |-> << >>]

read_rsbf(file) ==
    LET magic   == read_word(file, 1)
        version == read_word(file, 5)
        Refused(ec) == [ec |-> ec, data |-> << >>]
    IN  IF ~magic.ok THEN Refused("reading_failure")
        ELSE IF magic.value # magic_word THEN Refused("no_magic_word")
        ELSE IF ~version.ok THEN Refused("reading_failure")
        ELSE IF version.value # version_number THEN Refused("wrong_version")
        ELSE do_read(file, 9)
===============================================================================
