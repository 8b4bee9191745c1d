------------------------------ MODULE LoadImage ------------------------------
(***************************************************************************)
(* From the words an assembler emits to the words the machine fetches:     *)
(* NaplesPUAsmBackend.cpp applies the fixups it can resolve, lld with      *)
(* Arch/NaplesPU.cpp places the sections as default.ld says and relocates  *)
(* the rest, elf2hex.cpp turns the segments into lines of 64 bytes, and    *)
(* the lines are read into a memory that is zero.                          *)
(*                                                                         *)
(* Addresses and sizes are in bytes.  A word is a record of the bits no    *)
(* fixup touches (op) and the field.                                       *)
(***************************************************************************)
EXTENDS Integers, Sequences, FiniteSets, SequencesExt

CONSTANTS
  Programs,      \* what is assembled: see IsProgram
  BranchHalf,    \* the 18 bits of a branch field hold -BranchHalf .. BranchHalf - 1
  JumpHalf,      \* what the machine reads of a jump, format J, holds -JumpHalf .. JumpHalf - 1
  HalfWord,      \* an immediate of LEAH or LEAL holds 0 .. HalfWord - 1
  HeaderBytes, TextStart, DataStart,  \* the ELF headers and the addresses of default.ld
  ScratchpadSize,
  BlockBytes,    \* 64: the bytes of a line, and the alignment of the scratchpad
  Bases,         \* values of the option -b
  MemTop         \* the highest address

WordBytes == 4

VARIABLES
  program,
  base,         \* BaseAddress
  pc,
  n,            \* counter of the running loop
  words,        \* the words of .text and .data, by address
  relocs,       \* the addresses of the words left to the linker
  maxAddress,
  image,        \* memoryImage
  behind,       \* what the heap holds behind it
  lines,        \* the lines written: [addr, bytes]
  memory

vars == <<program, base, pc, n, words, relocs, maxAddress, image, behind, lines, memory>>

AlignTo(x, a) == ((x + a - 1) \div a) * a

-----------------------------------------------------------------------------
(* The program.  A word of .text belongs to an object file; a word refers  *)
(* to a symbol at a word of .text or .data.                                *)
Branches == {"branch", "jump"}   \* BEQZ and BNEZ; JMP and JMPSR with an offset
Kinds == {"zero", "plain", "high", "low", "pointer"} \cup Branches

IsProgram(p) ==
  /\ p.text \in Seq([kind : Kinds, object : Nat, section : {"text", "data"}, word : Nat])
  /\ p.data \in Seq([kind : Kinds, object : Nat, section : {"text", "data"}, word : Nat])
  /\ p.pads \in Seq([size : Nat, align : Nat \ {0}])  \* each object's scratchpad section
  /\ p.bss \in Nat
  /\ p.eh \in Nat

ASSUME ProgramsAssumption == \A p \in Programs : IsProgram(p)
ASSUME FieldAssumption == BranchHalf \in Nat \ {0} /\ HalfWord \in Nat \ {0}
ASSUME JumpAssumption ==
  JumpHalf \in Nat /\ (JumpHalf = BranchHalf \/ JumpHalf >= 2 * BranchHalf)
ASSUME LayoutAssumption == TextStart \in Nat /\ DataStart \in Nat /\ HeaderBytes \in Nat
ASSUME BlockAssumption == BlockBytes \in Nat \ {0} /\ Bases \subseteq Nat

(* The layout of default.ld.  What follows .data has an alignment of its   *)
(* own or none.                                                            *)
TextEnd(p) == TextStart + WordBytes * Len(p.text)
DataEnd(p) == DataStart + WordBytes * Len(p.data)
ScratchStart(p) == AlignTo(DataEnd(p), BlockBytes)

(* Where the k-th scratchpad section ends. *)
PadEnd(p) ==
  LET end[k \in 0 .. Len(p.pads)] ==
        IF k = 0 THEN ScratchStart(p)
        ELSE AlignTo(end[k - 1], p.pads[k].align) + p.pads[k].size
  IN end
ScratchEnd(p) == PadEnd(p)[Len(p.pads)]
BssStart(p) == AlignTo(ScratchEnd(p), 4)
BssEnd(p)   == IF p.bss = 0 THEN ScratchEnd(p) ELSE BssStart(p) + p.bss
EhStart(p)  == AlignTo(BssEnd(p), 4)

(* One loadable segment for the headers and one for each run of sections   *)
(* with the same flags; .bss takes no place in the file.                   *)
Segment(start, fileEnd, memEnd) ==
  [vaddr |-> start, filesz |-> fileEnd - start, memsz |-> memEnd - start]

Segments(p) ==
  <<Segment(0, HeaderBytes, HeaderBytes),
    Segment(TextStart, TextEnd(p), TextEnd(p)),
    Segment(DataStart, ScratchEnd(p), BssEnd(p))>>
  \o (IF p.eh = 0 THEN <<>> ELSE <<Segment(EhStart(p), EhStart(p) + p.eh, EhStart(p) + p.eh)>>)

(* The image fits the memory. *)
ASSUME MemoryAssumption ==
  MemTop \in Nat /\ \A p \in Programs : \A s \in ToSet(Segments(p)) : s.vaddr + s.memsz <= MemTop

TextAddress(k) == TextStart + WordBytes * (k - 1)
DataAddress(k) == DataStart + WordBytes * (k - 1)

TextAddresses(p) == {TextAddress(k) : k \in DOMAIN p.text}
DataAddresses(p) == {DataAddress(k) : k \in DOMAIN p.data}

Item(p, a) ==
  IF a \in TextAddresses(p) THEN p.text[(a - TextStart) \div WordBytes + 1]
                            ELSE p.data[(a - DataStart) \div WordBytes + 1]

HasSymbol(item) == item.kind \notin {"zero", "plain"}

(* The address of the symbol an item refers to. *)
SymbolAddress(item) ==
  IF item.section = "text" THEN TextAddress(item.word) ELSE DataAddress(item.word)

WordAddresses(p) == TextAddresses(p) \cup DataAddresses(p)

(* An address has the bits of two half words. *)
ASSUME AddressAssumption ==
  \A p \in Programs : \A a \in WordAddresses(p) :
    SymbolAddress(Item(p, a)) \in 0 .. HalfWord * HalfWord - 1

-----------------------------------------------------------------------------
(* Fields *)
BranchModulus == 2 * BranchHalf

FitsBranch(v) == -BranchHalf <= v /\ v < BranchHalf

(* Fault: the field is checked with one bit more than it has. *)
checkIntWide(v) == -BranchModulus <= v /\ v < BranchModulus

(* checkInt: the value is the sign extension of its low bits. *)
checkInt(v) == FitsBranch(v)

(* Fault: the bits above the field are not masked off. *)
BranchFieldUnmasked(v) == v

(* Or-ing the low 18 bits of a value into an empty field, or replacing the *)
(* 18 bits with them: a jump, whose field has 24, keeps zeros above.       *)
BranchField(v) == v % BranchModulus

(* The machine reads the field of the instruction's own format and adds it *)
(* to the instruction's own address (NaplesPUInstrInfo.td: PC:=PC+addr;    *)
(* NaplesPUAsmBackend.cpp: PC and not PC+4).                               *)
SignExtend(f, half) == IF f >= half THEN f - 2 * half ELSE f
Half(kind) == IF kind = "jump" THEN JumpHalf ELSE BranchHalf
BranchTarget(a) == a + SignExtend(words[a].field, Half(Item(program, a).kind))

(* relocateOne: what each relocation writes. *)
RelocatedField(kind, value) ==
  CASE kind \in Branches -> BranchField(value)
    [] kind = "high"    -> (value \div HalfWord) % HalfWord
    [] kind = "low"     -> value % HalfWord
    [] kind = "pointer" -> value % (HalfWord * HalfWord)

(* getRelExpr: a branch is relative to its own address, the rest absolute. *)
RelocationValue(item, a) ==
  IF item.kind \in Branches THEN SymbolAddress(item) - a ELSE SymbolAddress(item)

(* evaluateFixup: a branch to a symbol of its own section is resolved.     *)
Resolved(p, a) ==
  LET item == Item(p, a)
  IN item.kind \in Branches /\ item.section = "text" /\ p.text[item.word].object = item.object

-----------------------------------------------------------------------------
(* Bytes: one of a word, any other byte of the file, or no program's.      *)
Zero == <<"zero", 0, 0>>
FF   == <<"ff", 0, 0>>
Junk == <<"junk", 0, 0>>
Raw(a) == <<"raw", a, 0>>
ByteOf(word, i) == IF word.op = "zero" THEN Zero ELSE <<word.op, word.field, i>>

(* The byte of the linked file that belongs at address a. *)
FileByte(a) ==
  LET w == a - (a % WordBytes)
  IN IF w \in DOMAIN words THEN ByteOf(words[w], a % WordBytes)
     ELSE IF \/ a < HeaderBytes
             \/ a >= EhStart(program)
             \/ \E k \in DOMAIN program.pads :
                  a \in PadEnd(program)[k] - program.pads[k].size .. PadEnd(program)[k] - 1
          THEN Raw(a)
     ELSE Zero

SegmentAddresses ==
  UNION {s.vaddr .. s.vaddr + s.memsz - 1 : s \in ToSet(Segments(program))}

-----------------------------------------------------------------------------
Init ==
  /\ program \in Programs
  /\ base \in Bases
  /\ pc = "assemble"
  /\ n = 1
  /\ words = [a \in WordAddresses(program) |->
                [op |-> Item(program, a).kind,
                 field |-> IF Item(program, a).kind = "plain" THEN a ELSE 0]]
  /\ relocs = {}
  /\ maxAddress = 0
  /\ image = <<>>
  /\ behind \in {Zero, Junk}
  /\ lines = {}
  /\ memory = [a \in 0 .. MemTop |-> Zero]

Goto(to) == pc' = to /\ n' = 1

(* Assembler: an instruction is encoded with a field of zero; a fixup is   *)
(* applied if it is resolved, whether its value fits or not, and becomes a *)
(* relocation if it is not.                                                *)
Assemble ==
  /\ pc = "assemble"
  /\ words' = [a \in DOMAIN words |->
                 IF Resolved(program, a)
                 THEN [words[a] EXCEPT !.field = BranchField(RelocationValue(Item(program, a), a))]
                 ELSE words[a]]
  /\ relocs' = {a \in DOMAIN words : HasSymbol(Item(program, a)) /\ ~Resolved(program, a)}
  /\ Goto("scratchpad")
  /\ UNCHANGED <<program, base, maxAddress, image, behind, lines, memory>>

(* addStartEndSymbols: the sizes of the scratchpad sections are added up.  *)
CheckScratchpad ==
  /\ pc = "scratchpad"
  /\ LET sizes == [k \in DOMAIN program.pads |-> program.pads[k].size]
     IN Goto(IF FoldLeft(LAMBDA x, y : x + y, 0, sizes) > ScratchpadSize
             THEN "rejected" ELSE "link")
  /\ UNCHANGED <<program, base, words, relocs, maxAddress, image, behind, lines, memory>>

(* Linker: one relocation.  A branch that does not fit is an error.        *)
Relocate(a) ==
  /\ pc = "link" /\ a \in relocs
  /\ LET item  == Item(program, a)
         value == RelocationValue(item, a)
     IN IF item.kind \in Branches /\ ~checkInt(value)
        THEN Goto("rejected") /\ UNCHANGED <<words, relocs>>
        ELSE /\ words' = [words EXCEPT ![a].field = RelocatedField(item.kind, value)]
             /\ relocs' = relocs \ {a}
             /\ UNCHANGED <<pc, n>>
  /\ UNCHANGED <<program, base, maxAddress, image, behind, lines, memory>>

Linked ==
  /\ pc = "link" /\ relocs = {}
  /\ Goto("measure")
  /\ UNCHANGED <<program, base, words, relocs, maxAddress, image, behind, lines, memory>>

-----------------------------------------------------------------------------
(* elf2hex *)
Seg == Segments(program)[n]
NoMore == n > Len(Segments(program))

(* Fault: what a segment takes in the file is measured. *)
MeasureFile ==
  /\ pc = "measure" /\ ~NoMore
  /\ LET high == Seg.vaddr + Seg.filesz
     IN maxAddress' = IF high > maxAddress THEN high ELSE maxAddress
  /\ IF Seg.vaddr < base THEN Goto("rejected") ELSE n' = n + 1 /\ UNCHANGED pc
  /\ UNCHANGED <<program, base, words, relocs, image, behind, lines, memory>>

(* The highest address of a segment; none may start before the base.       *)
Measure ==
  /\ pc = "measure" /\ ~NoMore
  /\ LET high == Seg.vaddr + Seg.memsz
     IN maxAddress' = IF high > maxAddress THEN high ELSE maxAddress
  /\ IF Seg.vaddr < base THEN Goto("rejected") ELSE n' = n + 1 /\ UNCHANGED pc
  /\ UNCHANGED <<program, base, words, relocs, image, behind, lines, memory>>

Allocate ==
  /\ pc = "measure" /\ NoMore
  /\ image' = [i \in 0 .. AlignTo(maxAddress - base, BlockBytes) - 1 |-> Zero]
  /\ Goto("read")
  /\ UNCHANGED <<program, base, words, relocs, maxAddress, behind, lines, memory>>

(* fread of a segment's bytes to its place in the image. *)
ReadSegment ==
  /\ pc = "read" /\ ~NoMore
  /\ image' = [i \in DOMAIN image |->
                 IF i + base \in Seg.vaddr .. Seg.vaddr + Seg.filesz - 1
                 THEN FileByte(i + base) ELSE image[i]]
  /\ n' = n + 1
  /\ UNCHANGED <<program, base, pc, words, relocs, maxAddress, behind, lines, memory>>

(* 0xFF padding *)
Pad ==
  /\ pc = "read" /\ NoMore
  /\ image' = [i \in DOMAIN image |-> IF i >= maxAddress - base THEN FF ELSE image[i]]
  /\ Goto("emit")
  /\ UNCHANGED <<program, base, words, relocs, maxAddress, behind, lines, memory>>

(* memoryImage[i] is read without the base, and may lie behind the image. *)
ImageByte(i) == IF i \in DOMAIN image THEN image[i] ELSE behind

Block(start) == [i \in 0 .. BlockBytes - 1 |-> ImageByte(start + i)]

(* Fault: the last block of a segment is written only if it is full. *)
BlocksWhole(s) == {s.vaddr + BlockBytes * b : b \in 0 .. (s.memsz \div BlockBytes) - 1}

(* The segment's size is rounded up to whole blocks, its start is not.     *)
Blocks(s) ==
  {s.vaddr + BlockBytes * b : b \in 0 .. (AlignTo(s.memsz, BlockBytes) \div BlockBytes) - 1}

(* A line for every block of the segment that is not all zeros. *)
Emit ==
  /\ pc = "emit" /\ ~NoMore
  /\ lines' = lines \cup
       {[addr |-> b, bytes |-> Block(b)] :
          b \in {c \in Blocks(Seg) : \E i \in 0 .. BlockBytes - 1 : Block(c)[i] # Zero}}
  /\ n' = n + 1
  /\ UNCHANGED <<program, base, pc, words, relocs, maxAddress, image, behind, memory>>

Emitted ==
  /\ pc = "emit" /\ NoMore
  /\ Goto("load")
  /\ UNCHANGED <<program, base, words, relocs, maxAddress, image, behind, lines, memory>>

(* The memory is loaded line by line, in any order. *)
LoadLine(l) ==
  /\ pc = "load" /\ l \in lines
  /\ memory' = [a \in DOMAIN memory |->
                  IF a \in l.addr .. l.addr + BlockBytes - 1 THEN l.bytes[a - l.addr]
                                                             ELSE memory[a]]
  /\ lines' = lines \ {l}
  /\ UNCHANGED <<program, base, pc, n, words, relocs, maxAddress, image, behind>>

Loaded ==
  /\ pc = "load" /\ lines = {}
  /\ Goto("run")
  /\ UNCHANGED <<program, base, words, relocs, maxAddress, image, behind, lines, memory>>

(* The machine runs the program, or the build has failed. *)
Stopped == pc \in {"run", "rejected"} /\ UNCHANGED vars

Next ==
  \/ Assemble \/ CheckScratchpad
  \/ (\E a \in relocs : Relocate(a)) \/ Linked
  \/ Measure \/ Allocate \/ ReadSegment \/ Pad \/ Emit \/ Emitted
  \/ (\E l \in lines : LoadLine(l)) \/ Loaded
  \/ Stopped

Spec == Init /\ [][Next]_vars

-----------------------------------------------------------------------------
Byte == {"zero", "ff", "junk", "raw"} \X Nat \X {0}
          \cup (Kinds \ {"zero"}) \X Nat \X (0 .. WordBytes - 1)

TypeOK ==
  /\ program \in Programs /\ base \in Bases
  /\ pc \in {"assemble", "scratchpad", "link", "measure", "read", "emit", "load", "run", "rejected"}
  /\ n \in Nat
  /\ words \in [WordAddresses(program) -> [op : Kinds, field : Nat]]
  /\ relocs \subseteq DOMAIN words
  /\ maxAddress \in 0 .. MemTop
  /\ \A i \in DOMAIN image : i \in Nat /\ image[i] \in Byte
  /\ behind \in {Zero, Junk}
  /\ \A l \in lines : l.addr \in 0 .. MemTop /\ \A i \in 0 .. BlockBytes - 1 : l.bytes[i] \in Byte
  /\ memory \in [0 .. MemTop -> Byte]

(* A program that runs finds in memory what the linker put into its        *)
(* segments, up to the last byte of the last one, and zeros in .bss:       *)
(* whatever the segments' alignments, their padding and the lines that     *)
(* were left out (elf2hex.cpp).                                            *)
MemoryRight ==
  pc = "run" => \A a \in SegmentAddresses : memory[a] = FileByte(a)

(* Lines overlap where a segment does not start on a block: no line takes  *)
(* back a byte an earlier one has put right, whatever their order.         *)
NoByteSpoiled ==
  [][pc = "load" =>
       \A a \in SegmentAddresses : memory[a] = FileByte(a) => memory'[a] = memory[a]]_vars

(* The distances the machine goes when a field holds their 18 low bits:    *)
(* those the bits stand for as a signed number, or without a sign when the *)
(* field is wider and nobody wrote its upper bits.                         *)
Reached(kind) ==
  IF Half(kind) = BranchHalf THEN -BranchHalf .. BranchHalf - 1 ELSE 0 .. BranchModulus - 1

(* The machine gets the address the program means: from the two halves     *)
(* LEAH and LEAL put together, from a pointer, and from the field of a     *)
(* branch or jump for exactly the distances it can be reached over.  What  *)
(* the linker let pass always fits 18 bits; the assembler has no look at   *)
(* what it resolves, so a distance too far is cut off to another target.   *)
(* A jump back needs a machine that reads 18 bits of format J, whose field *)
(* has 24.                                                                 *)
FetchedRight ==
  pc = "run" =>
    /\ \A a \in DOMAIN words :
         LET item   == Item(program, a)
             target == SymbolAddress(item)
         IN /\ item.kind \in Branches =>
                 /\ BranchTarget(a) = target <=> target - a \in Reached(item.kind)
                 /\ Resolved(program, a) \/ FitsBranch(target - a)
            /\ item.kind = "pointer" => words[a].field = target
    /\ \A a, b \in DOMAIN words :
         LET high == Item(program, a) low == Item(program, b)
         IN high.kind = "high" /\ low.kind = "low" /\ SymbolAddress(high) = SymbolAddress(low) =>
              words[a].field * HalfWord + words[b].field = SymbolAddress(low)
=============================================================================
